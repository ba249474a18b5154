----------------------------- MODULE FileIoProofs -----------------------------
(***************************************************************************)
(* Theorems about reading and writing one file.  The page cache comes      *)
(* first: what each of its operations does to the index, the list of pages *)
(* that may be replaced and the reference counts, whoever holds handles.   *)
(* Then the threads: which handles, locks and blocks each one has at each  *)
(* point of its call.  Then what is kept of each write, what fsync saves,  *)
(* and how far a read and a write that meet can get past each other.       *)
(***************************************************************************)
EXTENDS FileIo, TLAPS, FiniteSetTheorems

-----------------------------------------------------------------------------
(* The list of replaceable pages: no key occurs twice.                     *)

Distinct(s) == \A i, j \in 1 .. Len(s) : s[i] = s[j] => i = j

LEMMA AppendKey ==
  ASSUME NEW s \in Seq(Nat), NEW b \in Nat
  PROVE  /\ Append(s, b) \in Seq(Nat)
         /\ \A x : Contains(Append(s, b), x) <=> Contains(s, x) \/ x = b
         /\ Distinct(s) /\ ~Contains(s, b) => Distinct(Append(s, b))
<1>1. PICK r : r = Append(s, b)
  OBVIOUS
<1>2. /\ r \in Seq(Nat) /\ Len(r) = Len(s) + 1 /\ Len(s) \in Nat /\ r[Len(s) + 1] = b
      /\ \A i \in 1 .. Len(s) : r[i] = s[i]
  BY <1>1
<1>3. ASSUME NEW x PROVE Contains(r, x) <=> Contains(s, x) \/ x = b
  <2>1. \A i : i \in 1 .. Len(r) <=> i \in 1 .. Len(s) \/ i = Len(s) + 1
    BY <1>2
  <2> QED BY <1>2, <2>1 DEF Contains
<1>4. ASSUME Distinct(s), ~Contains(s, b) PROVE Distinct(r)
  <2>1. \A i : i \in 1 .. Len(r) <=> i \in 1 .. Len(s) \/ i = Len(s) + 1
    BY <1>2
  <2>2. \A i \in 1 .. Len(s) : r[i] # b
    BY <1>2, <1>4 DEF Contains
  <2> SUFFICES ASSUME NEW i \in 1 .. Len(r), NEW j \in 1 .. Len(r), r[i] = r[j]
               PROVE  i = j
    BY DEF Distinct
  <2>3. CASE i \in 1 .. Len(s) /\ j \in 1 .. Len(s)
    <3>1. s[i] = s[j]
      BY <1>2, <2>3
    <3> QED BY <1>4, <2>3, <3>1 DEF Distinct
  <2> QED BY <1>2, <2>1, <2>2, <2>3
<1> QED BY <1>1, <1>2, <1>3, <1>4

LEMMA SuffixKeys ==
  ASSUME NEW s \in Seq(Nat), Distinct(s), NEW k \in 0 .. Len(s)
  PROVE  /\ SubSeq(s, k + 1, Len(s)) \in Seq(Nat) /\ Distinct(SubSeq(s, k + 1, Len(s)))
         /\ \A x : Contains(SubSeq(s, k + 1, Len(s)), x)
                     => Contains(s, x) /\ \A i \in 1 .. k : s[i] # x
<1>1. PICK r : r = SubSeq(s, k + 1, Len(s))
  OBVIOUS
<1>2. /\ r \in Seq(Nat) /\ Len(r) = Len(s) - k /\ Len(s) \in Nat
      /\ \A i \in 1 .. Len(r) : r[i] = s[k + i]
  BY <1>1
<1>3. \A i \in 1 .. Len(r) : k + i \in 1 .. Len(s) /\ k + i \notin 1 .. k
  BY <1>2, SMTT(40)
<1>4. Distinct(r)
  <2> SUFFICES ASSUME NEW i \in 1 .. Len(r), NEW j \in 1 .. Len(r), r[i] = r[j]
               PROVE  i = j
    BY DEF Distinct
  <2>1. s[k + i] = s[k + j]
    BY <1>2
  <2>2. k + i = k + j
    BY <1>3, <2>1 DEF Distinct
  <2> QED BY <1>2, <2>2
<1>5. ASSUME NEW x, Contains(r, x) PROVE Contains(s, x) /\ \A i \in 1 .. k : s[i] # x
  <2>1. PICK j \in 1 .. Len(r) : r[j] = x
    BY <1>5 DEF Contains
  <2>2. s[k + j] = x /\ k + j \in 1 .. Len(s) /\ k + j \notin 1 .. k
    BY <1>2, <1>3, <2>1
  <2>3. \A i \in 1 .. k : i \in 1 .. Len(s)
    OBVIOUS
  <2> QED BY <2>2, <2>3 DEF Contains, Distinct
<1> QED BY <1>1, <1>2, <1>4, <1>5

LEMMA Joined ==
  ASSUME NEW p \in Seq(Nat), NEW q \in Seq(Nat)
  PROVE  /\ p \o q \in Seq(Nat) /\ Len(p \o q) = Len(p) + Len(q)
         /\ Len(p) \in Nat /\ Len(q) \in Nat
         /\ \A i \in 1 .. Len(p) : (p \o q)[i] = p[i]
         /\ \A i \in 1 .. Len(p \o q) : i > Len(p) => (p \o q)[i] = q[i - Len(p)]
<1>1. PICK r : r = p \o q
  OBVIOUS
<1>2. /\ r \in Seq(Nat) /\ Len(r) = Len(p) + Len(q) /\ Len(q) \in Nat /\ Len(p) \in Nat
      /\ \A i \in 1 .. Len(p) : r[i] = p[i]
      /\ \A i \in 1 .. Len(r) : i > Len(p) => r[i] = q[i - Len(p)]
  BY <1>1
<1> QED BY <1>1, <1>2

LEMMA ConcatKeys ==
  ASSUME NEW s \in Seq(Nat), Distinct(s), NEW K \in SUBSET Nat, IsFiniteSet(K),
         \A x \in K : ~Contains(s, x), NEW q \in SetToSeqs(K)
  PROVE  /\ s \o q \in Seq(Nat) /\ Distinct(s \o q)
         /\ \A x : Contains(s \o q, x) => Contains(s, x) \/ x \in K
<1>1. PICK n : n = Cardinality(K)
  OBVIOUS
<1>2. n \in Nat /\ q \in [1 .. n -> K] /\ \A i, j \in 1 .. n : i # j => q[i] # q[j]
  BY <1>1, FS_CardinalityType DEF SetToSeqs
<1>3. q \in Seq(Nat) /\ Len(q) = n
  <2>1. q \in [1 .. n -> Nat]
    BY <1>2
  <2> QED BY <1>2, <2>1
<1>4. PICK r : r = s \o q
  OBVIOUS
<1>5. /\ r \in Seq(Nat) /\ Len(r) = Len(s) + n /\ Len(s) \in Nat
      /\ \A i \in 1 .. Len(s) : r[i] = s[i]
      /\ \A i \in Len(s) + 1 .. Len(s) + n : r[i] = q[i - Len(s)]
  <2>1. /\ r \in Seq(Nat) /\ Len(r) = Len(s) + Len(q) /\ Len(s) \in Nat
        /\ \A i \in 1 .. Len(s) : r[i] = s[i]
        /\ \A i \in 1 .. Len(r) : i > Len(s) => r[i] = q[i - Len(s)]
    BY <1>3, <1>4, Joined
  <2>2. \A i \in Len(s) + 1 .. Len(s) + n : i \in 1 .. Len(r) /\ i > Len(s)
    BY <1>2, <1>3, <2>1
  <2> QED BY <1>3, <2>1, <2>2
<1>6. \A i \in 1 .. Len(r) : \/ i \in 1 .. Len(s)
                             \/ i \in Len(s) + 1 .. Len(s) + n /\ i - Len(s) \in 1 .. n
  BY <1>2, <1>5
<1>7. ASSUME NEW x, Contains(r, x) PROVE Contains(s, x) \/ x \in K
  <2>1. PICK i \in 1 .. Len(r) : r[i] = x
    BY <1>7 DEF Contains
  <2>2. CASE i \in 1 .. Len(s)
    BY <1>5, <2>1, <2>2 DEF Contains
  <2>3. CASE i \in Len(s) + 1 .. Len(s) + n /\ i - Len(s) \in 1 .. n
    BY <1>2, <1>5, <2>1, <2>3
  <2> QED BY <1>6, <2>2, <2>3
<1>8. Distinct(r)
  <2> SUFFICES ASSUME NEW i \in 1 .. Len(r), NEW j \in 1 .. Len(r), r[i] = r[j], i # j
               PROVE  FALSE
    BY DEF Distinct
  <2>1. \A k \in Len(s) + 1 .. Len(s) + n : k - Len(s) \in 1 .. n => ~Contains(s, r[k])
    BY <1>2, <1>5
  <2>2. CASE i \in 1 .. Len(s) /\ j \in 1 .. Len(s)
    <3>1. s[i] = s[j]
      BY <1>5, <2>2
    <3> QED BY <2>2, <3>1 DEF Distinct
  <2>3. CASE /\ i \in Len(s) + 1 .. Len(s) + n /\ i - Len(s) \in 1 .. n
             /\ j \in Len(s) + 1 .. Len(s) + n /\ j - Len(s) \in 1 .. n
    <3>1. q[i - Len(s)] = q[j - Len(s)]
      BY <1>5, <2>3
    <3>2. i - Len(s) # j - Len(s)
      BY <1>5, <2>3
    <3> QED BY <1>2, <2>3, <3>1, <3>2
  <2>4. CASE i \in 1 .. Len(s) /\ j \in Len(s) + 1 .. Len(s) + n /\ j - Len(s) \in 1 .. n
    <3>1. Contains(s, r[i])
      BY <1>5, <2>4 DEF Contains
    <3> QED BY <2>1, <2>4, <3>1
  <2>5. CASE j \in 1 .. Len(s) /\ i \in Len(s) + 1 .. Len(s) + n /\ i - Len(s) \in 1 .. n
    <3>1. Contains(s, r[j])
      BY <1>5, <2>5 DEF Contains
    <3> QED BY <2>1, <2>5, <3>1
  <2> QED BY <1>6, <2>2, <2>3, <2>4, <2>5
<1> QED BY <1>4, <1>5, <1>7, <1>8

LEMMA DropKey ==
  ASSUME NEW s \in Seq(Nat), Distinct(s), NEW p \in 1 .. Len(s)
  PROVE  /\ RemoveAt(s, p) \in Seq(Nat) /\ Distinct(RemoveAt(s, p))
         /\ \A x : Contains(RemoveAt(s, p), x) <=> Contains(s, x) /\ x # s[p]
<1>1. PICK r : r = RemoveAt(s, p)
  OBVIOUS
<1>2. /\ r \in Seq(Nat) /\ Len(s) \in Nat /\ Len(r) = Len(s) - 1
      /\ \A i \in 1 .. Len(r) : r[i] = IF i < p THEN s[i] ELSE s[i + 1]
  <2>1. PICK u : u = SubSeq(s, 1, p - 1)
    OBVIOUS
  <2>2. PICK v : v = SubSeq(s, p + 1, Len(s))
    OBVIOUS
  <2>3. /\ u \in Seq(Nat) /\ Len(u) = p - 1 /\ \A i \in 1 .. Len(u) : u[i] = s[i]
    BY <2>1
  <2>4. /\ v \in Seq(Nat) /\ Len(v) = Len(s) - p /\ \A i \in 1 .. Len(v) : v[i] = s[p + i]
    BY <2>2
  <2>5. r = u \o v
    BY <1>1, <2>1, <2>2 DEF RemoveAt
  <2>6. /\ r \in Seq(Nat) /\ Len(r) = Len(u) + Len(v)
        /\ \A i \in 1 .. Len(u) : r[i] = u[i]
        /\ \A i \in 1 .. Len(r) : i > Len(u) => r[i] = v[i - Len(u)]
    BY <2>3, <2>4, <2>5, Joined, ZenonT(40)
  <2>7. Len(s) \in Nat /\ Len(r) = Len(s) - 1
    BY <2>3, <2>4, <2>6
  <2>8. ASSUME NEW i \in 1 .. Len(r) PROVE r[i] = IF i < p THEN s[i] ELSE s[i + 1]
    <3>1. CASE i < p
      <4>1. i \in 1 .. Len(u)
        BY <2>3, <3>1
      <4> QED BY <2>3, <2>6, <3>1, <4>1
    <3>2. CASE ~(i < p)
      <4>1. /\ i - Len(u) \in 1 .. Len(v) /\ p + (i - Len(u)) = i + 1 /\ i > Len(u)
        BY <2>3, <2>4, <2>7, <3>2
      <4>2. r[i] = v[i - Len(u)]
        BY <2>6, <4>1
      <4>3. v[i - Len(u)] = s[p + (i - Len(u))]
        BY <2>4, <4>1
      <4> QED BY <3>2, <4>1, <4>2, <4>3
    <3> QED BY <3>1, <3>2
  <2> QED BY <2>6, <2>7, <2>8
<1>3. Distinct(r)
  <2> SUFFICES ASSUME NEW i \in 1 .. Len(r), NEW j \in 1 .. Len(r), r[i] = r[j]
               PROVE  i = j
    BY DEF Distinct
  <2>1. PICK k, l : k = (IF i < p THEN i ELSE i + 1) /\ l = (IF j < p THEN j ELSE j + 1)
    OBVIOUS
  <2>2. k \in 1 .. Len(s) /\ l \in 1 .. Len(s)
    <3>1. \A x \in 1 .. Len(s) - 1 : x \in 1 .. Len(s) /\ x + 1 \in 1 .. Len(s)
      BY <1>2
    <3> QED BY <1>2, <2>1, <3>1
  <2>3. r[i] = s[k] /\ r[j] = s[l]
    <3>1. r[i] = (IF i < p THEN s[i] ELSE s[i + 1]) /\ r[j] = (IF j < p THEN s[j] ELSE s[j + 1])
      BY <1>2
    <3> QED BY <2>1, <3>1
  <2>4. k = l
    BY <2>2, <2>3 DEF Distinct
  <2>5. i \in Int /\ j \in Int /\ p \in Int
    OBVIOUS
  <2> QED BY <2>1, <2>4, <2>5
<1>4. ASSUME NEW x, Contains(r, x) PROVE Contains(s, x) /\ x # s[p]
  <2>1. PICK i \in 1 .. Len(r) : r[i] = x
    BY <1>4 DEF Contains
  <2>2. PICK k : k = IF i < p THEN i ELSE i + 1
    OBVIOUS
  <2>3. k \in 1 .. Len(s) /\ s[k] = x /\ k # p
    <3>1. k \in 1 .. Len(s) /\ k # p
      BY <1>2, <2>2
    <3>2. r[i] = s[k]
      BY <1>2, <2>2
    <3> QED BY <2>1, <3>1, <3>2
  <2> QED BY <2>3 DEF Contains, Distinct
<1>5. ASSUME NEW x, Contains(s, x), x # s[p] PROVE Contains(r, x)
  <2>1. PICK k \in 1 .. Len(s) : s[k] = x
    BY <1>5 DEF Contains
  <2>2. PICK i : i = IF k < p THEN k ELSE k - 1
    OBVIOUS
  <2>3. i \in 1 .. Len(r) /\ r[i] = x
    <3>1. k # p
      BY <1>5, <2>1
    <3>2. CASE k < p
      BY <1>2, <2>1, <2>2, <3>2, SMTT(40)
    <3>3. CASE k > p
      <4>1. i = k - 1 /\ ~(i < p) /\ i + 1 = k /\ i \in 1 .. Len(r)
        BY <1>2, <2>1, <2>2, <3>3
      <4> QED BY <1>2, <2>1, <4>1
    <3> QED BY <1>2, <2>1, <3>1, <3>2, <3>3
  <2> QED BY <2>3 DEF Contains
<1> QED BY <1>1, <1>2, <1>3, <1>4, <1>5

-----------------------------------------------------------------------------
(* A page cache c of which the threads have h[e] handles on entry e.       *)

PageEntry ==
    [blkoff : Nat, lpa : Nat, content_state : {"invalid", "ready"}, page : Int,
     ref_count : Nat, is_dirty : BOOLEAN, live : BOOLEAN]
PageCaches ==
    [ent : [Entries -> PageEntry], lru : Seq(Nat), dirty_pages : SUBSET Entries,
     cur_size : 0 .. SizeMod - 1]

Refs(c, h, e) == h[e] + (IF e \in c.dirty_pages THEN 1 ELSE 0)

\* Every handle on an entry is counted, the dirty entries are the ones that
\* dirty_pages holds, an entry that does not exist has no handle.
Counted(c, h) ==
    \A e \in Entries :
        /\ c.ent[e].live => /\ c.ent[e].blkoff \in Blocks
                            /\ c.ent[e].is_dirty <=> e \in c.dirty_pages
                            /\ c.ent[e].ref_count = Refs(c, h, e)
        /\ ~c.ent[e].live => h[e] = 0 /\ e \notin c.dirty_pages
\* A block is cached once.
OneEach(c) ==
    \A e, x \in Entries :
        c.ent[e].live /\ c.ent[x].live /\ c.ent[e].blkoff = c.ent[x].blkoff => e = x
\* What may be replaced is cached and nobody has a handle on it.
Replaceable(c) ==
    /\ Distinct(c.lru)
    /\ \A b : Contains(c.lru, b) =>
         \E e \in Entries : c.ent[e].live /\ c.ent[e].blkoff = b /\ c.ent[e].ref_count = 0

CacheOK(c, h) ==
    /\ c \in PageCaches /\ h \in [Entries -> Nat]
    /\ Counted(c, h) /\ OneEach(c) /\ Replaceable(c)

LEMMA EntryNumbers ==
  /\ Cardinality(Threads) \in Nat /\ NoEntry \notin Entries /\ Entries \subseteq Nat
  /\ IsFiniteSet(Entries) /\ Cardinality(Entries) = NumBlocks + Cardinality(Threads)
  /\ IsFiniteSet(Blocks) /\ Cardinality(Blocks) = NumBlocks /\ Blocks \subseteq Nat
<1>1. Cardinality(Threads) \in Nat
  BY ThreadAssumption, FS_CardinalityType
<1>2. NumBlocks \in Nat
  BY SizeAssumption
<1>3. PICK n \in Nat : n = NumBlocks + Cardinality(Threads)
  BY <1>1, <1>2
<1>4. NoEntry \notin Entries /\ Entries \subseteq Nat /\ Entries = 1 .. n
  BY <1>3 DEF Entries, NoEntry
<1>5. IsFiniteSet(Entries) /\ Cardinality(Entries) = n
  BY <1>4, FS_Interval
<1>6. Blocks \subseteq Nat /\ NumBlocks - 1 \in Int
  BY <1>2 DEF Blocks
<1>7. IsFiniteSet(Blocks) /\ Cardinality(Blocks) = NumBlocks
  BY <1>2, <1>6, FS_Interval DEF Blocks
<1> QED BY <1>1, <1>3, <1>4, <1>5, <1>6, <1>7

\* Fields that no count depends on may change.
LEMMA SameShape ==
  ASSUME NEW c, NEW h, CacheOK(c, h), NEW d \in PageCaches,
         d.lru = c.lru, d.dirty_pages = c.dirty_pages,
         \A e \in Entries : /\ d.ent[e].blkoff = c.ent[e].blkoff /\ (d.ent[e].live <=> c.ent[e].live)
                            /\ d.ent[e].ref_count = c.ent[e].ref_count
                            /\ (d.ent[e].is_dirty <=> c.ent[e].is_dirty)
  PROVE  CacheOK(d, h)
<1>1. Counted(d, h)
  BY DEF CacheOK, Counted, Refs
<1>2. OneEach(d)
  BY DEF CacheOK, OneEach
<1>3. Replaceable(d)
  BY DEF CacheOK, Replaceable
<1> QED BY <1>1, <1>2, <1>3 DEF CacheOK

LEMMA EntryFound ==
  ASSUME NEW c \in PageCaches, NEW b, IsCached(c, b)
  PROVE  /\ EntryOf(c, b) \in Entries /\ c.ent[EntryOf(c, b)].live
         /\ c.ent[EntryOf(c, b)].blkoff = b
<1>1. EntryOf(c, b) \in IndexOf(c, b)
  BY DEF IsCached, EntryOf
<1>2. DOMAIN c.ent = Entries
  BY DEF PageCaches
<1> QED BY <1>1, <1>2 DEF IndexOf, LiveEntries

LEMMA EntryIs ==
  ASSUME NEW c \in PageCaches, OneEach(c), NEW e \in Entries, c.ent[e].live
  PROVE  IsCached(c, c.ent[e].blkoff) /\ EntryOf(c, c.ent[e].blkoff) = e
<1>1. DOMAIN c.ent = Entries
  BY DEF PageCaches
<1>2. e \in IndexOf(c, c.ent[e].blkoff)
  BY <1>1 DEF IndexOf, LiveEntries
<1>3. IsCached(c, c.ent[e].blkoff)
  BY <1>2 DEF IsCached
<1> QED BY <1>3, EntryFound DEF OneEach

\* pin takes the key off the list and leaves the others.
LEMMA PinList ==
  ASSUME NEW c \in PageCaches, Distinct(c.lru), NEW b \in Nat
  PROVE  /\ pin(c, b) \in PageCaches /\ pin(c, b).ent = c.ent
         /\ pin(c, b).dirty_pages = c.dirty_pages /\ pin(c, b).cur_size = c.cur_size
         /\ Distinct(pin(c, b).lru)
         /\ \A x : Contains(pin(c, b).lru, x) <=> Contains(c.lru, x) /\ x # b
<1>1. CASE Contains(c.lru, b)
  <2>0. c.lru \in Seq(Nat) /\ DOMAIN c.lru = 1 .. Len(c.lru)
    BY DEF PageCaches
  <2>1. PICK p : p = CHOOSE i \in DOMAIN c.lru : c.lru[i] = b
    OBVIOUS
  <2>2. p \in 1 .. Len(c.lru) /\ c.lru[p] = b
    BY <1>1, <2>0, <2>1 DEF Contains
  <2>3. pin(c, b) = [c EXCEPT !.lru = RemoveAt(c.lru, p)]
    BY <1>1, <2>1 DEF pin
  <2>4. /\ RemoveAt(c.lru, p) \in Seq(Nat) /\ Distinct(RemoveAt(c.lru, p))
        /\ \A x : Contains(RemoveAt(c.lru, p), x) <=> Contains(c.lru, x) /\ x # c.lru[p]
    BY <2>0, <2>2, DropKey
  <2>5. /\ pin(c, b) \in PageCaches /\ pin(c, b).ent = c.ent
        /\ pin(c, b).dirty_pages = c.dirty_pages /\ pin(c, b).cur_size = c.cur_size
        /\ pin(c, b).lru = RemoveAt(c.lru, p)
    BY <2>3, <2>4 DEF PageCaches
  <2> QED BY <2>2, <2>4, <2>5
<1>2. CASE ~Contains(c.lru, b)
  BY <1>2 DEF pin
<1> QED BY <1>1, <1>2

-----------------------------------------------------------------------------
(* What each operation of the cache does to the counts.                    *)

\* The entries that have handles keep their block.
Keeps(c, d, h) == \A e \in Entries : h[e] > 0 => d.ent[e].blkoff = c.ent[e].blkoff

\* What a reader or write_back would take from an entry.
SameContent(p, q) ==
    p.blkoff = q.blkoff /\ p.content_state = q.content_state /\ p.page = q.page /\ p.lpa = q.lpa
\* From c to d no content appears and no dirty page's content is lost; a buffer
\* that was not zeroed has what it had.
Retains(c, d) ==
    /\ d.dirty_pages = c.dirty_pages
    /\ \A e \in Entries : d.ent[e].page \in {c.ent[e].page, 0}
    /\ \A e \in Entries :
         d.ent[e].live /\ (d.ent[e].content_state = "ready" \/ e \in c.dirty_pages)
            => c.ent[e].live /\ SameContent(c.ent[e], d.ent[e])

LEMMA AddRef ==
  ASSUME NEW c, NEW h, CacheOK(c, h), NEW e \in Entries, c.ent[e].live
  PROVE  /\ CacheOK(add_refcount(c, e), [h EXCEPT ![e] = @ + 1])
         /\ add_refcount(c, e).ent = [c.ent EXCEPT ![e].ref_count = @ + 1]
         /\ add_refcount(c, e).dirty_pages = c.dirty_pages
<1>0. /\ c \in PageCaches /\ c.ent[e] \in PageEntry /\ h[e] \in Nat
      /\ c.ent \in [Entries -> PageEntry] /\ c.ent[e].ref_count + 1 \in Nat
  BY SMTT(40) DEF CacheOK, PageCaches, PageEntry
<1>1. PICK g, d : g = [h EXCEPT ![e] = @ + 1] /\ d = add_refcount(c, e)
  OBVIOUS
<1>2. PICK a : a = [c EXCEPT !.ent[e].ref_count = @ + 1]
  OBVIOUS
<1>3. /\ a \in PageCaches /\ a.lru = c.lru /\ a.dirty_pages = c.dirty_pages
      /\ a.cur_size = c.cur_size /\ a.ent = [c.ent EXCEPT ![e].ref_count = @ + 1]
  <2>1. [c.ent[e] EXCEPT !.ref_count = @ + 1] \in PageEntry
    BY <1>0 DEF PageEntry
  <2>2. [c.ent EXCEPT ![e].ref_count = @ + 1] \in [Entries -> PageEntry]
    BY <1>0, <2>1
  <2> QED BY <1>0, <1>2, <2>2 DEF PageCaches
<1>4. d \in PageCaches /\ d.ent = a.ent /\ d.dirty_pages = a.dirty_pages /\ d.cur_size = a.cur_size
      /\ Distinct(d.lru)
      /\ \A x : Contains(d.lru, x) =>
           Contains(c.lru, x) /\ (c.ent[e].ref_count = 0 => x # c.ent[e].blkoff)
  <2>1. CASE c.ent[e].ref_count = 0
    <3>1. d = pin(a, c.ent[e].blkoff)
      BY <1>1, <1>2, <2>1 DEF add_refcount
    <3>2. c.ent[e].blkoff \in Nat /\ Distinct(a.lru)
      BY <1>0, <1>3 DEF PageEntry, CacheOK, Replaceable
    <3>3. PICK b \in Nat : b = c.ent[e].blkoff
      BY <3>2
    <3>4. d = pin(a, b)
      BY <3>1, <3>3
    <3>5. a \in PageCaches /\ Distinct(a.lru)
      BY <1>3, <3>2
    <3>6. /\ d \in PageCaches /\ d.ent = a.ent /\ d.dirty_pages = a.dirty_pages
          /\ d.cur_size = a.cur_size /\ Distinct(d.lru)
          /\ \A x : Contains(d.lru, x) <=> Contains(a.lru, x) /\ x # b
      <4>1. /\ pin(a, b) \in PageCaches /\ pin(a, b).ent = a.ent
            /\ pin(a, b).dirty_pages = a.dirty_pages /\ pin(a, b).cur_size = a.cur_size
            /\ Distinct(pin(a, b).lru)
            /\ \A x : Contains(pin(a, b).lru, x) <=> Contains(a.lru, x) /\ x # b
        BY <3>5, PinList
      <4> QED BY <3>4, <4>1
    <3> QED BY <1>3, <3>3, <3>6
  <2>2. CASE c.ent[e].ref_count # 0
    BY <1>1, <1>2, <1>3, <2>2 DEF add_refcount, CacheOK, Replaceable
  <2> QED BY <2>1, <2>2
<1>5. /\ d.ent[e].ref_count = c.ent[e].ref_count + 1 /\ d.ent[e].blkoff = c.ent[e].blkoff
      /\ d.ent[e].live /\ (d.ent[e].is_dirty <=> c.ent[e].is_dirty)
  BY <1>0, <1>3, <1>4 DEF PageEntry, PageCaches
<1>6. \A x \in Entries : x # e => d.ent[x] = c.ent[x]
  BY <1>0, <1>3, <1>4 DEF PageCaches
<1>7. /\ g \in [Entries -> Nat] /\ g[e] = h[e] + 1 /\ \A x \in Entries : x # e => g[x] = h[x]
  BY <1>0, <1>1 DEF CacheOK
<1>8. Counted(d, g)
  <2> SUFFICES ASSUME NEW x \in Entries
               PROVE /\ d.ent[x].live => /\ d.ent[x].blkoff \in Blocks
                                         /\ d.ent[x].is_dirty <=> x \in d.dirty_pages
                                         /\ d.ent[x].ref_count = Refs(d, g, x)
                     /\ ~d.ent[x].live => g[x] = 0 /\ x \notin d.dirty_pages
    BY DEF Counted
  <2>1. CASE x = e
    BY <1>0, <1>3, <1>4, <1>5, <1>7, <2>1 DEF CacheOK, Counted, Refs
  <2>2. CASE x # e
    BY <1>3, <1>4, <1>6, <1>7, <2>2 DEF CacheOK, Counted, Refs
  <2> QED BY <2>1, <2>2
<1>9. OneEach(d)
  <2>1. \A x \in Entries : (d.ent[x].live <=> c.ent[x].live) /\ d.ent[x].blkoff = c.ent[x].blkoff
    BY <1>5, <1>6
  <2> QED BY <2>1 DEF CacheOK, OneEach
<1>10. Replaceable(d)
  <2> SUFFICES ASSUME NEW b, Contains(d.lru, b)
               PROVE  \E x \in Entries : d.ent[x].live /\ d.ent[x].blkoff = b
                                         /\ d.ent[x].ref_count = 0
    BY <1>4 DEF Replaceable
  <2>1. PICK x \in Entries : c.ent[x].live /\ c.ent[x].blkoff = b /\ c.ent[x].ref_count = 0
    BY <1>4 DEF CacheOK, Replaceable
  <2>2. x # e
    BY <1>4, <2>1
  <2> QED BY <1>6, <2>1, <2>2
<1> QED BY <1>1, <1>3, <1>4, <1>7, <1>8, <1>9, <1>10 DEF CacheOK

\* ~page_entry_handle, first half.
LEMMA DropRefOK ==
  ASSUME NEW c, NEW h, CacheOK(c, h), NEW e \in Entries, h[e] > 0
  PROVE  /\ CacheOK(DropRef(c, e), [h EXCEPT ![e] = @ - 1]) /\ Keeps(c, DropRef(c, e), h)
<1>1. PICK d, g : d = DropRef(c, e) /\ g = [h EXCEPT ![e] = @ - 1]
  OBVIOUS
<1>2. c \in PageCaches /\ c.ent[e] \in PageEntry /\ h[e] \in Nat /\ h \in [Entries -> Nat]
  BY DEF CacheOK, PageCaches
<1>3. c.ent[e].live /\ c.ent[e].ref_count = Refs(c, h, e)
  BY <1>2 DEF CacheOK, Counted
<1>4. c.ent[e].ref_count > 0 /\ c.ent[e].ref_count - 1 \in Nat
  BY <1>2, <1>3 DEF Refs
<1>5. /\ d \in PageCaches /\ d.lru = c.lru /\ d.dirty_pages = c.dirty_pages
      /\ d.ent = [c.ent EXCEPT ![e].ref_count = @ - 1]
  BY <1>1, <1>2, <1>4 DEF DropRef, PageCaches, PageEntry
<1>6. /\ d.ent[e].ref_count = c.ent[e].ref_count - 1 /\ d.ent[e].blkoff = c.ent[e].blkoff
      /\ d.ent[e].live /\ (d.ent[e].is_dirty <=> c.ent[e].is_dirty)
  BY <1>2, <1>3, <1>5 DEF PageEntry, PageCaches
<1>7. \A x \in Entries : x # e => d.ent[x] = c.ent[x]
  BY <1>2, <1>5 DEF PageCaches
<1>8. /\ g \in [Entries -> Nat] /\ g[e] = h[e] - 1 /\ \A x \in Entries : x # e => g[x] = h[x]
  BY <1>1, <1>2
<1>9. Counted(d, g)
  <2> SUFFICES ASSUME NEW x \in Entries
               PROVE /\ d.ent[x].live => /\ d.ent[x].blkoff \in Blocks
                                         /\ d.ent[x].is_dirty <=> x \in d.dirty_pages
                                         /\ d.ent[x].ref_count = Refs(d, g, x)
                     /\ ~d.ent[x].live => g[x] = 0 /\ x \notin d.dirty_pages
    BY DEF Counted
  <2>1. CASE x = e
    BY <1>2, <1>3, <1>5, <1>6, <1>8, <2>1, SMTT(40) DEF CacheOK, Counted, Refs
  <2>2. CASE x # e
    BY <1>5, <1>7, <1>8, <2>2 DEF CacheOK, Counted, Refs
  <2> QED BY <2>1, <2>2
<1>10. OneEach(d)
  <2>1. \A x \in Entries : (d.ent[x].live <=> c.ent[x].live) /\ d.ent[x].blkoff = c.ent[x].blkoff
    BY <1>3, <1>6, <1>7
  <2> QED BY <2>1 DEF CacheOK, OneEach
<1>11. Replaceable(d)
  <2> SUFFICES ASSUME NEW b, Contains(d.lru, b)
               PROVE  \E x \in Entries : d.ent[x].live /\ d.ent[x].blkoff = b
                                         /\ d.ent[x].ref_count = 0
    BY <1>5 DEF Replaceable, CacheOK
  <2>1. PICK x \in Entries : c.ent[x].live /\ c.ent[x].blkoff = b /\ c.ent[x].ref_count = 0
    BY <1>5 DEF CacheOK, Replaceable
  <2>2. x # e
    BY <1>4, <2>1
  <2> QED BY <1>7, <2>1, <2>2
<1>12. Keeps(c, d, h)
  BY <1>6, <1>7 DEF Keeps
<1> QED BY <1>1, <1>5, <1>8, <1>9, <1>10, <1>11, <1>12 DEF CacheOK

\* Its second half, on an entry that still exists.
LEMMA UnpinOK ==
  ASSUME NEW c, NEW h, CacheOK(c, h), NEW e \in Entries, c.ent[e].live
  PROVE  /\ CacheOK(RecheckAndUnpin(c, e), h) /\ RecheckAndUnpin(c, e).ent = c.ent
         /\ ~(c.ent[e].ref_count = 0 /\ c.ent[e].is_dirty)
<1>1. PICK d : d = RecheckAndUnpin(c, e)
  OBVIOUS
<1>2. c \in PageCaches /\ c.ent[e] \in PageEntry /\ h[e] \in Nat
  BY DEF CacheOK, PageCaches
<1>3. ~(c.ent[e].ref_count = 0 /\ c.ent[e].is_dirty)
  <2>1. c.ent[e].ref_count = Refs(c, h, e) /\ (c.ent[e].is_dirty <=> e \in c.dirty_pages)
    BY DEF CacheOK, Counted
  <2>2. e \in c.dirty_pages => Refs(c, h, e) # 0
    BY <1>2 DEF Refs
  <2> QED BY <2>1, <2>2
<1>4. CASE c.ent[e].ref_count = 0 /\ ~Contains(c.lru, c.ent[e].blkoff)
  <2>1. IsCached(c, c.ent[e].blkoff) /\ c.ent[e].blkoff \in Nat
    BY <1>2, EntryIs DEF CacheOK, PageEntry
  <2>2. d = [c EXCEPT !.lru = Append(@, c.ent[e].blkoff)]
    BY <1>1, <1>4, <2>1 DEF RecheckAndUnpin, unpin
  <2>3. c.lru \in Seq(Nat) /\ Distinct(c.lru)
    BY <1>2 DEF PageCaches, CacheOK, Replaceable
  <2>4. /\ Append(c.lru, c.ent[e].blkoff) \in Seq(Nat) /\ Distinct(Append(c.lru, c.ent[e].blkoff))
        /\ \A x : Contains(Append(c.lru, c.ent[e].blkoff), x)
                    <=> Contains(c.lru, x) \/ x = c.ent[e].blkoff
    BY <1>4, <2>1, <2>3, AppendKey
  <2>5. /\ d \in PageCaches /\ d.ent = c.ent /\ d.dirty_pages = c.dirty_pages
        /\ d.lru = Append(c.lru, c.ent[e].blkoff)
    BY <1>2, <2>2, <2>4 DEF PageCaches
  <2>6. Counted(d, h) /\ OneEach(d)
    BY <2>5 DEF CacheOK, Counted, OneEach, Refs
  <2>7. Replaceable(d)
    BY <1>4, <2>4, <2>5 DEF CacheOK, Replaceable
  <2> QED BY <1>1, <1>3, <2>5, <2>6, <2>7 DEF CacheOK
<1>5. CASE ~(c.ent[e].ref_count = 0 /\ ~Contains(c.lru, c.ent[e].blkoff))
  BY <1>1, <1>3, <1>5 DEF RecheckAndUnpin, unpin
<1> QED BY <1>4, <1>5

\* page_entry_handle::mark_dirty, by a thread that has a handle.
LEMMA MarkDirtyOK ==
  ASSUME NEW c, NEW h, CacheOK(c, h), NEW e \in Entries, h[e] > 0
  PROVE  /\ CacheOK(mark_dirty(c, e), h) /\ Keeps(c, mark_dirty(c, e), h)
         /\ mark_dirty(c, e).dirty_pages = c.dirty_pages \cup {e}
         /\ \A x \in Entries : /\ mark_dirty(c, e).ent[x].live <=> c.ent[x].live
                               /\ SameContent(c.ent[x], mark_dirty(c, e).ent[x])
<1>1. c \in PageCaches /\ c.ent[e] \in PageEntry /\ h \in [Entries -> Nat] /\ h[e] \in Nat
  BY DEF CacheOK, PageCaches
<1>2. c.ent[e].live
  BY <1>1 DEF CacheOK, Counted
<1>3. CASE c.ent[e].is_dirty
  <2>1. e \in c.dirty_pages
    BY <1>2, <1>3 DEF CacheOK, Counted
  <2> QED BY <1>3, <2>1 DEF mark_dirty, Keeps, SameContent
<1>4. CASE ~c.ent[e].is_dirty
  <2>1. PICK a, g : a = add_refcount(c, e) /\ g = [h EXCEPT ![e] = @ + 1]
    OBVIOUS
  <2>2. /\ a \in PageCaches /\ CacheOK(a, g) /\ a.ent = [c.ent EXCEPT ![e].ref_count = @ + 1]
        /\ a.dirty_pages = c.dirty_pages
    BY <1>2, <2>1, AddRef DEF CacheOK
  <2>3. PICK d : d = [a EXCEPT !.ent[e].is_dirty = TRUE, !.dirty_pages = @ \cup {e}]
    OBVIOUS
  <2>4. d = mark_dirty(c, e)
    BY <1>4, <2>1, <2>3 DEF mark_dirty
  <2>5. a.ent[e] \in PageEntry /\ a.ent \in [Entries -> PageEntry]
    BY <2>2 DEF PageCaches
  <2>6. /\ d \in PageCaches /\ d.lru = a.lru /\ d.dirty_pages = a.dirty_pages \cup {e}
        /\ d.ent = [a.ent EXCEPT ![e].is_dirty = TRUE]
    BY <2>2, <2>3, <2>5 DEF PageCaches, PageEntry
  <2>7. /\ d.ent[e].is_dirty = TRUE /\ d.ent[e].blkoff = a.ent[e].blkoff
        /\ (d.ent[e].live <=> a.ent[e].live) /\ d.ent[e].ref_count = a.ent[e].ref_count
    BY <2>5, <2>6 DEF PageEntry
  <2>8. \A x \in Entries : x # e => d.ent[x] = a.ent[x]
    BY <2>5, <2>6
  <2>9. /\ g[e] = h[e] + 1 /\ \A x \in Entries : x # e => g[x] = h[x]
    BY <1>1, <2>1
  <2>10. e \notin a.dirty_pages /\ a.ent[e].live
    <3>1. a.ent[e].live <=> c.ent[e].live
      BY <1>1, <2>2 DEF PageEntry, PageCaches
    <3> QED BY <1>2, <1>4, <2>2, <3>1 DEF CacheOK, Counted
  <2>11. Counted(d, h)
    <3> SUFFICES ASSUME NEW x \in Entries
                 PROVE /\ d.ent[x].live => /\ d.ent[x].blkoff \in Blocks
                                           /\ d.ent[x].is_dirty <=> x \in d.dirty_pages
                                           /\ d.ent[x].ref_count = Refs(d, h, x)
                       /\ ~d.ent[x].live => h[x] = 0 /\ x \notin d.dirty_pages
      BY DEF Counted
    <3>1. CASE x = e
      <4>1. a.ent[e].blkoff \in Blocks /\ a.ent[e].ref_count = g[e]
        BY <1>1, <2>2, <2>9, <2>10 DEF CacheOK, Counted, Refs
      <4>2. d.ent[e].ref_count = Refs(d, h, e)
        BY <1>1, <2>6, <2>7, <2>9, <4>1 DEF Refs
      <4> QED BY <2>6, <2>7, <2>10, <3>1, <4>1, <4>2
    <3>2. CASE x # e
      <4>1. x \in d.dirty_pages <=> x \in a.dirty_pages
        BY <2>6, <3>2
      <4>2. Refs(d, h, x) = Refs(a, g, x)
        BY <2>9, <3>2, <4>1 DEF Refs
      <4> QED BY <2>2, <2>8, <2>9, <3>2, <4>1, <4>2 DEF CacheOK, Counted
    <3> QED BY <3>1, <3>2
  <2>12. \A x \in Entries : /\ (d.ent[x].live <=> a.ent[x].live) /\ d.ent[x].blkoff = a.ent[x].blkoff
                            /\ d.ent[x].ref_count = a.ent[x].ref_count
    BY <2>7, <2>8
  <2>13. OneEach(d) /\ Replaceable(d)
    <3>1. OneEach(d)
      BY <2>2, <2>12, SMTT(40) DEF CacheOK, OneEach
    <3>2. Replaceable(d)
      BY <2>2, <2>6, <2>12 DEF CacheOK, Replaceable
    <3> QED BY <3>1, <3>2
  <2>14. Keeps(c, d, h)
    <3>1. \A x \in Entries : a.ent[x].blkoff = c.ent[x].blkoff
      BY <1>1, <2>2 DEF PageCaches, PageEntry
    <3> QED BY <2>12, <3>1 DEF Keeps
  <2>15. ASSUME NEW x \in Entries
         PROVE  (d.ent[x].live <=> c.ent[x].live) /\ SameContent(c.ent[x], d.ent[x])
    <3>1. c.ent \in [Entries -> PageEntry]
      BY <1>1 DEF PageCaches
    <3>2. (a.ent[x].live <=> c.ent[x].live) /\ SameContent(c.ent[x], a.ent[x])
      BY <2>2, <3>1 DEF PageEntry, SameContent
    <3>3. (d.ent[x].live <=> a.ent[x].live) /\ SameContent(a.ent[x], d.ent[x])
      BY <2>5, <2>6 DEF PageEntry, SameContent
    <3> QED BY <3>2, <3>3 DEF SameContent
  <2>16. CacheOK(d, h)
    BY <1>1, <2>6, <2>11, <2>13 DEF CacheOK
  <2> QED BY <2>2, <2>4, <2>6, <2>14, <2>15, <2>16
<1> QED BY <1>3, <1>4

\* do_replace: what goes has no handle and is not dirty; the rest stays.
LEMMA ReplaceOK ==
  ASSUME NEW c, NEW h, CacheOK(c, h)
  PROVE  /\ CacheOK(do_replace(c, expect_size), h)
         /\ \A e \in Entries :
              /\ do_replace(c, expect_size).ent[e].blkoff = c.ent[e].blkoff
              /\ do_replace(c, expect_size).ent[e].page = c.ent[e].page
              /\ h[e] > 0 => do_replace(c, expect_size).ent[e] = c.ent[e]
              /\ c.ent[e].live /\ ~do_replace(c, expect_size).ent[e].live
                   => c.ent[e].ref_count = 0 /\ ~c.ent[e].is_dirty
         /\ do_replace(c, expect_size).dirty_pages = c.dirty_pages
         /\ \A e \in Entries : do_replace(c, expect_size).ent[e].live
                => c.ent[e].live /\ do_replace(c, expect_size).ent[e] = c.ent[e]
<1>1. PICK over : over = c.cur_size - expect_size
  OBVIOUS
<1>2. PICK k : k = IF over <= 0 THEN 0 ELSE IF over < Len(c.lru) THEN over ELSE Len(c.lru)
  OBVIOUS
<1>3. PICK gone : gone = UNION {IndexOf(c, c.lru[i]) : i \in 1 .. k}
  OBVIOUS
<1>4. PICK d : d = do_replace(c, expect_size)
  OBVIOUS
<1>5. d = [c EXCEPT !.ent = [e \in DOMAIN c.ent |->
                               IF e \in gone THEN [c.ent[e] EXCEPT !.live = FALSE] ELSE c.ent[e]],
                    !.lru = SubSeq(@, k + 1, Len(@)),
                    !.cur_size = @ - k]
  BY <1>1, <1>2, <1>3, <1>4 DEF do_replace
<1>6. /\ c \in PageCaches /\ h \in [Entries -> Nat] /\ c.lru \in Seq(Nat) /\ Len(c.lru) \in Nat
      /\ DOMAIN c.ent = Entries /\ \A e \in Entries : c.ent[e] \in PageEntry
      /\ c.cur_size \in 0 .. 15 /\ Distinct(c.lru)
  BY DEF CacheOK, PageCaches, SizeMod, Replaceable
<1>7. k \in 0 .. Len(c.lru) /\ c.cur_size - k \in 0 .. 15
  <2>1. PICK n \in Nat, m \in Nat : n = Len(c.lru) /\ m = c.cur_size
    BY <1>6
  <2>2. over \in Int /\ over <= m
    BY <1>1, <2>1, SizeAssumption
  <2>3. k \in 0 .. n /\ (k = 0 \/ k <= over)
    BY <1>2, <2>1, <2>2
  <2>4. m \in 0 .. 15
    BY <1>6, <2>1
  <2>5. m - k \in 0 .. 15
    <3>1. k \in Nat /\ k <= m /\ m <= 15
      BY <2>2, <2>3, <2>4
    <3> QED BY <3>1
  <2> QED BY <2>1, <2>3, <2>5
<1>8. \A e : e \in gone <=> \E i \in 1 .. k : e \in Entries /\ c.ent[e].live /\ c.ent[e].blkoff = c.lru[i]
  BY <1>3, <1>6 DEF IndexOf, LiveEntries
<1>9. ASSUME NEW e \in gone
      PROVE  /\ e \in Entries /\ c.ent[e].live /\ c.ent[e].ref_count = 0 /\ ~c.ent[e].is_dirty
             /\ h[e] = 0 /\ e \notin c.dirty_pages
  <2>1. PICK i \in 1 .. k : e \in Entries /\ c.ent[e].live /\ c.ent[e].blkoff = c.lru[i]
    BY <1>8
  <2>2. Contains(c.lru, c.lru[i])
    BY <1>7 DEF Contains
  <2>3. PICK x \in Entries : c.ent[x].live /\ c.ent[x].blkoff = c.lru[i] /\ c.ent[x].ref_count = 0
    BY <2>2 DEF CacheOK, Replaceable
  <2>4. x = e
    BY <2>1, <2>3 DEF CacheOK, OneEach
  <2>5. Refs(c, h, e) = 0 /\ (c.ent[e].is_dirty <=> e \in c.dirty_pages)
    BY <2>1, <2>3, <2>4 DEF CacheOK, Counted
  <2>6. h[e] \in Nat
    BY <1>6, <2>1
  <2>7. h[e] = 0 /\ e \notin c.dirty_pages
    BY <2>5, <2>6 DEF Refs
  <2> QED BY <2>1, <2>3, <2>4, <2>5, <2>7
<1>10. /\ SubSeq(c.lru, k + 1, Len(c.lru)) \in Seq(Nat)
       /\ Distinct(SubSeq(c.lru, k + 1, Len(c.lru)))
       /\ \A x : Contains(SubSeq(c.lru, k + 1, Len(c.lru)), x)
                   => Contains(c.lru, x) /\ \A i \in 1 .. k : c.lru[i] # x
  BY <1>6, <1>7, SuffixKeys
<1>11. PICK ent : ent = [e \in DOMAIN c.ent |->
                           IF e \in gone THEN [c.ent[e] EXCEPT !.live = FALSE] ELSE c.ent[e]]
  OBVIOUS
<1>12. ASSUME NEW e \in Entries
       PROVE  /\ ent[e] \in PageEntry /\ ent[e].blkoff = c.ent[e].blkoff
              /\ ent[e].page = c.ent[e].page
              /\ e \notin gone => ent[e] = c.ent[e]
              /\ e \in gone => ~ent[e].live
  <2>1. ent[e] = IF e \in gone THEN [c.ent[e] EXCEPT !.live = FALSE] ELSE c.ent[e]
    BY <1>6, <1>11
  <2> QED BY <1>6, <2>1, ZenonT(40) DEF PageEntry
<1>13. ent \in [Entries -> PageEntry]
  <2>1. ent = [e \in Entries |-> ent[e]]
    BY <1>6, <1>11
  <2> QED BY <1>12, <2>1
<1>14. /\ d \in PageCaches /\ d.ent = ent /\ d.lru = SubSeq(c.lru, k + 1, Len(c.lru))
       /\ d.dirty_pages = c.dirty_pages
  <2>1. d = [c EXCEPT !.ent = ent, !.lru = SubSeq(@, k + 1, Len(@)), !.cur_size = @ - k]
    BY <1>5, <1>11
  <2>2. PICK lru, n : lru = SubSeq(c.lru, k + 1, Len(c.lru)) /\ n = c.cur_size - k
    OBVIOUS
  <2>3. d = [c EXCEPT !.ent = ent, !.lru = lru, !.cur_size = n]
    BY <2>1, <2>2
  <2>4. lru \in Seq(Nat) /\ n \in 0 .. SizeMod - 1
    BY <1>7, <1>10, <2>2 DEF SizeMod
  <2>5. /\ d \in PageCaches /\ d.ent = ent /\ d.lru = lru /\ d.dirty_pages = c.dirty_pages
    BY <1>6, <1>13, <2>3, <2>4 DEF PageCaches
  <2> QED BY <2>2, <2>5
<1>15. Counted(d, h)
  <2> SUFFICES ASSUME NEW x \in Entries
               PROVE /\ d.ent[x].live => /\ d.ent[x].blkoff \in Blocks
                                         /\ d.ent[x].is_dirty <=> x \in d.dirty_pages
                                         /\ d.ent[x].ref_count = Refs(d, h, x)
                     /\ ~d.ent[x].live => h[x] = 0 /\ x \notin d.dirty_pages
    BY DEF Counted
  <2>1. CASE x \in gone
    BY <1>9, <1>12, <1>14, <2>1
  <2>2. CASE x \notin gone
    BY <1>12, <1>14, <2>2 DEF CacheOK, Counted, Refs
  <2> QED BY <2>1, <2>2
<1>16. \A e \in Entries : d.ent[e].live => c.ent[e].live /\ d.ent[e] = c.ent[e]
  BY <1>12, <1>14
<1>17. OneEach(d)
  BY <1>16 DEF CacheOK, OneEach
<1>18. Replaceable(d)
  <2> SUFFICES ASSUME NEW b, Contains(d.lru, b)
               PROVE  \E x \in Entries : d.ent[x].live /\ d.ent[x].blkoff = b
                                         /\ d.ent[x].ref_count = 0
    BY <1>10, <1>14 DEF Replaceable
  <2>1. PICK x \in Entries : c.ent[x].live /\ c.ent[x].blkoff = b /\ c.ent[x].ref_count = 0
    BY <1>10, <1>14 DEF CacheOK, Replaceable
  <2>2. x \notin gone
    BY <1>8, <1>10, <1>14, <2>1
  <2> QED BY <1>12, <1>14, <2>1, <2>2
<1>19. CacheOK(d, h)
  BY <1>6, <1>14, <1>15, <1>17, <1>18 DEF CacheOK
<1>20. ASSUME NEW e \in Entries
       PROVE  /\ d.ent[e].blkoff = c.ent[e].blkoff /\ d.ent[e].page = c.ent[e].page
              /\ h[e] > 0 => d.ent[e] = c.ent[e]
              /\ c.ent[e].live /\ ~d.ent[e].live => c.ent[e].ref_count = 0 /\ ~c.ent[e].is_dirty
  <2>1. CASE e \in gone
    BY <1>9, <1>12, <1>14, <2>1
  <2>2. CASE e \notin gone
    BY <1>12, <1>14, <2>2
  <2> QED BY <2>1, <2>2
<1> QED BY <1>4, <1>14, <1>16, <1>19, <1>20

\* A new page for block b: an entry of another block, or one that was free.
Fresh(c, h, b, d, e) ==
    /\ CacheOK(d, h) /\ e \in Entries /\ d.ent[e].live /\ d.ent[e].blkoff = b
    /\ d.ent[e].content_state = "invalid" /\ e \notin c.dirty_pages
    /\ d.ent[e].page \in {c.ent[e].page, 0}
    /\ h[e] = 0 /\ (c.ent[e].live => c.ent[e].ref_count = 0 /\ ~c.ent[e].is_dirty)
    /\ \A x \in Entries : x # e => d.ent[x] = c.ent[x]
    /\ d.dirty_pages = c.dirty_pages

LEMMA FreshOK ==
  ASSUME NEW c, NEW h, CacheOK(c, h), NEW b \in Blocks, ~IsCached(c, b), NEW e \in Entries,
         NEW d \in PageCaches, h[e] = 0, e \notin c.dirty_pages,
         c.ent[e].live => c.ent[e].ref_count = 0,
         d.ent[e].live, d.ent[e].blkoff = b, d.ent[e].ref_count = 0, ~d.ent[e].is_dirty,
         d.ent[e].content_state = "invalid", d.ent[e].page \in {c.ent[e].page, 0},
         \A x \in Entries : x # e => d.ent[x] = c.ent[x],
         d.dirty_pages = c.dirty_pages, Distinct(d.lru),
         \A x : Contains(d.lru, x) =>
            x = b \/ (Contains(c.lru, x) /\ (c.ent[e].live => x # c.ent[e].blkoff))
  PROVE  Fresh(c, h, b, d, e)
<1>0. c \in PageCaches /\ DOMAIN c.ent = Entries /\ h \in [Entries -> Nat]
  BY DEF CacheOK, PageCaches
<1>1. \A x \in Entries : c.ent[x].live => c.ent[x].blkoff # b
  BY <1>0 DEF IsCached, IndexOf, LiveEntries
<1>2. Counted(d, h)
  <2> SUFFICES ASSUME NEW x \in Entries
               PROVE /\ d.ent[x].live => /\ d.ent[x].blkoff \in Blocks
                                         /\ d.ent[x].is_dirty <=> x \in d.dirty_pages
                                         /\ d.ent[x].ref_count = Refs(d, h, x)
                     /\ ~d.ent[x].live => h[x] = 0 /\ x \notin d.dirty_pages
    BY DEF Counted
  <2>1. CASE x = e
    BY <2>1 DEF Refs
  <2>2. CASE x # e
    BY <2>2 DEF CacheOK, Counted, Refs
  <2> QED BY <2>1, <2>2
<1>3. OneEach(d)
  <2> SUFFICES ASSUME NEW x \in Entries, NEW y \in Entries, d.ent[x].live, d.ent[y].live,
                      d.ent[x].blkoff = d.ent[y].blkoff
               PROVE  x = y
    BY DEF OneEach
  <2>1. CASE x # e /\ y # e
    BY <2>1 DEF CacheOK, OneEach
  <2>2. CASE x = e /\ y # e
    BY <1>1, <2>2
  <2>3. CASE x # e /\ y = e
    BY <1>1, <2>3
  <2> QED BY <2>1, <2>2, <2>3
<1>4. Replaceable(d)
  <2> SUFFICES ASSUME NEW a, Contains(d.lru, a)
               PROVE  \E x \in Entries : d.ent[x].live /\ d.ent[x].blkoff = a
                                         /\ d.ent[x].ref_count = 0
    BY DEF Replaceable
  <2>1. CASE a = b
    BY <2>1
  <2>2. CASE a # b
    <3>1. Contains(c.lru, a) /\ (c.ent[e].live => a # c.ent[e].blkoff)
      BY <2>2
    <3>2. PICK x \in Entries : c.ent[x].live /\ c.ent[x].blkoff = a /\ c.ent[x].ref_count = 0
      BY <3>1 DEF CacheOK, Replaceable
    <3>3. x # e
      BY <3>1, <3>2
    <3> QED BY <3>2, <3>3
  <2> QED BY <2>1, <2>2
<1>5. c.ent[e].live => ~c.ent[e].is_dirty
  BY DEF CacheOK, Counted
<1> QED BY <1>0, <1>2, <1>3, <1>4, <1>5 DEF CacheOK, Fresh

\* There is a free entry for a block that is not cached: cached blocks have one
\* entry each, and a thread is calling.
LEMMA FreeEntry ==
  ASSUME NEW c, NEW h, CacheOK(c, h), Threads # {}
  PROVE  \E e \in Entries : ~c.ent[e].live
<1> SUFFICES ASSUME \A e \in Entries : c.ent[e].live PROVE FALSE
  OBVIOUS
<1>1. PICK f : f = [e \in Entries |-> c.ent[e].blkoff]
  OBVIOUS
<1>2. f \in [Entries -> Blocks]
  BY <1>1 DEF CacheOK, Counted
<1>3. Cardinality(Threads) # 0 /\ Cardinality(Threads) \in Nat
  BY ThreadAssumption, FS_EmptySet, FS_CardinalityType
<1>4. Cardinality(Blocks) < Cardinality(Entries) /\ IsFiniteSet(Blocks) /\ IsFiniteSet(Entries)
  BY <1>3, EntryNumbers, SizeAssumption
<1>5. PICK x, y \in Entries : x # y /\ f[x] = f[y]
  BY <1>2, <1>4, FS_PigeonHole
<1> QED BY <1>1, <1>5 DEF CacheOK, OneEach

LEMMA CreatedOK ==
  ASSUME NEW c, NEW h, CacheOK(c, h), NEW b \in Blocks, ~IsCached(c, b), Threads # {}
  PROVE  \E d, e : Fresh(c, h, b, d, e) /\ Created(c, b) = add_refcount(d, e)
<1>1. /\ c \in PageCaches /\ DOMAIN c.ent = Entries /\ c.lru \in Seq(Nat) /\ b \in Nat
      /\ c.ent \in [Entries -> PageEntry] /\ c.cur_size \in 0 .. 15
      /\ h \in [Entries -> Nat] /\ Distinct(c.lru)
  BY EntryNumbers DEF CacheOK, PageCaches, SizeMod, Replaceable
<1>2. PICK e : e = CHOOSE x \in DOMAIN c.ent : ~c.ent[x].live
  OBVIOUS
<1>3. e \in Entries /\ ~c.ent[e].live
  BY <1>1, <1>2, FreeEntry
<1>4. h[e] = 0 /\ e \notin c.dirty_pages
  BY <1>3 DEF CacheOK, Counted
<1>5. ~Contains(c.lru, b)
  <2> SUFFICES ASSUME Contains(c.lru, b) PROVE FALSE
    OBVIOUS
  <2>1. PICK x \in Entries : c.ent[x].live /\ c.ent[x].blkoff = b
    BY DEF CacheOK, Replaceable
  <2> QED BY <1>1, <2>1 DEF IsCached, IndexOf, LiveEntries
<1>6. /\ Append(c.lru, b) \in Seq(Nat) /\ Distinct(Append(c.lru, b))
      /\ \A x : Contains(Append(c.lru, b), x) <=> Contains(c.lru, x) \/ x = b
  BY <1>1, <1>5, AppendKey
<1>7. PICK p : p = page_entry(b)
  OBVIOUS
<1>8. /\ p \in PageEntry /\ p.blkoff = b /\ p.ref_count = 0 /\ p.live /\ ~p.is_dirty
      /\ p.content_state = "invalid" /\ p.page \in {c.ent[e].page, 0}
  BY <1>1, <1>7 DEF page_entry, PageEntry, INVALID_LPA
<1>9. PICK d : d = [c EXCEPT !.ent[e] = p, !.lru = Append(@, b), !.cur_size = (@ + 1) % SizeMod]
  OBVIOUS
<1>10. Created(c, b) = add_refcount(d, e)
  BY <1>2, <1>7, <1>9 DEF Created
<1>11. (c.cur_size + 1) % 16 \in 0 .. 15
  BY <1>1, SMTT(40)
<1>12. /\ d \in PageCaches /\ d.ent = [c.ent EXCEPT ![e] = p] /\ d.lru = Append(c.lru, b)
       /\ d.dirty_pages = c.dirty_pages
  <2>1. [c.ent EXCEPT ![e] = p] \in [Entries -> PageEntry]
    BY <1>1, <1>8
  <2>2. PICK ent, lru, n : /\ ent = [c.ent EXCEPT ![e] = p] /\ lru = Append(c.lru, b)
                           /\ n = (c.cur_size + 1) % SizeMod
    OBVIOUS
  <2>3. d = [c EXCEPT !.ent = ent, !.lru = lru, !.cur_size = n]
    BY <1>9, <2>2
  <2>4. ent \in [Entries -> PageEntry] /\ lru \in Seq(Nat) /\ n \in 0 .. SizeMod - 1
    BY <1>6, <1>11, <2>1, <2>2 DEF SizeMod
  <2>5. /\ d \in PageCaches /\ d.ent = ent /\ d.lru = lru /\ d.dirty_pages = c.dirty_pages
    BY <1>1, <2>3, <2>4 DEF PageCaches
  <2> QED BY <2>2, <2>5
<1>13. d.ent[e] = p /\ \A x \in Entries : x # e => d.ent[x] = c.ent[x]
  BY <1>1, <1>3, <1>12
<1>14. Fresh(c, h, b, d, e)
  BY <1>3, <1>4, <1>6, <1>8, <1>12, <1>13, FreshOK, ZenonT(40)
<1> QED BY <1>10, <1>14

LEMMA RecycledOK ==
  ASSUME NEW c, NEW h, CacheOK(c, h), NEW b \in Blocks, ~IsCached(c, b), c.lru # <<>>
  PROVE  \E d, e : /\ Fresh(c, h, b, d, e)
                   /\ Recycled(c, b, expect_size) = do_replace(add_refcount(d, e), expect_size)
<1>1. /\ c \in PageCaches /\ DOMAIN c.ent = Entries /\ c.lru \in Seq(Nat) /\ b \in Nat
      /\ c.ent \in [Entries -> PageEntry] /\ h \in [Entries -> Nat] /\ Distinct(c.lru)
  BY EntryNumbers DEF CacheOK, PageCaches, Replaceable
<1>2. PICK v : v = EntryOf(c, Head(c.lru))
  OBVIOUS
<1>3. Len(c.lru) \in Nat \ {0} /\ Head(c.lru) = c.lru[1] /\ Tail(c.lru) = SubSeq(c.lru, 2, Len(c.lru))
  BY <1>1
<1>4. Contains(c.lru, Head(c.lru))
  BY <1>3 DEF Contains
<1>5. PICK x \in Entries : c.ent[x].live /\ c.ent[x].blkoff = Head(c.lru) /\ c.ent[x].ref_count = 0
  BY <1>4 DEF CacheOK, Replaceable
<1>6. v = x
  BY <1>1, <1>2, <1>5, EntryIs DEF CacheOK
<1>7. v \in Entries /\ c.ent[v].live /\ c.ent[v].ref_count = 0 /\ c.ent[v].blkoff = c.lru[1]
  BY <1>3, <1>5, <1>6
<1>8. h[v] = 0 /\ v \notin c.dirty_pages /\ ~c.ent[v].is_dirty
  <2>1. Refs(c, h, v) = 0 /\ (c.ent[v].is_dirty <=> v \in c.dirty_pages) /\ h[v] \in Nat
    BY <1>1, <1>7 DEF CacheOK, Counted
  <2>2. h[v] = 0 /\ v \notin c.dirty_pages
    BY <2>1 DEF Refs
  <2> QED BY <2>1, <2>2
<1>9. ~Contains(c.lru, b)
  <2> SUFFICES ASSUME Contains(c.lru, b) PROVE FALSE
    OBVIOUS
  <2>1. PICK y \in Entries : c.ent[y].live /\ c.ent[y].blkoff = b
    BY DEF CacheOK, Replaceable
  <2> QED BY <1>1, <2>1 DEF IsCached, IndexOf, LiveEntries
<1>10. PICK t : t = Tail(c.lru)
  OBVIOUS
<1>11. /\ t \in Seq(Nat) /\ Distinct(t)
       /\ \A y : Contains(t, y) => Contains(c.lru, y) /\ y # c.lru[1]
  <2>1. 1 \in 0 .. Len(c.lru) /\ 1 + 1 = 2
    BY <1>3
  <2>2. /\ SubSeq(c.lru, 1 + 1, Len(c.lru)) \in Seq(Nat) /\ Distinct(SubSeq(c.lru, 1 + 1, Len(c.lru)))
        /\ \A y : Contains(SubSeq(c.lru, 1 + 1, Len(c.lru)), y)
                    => Contains(c.lru, y) /\ \A i \in 1 .. 1 : c.lru[i] # y
    BY <1>1, <2>1, SuffixKeys
  <2>3. 1 \in 1 .. 1
    OBVIOUS
  <2> QED BY <1>3, <1>10, <2>1, <2>2, <2>3
<1>12. PICK q : q = Append(t, b)
  OBVIOUS
<1>13. q \in Seq(Nat) /\ Distinct(q) /\ \A y : Contains(q, y) <=> Contains(t, y) \/ y = b
  BY <1>1, <1>9, <1>11, <1>12, AppendKey
<1>14. PICK p : p = [c.ent[v] EXCEPT !.blkoff = b, !.content_state = "invalid"]
  OBVIOUS
<1>15. /\ p \in PageEntry /\ p.blkoff = b /\ p.ref_count = 0 /\ p.live /\ ~p.is_dirty
       /\ p.content_state = "invalid" /\ p.page \in {c.ent[v].page, 0}
  BY <1>1, <1>7, <1>8, <1>14 DEF PageEntry
<1>16. PICK d : d = [c EXCEPT !.ent[v].blkoff = b, !.ent[v].content_state = "invalid",
                              !.lru = Append(Tail(@), b)]
  OBVIOUS
<1>17. Recycled(c, b, expect_size) = do_replace(add_refcount(d, v), expect_size)
  BY <1>2, <1>16 DEF Recycled
<1>18. /\ d \in PageCaches /\ d.ent = [c.ent EXCEPT ![v] = p] /\ d.lru = q
       /\ d.dirty_pages = c.dirty_pages
  <2>1. [c.ent EXCEPT ![v] = p] \in [Entries -> PageEntry]
    BY <1>1, <1>15
  <2>2. d = [c EXCEPT !.ent = [c.ent EXCEPT ![v] = p], !.lru = q]
    BY <1>1, <1>7, <1>10, <1>12, <1>14, <1>16 DEF PageCaches, PageEntry
  <2> QED BY <1>1, <1>13, <2>1, <2>2 DEF PageCaches
<1>19. d.ent[v] = p /\ \A y \in Entries : y # v => d.ent[y] = c.ent[y]
  BY <1>1, <1>7, <1>18
<1>20. Fresh(c, h, b, d, v)
  BY <1>7, <1>8, <1>11, <1>13, <1>15, <1>18, <1>19, FreshOK, ZenonT(40)
<1> QED BY <1>17, <1>20

\* page_cache::get gives a handle on the page of the block; nobody else's page
\* is taken away and no assert fails.
LEMMA GetOK ==
  ASSUME NEW c, NEW h, CacheOK(c, h), NEW b \in Blocks, Threads # {}
  PROVE  /\ GetAsserts(c, b, expect_size)
         /\ \E e \in Entries :
              /\ e = EntryOf(get(c, b, expect_size), b)
              /\ get(c, b, expect_size).ent[e].blkoff = b
              /\ CacheOK(get(c, b, expect_size), [h EXCEPT ![e] = @ + 1])
              /\ Keeps(c, get(c, b, expect_size), h)
         /\ Retains(c, get(c, b, expect_size))
<1>1. PICK d : d = get(c, b, expect_size)
  OBVIOUS
<1>2. /\ c \in PageCaches /\ DOMAIN c.ent = Entries /\ h \in [Entries -> Nat]
      /\ c.ent \in [Entries -> PageEntry]
  BY DEF CacheOK, PageCaches
<1>3. CASE IsCached(c, b)
  <2>1. PICK e : e = EntryOf(c, b)
    OBVIOUS
  <2>2. e \in Entries /\ c.ent[e].live /\ c.ent[e].blkoff = b
    BY <1>2, <1>3, <2>1, EntryFound
  <2>3. d = add_refcount(c, e)
    BY <1>1, <1>3, <2>1 DEF get
  <2>4. /\ CacheOK(d, [h EXCEPT ![e] = @ + 1]) /\ d.ent = [c.ent EXCEPT ![e].ref_count = @ + 1]
        /\ d.dirty_pages = c.dirty_pages
    BY <2>2, <2>3, AddRef
  <2>5. \A x \in Entries : (d.ent[x].live <=> c.ent[x].live) /\ d.ent[x].blkoff = c.ent[x].blkoff
    BY <1>2, <2>4 DEF PageEntry
  <2>6. EntryOf(d, b) = e
    <3>1. d \in PageCaches /\ OneEach(d) /\ d.ent[e].live /\ d.ent[e].blkoff = b
      BY <2>2, <2>4, <2>5 DEF CacheOK
    <3> QED BY <2>2, <3>1, EntryIs
  <2>7. GetAsserts(c, b, expect_size)
    <3>1. c.ent[e].ref_count = 0 => ~c.ent[e].is_dirty
      BY <2>2, UnpinOK
    <3>2. {x \in LiveEntries(c) : ~d.ent[x].live \/ d.ent[x].blkoff # c.ent[x].blkoff} = {}
      BY <1>2, <2>5 DEF LiveEntries
    <3> QED BY <1>1, <2>1, <3>1, <3>2 DEF GetAsserts
  <2>8. \A x \in Entries : SameContent(c.ent[x], d.ent[x])
    BY <1>2, <2>4 DEF PageEntry, SameContent
  <2>9. Retains(c, d)
    <3>1. \A x \in Entries : d.ent[x].page = c.ent[x].page
      BY <2>8 DEF SameContent
    <3> QED BY <2>4, <2>5, <2>8, <3>1 DEF Retains
  <2>10. Keeps(c, d, h)
    BY <2>5 DEF Keeps
  <2> QED BY <1>1, <2>2, <2>4, <2>5, <2>6, <2>7, <2>9, <2>10
<1>4. CASE ~IsCached(c, b)
  <2>1. PICK a, e : /\ Fresh(c, h, b, a, e)
                    /\ \/ d = add_refcount(a, e)
                       \/ d = do_replace(add_refcount(a, e), expect_size)
    <3>1. CASE c.cur_size >= expect_size /\ c.lru # <<>>
      <4>1. d = Recycled(c, b, expect_size)
        BY <1>1, <1>4, <3>1 DEF get
      <4> QED BY <1>4, <3>1, <4>1, RecycledOK
    <3>2. CASE ~(c.cur_size >= expect_size /\ c.lru # <<>>)
      <4>1. d = Created(c, b)
        BY <1>1, <1>4, <3>2 DEF get
      <4> QED BY <1>4, <4>1, CreatedOK
    <3> QED BY <3>1, <3>2
  <2>2. /\ CacheOK(a, h) /\ e \in Entries /\ a.ent[e].live /\ a.ent[e].blkoff = b /\ h[e] = 0
        /\ c.ent[e].live => c.ent[e].ref_count = 0 /\ ~c.ent[e].is_dirty
        /\ \A x \in Entries : x # e => a.ent[x] = c.ent[x]
        /\ a.ent[e].content_state = "invalid" /\ e \notin c.dirty_pages
        /\ a.ent[e].page \in {c.ent[e].page, 0}
        /\ a.dirty_pages = c.dirty_pages
    BY <2>1 DEF Fresh
  <2>3. PICK g, r : g = [h EXCEPT ![e] = @ + 1] /\ r = add_refcount(a, e)
    OBVIOUS
  <2>4. /\ CacheOK(r, g) /\ r.ent = [a.ent EXCEPT ![e].ref_count = @ + 1]
        /\ r.dirty_pages = a.dirty_pages
    <3>1. /\ CacheOK(add_refcount(a, e), [h EXCEPT ![e] = @ + 1])
          /\ add_refcount(a, e).ent = [a.ent EXCEPT ![e].ref_count = @ + 1]
          /\ add_refcount(a, e).dirty_pages = a.dirty_pages
      BY <2>2, AddRef
    <3> QED BY <2>3, <3>1
  <2>5. /\ \A x \in Entries : x # e => r.ent[x] = c.ent[x]
        /\ r.ent[e].live /\ r.ent[e].blkoff = b /\ r.ent[e].content_state = "invalid"
        /\ r.ent[e].page \in {c.ent[e].page, 0}
    <3>1. a.ent \in [Entries -> PageEntry]
      BY <2>2 DEF CacheOK, PageCaches
    <3> QED BY <2>2, <2>4, <3>1 DEF PageEntry
  <2>6. g \in [Entries -> Nat] /\ g[e] = 1 /\ \A x \in Entries : x # e => g[x] = h[x]
    BY <1>2, <2>2, <2>3
  <2>7. /\ CacheOK(d, g)
        /\ \A x \in Entries : /\ d.ent[x].blkoff = r.ent[x].blkoff /\ d.ent[x].page = r.ent[x].page
                              /\ g[x] > 0 => d.ent[x] = r.ent[x]
                              /\ r.ent[x].live /\ ~d.ent[x].live
                                    => r.ent[x].ref_count = 0 /\ ~r.ent[x].is_dirty
        /\ d.dirty_pages = r.dirty_pages
        /\ \A x \in Entries : d.ent[x].live => r.ent[x].live /\ d.ent[x] = r.ent[x]
    <3>1. CASE d = r
      BY <2>4, <3>1
    <3>2. CASE d = do_replace(r, expect_size)
      <4>1. /\ CacheOK(do_replace(r, expect_size), g)
            /\ \A x \in Entries :
                 /\ do_replace(r, expect_size).ent[x].blkoff = r.ent[x].blkoff
                 /\ do_replace(r, expect_size).ent[x].page = r.ent[x].page
                 /\ g[x] > 0 => do_replace(r, expect_size).ent[x] = r.ent[x]
                 /\ r.ent[x].live /\ ~do_replace(r, expect_size).ent[x].live
                      => r.ent[x].ref_count = 0 /\ ~r.ent[x].is_dirty
            /\ do_replace(r, expect_size).dirty_pages = r.dirty_pages
            /\ \A x \in Entries : do_replace(r, expect_size).ent[x].live
                   => r.ent[x].live /\ do_replace(r, expect_size).ent[x] = r.ent[x]
        BY <2>4, ReplaceOK
      <4> QED BY <3>2, <4>1
    <3> QED BY <2>1, <2>3, <3>1, <3>2
  <2>8. d.ent[e].live /\ d.ent[e].blkoff = b
    BY <2>2, <2>5, <2>6, <2>7
  <2>9. EntryOf(d, b) = e
    <3>1. d \in PageCaches /\ OneEach(d)
      BY <2>7 DEF CacheOK
    <3> QED BY <2>2, <2>8, <3>1, EntryIs
  <2>10. Keeps(c, d, h)
    <3> SUFFICES ASSUME NEW x \in Entries, h[x] > 0 PROVE d.ent[x].blkoff = c.ent[x].blkoff
      BY DEF Keeps
    <3>1. x # e
      BY <2>2
    <3> QED BY <2>5, <2>7, <3>1
  <2>11. GetAsserts(c, b, expect_size)
    <3>1. ASSUME NEW x \in LiveEntries(c), ~d.ent[x].live \/ d.ent[x].blkoff # c.ent[x].blkoff
          PROVE  c.ent[x].ref_count = 0 /\ ~c.ent[x].is_dirty
      <4>1. x \in Entries /\ c.ent[x].live
        BY <1>2 DEF LiveEntries
      <4>2. CASE x = e
        BY <2>2, <4>1, <4>2
      <4>3. CASE x # e
        BY <2>5, <2>7, <3>1, <4>1, <4>3
      <4> QED BY <4>2, <4>3
    <3> QED BY <1>1, <1>4, <3>1 DEF GetAsserts
  <2>12. Retains(c, d)
    <3>1. d.dirty_pages = c.dirty_pages
      BY <2>2, <2>4, <2>7
    <3>2. ASSUME NEW x \in Entries, d.ent[x].live,
                 d.ent[x].content_state = "ready" \/ x \in c.dirty_pages
          PROVE  c.ent[x].live /\ SameContent(c.ent[x], d.ent[x])
      <4>1. d.ent[x] = r.ent[x]
        BY <2>7, <3>2
      <4>2. x # e
        BY <2>2, <2>5, <3>2, <4>1
      <4>3. d.ent[x] = c.ent[x]
        BY <2>5, <4>1, <4>2
      <4> QED BY <3>2, <4>3 DEF SameContent
    <3>3. ASSUME NEW x \in Entries PROVE d.ent[x].page \in {c.ent[x].page, 0}
      <4>1. d.ent[x].page = r.ent[x].page
        BY <2>7
      <4>2. CASE x = e
        BY <2>5, <4>1, <4>2
      <4>3. CASE x # e
        BY <2>5, <4>1, <4>3
      <4> QED BY <4>2, <4>3
    <3> QED BY <3>1, <3>2, <3>3 DEF Retains
  <2> QED BY <1>1, <2>2, <2>3, <2>7, <2>8, <2>9, <2>10, <2>11, <2>12
<1> QED BY <1>3, <1>4

\* dirty_pages lets go of the entries es, which are clean in d.
LEMMA ReleaseOK ==
  ASSUME NEW c, NEW h, CacheOK(c, h), NEW es \in SUBSET c.dirty_pages,
         NEW b \in PageCaches, b.lru = c.lru, b.dirty_pages = c.dirty_pages,
         \A e \in Entries : /\ b.ent[e].blkoff = c.ent[e].blkoff /\ (b.ent[e].live <=> c.ent[e].live)
                            /\ b.ent[e].ref_count = c.ent[e].ref_count
                            /\ (b.ent[e].is_dirty <=> c.ent[e].is_dirty /\ e \notin es),
         NEW d \in ReleaseAll(b, es)
  PROVE  /\ CacheOK(d, h) /\ d.dirty_pages = c.dirty_pages \ es
         /\ \A e \in Entries : (d.ent[e].live <=> b.ent[e].live) /\ SameContent(b.ent[e], d.ent[e])
         /\ Keeps(c, d, h)
<1>0. /\ c \in PageCaches /\ h \in [Entries -> Nat] /\ es \subseteq Entries
      /\ b.ent \in [Entries -> PageEntry] /\ DOMAIN b.ent = Entries /\ b.lru \in Seq(Nat)
      /\ Distinct(b.lru)
  BY DEF CacheOK, PageCaches, Replaceable
<1> DEFINE ent == [e \in DOMAIN b.ent |-> IF e \in es THEN DropRef(b, e).ent[e] ELSE b.ent[e]]
           a == [b EXCEPT !.ent = ent, !.dirty_pages = @ \ es]
           idle == {e \in es : a.ent[e].ref_count = 0 /\ IsPinned(a, e)}
           K == {a.ent[e].blkoff : e \in idle}
<1>1. ent = [e \in DOMAIN b.ent |-> IF e \in es THEN DropRef(b, e).ent[e] ELSE b.ent[e]]
  OBVIOUS
<1>2. a = [b EXCEPT !.ent = ent, !.dirty_pages = @ \ es]
  OBVIOUS
<1>3. /\ idle = {e \in es : a.ent[e].ref_count = 0 /\ IsPinned(a, e)}
      /\ K = {a.ent[e].blkoff : e \in idle}
  OBVIOUS
<1>4. PICK keys \in SetToSeqs(K) : d = [a EXCEPT !.lru = @ \o keys]
  <2>1. d \in {[a EXCEPT !.lru = @ \o keys] : keys \in SetToSeqs(K)}
    BY Zenon DEF ReleaseAll
  <2> HIDE DEF a, K
  <2> QED BY <2>1, Zenon
<1> HIDE DEF ent, a, idle, K
<1>5. ASSUME NEW e \in es
      PROVE  /\ c.ent[e].live /\ b.ent[e].ref_count \in Nat /\ b.ent[e].ref_count = h[e] + 1
             /\ ent[e] = [b.ent[e] EXCEPT !.ref_count = @ - 1]
  <2>1. e \in Entries /\ e \in c.dirty_pages /\ h[e] \in Nat
    BY <1>0
  <2>2. c.ent[e].live /\ c.ent[e].ref_count = Refs(c, h, e)
    BY <2>1 DEF CacheOK, Counted
  <2>3. b.ent[e].ref_count = h[e] + 1
    BY <2>1, <2>2 DEF Refs
  <2>4. DropRef(b, e).ent[e] = [b.ent[e] EXCEPT !.ref_count = @ - 1]
    BY <1>0, <2>1 DEF DropRef, PageCaches
  <2> QED BY <1>0, <1>1, <2>1, <2>2, <2>3, <2>4
<1>6. ASSUME NEW e \in Entries
      PROVE  /\ ent[e] \in PageEntry /\ ent[e].blkoff = b.ent[e].blkoff
             /\ (ent[e].live <=> b.ent[e].live) /\ (ent[e].is_dirty <=> b.ent[e].is_dirty)
             /\ ent[e].ref_count = IF e \in es THEN h[e] ELSE c.ent[e].ref_count
             /\ SameContent(b.ent[e], ent[e])
  <2>1. b.ent[e] \in PageEntry /\ h[e] \in Nat
    BY <1>0
  <2>2. CASE e \in es
    <3>1. b.ent[e].ref_count = h[e] + 1 /\ ent[e] = [b.ent[e] EXCEPT !.ref_count = @ - 1]
      BY <1>5, <2>2
    <3>2. b.ent[e].ref_count - 1 = h[e]
      BY <2>1, <3>1
    <3>3. ent[e] = [b.ent[e] EXCEPT !.ref_count = h[e]]
      BY <3>1, <3>2
    <3> QED BY <2>1, <2>2, <3>3 DEF PageEntry, SameContent
  <2>3. CASE e \notin es
    BY <1>0, <1>1, <2>1, <2>3 DEF SameContent
  <2> QED BY <2>2, <2>3
<1>7. ent \in [Entries -> PageEntry]
  BY <1>0, <1>1, <1>6
<1>8. /\ a \in PageCaches /\ a.ent = ent /\ a.dirty_pages = c.dirty_pages \ es /\ a.lru = c.lru
  <2>1. c.dirty_pages \ es \in SUBSET Entries
    BY <1>0 DEF PageCaches
  <2> QED BY <1>2, <1>7, <2>1 DEF PageCaches
<1>9. K \in SUBSET Nat /\ IsFiniteSet(K) /\ \A x \in K : ~Contains(c.lru, x)
  <2>2. IsFiniteSet(idle) /\ idle \subseteq Entries
    BY <1>0, <1>3, EntryNumbers, FS_Subset
  <2>4. PICK f : f = [e \in idle |-> a.ent[e].blkoff]
    OBVIOUS
  <2>5. f \in Surjection(idle, K)
    BY <1>3, <2>4 DEF Surjection
  <2>6. IsFiniteSet(K)
    BY <2>2, <2>5, FS_Surjection
  <2>7. \A e \in idle : a.ent[e].blkoff \in Nat
    BY <1>6, <1>8, <2>2 DEF PageEntry
  <2>8. \A e \in idle : ~Contains(c.lru, a.ent[e].blkoff)
    BY <1>3, <1>8 DEF IsPinned
  <2> QED BY <1>3, <2>6, <2>7, <2>8
<1>10. /\ c.lru \o keys \in Seq(Nat) /\ Distinct(c.lru \o keys)
       /\ \A x : Contains(c.lru \o keys, x) => Contains(c.lru, x) \/ x \in K
  BY <1>0, <1>9, ConcatKeys
<1>11. /\ d \in PageCaches /\ d.ent = ent /\ d.dirty_pages = c.dirty_pages \ es
       /\ d.lru = c.lru \o keys
  BY <1>4, <1>8, <1>10 DEF PageCaches
<1>12. Counted(d, h)
  <2> SUFFICES ASSUME NEW x \in Entries
               PROVE /\ d.ent[x].live => /\ d.ent[x].blkoff \in Blocks
                                         /\ d.ent[x].is_dirty <=> x \in d.dirty_pages
                                         /\ d.ent[x].ref_count = Refs(d, h, x)
                     /\ ~d.ent[x].live => h[x] = 0 /\ x \notin d.dirty_pages
    BY DEF Counted
  <2>1. /\ c.ent[x].live => /\ c.ent[x].blkoff \in Blocks
                            /\ c.ent[x].is_dirty <=> x \in c.dirty_pages
                            /\ c.ent[x].ref_count = Refs(c, h, x)
        /\ ~c.ent[x].live => h[x] = 0 /\ x \notin c.dirty_pages
    BY DEF CacheOK, Counted
  <2>2. h[x] \in Nat
    BY <1>0
  <2>3. CASE x \in es
    BY <1>6, <1>11, <2>1, <2>2, <2>3 DEF Refs
  <2>4. CASE x \notin es
    BY <1>6, <1>11, <2>1, <2>2, <2>4 DEF Refs
  <2> QED BY <2>3, <2>4
<1>13. OneEach(d)
  <2>1. \A x \in Entries : (d.ent[x].live <=> c.ent[x].live) /\ d.ent[x].blkoff = c.ent[x].blkoff
    BY <1>6, <1>11
  <2> QED BY <2>1 DEF CacheOK, OneEach
<1>14. Replaceable(d)
  <2> SUFFICES ASSUME NEW y, Contains(d.lru, y)
               PROVE  \E x \in Entries : d.ent[x].live /\ d.ent[x].blkoff = y
                                         /\ d.ent[x].ref_count = 0
    BY <1>10, <1>11 DEF Replaceable
  <2>1. CASE Contains(c.lru, y)
    <3>1. PICK x \in Entries : c.ent[x].live /\ c.ent[x].blkoff = y /\ c.ent[x].ref_count = 0
      BY <2>1 DEF CacheOK, Replaceable
    <3>2. x \notin es
      <4> SUFFICES ASSUME x \in es PROVE FALSE
        OBVIOUS
      <4>1. b.ent[x].ref_count = h[x] + 1 /\ h[x] \in Nat
        BY <1>0, <1>5
      <4> QED BY <3>1, <4>1
    <3> QED BY <1>6, <1>11, <3>1, <3>2
  <2>2. CASE y \in K
    <3>1. PICK x \in es : a.ent[x].ref_count = 0 /\ y = a.ent[x].blkoff
      BY <1>3, <2>2
    <3> QED BY <1>0, <1>5, <1>6, <1>8, <1>11, <3>1
  <2> QED BY <1>10, <1>11, <2>1, <2>2
<1>15. Keeps(c, d, h)
  BY <1>6, <1>11 DEF Keeps
<1> QED BY <1>0, <1>6, <1>11, <1>12, <1>13, <1>14, <1>15 DEF CacheOK

LEMMA TruncateOK ==
  ASSUME NEW c, NEW h, CacheOK(c, h), NEW n, NEW d \in truncate(c, n)
  PROVE  /\ CacheOK(d, h) /\ Keeps(c, d, h)
         /\ d.dirty_pages = {e \in c.dirty_pages : ~(c.ent[e].blkoff > n)}
         /\ \A e \in Entries :
              /\ d.ent[e].live <=> c.ent[e].live
              /\ IF e \in c.dirty_pages /\ c.ent[e].blkoff > n THEN d.ent[e].content_state = "invalid"
                 ELSE SameContent(c.ent[e], d.ent[e])
         /\ \A e \in Entries : d.ent[e].page = c.ent[e].page
<1> DEFINE gone == {e \in c.dirty_pages : c.ent[e].blkoff > n}
           ent == [e \in DOMAIN c.ent |->
                     IF e \in gone THEN [c.ent[e] EXCEPT !.is_dirty = FALSE,
                                                         !.content_state = "invalid"]
                     ELSE c.ent[e]]
           b == [c EXCEPT !.ent = ent, !.cur_size = (@ - Cardinality(gone)) % SizeMod]
<1>1. d \in ReleaseAll(b, gone)
  BY DEF truncate
<1>2. b = [c EXCEPT !.ent = ent, !.cur_size = (@ - Cardinality(gone)) % SizeMod]
  OBVIOUS
<1>3. ent = [e \in DOMAIN c.ent |->
               IF e \in gone THEN [c.ent[e] EXCEPT !.is_dirty = FALSE,
                                                   !.content_state = "invalid"]
               ELSE c.ent[e]]
  OBVIOUS
<1>4. gone \in SUBSET c.dirty_pages
  OBVIOUS
<1>0. gone = {e \in c.dirty_pages : c.ent[e].blkoff > n}
  OBVIOUS
<1> HIDE DEF gone, ent, b
<1>5. /\ c \in PageCaches /\ c.ent \in [Entries -> PageEntry] /\ DOMAIN c.ent = Entries
      /\ c.dirty_pages \subseteq Entries /\ c.cur_size \in Int
  BY DEF CacheOK, PageCaches, SizeMod
<1>6. ASSUME NEW e \in Entries
      PROVE  /\ ent[e] \in PageEntry /\ ent[e].blkoff = c.ent[e].blkoff
             /\ (ent[e].live <=> c.ent[e].live) /\ ent[e].ref_count = c.ent[e].ref_count
             /\ (ent[e].is_dirty <=> c.ent[e].is_dirty /\ e \notin gone)
             /\ e \in gone => ent[e].content_state = "invalid"
             /\ ent[e].page = c.ent[e].page
             /\ e \notin gone => SameContent(c.ent[e], ent[e])
  <2>1. c.ent[e] \in PageEntry
    BY <1>5
  <2>2. CASE e \in gone
    BY <1>3, <1>5, <2>1, <2>2 DEF PageEntry
  <2>3. CASE e \notin gone
    BY <1>3, <1>5, <2>1, <2>3, ZenonT(40) DEF SameContent
  <2> QED BY <2>2, <2>3
<1>7. ent \in [Entries -> PageEntry]
  BY <1>3, <1>5, <1>6
<1>8. (c.cur_size - Cardinality(gone)) % SizeMod \in 0 .. SizeMod - 1
  <2>1. Cardinality(gone) \in Nat
    BY <1>4, <1>5, EntryNumbers, FS_Subset, FS_CardinalityType
  <2>2. PICK m \in Int : m = c.cur_size - Cardinality(gone)
    BY <1>5, <2>1
  <2>3. m % 16 \in 0 .. 15
    OBVIOUS
  <2> QED BY <2>2, <2>3 DEF SizeMod
<1>9. b \in PageCaches /\ b.lru = c.lru /\ b.dirty_pages = c.dirty_pages /\ b.ent = ent
  BY <1>2, <1>5, <1>7, <1>8 DEF PageCaches
<1>10. /\ CacheOK(d, h) /\ d.dirty_pages = c.dirty_pages \ gone
       /\ \A e \in Entries : (d.ent[e].live <=> b.ent[e].live) /\ SameContent(b.ent[e], d.ent[e])
       /\ Keeps(c, d, h)
  <2>1. \A e \in Entries : /\ b.ent[e].blkoff = c.ent[e].blkoff /\ (b.ent[e].live <=> c.ent[e].live)
                           /\ b.ent[e].ref_count = c.ent[e].ref_count
                           /\ (b.ent[e].is_dirty <=> c.ent[e].is_dirty /\ e \notin gone)
    BY <1>6, <1>9
  <2> QED BY <1>1, <1>4, <1>9, <2>1, ReleaseOK
<1>11. d.dirty_pages = {e \in c.dirty_pages : ~(c.ent[e].blkoff > n)}
  BY <1>0, <1>10
<1>12. ASSUME NEW e \in Entries
       PROVE  /\ d.ent[e].live <=> c.ent[e].live
              /\ IF e \in c.dirty_pages /\ c.ent[e].blkoff > n THEN d.ent[e].content_state = "invalid"
                 ELSE SameContent(c.ent[e], d.ent[e])
  <2>1. e \in gone <=> e \in c.dirty_pages /\ c.ent[e].blkoff > n
    BY <1>0
  <2>2. /\ (d.ent[e].live <=> c.ent[e].live) /\ SameContent(ent[e], d.ent[e])
        /\ e \in gone => ent[e].content_state = "invalid"
        /\ e \notin gone => SameContent(c.ent[e], ent[e])
    BY <1>6, <1>9, <1>10
  <2> QED BY <2>1, <2>2 DEF SameContent
<1>13. \A e \in Entries : d.ent[e].page = c.ent[e].page
  BY <1>6, <1>9, <1>10 DEF SameContent
<1> QED BY <1>10, <1>11, <1>12, <1>13

LEMMA ClearOK ==
  ASSUME NEW c, NEW h, CacheOK(c, h), NEW d \in clear_dirty_pages(c)
  PROVE  /\ CacheOK(d, h) /\ Keeps(c, d, h) /\ d.dirty_pages = {}
         /\ \A e \in Entries : (d.ent[e].live <=> c.ent[e].live) /\ SameContent(c.ent[e], d.ent[e])
<1> DEFINE ent == [e \in DOMAIN c.ent |->
                     IF e \in c.dirty_pages THEN [c.ent[e] EXCEPT !.is_dirty = FALSE] ELSE c.ent[e]]
           b == [c EXCEPT !.ent = ent]
<1>1. d \in ReleaseAll(b, c.dirty_pages)
  BY DEF clear_dirty_pages
<1>2. b = [c EXCEPT !.ent = ent]
  OBVIOUS
<1>3. ent = [e \in DOMAIN c.ent |->
               IF e \in c.dirty_pages THEN [c.ent[e] EXCEPT !.is_dirty = FALSE] ELSE c.ent[e]]
  OBVIOUS
<1> HIDE DEF ent, b
<1>5. /\ c \in PageCaches /\ c.ent \in [Entries -> PageEntry] /\ DOMAIN c.ent = Entries
  BY DEF CacheOK, PageCaches
<1>6. ASSUME NEW e \in Entries
      PROVE  /\ ent[e] \in PageEntry /\ ent[e].blkoff = c.ent[e].blkoff
             /\ (ent[e].live <=> c.ent[e].live) /\ ent[e].ref_count = c.ent[e].ref_count
             /\ (ent[e].is_dirty <=> c.ent[e].is_dirty /\ e \notin c.dirty_pages)
             /\ SameContent(c.ent[e], ent[e])
  <2>1. c.ent[e] \in PageEntry
    BY <1>5
  <2>2. CASE e \in c.dirty_pages
    BY <1>3, <1>5, <2>1, <2>2 DEF PageEntry, SameContent
  <2>3. CASE e \notin c.dirty_pages
    BY <1>3, <1>5, <2>1, <2>3 DEF SameContent
  <2> QED BY <2>2, <2>3
<1>7. ent \in [Entries -> PageEntry]
  BY <1>3, <1>5, <1>6
<1>8. b \in PageCaches /\ b.lru = c.lru /\ b.dirty_pages = c.dirty_pages /\ b.ent = ent
  BY <1>2, <1>5, <1>7 DEF PageCaches
<1>9. /\ CacheOK(d, h) /\ d.dirty_pages = c.dirty_pages \ c.dirty_pages /\ Keeps(c, d, h)
      /\ \A e \in Entries : (d.ent[e].live <=> b.ent[e].live) /\ SameContent(b.ent[e], d.ent[e])
  <2>1. PICK es \in SUBSET c.dirty_pages : es = c.dirty_pages
    OBVIOUS
  <2>2. d \in ReleaseAll(b, es)
    BY <1>1, <2>1
  <2>3. \A e \in Entries : /\ b.ent[e].blkoff = c.ent[e].blkoff /\ (b.ent[e].live <=> c.ent[e].live)
                            /\ b.ent[e].ref_count = c.ent[e].ref_count
                            /\ (b.ent[e].is_dirty <=> c.ent[e].is_dirty /\ e \notin es)
    BY <1>6, <1>8, <2>1
  <2>4. /\ CacheOK(d, h) /\ d.dirty_pages = c.dirty_pages \ es /\ Keeps(c, d, h)
        /\ \A e \in Entries : (d.ent[e].live <=> b.ent[e].live) /\ SameContent(b.ent[e], d.ent[e])
    BY <1>8, <2>2, <2>3, ReleaseOK
  <2> QED BY <2>1, <2>4
<1>10. \A e \in Entries : (d.ent[e].live <=> c.ent[e].live) /\ SameContent(c.ent[e], d.ent[e])
  BY <1>6, <1>8, <1>9 DEF SameContent
<1> QED BY <1>9, <1>10

-----------------------------------------------------------------------------
(* The threads.  A thread is idle, waits for the file's lock, is between   *)
(* taking it and releasing it in a read or a write, is finishing its read  *)
(* or write without it, or is in a truncate or an fsync.                   *)

Points == {"idle", "lock", "get", "copy", "drop", "unpin", "last", "unlock", "mark", "add",
           "advance", "truncate", "fsync", "remove", "write_back", "return"}
Ops == {"none", "read", "write", "truncate", "fsync"}
ThreadRec ==
    [pc : Points, op : Ops, fd : Fds \cup {NoThread}, id : Int, hold : {"none", "rd", "wr"},
     start : Nat, next : Nat, end : Nat, page : Entries \cup {NoEntry},
     pre : Entries \cup {NoEntry}, put : Entries \cup {NoEntry}, then : Points, got : Seq(Int)]

Waiting(r) == r.pc \in {"idle", "lock"}
Inside(r) == r.pc \in {"get", "copy", "drop", "unpin", "last", "unlock"}
Finishing(r) == r.pc = "advance" \/ (r.pc \in {"mark", "add"} /\ r.then = "advance")
Exclusive(r) == \/ r.pc \in {"truncate", "fsync", "remove", "write_back", "return"}
                \/ r.pc \in {"mark", "add"} /\ r.then = "return"

\* The pages a thread has handles on, the lock it holds and the range it is in,
\* at each point of its call.
Shape(r) ==
    /\ Waiting(r) \/ Inside(r) \/ Finishing(r) \/ Exclusive(r)
    /\ ~Inside(r) \/ r.pc = "unlock" => r.page = NoEntry /\ r.pre = NoEntry
    /\ r.pc \in {"get", "last", "drop", "unpin"} => r.page = NoEntry
    /\ r.pc = "copy" => r.page # NoEntry
    /\ r.pc = "unpin" => r.put # NoEntry
    /\ r.pc \in {"drop", "unpin"} => /\ r.then \in {"get", "last", "unlock"}
                                     /\ r.then = "unlock" => r.pre = NoEntry
    /\ r.pc \in {"get", "copy"} \/ (r.pc \in {"drop", "unpin"} /\ r.then = "get")
          => r.next < r.end
    /\ r.pc = "lock" \/ Inside(r) \/ Finishing(r) => r.op \in {"read", "write"} /\ r.fd \in Fds
    /\ Inside(r) \/ Finishing(r) => r.next <= NumBlocks /\ r.end <= NumBlocks
    /\ Exclusive(r) => r.op \in {"truncate", "fsync"} /\ r.end <= NumBlocks
    /\ r.hold = "none" <=> Waiting(r) \/ Finishing(r)
    /\ Exclusive(r) => r.hold = "wr" /\ r.then = "return"

\* A read or write has its descriptor's lock, and its position is where it began.
Owner(t) ==
    /\ ~(th[t].pc = "idle") /\ ~Exclusive(th[t]) => pos_lock[th[t].fd] = t
    /\ Inside(th[t]) \/ Finishing(th[t]) =>
         /\ pos[th[t].fd] = th[t].start
         /\ th[t].op = "read" => th[t].start + Len(th[t].got) = th[t].next
    /\ th[t].pc = "lock" => th[t].got = <<>>

DataInv ==
    /\ size \in 0 .. NumBlocks
    /\ inode \in [i_size : 0 .. NumBlocks, addr : [Blocks -> Nat]]
    /\ ssd \in Seq(Int) /\ valid \subseteq 1 .. Len(ssd)
    /\ \A b \in Blocks : inode.addr[b] <= Len(ssd)
    /\ is_dirty \in BOOLEAN /\ dirty_files \in BOOLEAN
    /\ ops \in Nat /\ hist \in [Blocks -> Seq(Int)]
PosInv == pos \in [Fds -> 0 .. NumBlocks] /\ pos_lock \in [Fds -> Threads \cup {NoThread}]
TypeInv == DataInv /\ PosInv /\ th \in [Threads -> ThreadRec]

\* The handles of the threads on each entry.
HeldBy ==
    [e \in Entries |-> Cardinality({t \in Threads : th[t].page = e})
                       + Cardinality({t \in Threads : th[t].pre = e})
                       + Cardinality({t \in Threads : th[t].put = e /\ th[t].pc = "drop"})]
One(b) == IF b THEN 1 ELSE 0
Own(r, e) == One(r.page = e) + One(r.pre = e) + One(r.put = e /\ r.pc = "drop")

PageInv ==
    /\ CacheOK(cache, HeldBy) /\ failed # "page"
    /\ \A t \in Threads : th[t].page # NoEntry => cache.ent[th[t].page].blkoff = th[t].next

IInv ==
    /\ TypeInv /\ PageInv
    /\ \A t \in Threads : Shape(th[t]) /\ Owner(t)

LEMMA CountMove ==
  ASSUME NEW A \in SUBSET Threads, NEW B \in SUBSET Threads, NEW t \in Threads,
         A \ {t} = B \ {t}
  PROVE  /\ Cardinality(A) \in Nat /\ Cardinality(B) \in Nat
         /\ Cardinality(B) + One(t \in A) = Cardinality(A) + One(t \in B)
         /\ One(t \in A) <= Cardinality(A)
<1>1. IsFiniteSet(A) /\ IsFiniteSet(B)
  BY ThreadAssumption, FS_Subset
<1>2. PICK C : C = A \ {t}
  OBVIOUS
<1>3. IsFiniteSet(C) /\ Cardinality(C) \in Nat /\ t \notin C
  BY <1>1, <1>2, FS_RemoveElement, FS_CardinalityType
<1>4. Cardinality(C \cup {t}) = Cardinality(C) + 1
  BY <1>3, FS_AddElement
<1>5. Cardinality(A) = Cardinality(C) + One(t \in A)
  <2>1. CASE t \in A
    <3>1. A = C \cup {t}
      BY <1>2, <2>1
    <3> QED BY <1>4, <2>1, <3>1 DEF One
  <2>2. CASE t \notin A
    <3>1. A = C
      BY <1>2, <2>2
    <3> QED BY <1>3, <2>2, <3>1 DEF One
  <2> QED BY <2>1, <2>2
<1>6. Cardinality(B) = Cardinality(C) + One(t \in B)
  <2>1. CASE t \in B
    <3>1. B = C \cup {t}
      BY <1>2, <2>1
    <3> QED BY <1>4, <2>1, <3>1 DEF One
  <2>2. CASE t \notin B
    <3>1. B = C
      BY <1>2, <2>2
    <3> QED BY <1>3, <2>2, <3>1 DEF One
  <2> QED BY <2>1, <2>2
<1>7. One(t \in A) \in 0 .. 1 /\ One(t \in B) \in 0 .. 1
  BY DEF One
<1> QED BY <1>3, <1>5, <1>6, <1>7

\* A step of one thread changes the counts by what that thread does.
LEMMA HeldMove ==
  ASSUME NEW t \in Threads, \A u \in Threads : u # t => th'[u] = th[u], NEW e \in Entries
  PROVE  /\ HeldBy[e] \in Nat /\ HeldBy'[e] \in Nat /\ Own(th[t], e) <= HeldBy[e]
         /\ HeldBy'[e] + Own(th[t], e) = HeldBy[e] + Own(th'[t], e)
         /\ Own(th[t], e) \in Nat /\ Own(th'[t], e) \in Nat
<1>1. PICK A, B : A = {u \in Threads : th[u].page = e} /\ B = {u \in Threads : th'[u].page = e}
  OBVIOUS
<1>2. PICK C, D : C = {u \in Threads : th[u].pre = e} /\ D = {u \in Threads : th'[u].pre = e}
  OBVIOUS
<1>3. PICK F, G : /\ F = {u \in Threads : th[u].put = e /\ th[u].pc = "drop"}
                  /\ G = {u \in Threads : th'[u].put = e /\ th'[u].pc = "drop"}
  OBVIOUS
<1>4. HeldBy[e] = Cardinality(A) + Cardinality(C) + Cardinality(F)
  BY <1>1, <1>2, <1>3 DEF HeldBy
<1>5. HeldBy'[e] = Cardinality(B) + Cardinality(D) + Cardinality(G)
  BY <1>1, <1>2, <1>3 DEF HeldBy
<1>6. /\ Cardinality(A) \in Nat /\ Cardinality(B) \in Nat
      /\ Cardinality(B) + One(t \in A) = Cardinality(A) + One(t \in B)
      /\ One(t \in A) <= Cardinality(A)
  <2>1. A \in SUBSET Threads /\ B \in SUBSET Threads /\ A \ {t} = B \ {t}
    BY <1>1
  <2> QED BY <2>1, CountMove
<1>7. /\ Cardinality(C) \in Nat /\ Cardinality(D) \in Nat
      /\ Cardinality(D) + One(t \in C) = Cardinality(C) + One(t \in D)
      /\ One(t \in C) <= Cardinality(C)
  <2>1. C \in SUBSET Threads /\ D \in SUBSET Threads /\ C \ {t} = D \ {t}
    BY <1>2
  <2> QED BY <2>1, CountMove
<1>8. /\ Cardinality(F) \in Nat /\ Cardinality(G) \in Nat
      /\ Cardinality(G) + One(t \in F) = Cardinality(F) + One(t \in G)
      /\ One(t \in F) <= Cardinality(F)
  <2>1. F \in SUBSET Threads /\ G \in SUBSET Threads /\ F \ {t} = G \ {t}
    BY <1>3
  <2> QED BY <2>1, CountMove
<1>9. /\ Own(th[t], e) = One(t \in A) + One(t \in C) + One(t \in F)
      /\ Own(th'[t], e) = One(t \in B) + One(t \in D) + One(t \in G)
  BY <1>1, <1>2, <1>3 DEF Own, One
<1>10. /\ One(t \in A) \in 0 .. 1 /\ One(t \in C) \in 0 .. 1 /\ One(t \in F) \in 0 .. 1
       /\ One(t \in B) \in 0 .. 1 /\ One(t \in D) \in 0 .. 1 /\ One(t \in G) \in 0 .. 1
  BY DEF One
<1>11. PICK a \in Nat, b \in Nat, c \in Nat, d \in Nat, f \in Nat, g \in Nat :
         /\ a = Cardinality(A) /\ b = Cardinality(B) /\ c = Cardinality(C)
         /\ d = Cardinality(D) /\ f = Cardinality(F) /\ g = Cardinality(G)
  BY <1>6, <1>7, <1>8
<1>12. PICK i \in 0 .. 1, j \in 0 .. 1, k \in 0 .. 1, l \in 0 .. 1, m \in 0 .. 1, n \in 0 .. 1 :
         /\ i = One(t \in A) /\ j = One(t \in C) /\ k = One(t \in F)
         /\ l = One(t \in B) /\ m = One(t \in D) /\ n = One(t \in G)
  BY <1>10
<1>13. b + i = a + l /\ d + j = c + m /\ g + k = f + n /\ i <= a /\ j <= c /\ k <= f
  BY <1>6, <1>7, <1>8, <1>11, <1>12
<1>14. /\ HeldBy[e] = a + c + f /\ HeldBy'[e] = b + d + g
       /\ Own(th[t], e) = i + j + k /\ Own(th'[t], e) = l + m + n
  BY <1>4, <1>5, <1>9, <1>11, <1>12
<1>15. /\ a + c + f \in Nat /\ b + d + g \in Nat /\ i + j + k <= a + c + f
       /\ (b + d + g) + (i + j + k) = (a + c + f) + (l + m + n)
       /\ i + j + k \in Nat /\ l + m + n \in Nat
  BY <1>13
<1> QED BY <1>14, <1>15

LEMMA HeldSame ==
  ASSUME NEW t \in Threads, \A u \in Threads : u # t => th'[u] = th[u],
         \A e \in Entries : Own(th'[t], e) = Own(th[t], e)
  PROVE  HeldBy' = HeldBy
<1>1. \A e \in Entries : HeldBy'[e] = HeldBy[e]
  <2> SUFFICES ASSUME NEW e \in Entries PROVE HeldBy'[e] = HeldBy[e]
    OBVIOUS
  <2>1. /\ HeldBy[e] \in Nat /\ HeldBy'[e] \in Nat /\ Own(th[t], e) \in Nat
        /\ HeldBy'[e] + Own(th[t], e) = HeldBy[e] + Own(th'[t], e)
    BY HeldMove
  <2> QED BY <2>1
<1>2. HeldBy = [e \in Entries |-> HeldBy[e]] /\ HeldBy' = [e \in Entries |-> HeldBy'[e]]
  BY DEF HeldBy
<1> QED BY <1>1, <1>2

LEMMA HeldMore ==
  ASSUME NEW t \in Threads, \A u \in Threads : u # t => th'[u] = th[u], NEW x \in Entries,
         \A e \in Entries : Own(th'[t], e) = Own(th[t], e) + One(e = x)
  PROVE  HeldBy' = [HeldBy EXCEPT ![x] = @ + 1]
<1>1. \A e \in Entries : HeldBy'[e] = HeldBy[e] + One(e = x)
  <2> SUFFICES ASSUME NEW e \in Entries PROVE HeldBy'[e] = HeldBy[e] + One(e = x)
    OBVIOUS
  <2>1. /\ HeldBy[e] \in Nat /\ HeldBy'[e] \in Nat /\ Own(th[t], e) \in Nat
        /\ HeldBy'[e] + Own(th[t], e) = HeldBy[e] + Own(th'[t], e)
    BY HeldMove
  <2>2. One(e = x) \in Nat
    BY DEF One
  <2> QED BY <2>1, <2>2
<1>2. HeldBy = [e \in Entries |-> HeldBy[e]] /\ HeldBy' = [e \in Entries |-> HeldBy'[e]]
  BY DEF HeldBy
<1>3. \A e \in Entries : HeldBy[e] \in Nat
  BY HeldMove
<1> QED BY <1>1, <1>2, <1>3 DEF One

LEMMA HeldLess ==
  ASSUME NEW t \in Threads, \A u \in Threads : u # t => th'[u] = th[u], NEW x \in Entries,
         \A e \in Entries : Own(th[t], e) = Own(th'[t], e) + One(e = x)
  PROVE  HeldBy' = [HeldBy EXCEPT ![x] = @ - 1] /\ HeldBy[x] > 0
<1>1. \A e \in Entries : HeldBy'[e] = HeldBy[e] - One(e = x)
  <2> SUFFICES ASSUME NEW e \in Entries PROVE HeldBy'[e] = HeldBy[e] - One(e = x)
    OBVIOUS
  <2>1. /\ HeldBy[e] \in Nat /\ HeldBy'[e] \in Nat /\ Own(th'[t], e) \in Nat
        /\ HeldBy'[e] + Own(th[t], e) = HeldBy[e] + Own(th'[t], e)
    BY HeldMove
  <2>2. One(e = x) \in Nat
    BY DEF One
  <2> QED BY <2>1, <2>2
<1>2. HeldBy = [e \in Entries |-> HeldBy[e]] /\ HeldBy' = [e \in Entries |-> HeldBy'[e]]
  BY DEF HeldBy
<1>3. \A e \in Entries : HeldBy[e] \in Nat /\ HeldBy'[e] \in Nat
  BY HeldMove
<1>4. HeldBy[x] > 0
  BY <1>1, <1>3 DEF One
<1> QED BY <1>1, <1>2, <1>3, <1>4 DEF One

LEMMA HeldAny ==
  ASSUME NEW u \in Threads, NEW e \in Entries, th[u].page = e \/ th[u].pre = e
  PROVE  HeldBy[e] > 0
<1>1. PICK A, B, C : /\ A = {v \in Threads : th[v].page = e} /\ B = {v \in Threads : th[v].pre = e}
                     /\ C = {v \in Threads : th[v].put = e /\ th[v].pc = "drop"}
  OBVIOUS
<1>2. HeldBy[e] = Cardinality(A) + Cardinality(B) + Cardinality(C)
  BY <1>1 DEF HeldBy
<1>3. /\ Cardinality(A) \in Nat /\ One(u \in A) <= Cardinality(A)
      /\ Cardinality(B) \in Nat /\ One(u \in B) <= Cardinality(B) /\ Cardinality(C) \in Nat
  BY <1>1, CountMove
<1>4. u \in A \/ u \in B
  BY <1>1
<1>5. Cardinality(A) >= 1 \/ Cardinality(B) >= 1
  BY <1>3, <1>4 DEF One
<1> QED BY <1>2, <1>3, <1>5

-----------------------------------------------------------------------------
(* What a step of thread t that makes its record r has to establish.       *)

LEMMA StepOK ==
  ASSUME IInv, NEW t \in Threads, NEW r \in ThreadRec, th' = [th EXCEPT ![t] = r],
         Shape(r), Owner(t)', DataInv', PosInv',
         \A f \in Fds : pos_lock[f] \in Threads \ {t} => pos_lock'[f] = pos_lock[f] /\ pos'[f] = pos[f],
         CacheOK(cache', HeldBy'), Keeps(cache, cache', HeldBy), failed' # "page",
         r.page # NoEntry => cache'.ent[r.page].blkoff = r.next
  PROVE  IInv'
<1>1. /\ th \in [Threads -> ThreadRec] /\ th' \in [Threads -> ThreadRec] /\ th'[t] = r
      /\ \A u \in Threads : u # t => th'[u] = th[u]
  BY DEF IInv, TypeInv
<1>2. ASSUME NEW u \in Threads, u # t PROVE Shape(th'[u]) /\ Owner(u)'
  <2>1. Shape(th[u]) /\ Owner(u) /\ th'[u] = th[u]
    BY <1>1, <1>2 DEF IInv
  <2>2. th[u].pc # "idle" /\ ~Exclusive(th[u]) => th[u].fd \in Fds /\ pos_lock[th[u].fd] = u
    BY <2>1 DEF Shape, Owner, Waiting
  <2>3. th[u].pc # "idle" /\ ~Exclusive(th[u]) =>
          pos_lock'[th[u].fd] = pos_lock[th[u].fd] /\ pos'[th[u].fd] = pos[th[u].fd]
    BY <2>2, <1>2
  <2>4. Inside(th[u]) \/ Finishing(th[u]) => th[u].pc # "idle" /\ ~Exclusive(th[u])
    BY DEF Inside, Finishing, Exclusive
  <2>5. Owner(u)'
    BY <2>1, <2>3, <2>4 DEF Owner
  <2> QED BY <2>1, <2>5
<1>3. \A u \in Threads : Shape(th'[u]) /\ Owner(u)'
  BY <1>1, <1>2
<1>4. ASSUME NEW u \in Threads, u # t, th[u].page # NoEntry
      PROVE  cache'.ent[th[u].page].blkoff = th[u].next
  <2>1. th[u].page \in Entries
    BY <1>1, <1>4 DEF ThreadRec
  <2>2. HeldBy[th[u].page] > 0
    BY <2>1, HeldAny
  <2>3. cache.ent[th[u].page].blkoff = th[u].next
    BY <1>4 DEF IInv, PageInv
  <2> QED BY <2>1, <2>2, <2>3 DEF Keeps
<1>5. PageInv'
  <2>1. \A u \in Threads : th'[u].page # NoEntry => cache'.ent[th'[u].page].blkoff = th'[u].next
    BY <1>1, <1>4
  <2> QED BY <2>1 DEF PageInv
<1>6. TypeInv'
  BY <1>1 DEF TypeInv
<1> QED BY <1>3, <1>5, <1>6 DEF IInv

\* A step that leaves the page cache alone.
LEMMA QuietOK ==
  ASSUME IInv, NEW t \in Threads, NEW r \in ThreadRec, th' = [th EXCEPT ![t] = r],
         Shape(r), Owner(t)', DataInv', PosInv',
         \A f \in Fds : pos_lock[f] \in Threads \ {t} => pos_lock'[f] = pos_lock[f] /\ pos'[f] = pos[f],
         cache' = cache, failed' # "page", r.page = NoEntry,
         \A e \in Entries : Own(r, e) = Own(th[t], e)
  PROVE  IInv'
<1>1. th'[t] = r /\ \A u \in Threads : u # t => th'[u] = th[u]
  BY DEF IInv, TypeInv
<1>2. HeldBy' = HeldBy
  BY <1>1, HeldSame
<1>3. CacheOK(cache', HeldBy')
  BY <1>2 DEF IInv, PageInv
<1>4. Keeps(cache, cache', HeldBy)
  BY DEF Keeps
<1> QED BY <1>3, <1>4, StepOK

-----------------------------------------------------------------------------
(* Calls, and the steps that leave the page cache alone.                   *)

LEMMA OwnsNothing ==
  ASSUME NEW r, r.page = NoEntry, r.pre = NoEntry, r.pc # "drop"
  PROVE  \A e \in Entries : Own(r, e) = 0
BY EntryNumbers DEF Own, One

LEMMA CallOK ==
  ASSUME IInv, failed = "none", NEW t \in Threads, NEW op \in {"read", "write"}, NEW f \in Fds,
         NEW n \in 1 .. MaxCount, Call(t, op, f, n)
  PROVE  IInv'
<1>1. PICK w : w = WriteId(f)
  OBVIOUS
<1>2. w \in Int
  BY <1>1 DEF WriteId, IInv, TypeInv, DataInv
<1>3. PICK r : r = [Idle EXCEPT !.pc = "lock", !.op = op, !.fd = f, !.id = w, !.end = n]
  OBVIOUS
<1>4. th' = [th EXCEPT ![t] = r]
  BY <1>1, <1>3 DEF Call
<1>5. /\ r \in ThreadRec /\ r.pc = "lock" /\ r.op = op /\ r.fd = f /\ r.hold = "none"
      /\ r.page = NoEntry /\ r.pre = NoEntry /\ r.got = <<>>
  <2>1. r = [pc |-> "lock", op |-> op, fd |-> f, id |-> w, hold |-> "none", start |-> 0, next |-> 0,
             end |-> n, page |-> NoEntry, pre |-> NoEntry, put |-> NoEntry, then |-> "idle",
             got |-> <<>>]
    BY <1>3 DEF Idle
  <2>2. /\ n \in Nat /\ op \in Ops /\ <<>> \in Seq(Int) /\ "lock" \in Points /\ "idle" \in Points
        /\ "none" \in {"none", "rd", "wr"}
    BY BoundAssumption DEF Ops, Points
  <2> QED BY <1>2, <2>1, <2>2 DEF ThreadRec
<1>6. Shape(r)
  BY <1>5 DEF Shape, Waiting, Inside, Finishing, Exclusive
<1>7. th'[t] = r /\ Shape(th[t]) /\ th[t].pc = "idle"
  BY <1>4 DEF IInv, TypeInv, Call
<1>8. pos_lock'[f] = t /\ PosInv'
  BY DEF Call, IInv, TypeInv, PosInv
<1>9. Owner(t)'
  BY <1>5, <1>7, <1>8 DEF Owner, Inside, Finishing
<1>10. DataInv'
  BY DEF Call, IInv, TypeInv, DataInv, fileVars, dirtyVars
<1>11. \A g \in Fds : pos_lock[g] \in Threads \ {t} => pos_lock'[g] = pos_lock[g] /\ pos'[g] = pos[g]
  BY ThreadAssumption DEF Call, IInv, TypeInv, PosInv
<1>12. th[t].page = NoEntry /\ th[t].pre = NoEntry
  BY <1>7 DEF Shape, Inside
<1>13. \A e \in Entries : Own(r, e) = Own(th[t], e)
  BY <1>5, <1>7, <1>12, OwnsNothing
<1>14. cache' = cache /\ failed' # "page"
  BY DEF Call
<1> QED BY <1>4, <1>5, <1>6, <1>8, <1>9, <1>10, <1>11, <1>13, <1>14, QuietOK

\* The three ways to begin: from is the descriptor's position.
LEMMA BeginOK ==
  ASSUME IInv, NEW t \in Threads, th[t].pc = "lock", NEW lock \in {"rd", "wr"},
         NEW from \in 0 .. NumBlocks, NEW to \in 0 .. NumBlocks,
         th' = [th EXCEPT ![t].hold = lock, ![t].start = from, ![t].next = from, ![t].end = to,
                          ![t].pc = IF from < to THEN "get" ELSE "unlock"],
         pos' = [pos EXCEPT ![th[t].fd] = from],
         UNCHANGED <<cache, fileVars, dirtyVars, pos_lock, ops, failed, hist>>, failed = "none"
  PROVE  IInv'
<1>1. th[t] \in ThreadRec /\ Shape(th[t]) /\ Owner(t) /\ NumBlocks \in Nat
  BY SizeAssumption DEF IInv, TypeInv
<1>2. PICK q : q = IF from < to THEN "get" ELSE "unlock"
  OBVIOUS
<1>3. PICK r : r = [th[t] EXCEPT !.hold = lock, !.start = from, !.next = from, !.end = to, !.pc = q]
  OBVIOUS
<1>4. th' = [th EXCEPT ![t] = r]
  BY <1>2, <1>3 DEF IInv, TypeInv
<1>5. /\ r.pc = q /\ r.op = th[t].op /\ r.fd = th[t].fd /\ r.hold = lock /\ r.start = from
      /\ r.next = from /\ r.end = to /\ r.page = th[t].page /\ r.pre = th[t].pre
      /\ r.got = th[t].got /\ r.put = th[t].put /\ r.then = th[t].then
  BY <1>1, <1>3 DEF ThreadRec
<1>6. r \in ThreadRec
  <2>1. from \in Nat /\ to \in Nat /\ q \in Points /\ lock \in {"none", "rd", "wr"}
    BY <1>1, <1>2 DEF Points
  <2> QED BY <1>1, <1>3, <2>1 DEF ThreadRec
<1>7. /\ th[t].op \in {"read", "write"} /\ th[t].fd \in Fds
      /\ th[t].page = NoEntry /\ th[t].pre = NoEntry
  BY <1>1 DEF Shape, Inside, Finishing
<1>8. Shape(r)
  BY <1>1, <1>2, <1>5, <1>7 DEF Shape, Waiting, Inside, Finishing, Exclusive
<1>9. th'[t] = r
  BY <1>4 DEF IInv, TypeInv
<1>10. /\ th[t].got = <<>> /\ pos_lock[th[t].fd] = t /\ pos'[th[t].fd] = from /\ PosInv'
       /\ pos_lock' = pos_lock
  BY <1>1, <1>7 DEF IInv, TypeInv, PosInv, Owner, Exclusive
<1>11. Owner(t)'
  <2>1. pos_lock'[r.fd] = t /\ pos'[r.fd] = from
    BY <1>5, <1>10
  <2>2. r.start + Len(r.got) = r.next
    BY <1>5, <1>10
  <2>3. r.pc # "lock"
    BY <1>2, <1>5
  <2> QED BY <1>5, <1>9, <2>1, <2>2, <2>3 DEF Owner
<1>12. DataInv'
  BY DEF IInv, TypeInv, DataInv, fileVars, dirtyVars
<1>13. \A g \in Fds : pos_lock[g] \in Threads \ {t} => pos_lock'[g] = pos_lock[g] /\ pos'[g] = pos[g]
  BY <1>10 DEF IInv, TypeInv, PosInv
<1>14. \A e \in Entries : Own(r, e) = Own(th[t], e)
  <2>1. r.pc # "drop"
    BY <1>2, <1>5
  <2> QED BY <1>5, <1>7, <2>1, OwnsNothing
<1>15. cache' = cache /\ failed' # "page" /\ r.page = NoEntry
  BY <1>5, <1>7
<1> QED BY <1>4, <1>6, <1>8, <1>10, <1>11, <1>12, <1>13, <1>14, <1>15, QuietOK

LEMMA BeginsOK ==
  ASSUME IInv, failed = "none", NEW t \in Threads, ReadBegin(t) \/ AppendBegin(t) \/ WriteBegin(t)
  PROVE  IInv'
<1>1. /\ th[t] \in ThreadRec /\ Shape(th[t]) /\ th[t].pc = "lock" /\ NumBlocks \in Nat
      /\ size \in 0 .. NumBlocks
  BY SizeAssumption DEF IInv, TypeInv, DataInv, ReadBegin, AppendBegin, WriteBegin
<1>2. th[t].end \in Nat /\ th[t].fd \in Fds
  BY <1>1 DEF Shape, ThreadRec
<1>3. pos[th[t].fd] \in 0 .. NumBlocks /\ pos \in [Fds -> 0 .. NumBlocks]
  BY <1>2, SMTT(40) DEF IInv, TypeInv, PosInv
<1>4. CASE ReadBegin(t)
  <2>1. PICK from, to : /\ from = pos[th[t].fd]
                        /\ to = IF from + th[t].end < size THEN from + th[t].end ELSE size
    OBVIOUS
  <2>2. from \in 0 .. NumBlocks /\ to \in 0 .. NumBlocks
    BY <1>1, <1>2, <1>3, <2>1
  <2>3. th' = [th EXCEPT ![t].hold = "rd", ![t].start = from, ![t].next = from, ![t].end = to,
                         ![t].pc = IF from < to THEN "get" ELSE "unlock"]
    BY <1>4, <2>1 DEF ReadBegin
  <2>4. /\ pos' = [pos EXCEPT ![th[t].fd] = from]
        /\ UNCHANGED <<cache, fileVars, dirtyVars, pos_lock, ops, failed, hist>>
    BY <1>2, <1>3, <1>4, <2>1, SMTT(40) DEF ReadBegin, posVars
  <2> QED BY <1>1, <2>2, <2>3, <2>4, BeginOK
<1>5. CASE AppendBegin(t)
  <2>1. PICK to : to = IF size + th[t].end < NumBlocks THEN size + th[t].end ELSE NumBlocks
    OBVIOUS
  <2>2. to \in 0 .. NumBlocks
    BY <1>1, <1>2, <2>1
  <2>3. th' = [th EXCEPT ![t].hold = "wr", ![t].start = size, ![t].next = size, ![t].end = to,
                         ![t].pc = IF size < to THEN "get" ELSE "unlock"]
    BY <1>5, <2>1 DEF AppendBegin, WriteAt
  <2>4. /\ pos' = [pos EXCEPT ![th[t].fd] = size]
        /\ UNCHANGED <<cache, fileVars, dirtyVars, pos_lock, ops, failed, hist>>
    BY <1>5 DEF AppendBegin
  <2> QED BY <1>1, <2>2, <2>3, <2>4, BeginOK
<1>6. CASE WriteBegin(t)
  <2>1. PICK from, to : /\ from = pos[th[t].fd]
                        /\ to = IF from + th[t].end < NumBlocks THEN from + th[t].end ELSE NumBlocks
    OBVIOUS
  <2>2. from \in 0 .. NumBlocks /\ to \in 0 .. NumBlocks
    BY <1>1, <1>2, <1>3, <2>1
  <2>3. th' = [th EXCEPT ![t].hold = "rd", ![t].start = from, ![t].next = from, ![t].end = to,
                         ![t].pc = IF from < to THEN "get" ELSE "unlock"]
    BY <1>6, <2>1 DEF WriteBegin, WriteAt
  <2>4. /\ pos' = [pos EXCEPT ![th[t].fd] = from]
        /\ UNCHANGED <<cache, fileVars, dirtyVars, pos_lock, ops, failed, hist>>
    BY <1>2, <1>3, <1>6, <2>1 DEF WriteBegin, posVars
  <2> QED BY <1>1, <2>2, <2>3, <2>4, BeginOK
<1> QED BY <1>4, <1>5, <1>6

\* A thread goes on from one point to another of the same part of its call.
LEMMA GoOK ==
  ASSUME IInv, NEW t \in Threads, NEW r \in ThreadRec, th' = [th EXCEPT ![t] = r], Shape(r),
         r.page = NoEntry, r.fd = th[t].fd, r.start = th[t].start, r.op = th[t].op,
         r.got = th[t].got, r.next = th[t].next,
         ~Waiting(r), ~Waiting(th[t]), Exclusive(r) <=> Exclusive(th[t]),
         \A e \in Entries : Own(r, e) = Own(th[t], e),
         DataInv', UNCHANGED posVars, cache' = cache, failed' # "page"
  PROVE  IInv'
<1>1. th[t] \in ThreadRec /\ Shape(th[t]) /\ Owner(t) /\ th'[t] = r
  BY DEF IInv, TypeInv
<1>4. Inside(r) \/ Finishing(r) => Inside(th[t]) \/ Finishing(th[t])
  BY <1>1 DEF Shape, Waiting, Inside, Finishing, Exclusive
<1>5. Owner(t)'
  BY <1>1, <1>4 DEF Owner, Waiting, posVars
<1>6. PosInv'
  BY DEF IInv, TypeInv, PosInv, posVars
<1>7. \A f \in Fds : pos_lock[f] \in Threads \ {t} => pos_lock'[f] = pos_lock[f] /\ pos'[f] = pos[f]
  BY DEF posVars
<1> QED BY <1>5, <1>6, <1>7, QuietOK

LEMMA LastPageOK ==
  ASSUME IInv, failed = "none", NEW t \in Threads, LastPage(t)
  PROVE  IInv'
<1>1. th[t] \in ThreadRec /\ Shape(th[t]) /\ th[t].pc = "last" /\ "drop" \in Points /\ "unlock" \in Points
  BY DEF IInv, TypeInv, LastPage, Points
<1>2. PICK r : r = [th[t] EXCEPT !.put = th[t].pre, !.pre = NoEntry, !.pc = "drop", !.then = "unlock"]
  OBVIOUS
<1>3. th' = [th EXCEPT ![t] = r] /\ r \in ThreadRec
  BY <1>1, <1>2 DEF LastPage, IInv, TypeInv, ThreadRec
<1>4. /\ r.pc = "drop" /\ r.then = "unlock" /\ r.put = th[t].pre /\ r.pre = NoEntry
      /\ r.page = th[t].page /\ r.hold = th[t].hold /\ r.op = th[t].op /\ r.fd = th[t].fd
      /\ r.next = th[t].next /\ r.end = th[t].end /\ r.start = th[t].start /\ r.got = th[t].got
  BY <1>1, <1>2 DEF ThreadRec
<1>5. /\ Shape(r) /\ (Exclusive(r) <=> Exclusive(th[t])) /\ r.page = NoEntry
      /\ ~Waiting(r) /\ ~Waiting(th[t])
  BY <1>1, <1>4 DEF Shape, Waiting, Inside, Finishing, Exclusive
<1>6. \A e \in Entries : Own(r, e) = Own(th[t], e)
  BY <1>1, <1>4, <1>5, EntryNumbers DEF Own, One
<1>7. DataInv' /\ UNCHANGED posVars /\ cache' = cache /\ failed' # "page"
  BY DEF LastPage, IInv, TypeInv, DataInv, fileVars, dirtyVars
<1> QED BY <1>3, <1>4, <1>5, <1>6, <1>7, GoOK

LEMMA UnlockFileOK ==
  ASSUME IInv, failed = "none", NEW t \in Threads, UnlockFile(t)
  PROVE  IInv'
<1>1. /\ th[t] \in ThreadRec /\ Shape(th[t]) /\ th[t].pc = "unlock" /\ "mark" \in Points
      /\ "advance" \in Points /\ NumBlocks \in Nat
  BY SizeAssumption DEF IInv, TypeInv, UnlockFile, Points
<1>2. PICK r : r = [th[t] EXCEPT !.hold = "none", !.pc = "mark", !.then = "advance"]
  OBVIOUS
<1>3. th' = [th EXCEPT ![t] = r] /\ r \in ThreadRec
  BY <1>1, <1>2 DEF UnlockFile, IInv, TypeInv, ThreadRec
<1>4. /\ r.pc = "mark" /\ r.then = "advance" /\ r.put = th[t].put /\ r.pre = th[t].pre
      /\ r.page = th[t].page /\ r.hold = "none" /\ r.op = th[t].op /\ r.fd = th[t].fd
      /\ r.next = th[t].next /\ r.end = th[t].end /\ r.start = th[t].start /\ r.got = th[t].got
  BY <1>1, <1>2 DEF ThreadRec
<1>5. /\ Shape(r) /\ (Exclusive(r) <=> Exclusive(th[t])) /\ r.page = NoEntry /\ r.pre = NoEntry
      /\ ~Waiting(r) /\ ~Waiting(th[t]) /\ th[t].end <= NumBlocks
  BY <1>1, <1>4 DEF Shape, Waiting, Inside, Finishing, Exclusive
<1>6. size' \in 0 .. NumBlocks
  <2>1. size \in 0 .. NumBlocks /\ th[t].end \in Nat
    BY <1>1 DEF IInv, TypeInv, DataInv, ThreadRec
  <2> QED BY <1>1, <1>5, <2>1 DEF UnlockFile, set_cur_size_if_larger
<1>7. DataInv' /\ UNCHANGED posVars /\ cache' = cache /\ failed' # "page"
  BY <1>6 DEF UnlockFile, IInv, TypeInv, DataInv, dirtyVars
<1>8. \A e \in Entries : Own(r, e) = Own(th[t], e)
  BY <1>1, <1>4, <1>5, OwnsNothing
<1> QED BY <1>3, <1>4, <1>5, <1>7, <1>8, GoOK

\* The steps of mark_dirty and clear_dirty: q is where the thread goes.
LEMMA FlagOK ==
  ASSUME IInv, failed = "none", NEW t \in Threads, NEW q,
         \/ th[t].pc \in {"mark", "add"} /\ q \in {"add", th[t].then}
         \/ th[t].pc \in {"fsync", "remove"} /\ q \in {"remove", "write_back"},
         Goto(t, q), is_dirty' \in BOOLEAN, dirty_files' \in BOOLEAN,
         UNCHANGED <<cache, fileVars, posVars, ops, hist>>, failed' # "page"
  PROVE  IInv'
<1>1. th[t] \in ThreadRec /\ Shape(th[t])
  BY DEF IInv, TypeInv
<1>2. /\ q \in Points \ {"idle", "lock", "drop"} /\ th[t].pc \notin {"idle", "lock", "drop"}
      /\ th[t].pc \in {"mark", "add"} => th[t].then \in {"advance", "return"}
      /\ th[t].page = NoEntry /\ th[t].pre = NoEntry
  BY <1>1 DEF Shape, Waiting, Inside, Finishing, Exclusive, Points
<1>3. PICK r : r = [th[t] EXCEPT !.pc = q]
  OBVIOUS
<1>4. th' = [th EXCEPT ![t] = r] /\ r \in ThreadRec
  BY <1>1, <1>2, <1>3 DEF Goto, IInv, TypeInv, ThreadRec
<1>5. /\ r.pc = q /\ r.then = th[t].then /\ r.put = th[t].put /\ r.pre = th[t].pre
      /\ r.page = th[t].page /\ r.hold = th[t].hold /\ r.op = th[t].op /\ r.fd = th[t].fd
      /\ r.next = th[t].next /\ r.end = th[t].end /\ r.start = th[t].start /\ r.got = th[t].got
  BY <1>1, <1>3 DEF ThreadRec
<1>6. /\ Inside(r) <=> Inside(th[t])
      /\ Waiting(r) <=> Waiting(th[t])
      /\ Finishing(r) <=> Finishing(th[t])
      /\ Exclusive(r) <=> Exclusive(th[t])
      /\ ~Inside(r) /\ ~Waiting(r)
  BY <1>1, <1>2, <1>5 DEF Waiting, Inside, Finishing, Exclusive
<1>7. Shape(r)
  <2>1. r.pc \notin {"get", "copy", "last", "drop", "unpin", "lock", "unlock"}
    BY <1>6 DEF Inside, Waiting
  <2> QED BY <1>1, <1>5, <1>6, <2>1 DEF Shape
<1>8. DataInv' /\ UNCHANGED posVars /\ cache' = cache
  BY DEF IInv, TypeInv, DataInv, fileVars
<1>9. \A e \in Entries : Own(r, e) = Own(th[t], e)
  BY <1>2, <1>5, OwnsNothing
<1>10. (Exclusive(r) <=> Exclusive(th[t])) /\ ~Waiting(r) /\ ~Waiting(th[t])
  BY <1>6
<1> QED BY <1>2, <1>4, <1>5, <1>7, <1>8, <1>9, <1>10, GoOK

LEMMA FlagsOK ==
  ASSUME IInv, failed = "none", NEW t \in Threads,
         MarkDirty(t) \/ AddToDirtyFiles(t) \/ ClearDirty(t) \/ RemoveFromDirtyFiles(t)
  PROVE  IInv'
<1>1. is_dirty \in BOOLEAN /\ dirty_files \in BOOLEAN
  BY DEF IInv, TypeInv, DataInv
<1>2. CASE MarkDirty(t)
  <2>1. PICK q : q = IF is_dirty THEN th[t].then ELSE "add"
    OBVIOUS
  <2>2. Goto(t, q) /\ q \in {"add", th[t].then}
    BY <1>2, <2>1 DEF MarkDirty
  <2>3. /\ th[t].pc \in {"mark", "add"} /\ is_dirty' \in BOOLEAN /\ dirty_files' \in BOOLEAN
        /\ UNCHANGED <<cache, fileVars, posVars, ops, hist>> /\ failed' # "page"
    BY <1>1, <1>2 DEF MarkDirty
  <2> QED BY <2>2, <2>3, FlagOK
<1>3. CASE AddToDirtyFiles(t)
  <2>1. Goto(t, th[t].then) /\ th[t].pc \in {"mark", "add"}
    BY <1>3 DEF AddToDirtyFiles
  <2>2. /\ is_dirty' \in BOOLEAN /\ dirty_files' \in BOOLEAN
        /\ UNCHANGED <<cache, fileVars, posVars, ops, hist>> /\ failed' # "page"
    BY <1>1, <1>3 DEF AddToDirtyFiles
  <2>3. PICK q : q = th[t].then
    OBVIOUS
  <2> QED BY <2>1, <2>2, <2>3, FlagOK
<1>4. CASE ClearDirty(t)
  <2>1. PICK q : q = IF is_dirty THEN "remove" ELSE "write_back"
    OBVIOUS
  <2>2. Goto(t, q) /\ q \in {"remove", "write_back"}
    BY <1>4, <2>1 DEF ClearDirty
  <2>3. /\ th[t].pc \in {"fsync", "remove"} /\ is_dirty' \in BOOLEAN /\ dirty_files' \in BOOLEAN
        /\ UNCHANGED <<cache, fileVars, posVars, ops, hist>> /\ failed' # "page"
    BY <1>1, <1>4 DEF ClearDirty
  <2> QED BY <2>2, <2>3, FlagOK
<1>5. CASE RemoveFromDirtyFiles(t)
  <2>1. Goto(t, "write_back") /\ th[t].pc \in {"fsync", "remove"}
    BY <1>5 DEF RemoveFromDirtyFiles
  <2>2. /\ is_dirty' \in BOOLEAN /\ dirty_files' \in BOOLEAN
        /\ UNCHANGED <<cache, fileVars, posVars, ops, hist>> /\ failed' # "page"
    BY <1>1, <1>5 DEF RemoveFromDirtyFiles
  <2> QED BY <2>1, <2>2, FlagOK
<1> QED BY <1>2, <1>3, <1>4, <1>5

LEMMA IdleThread ==
  /\ Idle \in ThreadRec /\ Shape(Idle)
  /\ Idle.pc = "idle" /\ Idle.page = NoEntry /\ Idle.pre = NoEntry
<1>1. /\ 0 \in Nat /\ 0 \in Int /\ <<>> \in Seq(Int) /\ "idle" \in Points /\ "none" \in Ops
      /\ "none" \in {"none", "rd", "wr"} /\ NoEntry \in Entries \cup {NoEntry}
      /\ NoThread \in Fds \cup {NoThread}
  BY DEF Points, Ops
<1>2. Idle \in ThreadRec
  BY <1>1 DEF Idle, ThreadRec
<1>3. Idle.pc = "idle" /\ Idle.page = NoEntry /\ Idle.pre = NoEntry /\ Idle.hold = "none"
  BY DEF Idle
<1>4. Shape(Idle)
  BY <1>3 DEF Shape, Waiting, Inside, Finishing, Exclusive
<1> QED BY <1>2, <1>3, <1>4

LEMMA AdvanceOK ==
  ASSUME IInv, failed = "none", NEW t \in Threads, Advance(t)
  PROVE  IInv'
<1>1. /\ th[t] \in ThreadRec /\ Shape(th[t]) /\ Owner(t) /\ th[t].pc = "advance"
      /\ NumBlocks \in Nat
  BY SizeAssumption DEF IInv, TypeInv, Advance
<1>2. /\ th[t].fd \in Fds /\ th[t].page = NoEntry /\ th[t].pre = NoEntry
      /\ th[t].op \in {"read", "write"} /\ th[t].next <= NumBlocks /\ th[t].end <= NumBlocks
  BY <1>1 DEF Shape, Inside, Finishing
<1>3. /\ pos_lock[th[t].fd] = t /\ pos[th[t].fd] = th[t].start
      /\ th[t].op = "read" => th[t].start + Len(th[t].got) = th[t].next
  BY <1>1 DEF Owner, Finishing, Exclusive
<1>4. th[t].start \in Nat /\ th[t].next \in Nat /\ th[t].end \in Nat /\ Len(th[t].got) \in Nat
  BY <1>1 DEF ThreadRec
<1>5. pos[th[t].fd] + Moved(t) \in 0 .. NumBlocks
  BY <1>1, <1>2, <1>3, <1>4, SMTT(40) DEF Moved
<1>6. PosInv'
  BY <1>2, <1>5 DEF Advance, IInv, TypeInv, PosInv
<1>7. \A g \in Fds : pos_lock[g] \in Threads \ {t} => pos_lock'[g] = pos_lock[g] /\ pos'[g] = pos[g]
  BY <1>2, <1>3 DEF Advance, IInv, TypeInv, PosInv
<1>8. th' = [th EXCEPT ![t] = Idle] /\ th'[t] = Idle
  BY DEF Advance, IInv, TypeInv
<1>9. Owner(t)'
  BY <1>8, IdleThread DEF Owner, Inside, Finishing
<1>10. DataInv' /\ cache' = cache /\ failed' # "page"
  BY DEF Advance, IInv, TypeInv, DataInv, fileVars, dirtyVars
<1>11. \A e \in Entries : Own(Idle, e) = Own(th[t], e)
  BY <1>1, <1>2, IdleThread, OwnsNothing
<1> QED BY <1>6, <1>7, <1>8, <1>9, <1>10, <1>11, IdleThread, QuietOK

LEMMA ReturnOK ==
  ASSUME IInv, failed = "none", NEW t \in Threads, Return(t)
  PROVE  IInv'
<1>1. th[t] \in ThreadRec /\ Shape(th[t]) /\ th[t].pc = "return"
  BY DEF IInv, TypeInv, Return
<1>2. th[t].page = NoEntry /\ th[t].pre = NoEntry
  BY <1>1 DEF Shape, Inside
<1>3. th' = [th EXCEPT ![t] = Idle] /\ th'[t] = Idle
  BY DEF Return, IInv, TypeInv
<1>4. Owner(t)'
  BY <1>3, IdleThread DEF Owner, Inside, Finishing
<1>5. DataInv' /\ cache' = cache /\ failed' # "page" /\ PosInv' /\ UNCHANGED posVars
  BY DEF Return, IInv, TypeInv, DataInv, PosInv, fileVars, dirtyVars, posVars
<1>6. \A e \in Entries : Own(Idle, e) = Own(th[t], e)
  BY <1>1, <1>2, IdleThread, OwnsNothing
<1>7. \A g \in Fds : pos_lock[g] \in Threads \ {t} => pos_lock'[g] = pos_lock[g] /\ pos'[g] = pos[g]
  BY <1>5 DEF posVars
<1> QED BY <1>3, <1>4, <1>5, <1>6, <1>7, IdleThread, QuietOK

LEMMA SetPosOK ==
  ASSUME IInv, failed = "none", NEW t \in Threads, NEW f \in Fds, NEW offset, NEW whence,
         set_rw_pos(t, f, offset, whence)
  PROVE  IInv'
<1>1. th[t] \in ThreadRec /\ Shape(th[t]) /\ Owner(t) /\ th[t].pc = "idle" /\ th' = th
  BY DEF IInv, TypeInv, set_rw_pos
<1>2. th' = [th EXCEPT ![t] = th[t]]
  BY <1>1 DEF IInv, TypeInv
<1>3. PICK v : pos' = [pos EXCEPT ![f] = v]
  BY DEF set_rw_pos
<1>4. PosInv'
  <2>1. pos \in [Fds -> 0 .. NumBlocks] /\ pos'[f] \in 0 .. NumBlocks
    BY DEF set_rw_pos, IInv, TypeInv, PosInv
  <2>2. pos' \in [Fds -> 0 .. NumBlocks]
    BY <1>3, <2>1
  <2> QED BY <2>2 DEF set_rw_pos, IInv, TypeInv, PosInv
<1>5. \A g \in Fds : pos_lock[g] \in Threads \ {t} => pos_lock'[g] = pos_lock[g] /\ pos'[g] = pos[g]
  BY <1>3, ThreadAssumption DEF set_rw_pos, IInv, TypeInv, PosInv
<1>6. Owner(t)'
  BY <1>1 DEF Owner, Inside, Finishing
<1>7. DataInv' /\ cache' = cache /\ failed' # "page"
  BY DEF set_rw_pos, IInv, TypeInv, DataInv, fileVars, dirtyVars
<1>8. th[t].page = NoEntry
  BY <1>1 DEF Shape, Inside
<1> QED BY <1>1, <1>2, <1>4, <1>5, <1>6, <1>7, <1>8, QuietOK

LEMMA CallExclusiveOK ==
  ASSUME IInv, failed = "none", NEW t \in Threads, NEW op \in {"truncate", "fsync"},
         NEW n \in 0 .. NumBlocks, CallExclusive(t, op, n)
  PROVE  IInv'
<1>1. th[t] \in ThreadRec /\ Shape(th[t]) /\ th[t].pc = "idle" /\ NumBlocks \in Nat
  BY SizeAssumption DEF IInv, TypeInv, CallExclusive
<1>2. th[t].page = NoEntry /\ th[t].pre = NoEntry
  BY <1>1 DEF Shape, Inside
<1>3. PICK r : r = [Idle EXCEPT !.pc = op, !.op = op, !.hold = "wr", !.end = n, !.then = "return"]
  OBVIOUS
<1>4. n \in Nat /\ op \in Points /\ op \in Ops /\ "return" \in Points
  BY <1>1 DEF Points, Ops
<1>5. /\ r \in ThreadRec /\ r.pc = op /\ r.op = op /\ r.hold = "wr" /\ r.end = n
      /\ r.page = NoEntry /\ r.pre = NoEntry /\ r.then = "return"
  <2>1. Idle \in ThreadRec /\ Idle.page = NoEntry /\ Idle.pre = NoEntry
    BY IdleThread
  <2> QED BY <1>3, <1>4, <2>1 DEF ThreadRec
<1>6. Shape(r)
  BY <1>1, <1>5 DEF Shape, Waiting, Inside, Finishing, Exclusive
<1>7. th' = [th EXCEPT ![t] = r] /\ th'[t] = r
  BY <1>3 DEF CallExclusive, IInv, TypeInv
<1>8. Owner(t)'
  BY <1>5, <1>7 DEF Owner, Inside, Finishing, Exclusive
<1>9. DataInv' /\ cache' = cache /\ failed' # "page" /\ PosInv' /\ UNCHANGED posVars
  BY DEF CallExclusive, IInv, TypeInv, DataInv, PosInv, fileVars, dirtyVars, posVars
<1>10. \A e \in Entries : Own(r, e) = Own(th[t], e)
  BY <1>1, <1>2, <1>5, OwnsNothing
<1>11. \A g \in Fds : pos_lock[g] \in Threads \ {t} => pos_lock'[g] = pos_lock[g] /\ pos'[g] = pos[g]
  BY <1>9 DEF posVars
<1> QED BY <1>5, <1>6, <1>7, <1>8, <1>9, <1>10, <1>11, QuietOK

-----------------------------------------------------------------------------
(* The steps on pages.                                                     *)

LEMMA GetPageOK ==
  ASSUME IInv, failed = "none", NEW t \in Threads, GetPage(t)
  PROVE  IInv' /\ Retains(cache, cache') /\ Keeps(cache, cache', HeldBy)
<1>1. /\ th[t] \in ThreadRec /\ Shape(th[t]) /\ Owner(t) /\ th[t].pc = "get" /\ NumBlocks \in Nat
      /\ "copy" \in Points
  BY SizeAssumption DEF IInv, TypeInv, GetPage, Points
<1>2. /\ th[t].next < th[t].end /\ th[t].end <= NumBlocks /\ th[t].page = NoEntry
      /\ th[t].next \in Nat /\ th[t].end \in Nat
  BY <1>1 DEF Shape, Inside, ThreadRec
<1>3. PICK b \in Blocks : b = th[t].next
  BY <1>1, <1>2 DEF Blocks
<1>4. CacheOK(cache, HeldBy)
  BY DEF IInv, PageInv
<1>5. /\ GetAsserts(cache, b, expect_size)
      /\ \E e \in Entries :
           /\ e = EntryOf(get(cache, b, expect_size), b)
           /\ get(cache, b, expect_size).ent[e].blkoff = b
           /\ CacheOK(get(cache, b, expect_size), [HeldBy EXCEPT ![e] = @ + 1])
           /\ Keeps(cache, get(cache, b, expect_size), HeldBy)
      /\ Retains(cache, get(cache, b, expect_size))
  BY <1>4, GetOK
<1>6. cache' = get(cache, b, expect_size) /\ failed' # "page"
  BY <1>3, <1>5 DEF GetPage
<1>7. PICK x \in Entries : /\ x = EntryOf(cache', b) /\ cache'.ent[x].blkoff = b
                           /\ CacheOK(cache', [HeldBy EXCEPT ![x] = @ + 1])
                           /\ Keeps(cache, cache', HeldBy)
  BY <1>5, <1>6
<1>8. PICK r : r = [th[t] EXCEPT !.page = x, !.pc = "copy"]
  OBVIOUS
<1>9. th' = [th EXCEPT ![t] = r]
  BY <1>3, <1>7, <1>8 DEF GetPage, IInv, TypeInv
<1>10. r \in ThreadRec
  BY <1>1, <1>8 DEF ThreadRec
<1>11. /\ r.pc = "copy" /\ r.then = th[t].then /\ r.put = th[t].put /\ r.pre = th[t].pre
       /\ r.page = x /\ r.hold = th[t].hold /\ r.op = th[t].op /\ r.fd = th[t].fd
       /\ r.next = th[t].next /\ r.end = th[t].end /\ r.start = th[t].start /\ r.got = th[t].got
  BY <1>1, <1>8 DEF ThreadRec
<1>12. x # NoEntry
  BY EntryNumbers
<1>13. Shape(r)
  BY <1>1, <1>2, <1>11, <1>12 DEF Shape, Waiting, Inside, Finishing, Exclusive
<1>14. th'[t] = r /\ \A u \in Threads : u # t => th'[u] = th[u]
  BY <1>9 DEF IInv, TypeInv
<1>15. \A e \in Entries : Own(r, e) = Own(th[t], e) + One(e = x)
  BY <1>1, <1>2, <1>11, EntryNumbers DEF Own, One
<1>16. HeldBy' = [HeldBy EXCEPT ![x] = @ + 1]
  <2>1. \A e \in Entries : Own(th'[t], e) = Own(th[t], e) + One(e = x)
    BY <1>14, <1>15
  <2> QED BY <1>14, <2>1, HeldMore
<1>17. CacheOK(cache', HeldBy')
  BY <1>7, <1>16
<1>18. DataInv' /\ PosInv' /\ UNCHANGED posVars
  BY DEF GetPage, IInv, TypeInv, DataInv, PosInv, fileVars, dirtyVars, posVars
<1>19. \A g \in Fds : pos_lock[g] \in Threads \ {t} => pos_lock'[g] = pos_lock[g] /\ pos'[g] = pos[g]
  BY <1>18 DEF posVars
<1>20. Owner(t)'
  BY <1>1, <1>11, <1>14, <1>18 DEF Owner, Inside, Finishing, Exclusive, posVars
<1>21. r.page # NoEntry => cache'.ent[r.page].blkoff = r.next
  BY <1>3, <1>7, <1>11
<1>22. IInv'
  BY <1>6, <1>7, <1>9, <1>10, <1>13, <1>17, <1>18, <1>19, <1>20, <1>21, StepOK
<1> QED BY <1>5, <1>6, <1>7, <1>22

\* Setting fields of one entry that no count depends on.
LEMMA Refilled ==
  ASSUME NEW c, NEW h, CacheOK(c, h), NEW e \in Entries, NEW x \in PageEntry,
         x.blkoff = c.ent[e].blkoff, x.live <=> c.ent[e].live, x.ref_count = c.ent[e].ref_count,
         x.is_dirty <=> c.ent[e].is_dirty
  PROVE  CacheOK([c EXCEPT !.ent[e] = x], h)
<1>1. PICK d : d = [c EXCEPT !.ent[e] = x]
  OBVIOUS
<1>2. c \in PageCaches
  BY DEF CacheOK
<1>3. d.ent = [c.ent EXCEPT ![e] = x] /\ d.lru = c.lru /\ d.dirty_pages = c.dirty_pages
  BY <1>1, <1>2 DEF PageCaches
<1>4. d \in PageCaches
  BY <1>1, <1>2 DEF PageCaches
<1>5. \A y \in Entries : d.ent[y] = IF y = e THEN x ELSE c.ent[y]
  BY <1>2, <1>3 DEF PageCaches
<1>6. \A y \in Entries : /\ d.ent[y].blkoff = c.ent[y].blkoff /\ (d.ent[y].live <=> c.ent[y].live)
                         /\ d.ent[y].ref_count = c.ent[y].ref_count
                         /\ (d.ent[y].is_dirty <=> c.ent[y].is_dirty)
  BY <1>5
<1>7. CacheOK(d, h)
  BY <1>3, <1>4, <1>6, SameShape
<1> QED BY <1>1, <1>7

\* The address prepare_page_content reads block b from.
Mapped(b) ==
    IF inode.i_size # 0 /\ b > inode.i_size - 1 THEN INVALID_LPA ELSE inode.addr[b]

LEMMA PrepareOK ==
  ASSUME IInv, NEW e \in Entries, cache.ent[e].live
  PROVE  /\ CacheOK(prepare_page_content(cache, e), HeldBy)
         /\ \A y \in Entries : prepare_page_content(cache, e).ent[y].blkoff = cache.ent[y].blkoff
         /\ prepare_page_content(cache, e).ent[e].live
         /\ prepare_page_content(cache, e).dirty_pages = cache.dirty_pages
         /\ \A y \in Entries : y # e => prepare_page_content(cache, e).ent[y] = cache.ent[y]
         /\ prepare_page_content(cache, e).ent[e].content_state = "ready"
         /\ cache.ent[e].content_state = "ready" => prepare_page_content(cache, e) = cache
         /\ cache.ent[e].content_state # "ready" =>
              /\ prepare_page_content(cache, e).ent[e].lpa = Mapped(cache.ent[e].blkoff)
              /\ Mapped(cache.ent[e].blkoff) # INVALID_LPA =>
                   prepare_page_content(cache, e).ent[e].page = ssd[Mapped(cache.ent[e].blkoff)]
         /\ \/ prepare_page_content(cache, e).ent[e].page = cache.ent[e].page
            \/ \E i \in 1 .. Len(ssd) : prepare_page_content(cache, e).ent[e].page = ssd[i]
<1>1. CacheOK(cache, HeldBy)
  BY DEF IInv, PageInv
<1>2. cache \in PageCaches /\ cache.ent[e] \in PageEntry /\ cache.ent[e].blkoff \in Blocks
  BY <1>1 DEF CacheOK, PageCaches, Counted
<1>3. PICK b \in Blocks : b = cache.ent[e].blkoff
  BY <1>2
<1>4. PICK lpa : lpa = IF inode.i_size # 0 /\ b > inode.i_size - 1 THEN INVALID_LPA ELSE inode.addr[b]
  OBVIOUS
<1>5. lpa \in Nat /\ lpa <= Len(ssd) /\ Len(ssd) \in Nat
  <2>1. Len(ssd) \in Nat /\ inode.addr[b] \in Nat /\ inode.addr[b] <= Len(ssd)
    BY DEF IInv, TypeInv, DataInv
  <2> QED BY <1>4, <2>1 DEF INVALID_LPA
<1>6. lpa # INVALID_LPA => ssd[lpa] \in Int
  <2>1. lpa # 0 => lpa \in 1 .. Len(ssd)
    BY <1>5
  <2> QED BY <2>1 DEF INVALID_LPA, IInv, TypeInv, DataInv
<1>7. CASE cache.ent[e].content_state = "ready"
  BY <1>1, <1>7 DEF prepare_page_content
<1>8. CASE cache.ent[e].content_state # "ready"
  <2>1. PICK p : p = IF lpa = INVALID_LPA THEN cache.ent[e].page ELSE ssd[lpa]
    OBVIOUS
  <2>2. p \in Int
    BY <1>2, <1>6, <2>1 DEF PageEntry
  <2>3. PICK x : x = [cache.ent[e] EXCEPT !.content_state = "ready", !.lpa = lpa, !.page = p]
    OBVIOUS
  <2>4. /\ x \in PageEntry /\ x.blkoff = cache.ent[e].blkoff /\ (x.live <=> cache.ent[e].live)
        /\ x.ref_count = cache.ent[e].ref_count /\ (x.is_dirty <=> cache.ent[e].is_dirty)
    BY <1>2, <1>5, <2>2, <2>3 DEF PageEntry
  <2>8. x.content_state = "ready" /\ x.lpa = lpa /\ x.page = p
    BY <1>2, <2>3 DEF PageEntry
  <2>5. prepare_page_content(cache, e) = [cache EXCEPT !.ent[e] = x]
    <3>1. prepare_page_content(cache, e) =
            [cache EXCEPT !.ent[e].content_state = "ready", !.ent[e].lpa = lpa,
                          !.ent[e].page = IF lpa = INVALID_LPA THEN @ ELSE ssd[lpa]]
      BY <1>3, <1>4, <1>8 DEF prepare_page_content
    <3>2. cache.ent \in [Entries -> PageEntry]
      BY <1>2 DEF PageCaches
    <3>3. PICK a : a = [cache.ent[e] EXCEPT !.content_state = "ready", !.lpa = lpa,
                                           !.page = IF lpa = INVALID_LPA THEN @ ELSE ssd[lpa]]
      OBVIOUS
    <3>4. a = x
      BY <1>2, <2>1, <2>3, <3>3 DEF PageEntry
    <3>5. prepare_page_content(cache, e) = [cache EXCEPT !.ent[e] = a]
      <4>1. PICK m : m = [cache.ent EXCEPT ![e].content_state = "ready", ![e].lpa = lpa,
                             ![e].page = IF lpa = INVALID_LPA THEN @ ELSE ssd[lpa]]
        OBVIOUS
      <4>2. prepare_page_content(cache, e) = [cache EXCEPT !.ent = m]
        BY <3>1, <4>1, <1>2 DEF PageCaches
      <4>3. m = [cache.ent EXCEPT ![e] = a]
        BY <3>2, <3>3, <4>1 DEF PageEntry
      <4> QED BY <1>2, <4>2, <4>3 DEF PageCaches
    <3> QED BY <3>4, <3>5
  <2>6. CacheOK([cache EXCEPT !.ent[e] = x], HeldBy)
    BY <1>1, <2>4, Refilled
  <2>7. \A y \in Entries : [cache EXCEPT !.ent[e] = x].ent[y] = IF y = e THEN x ELSE cache.ent[y]
    BY <1>2 DEF PageCaches
  <2>9. [cache EXCEPT !.ent[e] = x].dirty_pages = cache.dirty_pages
    BY <1>2 DEF PageCaches
  <2>10. PICK d : d = prepare_page_content(cache, e)
    OBVIOUS
  <2>11. /\ CacheOK(d, HeldBy) /\ d.dirty_pages = cache.dirty_pages
         /\ \A y \in Entries : d.ent[y] = IF y = e THEN x ELSE cache.ent[y]
    BY <2>5, <2>6, <2>7, <2>9, <2>10
  <2>12. /\ d.ent[e].live /\ \A y \in Entries : d.ent[y].blkoff = cache.ent[y].blkoff
    BY <2>4, <2>11
  <2>13. /\ \A y \in Entries : y # e => d.ent[y] = cache.ent[y]
         /\ d.ent[e].content_state = "ready" /\ d.ent[e].lpa = lpa /\ d.ent[e].page = p
    BY <2>8, <2>11
  <2>14. lpa # INVALID_LPA => p = ssd[lpa]
    BY <2>1
  <2>15. lpa = Mapped(cache.ent[e].blkoff)
    BY <1>3, <1>4 DEF Mapped
  <2>16. /\ d.ent[e].lpa = Mapped(cache.ent[e].blkoff)
         /\ Mapped(cache.ent[e].blkoff) # INVALID_LPA
              => d.ent[e].page = ssd[Mapped(cache.ent[e].blkoff)]
    BY <2>13, <2>14, <2>15
  <2>17. d.ent[e].page = cache.ent[e].page \/ \E i \in 1 .. Len(ssd) : d.ent[e].page = ssd[i]
    <3>1. lpa # INVALID_LPA => lpa \in 1 .. Len(ssd)
      BY <1>5 DEF INVALID_LPA
    <3> QED BY <2>1, <2>13, <3>1
  <2> QED BY <1>8, <2>10, <2>11, <2>12, <2>13, <2>16, <2>17
<1> QED BY <1>7, <1>8

\* The thread's half of CopyPage: g is what a read has copied so far.
LEMMA CopyThread ==
  ASSUME IInv, NEW t \in Threads, th[t].pc = "copy", NEW g \in Seq(Int),
         th[t].op = "read" => Len(g) = Len(th[t].got) + 1,
         NEW n \in Nat, n = th[t].next + 1,
         NEW x \in Points, x = IF n < th[t].end THEN "get" ELSE "last",
         NEW r, r = [th[t] EXCEPT !.pre = th[t].page, !.put = th[t].pre, !.page = NoEntry,
                                  !.next = n, !.pc = "drop", !.then = x, !.got = g],
         th' = [th EXCEPT ![t] = r],
         CacheOK(cache', HeldBy), Keeps(cache, cache', HeldBy), failed' # "page",
         DataInv', UNCHANGED posVars
  PROVE  IInv'
<1>1. /\ th[t] \in ThreadRec /\ Shape(th[t]) /\ Owner(t) /\ NumBlocks \in Nat
      /\ "get" \in Points /\ "last" \in Points /\ "drop" \in Points
  BY SizeAssumption DEF IInv, TypeInv, Points
<1>2. /\ th[t].next < th[t].end /\ th[t].end <= NumBlocks /\ th[t].page # NoEntry
      /\ th[t].next \in Nat /\ th[t].end \in Nat /\ th[t].start \in Nat /\ Len(th[t].got) \in Nat
      /\ th[t].page \in Entries /\ th[t].pre \in Entries \cup {NoEntry}
  BY <1>1 DEF Shape, Inside, ThreadRec
<1>7. r \in ThreadRec
  BY <1>1, <1>2, ZenonT(40) DEF ThreadRec
<1>8. /\ r.pc = "drop" /\ r.then = x /\ r.put = th[t].pre /\ r.pre = th[t].page
      /\ r.page = NoEntry /\ r.hold = th[t].hold /\ r.op = th[t].op /\ r.fd = th[t].fd
      /\ r.next = n /\ r.end = th[t].end /\ r.start = th[t].start /\ r.got = g
  BY <1>1 DEF ThreadRec
<1>9. n <= NumBlocks /\ (x = "get" => n < th[t].end) /\ x \in {"get", "last", "unlock"} /\ x # "unlock"
  <2>1. PICK a \in Nat, b \in Nat, m \in Nat : a = th[t].next /\ b = th[t].end /\ m = NumBlocks
    BY <1>1, <1>2
  <2>2. a < b /\ b <= m /\ n = a + 1
    BY <1>2, <2>1
  <2>3. n <= NumBlocks
    BY <2>1, <2>2
  <2>4. x = "get" \/ x = "last"
    OBVIOUS
  <2> QED BY <2>3, <2>4
<1>10. Shape(r)
  BY <1>1, <1>8, <1>9 DEF Shape, Waiting, Inside, Finishing, Exclusive
<1>11. th'[t] = r /\ \A u \in Threads : u # t => th'[u] = th[u]
  BY DEF IInv, TypeInv
<1>12. Owner(t)'
  <2>1. pos_lock[th[t].fd] = t /\ pos[th[t].fd] = th[t].start
    BY <1>1 DEF Owner, Inside, Exclusive
  <2>2. th[t].op = "read" => th[t].start + Len(th[t].got) = th[t].next
    BY <1>1 DEF Owner, Inside
  <2>3. th[t].op = "read" => th[t].start + Len(g) = n
    <3>1. PICK a \in Nat, b \in Nat, m \in Nat :
            a = th[t].start /\ b = Len(th[t].got) /\ m = th[t].next
      BY <1>2
    <3>2. n = m + 1
      BY <3>1
    <3>3. ASSUME th[t].op = "read" PROVE a + Len(g) = n
      <4>1. Len(g) = b + 1
        BY <3>1, <3>3
      <4>2. a + b = m
        BY <2>2, <3>1, <3>3
      <4> QED BY <3>2, <4>1, <4>2
    <3> QED BY <3>1, <3>3
  <2>4. pos_lock'[r.fd] = t /\ pos'[r.fd] = r.start /\ r.pc # "lock"
    BY <1>8, <2>1 DEF posVars
  <2>5. r.op = "read" => r.start + Len(r.got) = r.next
    BY <1>8, <2>3
  <2> QED BY <1>11, <2>4, <2>5 DEF Owner
<1>13. \A e \in Entries : Own(th'[t], e) = Own(th[t], e)
  BY <1>8, <1>11, EntryNumbers DEF Own, One
<1>14. HeldBy' = HeldBy
  BY <1>11, <1>13, HeldSame
<1>15. CacheOK(cache', HeldBy')
  BY <1>14
<1>16. PosInv'
  BY DEF IInv, TypeInv, PosInv, posVars
<1>17. \A f \in Fds : pos_lock[f] \in Threads \ {t} => pos_lock'[f] = pos_lock[f] /\ pos'[f] = pos[f]
  BY DEF posVars
<1>18. r.page # NoEntry => cache'.ent[r.page].blkoff = r.next
  BY <1>8
<1> QED BY <1>7, <1>10, <1>12, <1>15, <1>16, <1>17, <1>18, StepOK

LEMMA CopyPageOK ==
  ASSUME IInv, failed = "none", NEW t \in Threads, CopyPage(t)
  PROVE  IInv'
<1>1. /\ th[t] \in ThreadRec /\ th[t].pc = "copy" /\ Shape(th[t]) /\ CacheOK(cache, HeldBy)
      /\ hist \in [Blocks -> Seq(Int)] /\ NumBlocks \in Nat
  BY SizeAssumption, ZenonT(40) DEF IInv, TypeInv, DataInv, PageInv, CopyPage
<1>2. PICK e \in Entries : e = th[t].page
  BY <1>1 DEF Shape, ThreadRec
<1>3. HeldBy[e] > 0
  BY <1>2, HeldAny
<1>4. cache.ent[e].live
  <2>1. HeldBy[e] # 0
    BY <1>3
  <2> QED BY <1>1, <2>1 DEF CacheOK, Counted
<1>5. PICK b \in Blocks : b = th[t].next
  <2>1. /\ th[t].next < th[t].end /\ th[t].end <= NumBlocks /\ th[t].next \in Nat /\ th[t].end \in Nat
    BY <1>1 DEF Shape, Inside, ThreadRec
  <2> QED BY <1>1, <2>1 DEF Blocks
<1>6. PICK ready : ready = prepare_page_content(cache, e)
  OBVIOUS
<1>7. /\ CacheOK(ready, HeldBy) /\ ready.ent[e].live
      /\ \A y \in Entries : ready.ent[y].blkoff = cache.ent[y].blkoff
  BY <1>4, <1>6, PrepareOK
<1>8. ready \in PageCaches /\ ready.ent[e] \in PageEntry
  BY <1>7 DEF CacheOK, PageCaches
<1>9. UNCHANGED posVars /\ failed' # "page"
  BY Zenon DEF CopyPage
<1>10. PICK n \in Nat : n = th[t].next + 1
  BY <1>1 DEF ThreadRec
<1>11. PICK x \in Points : x = IF n < th[t].end THEN "get" ELSE "last"
  BY DEF Points
<1>12. CASE th[t].op = "read"
  <2>1. PICK g : g = Append(th[t].got, ready.ent[e].page)
    OBVIOUS
  <2>2. g \in Seq(Int) /\ Len(g) = Len(th[t].got) + 1
    BY <1>1, <1>8, <2>1 DEF PageEntry, ThreadRec
  <2>3. cache' = ready /\ DataInv'
    BY <1>2, <1>6, <1>12 DEF CopyPage, IInv, TypeInv, DataInv, fileVars, dirtyVars
  <2>4. PICK r : r = [th[t] EXCEPT !.pre = th[t].page, !.put = th[t].pre, !.page = NoEntry,
                                   !.next = n, !.pc = "drop", !.then = x, !.got = g]
    OBVIOUS
  <2>6. th' = [th EXCEPT ![t] = r]
    <3>1. th' = [th EXCEPT ![t].pre = e, ![t].put = th[t].pre, ![t].page = NoEntry,
                           ![t].next = n, ![t].pc = "drop", ![t].then = x,
                           ![t].got = Append(@, ready.ent[e].page)]
      BY <1>2, <1>6, <1>10, <1>11, <1>12 DEF CopyPage
    <3> QED BY <1>1, <1>2, <2>1, <2>4, <3>1, ZenonT(40) DEF ThreadRec, IInv, TypeInv
  <2>5. Keeps(cache, cache', HeldBy)
    BY <1>7, <2>3 DEF Keeps
  <2> QED BY <1>1, <1>7, <1>9, <1>10, <1>11, <2>2, <2>3, <2>4, <2>5, <2>6, CopyThread
<1>13. CASE th[t].op = "write"
  <2>1. PICK p : p = [ready.ent[e] EXCEPT !.page = th[t].id]
    OBVIOUS
  <2>2. /\ p \in PageEntry /\ p.blkoff = ready.ent[e].blkoff /\ (p.live <=> ready.ent[e].live)
        /\ p.ref_count = ready.ent[e].ref_count /\ (p.is_dirty <=> ready.ent[e].is_dirty)
    BY <1>1, <1>8, <2>1 DEF PageEntry, ThreadRec
  <2>3. PICK d : d = [ready EXCEPT !.ent[e] = p]
    OBVIOUS
  <2>4. CacheOK(d, HeldBy)
    BY <1>7, <2>2, <2>3, Refilled
  <2>5. \A y \in Entries : d.ent[y].blkoff = cache.ent[y].blkoff
    BY <1>7, <1>8, <2>2, <2>3 DEF PageCaches
  <2>6. CacheOK(mark_dirty(d, e), HeldBy) /\ Keeps(d, mark_dirty(d, e), HeldBy)
    BY <1>3, <2>4, MarkDirtyOK
  <2>7. cache' = mark_dirty(d, e)
    <3>1. d = [ready EXCEPT !.ent[e].page = th[t].id]
      BY <1>8, <2>1, <2>3, SMTT(40) DEF PageCaches
    <3>2. cache' = mark_dirty([ready EXCEPT !.ent[e].page = th[t].id], e)
      BY <1>2, <1>6, <1>13 DEF CopyPage
    <3> QED BY <3>1, <3>2
  <2>8. CacheOK(cache', HeldBy) /\ Keeps(cache, cache', HeldBy)
    BY <2>5, <2>6, <2>7, SMTT(40) DEF Keeps
  <2>9. hist' = [hist EXCEPT ![b] = Append(@, th[t].id)]
    BY <1>5, <1>13 DEF CopyPage
  <2>10. hist' \in [Blocks -> Seq(Int)]
    <3>1. Append(hist[b], th[t].id) \in Seq(Int)
      BY <1>1, SMTT(40) DEF ThreadRec
    <3> QED BY <1>1, <2>9, <3>1
  <2>11. DataInv'
    <3>1. UNCHANGED <<size, inode, ssd, valid, is_dirty, dirty_files, ops>>
      BY Zenon DEF CopyPage, fileVars, dirtyVars
    <3>2. DataInv
      BY DEF IInv, TypeInv
    <3> QED BY <2>10, <3>1, <3>2 DEF DataInv
  <2>12. PICK r : r = [th[t] EXCEPT !.pre = th[t].page, !.put = th[t].pre, !.page = NoEntry,
                                    !.next = n, !.pc = "drop", !.then = x, !.got = th[t].got]
    OBVIOUS
  <2>14. th' = [th EXCEPT ![t] = r]
    <3>1. PICK q : q = [th[t] EXCEPT !.pre = e, !.put = th[t].pre, !.page = NoEntry,
                                     !.next = n, !.pc = "drop", !.then = x]
      OBVIOUS
    <3>2. th' = [th EXCEPT ![t].pre = e, ![t].put = th[t].pre, ![t].page = NoEntry,
                           ![t].next = n, ![t].pc = "drop", ![t].then = x]
      BY <1>2, <1>10, <1>11, <1>13 DEF CopyPage
    <3>3. th' = [th EXCEPT ![t] = q]
      BY <3>1, <3>2 DEF IInv, TypeInv
    <3>4. q = r
      BY <1>1, <1>2, <2>12, <3>1 DEF ThreadRec
    <3> QED BY <3>3, <3>4
  <2>13. th[t].got \in Seq(Int) /\ th[t].op # "read"
    BY <1>1, <1>13 DEF ThreadRec
  <2> QED BY <1>1, <1>9, <1>10, <1>11, <2>8, <2>11, <2>12, <2>13, <2>14, CopyThread
<1> QED BY <1>1, <1>12, <1>13, SMTT(40) DEF Shape, Inside

\* Back in the loop, or past it, once a handle is dropped.
LEMMA Resumed ==
  ASSUME NEW s \in ThreadRec, Shape(s), s.pc \in {"drop", "unpin"}, NEW r \in ThreadRec,
         r.pc = s.then, r.page = s.page, r.pre = s.pre, r.op = s.op, r.fd = s.fd, r.next = s.next,
         r.end = s.end, r.hold = s.hold, r.then = s.then
  PROVE  /\ Shape(r) /\ s.page = NoEntry /\ r.page = NoEntry
         /\ ~Waiting(r) /\ ~Waiting(s) /\ (Exclusive(r) <=> Exclusive(s)) /\ r.pc # "drop"
<1>1. /\ s.then \in {"get", "last", "unlock"} /\ (s.then = "unlock" => s.pre = NoEntry)
      /\ s.page = NoEntry /\ (s.then = "get" => s.next < s.end)
      /\ Inside(s) /\ ~Exclusive(s) /\ ~Finishing(s) /\ ~Waiting(s)
  BY DEF Shape, Inside, Exclusive, Finishing, Waiting
<1>2. Inside(r) /\ ~Exclusive(r) /\ ~Finishing(r) /\ ~Waiting(r) /\ r.pc # "drop"
  BY <1>1 DEF Inside, Exclusive, Finishing, Waiting
<1>3. Shape(r)
  BY <1>1, <1>2 DEF Shape
<1> QED BY <1>1, <1>2, <1>3

LEMMA DropHandleOK ==
  ASSUME IInv, failed = "none", NEW t \in Threads, DropHandle(t)
  PROVE  IInv'
<1>1. /\ th[t] \in ThreadRec /\ Shape(th[t]) /\ Owner(t) /\ th[t].pc \in {"drop", "unpin"}
      /\ th[t].pc = "drop" /\ th[t].put \in Entries \cup {NoEntry} /\ th[t].page = NoEntry
  BY DEF IInv, TypeInv, DropHandle, ThreadRec, Shape
<1>2. DataInv' /\ UNCHANGED posVars /\ failed' # "page" /\ PosInv'
  BY DEF DropHandle, IInv, TypeInv, DataInv, PosInv, fileVars, dirtyVars, posVars
<1>3. CASE th[t].put = NoEntry
  <2>1. PICK r : r = [th[t] EXCEPT !.put = NoEntry, !.pc = th[t].then]
    OBVIOUS
  <2>2. r = [th[t] EXCEPT !.pc = th[t].then]
    BY <1>1, <1>3, <2>1 DEF ThreadRec
  <2>3. th' = [th EXCEPT ![t] = r] /\ cache' = cache
    BY <1>3, <2>2 DEF DropHandle, Goto, IInv, TypeInv
  <2>4. /\ r \in ThreadRec /\ Shape(r) /\ r.page = NoEntry /\ r.put = NoEntry
        /\ ~Waiting(r) /\ ~Waiting(th[t]) /\ (Exclusive(r) <=> Exclusive(th[t])) /\ r.pc # "drop"
        /\ r.pre = th[t].pre /\ r.fd = th[t].fd /\ r.start = th[t].start /\ r.op = th[t].op
        /\ r.got = th[t].got /\ r.next = th[t].next
    <3>1. /\ r.pc = th[t].then /\ r.put = NoEntry /\ r.page = th[t].page /\ r.pre = th[t].pre /\ r.fd = th[t].fd
          /\ r.start = th[t].start /\ r.op = th[t].op /\ r.got = th[t].got /\ r.next = th[t].next
          /\ r.end = th[t].end /\ r.hold = th[t].hold /\ r.then = th[t].then /\ r \in ThreadRec
      BY <1>1, <2>1 DEF ThreadRec
    <3> QED BY <1>1, <3>1, Resumed
  <2>5. \A e \in Entries : Own(r, e) = Own(th[t], e)
    BY <1>1, <1>3, <2>4, EntryNumbers DEF Own, One
  <2> QED BY <1>2, <2>3, <2>4, <2>5, GoOK
<1>4. CASE th[t].put # NoEntry
  <2>1. PICK x \in Entries : x = th[t].put
    BY <1>1, <1>4
  <2>2. PICK r : r = IF cache.ent[x].ref_count = 1 THEN [th[t] EXCEPT !.pc = "unpin"]
                     ELSE [th[t] EXCEPT !.put = NoEntry, !.pc = th[t].then]
    OBVIOUS
  <2>3. th' = [th EXCEPT ![t] = r] /\ cache' = DropRef(cache, x)
    <3>1. cache' = DropRef(cache, x)
      BY <1>4, <2>1 DEF DropHandle
    <3>2. CASE cache.ent[x].ref_count = 1
      <4>1. th' = [th EXCEPT ![t].pc = "unpin"]
        BY <1>4, <2>1, <3>2 DEF DropHandle
      <4> QED BY <2>2, <3>1, <3>2, <4>1 DEF IInv, TypeInv
    <3>3. CASE cache.ent[x].ref_count # 1
      <4>1. th' = [th EXCEPT ![t].put = NoEntry, ![t].pc = th[t].then]
        BY <1>4, <2>1, <3>3 DEF DropHandle
      <4> QED BY <2>2, <3>1, <3>3, <4>1 DEF IInv, TypeInv
    <3> QED BY <3>2, <3>3
  <2>4. /\ r \in ThreadRec /\ Shape(r) /\ r.page = NoEntry /\ r.pc # "drop"
        /\ ~Waiting(r) /\ ~Waiting(th[t]) /\ (Exclusive(r) <=> Exclusive(th[t]))
        /\ r.pre = th[t].pre /\ r.fd = th[t].fd /\ r.start = th[t].start /\ r.op = th[t].op
        /\ r.got = th[t].got /\ r.next = th[t].next
    <3>1. CASE cache.ent[x].ref_count = 1
      <4>1. "unpin" \in Points
        BY DEF Points
      <4>2. r = [th[t] EXCEPT !.pc = "unpin"]
        BY <2>2, <3>1
      <4>3. /\ r \in ThreadRec /\ r.pc = "unpin" /\ r.page = th[t].page /\ r.put = th[t].put
            /\ r.pre = th[t].pre /\ r.fd = th[t].fd /\ r.start = th[t].start /\ r.op = th[t].op
            /\ r.got = th[t].got /\ r.next = th[t].next /\ r.end = th[t].end
            /\ r.hold = th[t].hold /\ r.then = th[t].then
        BY <1>1, <4>1, <4>2 DEF ThreadRec
      <4>4. Shape(r) /\ ~Waiting(r) /\ ~Waiting(th[t]) /\ ~Exclusive(r) /\ ~Exclusive(th[t])
        BY <1>1, <1>4, <4>3 DEF Shape, Waiting, Inside, Exclusive, Finishing
      <4> QED BY <1>1, <4>3, <4>4
    <3>2. CASE cache.ent[x].ref_count # 1
      <4>1. r = [th[t] EXCEPT !.put = NoEntry, !.pc = th[t].then]
        BY <2>2, <3>2
      <4>2. /\ r.pc = th[t].then /\ r.put = NoEntry /\ r.page = th[t].page /\ r.pre = th[t].pre /\ r.fd = th[t].fd
            /\ r.start = th[t].start /\ r.op = th[t].op /\ r.got = th[t].got /\ r.next = th[t].next
            /\ r.end = th[t].end /\ r.hold = th[t].hold /\ r.then = th[t].then /\ r \in ThreadRec
        BY <1>1, <4>1 DEF ThreadRec
      <4> QED BY <1>1, <4>2, Resumed
    <3> QED BY <3>1, <3>2
  <2>5. th'[t] = r /\ \A u \in Threads : u # t => th'[u] = th[u]
    BY <2>3 DEF IInv, TypeInv
  <2>6. \A e \in Entries : Own(th[t], e) = Own(th'[t], e) + One(e = x)
    BY <1>1, <2>1, <2>4, <2>5, EntryNumbers DEF Own, One
  <2>7. HeldBy' = [HeldBy EXCEPT ![x] = @ - 1] /\ HeldBy[x] > 0
    BY <2>5, <2>6, HeldLess
  <2>8. CacheOK(cache', HeldBy') /\ Keeps(cache, cache', HeldBy)
    <3>1. CacheOK(cache, HeldBy)
      BY DEF IInv, PageInv
    <3>2. /\ CacheOK(DropRef(cache, x), [HeldBy EXCEPT ![x] = @ - 1])
          /\ Keeps(cache, DropRef(cache, x), HeldBy)
      BY <2>7, <3>1, DropRefOK
    <3> QED BY <2>3, <2>7, <3>2
  <2>9. Owner(t)'
    BY <1>1, <1>2, <2>4, <2>5 DEF Owner, Inside, Exclusive, Waiting, posVars
  <2>10. \A f \in Fds : pos_lock[f] \in Threads \ {t} => pos_lock'[f] = pos_lock[f] /\ pos'[f] = pos[f]
    BY <1>2 DEF posVars
  <2> QED BY <1>2, <2>3, <2>4, <2>8, <2>9, <2>10, StepOK
<1> QED BY <1>3, <1>4

LEMMA UnpinPageOK ==
  ASSUME IInv, failed = "none", NEW t \in Threads, Unpin(t)
  PROVE  IInv'
<1>1. /\ th[t] \in ThreadRec /\ Shape(th[t]) /\ Owner(t) /\ th[t].pc \in {"drop", "unpin"}
      /\ th[t].pc = "unpin" /\ CacheOK(cache, HeldBy)
  BY DEF IInv, TypeInv, PageInv, Unpin
<1>2. PICK x \in Entries : x = th[t].put
  BY <1>1 DEF Shape, ThreadRec
<1>3. PICK r : r = [th[t] EXCEPT !.put = NoEntry, !.pc = th[t].then]
  OBVIOUS
<1>4. th' = [th EXCEPT ![t] = r]
  BY <1>3 DEF Unpin, IInv, TypeInv
<1>5. /\ r \in ThreadRec /\ Shape(r) /\ th[t].page = NoEntry /\ r.page = NoEntry /\ r.put = NoEntry
      /\ ~Waiting(r) /\ ~Waiting(th[t]) /\ (Exclusive(r) <=> Exclusive(th[t])) /\ r.pc # "drop"
      /\ r.pre = th[t].pre /\ r.fd = th[t].fd /\ r.start = th[t].start /\ r.op = th[t].op
      /\ r.got = th[t].got /\ r.next = th[t].next
  <2>1. /\ r.pc = th[t].then /\ r.put = NoEntry /\ r.page = th[t].page /\ r.pre = th[t].pre /\ r.fd = th[t].fd
        /\ r.start = th[t].start /\ r.op = th[t].op /\ r.got = th[t].got /\ r.next = th[t].next
        /\ r.end = th[t].end /\ r.hold = th[t].hold /\ r.then = th[t].then /\ r \in ThreadRec
    BY <1>1, <1>3 DEF ThreadRec
  <2> QED BY <1>1, <2>1, Resumed
<1>6. th'[t] = r /\ \A u \in Threads : u # t => th'[u] = th[u]
  BY <1>4 DEF IInv, TypeInv
<1>7. HeldBy' = HeldBy
  <2>1. \A e \in Entries : Own(th'[t], e) = Own(th[t], e)
    BY <1>1, <1>5, <1>6 DEF Own, One
  <2> QED BY <1>6, <2>1, HeldSame
<1>8. DataInv' /\ UNCHANGED posVars /\ PosInv'
  BY DEF Unpin, IInv, TypeInv, DataInv, PosInv, fileVars, dirtyVars, posVars
<1>9. Owner(t)'
  BY <1>1, <1>5, <1>6, <1>8 DEF Owner, Inside, Exclusive, Waiting, posVars, Shape
<1>10. CacheOK(cache', HeldBy) /\ Keeps(cache, cache', HeldBy) /\ failed' # "page"
  <2>1. CASE cache.ent[x].live
    <3>1. /\ CacheOK(RecheckAndUnpin(cache, x), HeldBy) /\ RecheckAndUnpin(cache, x).ent = cache.ent
          /\ ~(cache.ent[x].ref_count = 0 /\ cache.ent[x].is_dirty)
      BY <1>1, <2>1, UnpinOK
    <3>2. cache' = RecheckAndUnpin(cache, x) /\ failed' = failed
      BY <1>2, <2>1, <3>1 DEF Unpin
    <3> QED BY <3>1, <3>2 DEF Keeps
  <2>2. CASE ~cache.ent[x].live
    <3>1. cache' = cache /\ failed' = "freed"
      BY <1>2, <2>2 DEF Unpin
    <3> QED BY <1>1, <3>1 DEF Keeps
  <2> QED BY <2>1, <2>2
<1>11. CacheOK(cache', HeldBy')
  BY <1>7, <1>10
<1>12. \A f \in Fds : pos_lock[f] \in Threads \ {t} => pos_lock'[f] = pos_lock[f] /\ pos'[f] = pos[f]
  BY <1>8 DEF posVars
<1> QED BY <1>4, <1>5, <1>8, <1>9, <1>10, <1>11, <1>12, StepOK

-----------------------------------------------------------------------------
(* Truncation and write back.                                              *)

\* Numbering the elements of a finite set by a key uses each number once.
LEMMA Ranks ==
  ASSUME NEW D, IsFiniteSet(D), NEW k \in [D -> Nat], \A e, x \in D : k[e] = k[x] => e = x,
         NEW f, f = [e \in D |-> Cardinality({x \in D : k[x] <= k[e]})]
  PROVE  /\ \A e \in D : f[e] \in 1 .. Cardinality(D)
         /\ \A e, y \in D : f[e] = f[y] => e = y
         /\ \A i \in 1 .. Cardinality(D) : \E e \in D : f[e] = i
<1>1. PICK L : L = [e \in D |-> {x \in D : k[x] <= k[e]}]
  OBVIOUS
<1>2. \A e \in D : L[e] = {x \in D : k[x] <= k[e]}
  BY <1>1
<1>3. Cardinality(D) \in Nat
  BY FS_CardinalityType
<1>4. \A e \in D : /\ L[e] \in SUBSET D /\ e \in L[e] /\ IsFiniteSet(L[e]) /\ Cardinality(L[e]) \in Nat
                   /\ Cardinality(L[e]) <= Cardinality(D)
  <2> SUFFICES ASSUME NEW e \in D
               PROVE  /\ L[e] \in SUBSET D /\ e \in L[e] /\ IsFiniteSet(L[e])
                      /\ Cardinality(L[e]) \in Nat /\ Cardinality(L[e]) <= Cardinality(D)
    OBVIOUS
  <2>1. L[e] \in SUBSET D /\ e \in L[e]
    BY <1>2
  <2> QED BY <2>1, FS_Subset, FS_CardinalityType
<1>5. \A e \in D : Cardinality(L[e]) \in 1 .. Cardinality(D)
  <2> SUFFICES ASSUME NEW e \in D PROVE Cardinality(L[e]) \in 1 .. Cardinality(D)
    OBVIOUS
  <2>1. L[e] # {} /\ IsFiniteSet(L[e])
    BY <1>4
  <2>2. Cardinality(L[e]) # 0
    BY <2>1, FS_EmptySet
  <2> QED BY <1>3, <1>4, <2>2
<1>6. \A e, y \in D : Cardinality(L[e]) = Cardinality(L[y]) => e = y
  <2> SUFFICES ASSUME NEW e \in D, NEW y \in D, Cardinality(L[e]) = Cardinality(L[y])
               PROVE  e = y
    OBVIOUS
  <2>1. k[e] \in Nat /\ k[y] \in Nat
    OBVIOUS
  <2>2. L[e] \in SUBSET L[y] \/ L[y] \in SUBSET L[e]
    BY <1>2, <2>1
  <2>3. L[e] = L[y]
    BY <1>4, <2>2, FS_Subset
  <2>4. e \in L[y] /\ y \in L[e]
    BY <1>4, <2>3
  <2>5. k[e] <= k[y] /\ k[y] <= k[e]
    BY <1>2, <2>4
  <2>6. k[e] = k[y]
    BY <2>1, <2>5
  <2> QED BY <2>6
<1>7. f = [e \in D |-> Cardinality(L[e])]
  BY <1>1
<1>8. PICK T : T = 1 .. Cardinality(D)
  OBVIOUS
<1>9. IsFiniteSet(T) /\ Cardinality(T) = Cardinality(D)
  BY <1>3, <1>8, FS_Interval
<1>10. f \in Injection(D, T)
  <2>1. f \in [D -> T]
    BY <1>5, <1>7, <1>8
  <2>2. \A e, y \in D : f[e] = f[y] => e = y
    BY <1>6, <1>7
  <2> QED BY <2>1, <2>2 DEF Injection, IsInjective
<1>11. f \in Surjection(D, T)
  BY <1>9, <1>10, FS_Injection
<1>12. \A i \in T : \E e \in D : f[e] = i
  BY <1>11 DEF Surjection
<1>13. \A e \in D : f[e] = Cardinality(L[e])
  BY <1>7
<1>14. \A e \in D : f[e] \in 1 .. Cardinality(D)
  BY <1>5, <1>13
<1>15. \A e, y \in D : f[e] = f[y] => e = y
  BY <1>6, <1>13
<1>16. \A i \in 1 .. Cardinality(D) : \E e \in D : f[e] = i
  BY <1>8, <1>12
<1> QED BY <1>14, <1>15, <1>16

\* The addresses write_back gives to the dirty pages follow the last one used,
\* one to each page.
LEMMA NewAddresses ==
  ASSUME IInv
  PROVE  /\ IsFiniteSet(cache.dirty_pages) /\ Cardinality(cache.dirty_pages) \in Nat
         /\ \A e \in cache.dirty_pages :
              NewLpa(e) \in Len(ssd) + 1 .. Len(ssd) + Cardinality(cache.dirty_pages)
         /\ \A e, x \in cache.dirty_pages : NewLpa(e) = NewLpa(x) => e = x
         /\ \A i \in 1 .. Cardinality(cache.dirty_pages) :
              \E e \in cache.dirty_pages : NewLpa(e) = Len(ssd) + i
<1>1. PICK D : D = cache.dirty_pages
  OBVIOUS
<1>2. cache \in PageCaches /\ Counted(cache, HeldBy) /\ OneEach(cache) /\ Len(ssd) \in Nat
  BY DEF IInv, PageInv, CacheOK, TypeInv, DataInv
<1>3. D \in SUBSET Entries /\ IsFiniteSet(D) /\ Cardinality(D) \in Nat
  <2>1. D \in SUBSET Entries
    BY <1>1, <1>2 DEF PageCaches
  <2> QED BY <2>1, EntryNumbers, FS_Subset, FS_CardinalityType
<1>4. \A e \in D : cache.ent[e].live /\ cache.ent[e].blkoff \in Nat
  <2>1. \A e \in D : cache.ent[e].live
    BY <1>1, <1>2, <1>3 DEF Counted
  <2>2. \A e \in D : cache.ent[e].blkoff \in Blocks
    BY <1>2, <1>3, <2>1 DEF Counted
  <2> QED BY <2>1, <2>2, EntryNumbers
<1>5. PICK k : k = [e \in D |-> cache.ent[e].blkoff]
  OBVIOUS
<1>6. k \in [D -> Nat] /\ \A e, x \in D : k[e] = k[x] => e = x
  <2>1. \A e, x \in D : cache.ent[e].blkoff = cache.ent[x].blkoff => e = x
    BY <1>2, <1>3, <1>4 DEF OneEach
  <2> QED BY <1>4, <1>5, <2>1
<1>7. PICK f : f = [e \in D |-> Cardinality({x \in D : k[x] <= k[e]})]
  OBVIOUS
<1>8. /\ \A e \in D : f[e] \in 1 .. Cardinality(D)
      /\ \A e, y \in D : f[e] = f[y] => e = y
      /\ \A i \in 1 .. Cardinality(D) : \E e \in D : f[e] = i
  BY <1>3, <1>6, <1>7, Ranks
<1>9. \A e \in D : NewLpa(e) = Len(ssd) + Cardinality({x \in D : k[x] <= k[e]})
  <2> SUFFICES ASSUME NEW e \in D
               PROVE  NewLpa(e) = Len(ssd) + Cardinality({x \in D : k[x] <= k[e]})
    OBVIOUS
  <2>1. {x \in D : k[x] <= k[e]} = {x \in cache.dirty_pages : cache.ent[x].blkoff <= cache.ent[e].blkoff}
    BY <1>1, <1>5
  <2> QED BY <2>1 DEF NewLpa
<1>10. PICK m \in Nat, n \in Nat : m = Len(ssd) /\ n = Cardinality(D)
  BY <1>2, <1>3
<1>11. \A e \in D : f[e] \in 1 .. n /\ NewLpa(e) = m + f[e]
  BY <1>7, <1>8, <1>9, <1>10
<1>12. \A e \in D : NewLpa(e) \in m + 1 .. m + n
  BY <1>11
<1>13. \A e, y \in D : NewLpa(e) = NewLpa(y) => e = y
  <2>1. \A e, y \in D : NewLpa(e) = NewLpa(y) => f[e] = f[y]
    BY <1>11
  <2> QED BY <1>8, <2>1
<1>14. \A i \in 1 .. n : \E e \in D : NewLpa(e) = m + i
  <2>1. \A i \in 1 .. n : \E e \in D : f[e] = i
    BY <1>8, <1>10
  <2> QED BY <1>11, <2>1
<1> QED BY <1>1, <1>3, <1>10, <1>12, <1>13, <1>14

LEMMA TruncateFileOK ==
  ASSUME IInv, failed = "none", NEW t \in Threads, Truncate(t)
  PROVE  IInv'
<1>1. /\ th[t] \in ThreadRec /\ Shape(th[t]) /\ Owner(t) /\ th[t].pc = "truncate" /\ NumBlocks \in Nat
      /\ CacheOK(cache, HeldBy) /\ "mark" \in Points /\ "return" \in Points
  BY SizeAssumption DEF IInv, TypeInv, PageInv, Truncate, Points
<1>2. /\ th[t].page = NoEntry /\ th[t].pre = NoEntry /\ th[t].then = "return" /\ th[t].end <= NumBlocks
      /\ th[t].op \in {"truncate", "fsync"} /\ th[t].hold = "wr" /\ th[t].end \in Nat
  BY <1>1 DEF Shape, Inside, Exclusive, ThreadRec
<1>3. PICK n \in 0 .. NumBlocks : n = th[t].end
  BY <1>1, <1>2
<1>4. PICK q \in {"mark", "return"} : q = IF n = inode.i_size THEN "return" ELSE "mark"
  OBVIOUS
<1>5. PICK r : r = [th[t] EXCEPT !.pc = q]
  OBVIOUS
<1>6. th' = [th EXCEPT ![t] = r]
  BY <1>3, <1>4, <1>5 DEF Truncate, Goto, IInv, TypeInv
<1>7. /\ r.pc = q /\ r.then = th[t].then /\ r.put = th[t].put /\ r.pre = th[t].pre
      /\ r.page = th[t].page /\ r.hold = th[t].hold /\ r.op = th[t].op /\ r.fd = th[t].fd
      /\ r.next = th[t].next /\ r.end = th[t].end /\ r.start = th[t].start /\ r.got = th[t].got
      /\ r \in ThreadRec
  BY <1>1, <1>5 DEF ThreadRec
<1>8. Shape(r) /\ ~Inside(r) /\ ~Finishing(r) /\ Exclusive(r) /\ r.pc # "drop" /\ r.pc # "lock"
  BY <1>1, <1>2, <1>7 DEF Shape, Waiting, Inside, Finishing, Exclusive
<1>9. th'[t] = r /\ \A u \in Threads : u # t => th'[u] = th[u]
  BY <1>6 DEF IInv, TypeInv
<1>10. UNCHANGED posVars /\ PosInv'
  BY DEF Truncate, IInv, TypeInv, PosInv, posVars
<1>11. Owner(t)'
  BY <1>8, <1>9 DEF Owner
<1>12. HeldBy' = HeldBy
  <2>1. \A e \in Entries : Own(th'[t], e) = Own(th[t], e)
    BY <1>1, <1>2, <1>7, <1>8, <1>9, OwnsNothing
  <2> QED BY <1>9, <2>1, HeldSame
<1>13. \A f \in Fds : pos_lock[f] \in Threads \ {t} => pos_lock'[f] = pos_lock[f] /\ pos'[f] = pos[f]
  BY <1>10 DEF posVars
<1>14. CacheOK(cache', HeldBy) /\ Keeps(cache, cache', HeldBy) /\ failed' # "page"
  <2>1. CASE n = inode.i_size
    <3>1. cache' = cache /\ failed' = failed
      BY <1>3, <2>1 DEF Truncate
    <3> QED BY <1>1, <3>1 DEF Keeps
  <2>2. CASE n # inode.i_size
    <3>1. cache' \in truncate(cache, MaxBlkoff(n)) /\ failed' # "page"
      BY <1>3, <2>2 DEF Truncate
    <3> QED BY <1>1, <3>1, TruncateOK
  <2> QED BY <2>1, <2>2
<1>15. DataInv'
  <2>1. CASE n = inode.i_size
    BY <1>3, <2>1 DEF Truncate, IInv, TypeInv, DataInv, fileVars, dirtyVars
  <2>2. CASE n # inode.i_size
    <3>1. /\ valid' = valid \ Freed(n) /\ inode' = Resized(n) /\ size' = n /\ ssd' = ssd
          /\ hist' = [b \in Blocks |-> IF b < n THEN hist[b] ELSE <<>>]
          /\ UNCHANGED dirtyVars /\ ops' = ops
      BY <1>3, <2>2 DEF Truncate
    <3>2. DataInv
      BY DEF IInv, TypeInv
    <3>3. hist' \in [Blocks -> Seq(Int)]
      BY <3>1, <3>2 DEF DataInv
    <3>4. inode' \in [i_size : 0 .. NumBlocks, addr : [Blocks -> Nat]]
      BY <3>1, <3>2 DEF DataInv, Resized, INVALID_LPA
    <3>5. \A b \in Blocks : inode'.addr[b] <= Len(ssd')
      BY <3>1, <3>2 DEF DataInv, Resized, INVALID_LPA
    <3> QED BY <3>1, <3>2, <3>3, <3>4, <3>5 DEF DataInv, dirtyVars
  <2> QED BY <2>1, <2>2
<1>16. CacheOK(cache', HeldBy') /\ r.page = NoEntry
  BY <1>2, <1>7, <1>12, <1>14
<1> QED BY <1>6, <1>7, <1>8, <1>10, <1>11, <1>13, <1>14, <1>15, <1>16, StepOK

\* The pages with the addresses write_back has given them.
LEMMA MovedOK ==
  ASSUME IInv, NEW moved,
         moved = [cache EXCEPT !.ent = [e \in Entries |->
                    IF e \in cache.dirty_pages THEN [cache.ent[e] EXCEPT !.lpa = NewLpa(e)]
                    ELSE cache.ent[e]]]
  PROVE  /\ CacheOK(moved, HeldBy) /\ Keeps(cache, moved, HeldBy)
         /\ moved.dirty_pages = cache.dirty_pages
         /\ \A e \in Entries :
              /\ moved.ent[e].live <=> cache.ent[e].live
              /\ moved.ent[e].blkoff = cache.ent[e].blkoff
              /\ moved.ent[e].content_state = cache.ent[e].content_state
              /\ moved.ent[e].page = cache.ent[e].page
              /\ moved.ent[e].lpa = IF e \in cache.dirty_pages THEN NewLpa(e) ELSE cache.ent[e].lpa
<1>1. CacheOK(cache, HeldBy) /\ cache \in PageCaches /\ Len(ssd) \in Nat
  BY DEF IInv, PageInv, CacheOK, TypeInv, DataInv
<1>2. \A e \in cache.dirty_pages : NewLpa(e) \in Nat
  BY <1>1, NewAddresses
<1>3. PICK m : m = [e \in Entries |->
                      IF e \in cache.dirty_pages THEN [cache.ent[e] EXCEPT !.lpa = NewLpa(e)]
                      ELSE cache.ent[e]]
  OBVIOUS
<1>4. ASSUME NEW e \in Entries
      PROVE  /\ m[e] \in PageEntry /\ m[e].blkoff = cache.ent[e].blkoff
             /\ (m[e].live <=> cache.ent[e].live) /\ m[e].ref_count = cache.ent[e].ref_count
             /\ (m[e].is_dirty <=> cache.ent[e].is_dirty)
             /\ m[e].content_state = cache.ent[e].content_state /\ m[e].page = cache.ent[e].page
             /\ m[e].lpa = IF e \in cache.dirty_pages THEN NewLpa(e) ELSE cache.ent[e].lpa
  <2>1. cache.ent[e] \in PageEntry
    BY <1>1 DEF PageCaches
  <2>2. CASE e \in cache.dirty_pages
    <3>1. PICK a \in Nat : a = NewLpa(e)
      BY <1>2, <2>2
    <3>2. m[e] = [cache.ent[e] EXCEPT !.lpa = a]
      BY <1>3, <2>2, <3>1
    <3> QED BY <2>1, <2>2, <3>1, <3>2 DEF PageEntry
  <2>3. CASE e \notin cache.dirty_pages
    BY <1>3, <2>1, <2>3
  <2> QED BY <2>2, <2>3
<1>5. m \in [Entries -> PageEntry]
  BY <1>3, <1>4
<1>6. moved = [cache EXCEPT !.ent = m]
  BY <1>3
<1>7. /\ moved \in PageCaches /\ moved.ent = m /\ moved.lru = cache.lru
      /\ moved.dirty_pages = cache.dirty_pages
  BY <1>1, <1>5, <1>6 DEF PageCaches
<1>8. \A e \in Entries : /\ moved.ent[e].blkoff = cache.ent[e].blkoff
                         /\ (moved.ent[e].live <=> cache.ent[e].live)
                         /\ moved.ent[e].ref_count = cache.ent[e].ref_count
                         /\ (moved.ent[e].is_dirty <=> cache.ent[e].is_dirty)
  BY <1>4, <1>7
<1>9. CacheOK(moved, HeldBy) /\ Keeps(cache, moved, HeldBy)
  BY <1>1, <1>7, <1>8, SameShape, ZenonT(40) DEF Keeps
<1>10. \A e \in Entries : /\ moved.ent[e].content_state = cache.ent[e].content_state
                          /\ moved.ent[e].page = cache.ent[e].page
                          /\ moved.ent[e].lpa = IF e \in cache.dirty_pages THEN NewLpa(e)
                                                ELSE cache.ent[e].lpa
  BY <1>4, <1>7
<1> QED BY <1>7, <1>8, <1>9, <1>10

LEMMA WriteBackOK ==
  ASSUME IInv, failed = "none", NEW t \in Threads, WriteBack(t)
  PROVE  IInv'
<1>1. /\ th[t] \in ThreadRec /\ Shape(th[t]) /\ Owner(t) /\ th[t].pc = "write_back"
      /\ "return" \in Points /\ cache \in PageCaches /\ DataInv /\ NumBlocks \in Nat
  BY SizeAssumption DEF IInv, TypeInv, PageInv, CacheOK, WriteBack, Points
<1>2. /\ th[t].page = NoEntry /\ th[t].pre = NoEntry /\ th[t].then = "return" /\ th[t].end <= NumBlocks
      /\ th[t].op \in {"truncate", "fsync"} /\ th[t].hold = "wr"
  BY <1>1 DEF Shape, Inside, Exclusive
<1>3. PICK r : r = [th[t] EXCEPT !.pc = "return"]
  OBVIOUS
<1>4. th' = [th EXCEPT ![t] = r]
  BY <1>3 DEF WriteBack, Goto, IInv, TypeInv
<1>5. /\ r.pc = "return" /\ r.then = th[t].then /\ r.put = th[t].put /\ r.pre = th[t].pre
      /\ r.page = th[t].page /\ r.hold = th[t].hold /\ r.op = th[t].op /\ r.fd = th[t].fd
      /\ r.next = th[t].next /\ r.end = th[t].end /\ r.start = th[t].start /\ r.got = th[t].got
      /\ r \in ThreadRec
  BY <1>1, <1>3 DEF ThreadRec
<1>6. Shape(r) /\ ~Inside(r) /\ ~Finishing(r) /\ Exclusive(r)
  BY <1>1, <1>2, <1>5 DEF Shape, Waiting, Inside, Finishing, Exclusive
<1>7. th'[t] = r /\ \A u \in Threads : u # t => th'[u] = th[u]
  BY <1>4 DEF IInv, TypeInv
<1>8. UNCHANGED posVars /\ PosInv' /\ failed' # "page"
  BY DEF WriteBack, IInv, TypeInv, PosInv, posVars
<1>9. Owner(t)'
  BY <1>5, <1>6, <1>7 DEF Owner
<1>10. HeldBy' = HeldBy
  <2>1. \A e \in Entries : Own(th'[t], e) = Own(th[t], e)
    BY <1>1, <1>2, <1>5, <1>7, OwnsNothing
  <2> QED BY <1>7, <2>1, HeldSame
<1>11. \A f \in Fds : pos_lock[f] \in Threads \ {t} => pos_lock'[f] = pos_lock[f] /\ pos'[f] = pos[f]
  BY <1>8 DEF posVars
<1>12. CacheOK(cache', HeldBy) /\ Keeps(cache, cache', HeldBy)
  <2>1. PICK moved : moved = [cache EXCEPT !.ent = [e \in Entries |->
                       IF e \in cache.dirty_pages THEN [cache.ent[e] EXCEPT !.lpa = NewLpa(e)]
                       ELSE cache.ent[e]]]
    OBVIOUS
  <2>2. cache' \in clear_dirty_pages(moved)
    BY <2>1 DEF WriteBack
  <2>3. CacheOK(moved, HeldBy) /\ Keeps(cache, moved, HeldBy)
    BY <2>1, MovedOK
  <2>4. CacheOK(cache', HeldBy) /\ Keeps(moved, cache', HeldBy)
    BY <2>2, <2>3, ClearOK
  <2> QED BY <2>3, <2>4 DEF Keeps
<1>13. CacheOK(cache', HeldBy') /\ r.page = NoEntry
  BY <1>2, <1>5, <1>10, <1>12
<1>14. DataInv'
  <2>1. PICK D : D = cache.dirty_pages
    OBVIOUS
  <2>2. PICK m \in Nat, n \in Nat : m = Len(ssd) /\ n = Cardinality(D)
    BY <1>1, <2>1, NewAddresses DEF DataInv
  <2>3. /\ \A e \in D : NewLpa(e) \in m + 1 .. m + n
        /\ \A i \in 1 .. n : \E e \in D : NewLpa(e) = m + i
    BY <2>1, <2>2, NewAddresses
  <2>4. D \in SUBSET Entries /\ cache.ent \in [Entries -> PageEntry]
    BY <1>1, <2>1 DEF PageCaches
  <2>5. PICK s : s = [i \in 1 .. n |-> cache.ent[CHOOSE e \in D : NewLpa(e) = m + i].page]
    OBVIOUS
  <2>6. ASSUME NEW i \in 1 .. n PROVE cache.ent[CHOOSE e \in D : NewLpa(e) = m + i].page \in Int
    <3>1. (CHOOSE e \in D : NewLpa(e) = m + i) \in D
      BY <2>3
    <3> QED BY <2>4, <3>1 DEF PageEntry
  <2>7. s \in Seq(Int) /\ Len(s) = n
    <3>1. DOMAIN s = 1 .. n /\ \A i \in 1 .. n : s[i] \in Int
      BY <2>5, <2>6
    <3>2. s \in [1 .. n -> Int]
      BY <2>5, <3>1
    <3> QED BY <2>2, <3>1, <3>2
  <2>8. ssd' = ssd \o s
    BY <2>1, <2>2, <2>5 DEF WriteBack
  <2>9. ssd' \in Seq(Int) /\ Len(ssd') = m + n
    <3>1. ssd \in Seq(Int)
      BY <1>1 DEF DataInv
    <3>2. ssd \o s \in Seq(Int) /\ Len(ssd \o s) = Len(ssd) + Len(s)
      BY <2>7, <3>1
    <3> QED BY <2>2, <2>7, <2>8, <3>2
  <2>10. valid' \subseteq 1 .. Len(ssd')
    <3>1. valid' = (valid \ OldLpas) \cup {NewLpa(e) : e \in D}
      BY <2>1 DEF WriteBack
    <3>2. valid \subseteq 1 .. m
      BY <1>1, <2>2 DEF DataInv
    <3>3. \A a \in valid' : a \in 1 .. m + n
      <4>1. \A a \in valid : a \in 1 .. m + n
        BY <3>2
      <4>2. \A e \in D : NewLpa(e) \in 1 .. m + n
        BY <2>3
      <4> QED BY <3>1, <4>1, <4>2
    <3> QED BY <2>9, <3>3
  <2>11. PICK i : i = update_meta_to_inode
    OBVIOUS
  <2>12. i \in 0 .. NumBlocks
    BY <1>1, <2>11 DEF update_meta_to_inode, DataInv
  <2>13. PICK g : g = [b \in Blocks |-> IF \E e \in D : cache.ent[e].blkoff = b
                                        THEN NewLpa(CHOOSE e \in D : cache.ent[e].blkoff = b)
                                        ELSE inode.addr[b]]
    OBVIOUS
  <2>14. inode' = [i_size |-> i, addr |-> g]
    BY <2>1, <2>11, <2>13 DEF WriteBack
  <2>15. ASSUME NEW b \in Blocks PROVE g[b] \in Nat /\ g[b] <= m + n
    <3>1. CASE \E e \in D : cache.ent[e].blkoff = b
      <4>1. PICK e \in D : g[b] = NewLpa(e)
        BY <2>13, <3>1
      <4> QED BY <2>3, <4>1
    <3>2. CASE ~ \E e \in D : cache.ent[e].blkoff = b
      <4>1. g[b] = inode.addr[b] /\ inode.addr[b] \in Nat /\ inode.addr[b] <= m
        BY <1>1, <2>2, <2>13, <3>2 DEF DataInv
      <4> QED BY <4>1
    <3> QED BY <3>1, <3>2
  <2>16. g \in [Blocks -> Nat]
    BY <2>13, <2>15
  <2>17. inode' \in [i_size : 0 .. NumBlocks, addr : [Blocks -> Nat]]
    BY <2>12, <2>14, <2>16
  <2>18. \A b \in Blocks : inode'.addr[b] <= Len(ssd')
    BY <2>9, <2>14, <2>15
  <2>19. UNCHANGED <<size, dirtyVars, ops, hist>>
    BY DEF WriteBack
  <2> QED BY <1>1, <2>9, <2>10, <2>17, <2>18, <2>19 DEF DataInv, dirtyVars
<1> QED BY <1>4, <1>5, <1>6, <1>8, <1>9, <1>11, <1>12, <1>13, <1>14, StepOK

-----------------------------------------------------------------------------
(* The invariant and what follows from it.                                 *)

LEMMA InitOK == Init => IInv
<1> SUFFICES ASSUME Init PROVE IInv
  OBVIOUS
<1>1. NumBlocks \in Nat /\ Earlier \in Int /\ size \in 0 .. NumBlocks
  BY SizeAssumption, BoundAssumption DEF Init, Earlier
<1>2. DataInv
  <2>1. ssd = [i \in 1 .. size |-> Earlier] /\ size \in Nat
    BY <1>1 DEF Init
  <2>2. ssd \in Seq(Int) /\ Len(ssd) = size
    <3>1. ssd \in [1 .. size -> Int]
      BY <1>1, <2>1
    <3> QED BY <2>1, <3>1
  <2>3. valid \subseteq 1 .. Len(ssd)
    BY <2>2 DEF Init
  <2>4. inode = [i_size |-> size, addr |-> [b \in Blocks |-> IF b < size THEN b + 1 ELSE INVALID_LPA]]
    BY DEF Init
  <2>5. PICK a : a = [b \in Blocks |-> IF b < size THEN b + 1 ELSE INVALID_LPA]
    OBVIOUS
  <2>6. \A b \in Blocks : a[b] \in Nat /\ a[b] <= size
    BY <2>1, <2>5, EntryNumbers DEF INVALID_LPA
  <2>7. a \in [Blocks -> Nat]
    BY <2>5, <2>6
  <2>8. /\ inode \in [i_size : 0 .. NumBlocks, addr : [Blocks -> Nat]]
        /\ \A b \in Blocks : inode.addr[b] <= Len(ssd)
    BY <1>1, <2>2, <2>4, <2>5, <2>6, <2>7
  <2>9. hist \in [Blocks -> Seq(Int)]
    <3>1. <<Earlier>> \in Seq(Int) /\ <<>> \in Seq(Int)
      BY <1>1
    <3> QED BY <3>1 DEF Init
  <2>10. is_dirty \in BOOLEAN /\ dirty_files \in BOOLEAN /\ ops \in Nat
    BY DEF Init
  <2> QED BY <1>1, <2>2, <2>3, <2>8, <2>9, <2>10 DEF DataInv
<1>3. PosInv
  BY <1>1 DEF Init, PosInv
<1>4. th = [t \in Threads |-> Idle]
  BY DEF Init
<1>5. TypeInv
  BY <1>2, <1>3, <1>4, IdleThread DEF TypeInv
<1>6. \A t \in Threads : Shape(th[t]) /\ Owner(t)
  BY <1>4, IdleThread DEF Owner, Inside, Finishing
<1>7. \A e \in Entries : HeldBy[e] = 0
  <2> SUFFICES ASSUME NEW e \in Entries PROVE HeldBy[e] = 0
    OBVIOUS
  <2>1. /\ {t \in Threads : th[t].page = e} = {} /\ {t \in Threads : th[t].pre = e} = {}
        /\ {t \in Threads : th[t].put = e /\ th[t].pc = "drop"} = {}
    BY <1>4, IdleThread, EntryNumbers
  <2>2. Cardinality({}) = 0
    BY FS_EmptySet
  <2>3. HeldBy[e] = Cardinality({t \in Threads : th[t].page = e})
                    + Cardinality({t \in Threads : th[t].pre = e})
                    + Cardinality({t \in Threads : th[t].put = e /\ th[t].pc = "drop"})
    BY DEF HeldBy
  <2>4. HeldBy[e] = 0 + 0 + 0
    BY <2>1, <2>2, <2>3, Zenon
  <2> QED BY <2>4
<1>8. CacheOK(cache, HeldBy)
  <2>1. cache = EmptyPageCache(Entries)
    BY DEF Init
  <2>2. PICK p : p = [page_entry(0) EXCEPT !.live = FALSE]
    OBVIOUS
  <2>3. p \in PageEntry /\ p.live = FALSE
    <3>1. p = [blkoff |-> 0, lpa |-> 0, content_state |-> "invalid", page |-> 0, ref_count |-> 0,
               is_dirty |-> FALSE, live |-> FALSE]
      BY <2>2 DEF page_entry, INVALID_LPA
    <3>2. 0 \in Nat /\ 0 \in Int /\ "invalid" \in {"invalid", "ready"} /\ FALSE \in BOOLEAN
      OBVIOUS
    <3>3. p \in PageEntry
      BY <3>1, <3>2 DEF PageEntry
    <3>4. p.live = FALSE
      BY <3>1
    <3> QED BY <3>3, <3>4
  <2>4. /\ cache.ent = [e \in Entries |-> p] /\ cache.lru = <<>> /\ cache.dirty_pages = {}
        /\ cache = [ent |-> [e \in Entries |-> p], lru |-> <<>>, dirty_pages |-> {}, cur_size |-> 0]
    BY <2>1, <2>2 DEF EmptyPageCache
  <2>5. 0 \in 0 .. SizeMod - 1 /\ <<>> \in Seq(Nat)
    BY DEF SizeMod
  <2>6. cache \in PageCaches
    BY <2>3, <2>4, <2>5 DEF PageCaches
  <2>7. HeldBy \in [Entries -> Nat]
    BY <1>7 DEF HeldBy
  <2>8. Counted(cache, HeldBy) /\ OneEach(cache)
    BY <1>7, <2>3, <2>4 DEF Counted, OneEach
  <2>9. Replaceable(cache)
    BY <2>4 DEF Replaceable, Distinct, Contains
  <2> QED BY <2>6, <2>7, <2>8, <2>9 DEF CacheOK
<1>9. PageInv
  BY <1>4, <1>8, IdleThread DEF PageInv, Init
<1> QED BY <1>5, <1>6, <1>9 DEF IInv

LEMMA StepsOK == IInv /\ [Next]_vars => IInv'
<1> SUFFICES ASSUME IInv, [Next]_vars PROVE IInv'
  OBVIOUS
<1>1. CASE UNCHANGED vars
  <2>1. UNCHANGED <<cache, size, inode, ssd, valid, is_dirty, dirty_files, pos, pos_lock, th, ops,
                    failed, hist>>
    BY <1>1 DEF vars, fileVars, dirtyVars, posVars
  <2>2. HeldBy' = HeldBy
    BY <2>1 DEF HeldBy
  <2>3. TypeInv'
    BY <2>1 DEF IInv, TypeInv, DataInv, PosInv
  <2>4. PageInv'
    BY <2>1, <2>2 DEF IInv, PageInv
  <2>5. \A t \in Threads : Shape(th'[t]) /\ Owner(t)'
    BY <2>1 DEF IInv, Owner
  <2> QED BY <2>3, <2>4, <2>5 DEF IInv
<1>2. CASE Next
  <2>1. failed = "none"
    BY <1>2 DEF Next
  <2>2. PICK t \in Threads : NewCall(t) \/ Step(t)
    BY <1>2 DEF Next
  <2>3. CASE NewCall(t)
    <3>1. CASE \E f \in Fds, n \in 1 .. MaxCount : Call(t, "read", f, n) \/ Call(t, "write", f, n)
      BY <2>1, <3>1, CallOK
    <3>2. CASE \E f \in Fds : \/ \E o \in 0 .. NumBlocks : set_rw_pos(t, f, o, "SET")
                              \/ \E o \in {-1, 1} : set_rw_pos(t, f, o, "CUR")
                              \/ set_rw_pos(t, f, 0, "END")
      BY <2>1, <3>2, SetPosOK
    <3>3. CASE \E n \in 0 .. NumBlocks : CallExclusive(t, "truncate", n)
      BY <2>1, <3>3, CallExclusiveOK
    <3>4. CASE CallExclusive(t, "fsync", 0)
      BY <2>1, <3>4, CallExclusiveOK, SizeAssumption
    <3> QED BY <2>3, <3>1, <3>2, <3>3, <3>4 DEF NewCall
  <2>4. CASE Step(t)
    <3>1. CASE ReadBegin(t) \/ AppendBegin(t) \/ WriteBegin(t)
      BY <2>1, <3>1, BeginsOK
    <3>2. CASE GetPage(t)
      BY <2>1, <3>2, GetPageOK
    <3>3. CASE CopyPage(t)
      BY <2>1, <3>3, CopyPageOK
    <3>4. CASE DropHandle(t)
      BY <2>1, <3>4, DropHandleOK
    <3>5. CASE Unpin(t)
      BY <2>1, <3>5, UnpinPageOK
    <3>6. CASE LastPage(t)
      BY <2>1, <3>6, LastPageOK
    <3>7. CASE UnlockFile(t)
      BY <2>1, <3>7, UnlockFileOK
    <3>8. CASE MarkDirty(t) \/ AddToDirtyFiles(t) \/ ClearDirty(t) \/ RemoveFromDirtyFiles(t)
      BY <2>1, <3>8, FlagsOK
    <3>9. CASE Advance(t)
      BY <2>1, <3>9, AdvanceOK
    <3>10. CASE Truncate(t)
      BY <2>1, <3>10, TruncateFileOK
    <3>11. CASE WriteBack(t)
      BY <2>1, <3>11, WriteBackOK
    <3>12. CASE Return(t)
      BY <2>1, <3>12, ReturnOK
    <3> QED BY <2>4, <3>1, <3>2, <3>3, <3>4, <3>5, <3>6, <3>7, <3>8, <3>9, <3>10, <3>11, <3>12
             DEF Step
  <2> QED BY <2>2, <2>3, <2>4
<1> QED BY <1>1, <1>2

LEMMA Invariant == Spec => []IInv
BY InitOK, StepsOK, PTL DEF Spec

\* Positions and sizes stay inside the file's bound, every address the block
\* tree holds was written, every lock and page a thread has exists, for any
\* number of threads, descriptors and blocks.
THEOREM TypeCorrect == Spec => []TypeOK
<1>1. IInv => TypeOK
  <2> SUFFICES ASSUME IInv PROVE TypeOK
    OBVIOUS
  <2>1. cache \in PageCaches /\ DataInv /\ PosInv /\ th \in [Threads -> ThreadRec]
    BY DEF IInv, PageInv, CacheOK, TypeInv
  <2>2. /\ LiveEntries(cache) \subseteq Entries /\ cache.dirty_pages \subseteq Entries
        /\ cache.cur_size \in 0 .. SizeMod - 1
    BY <2>1 DEF PageCaches, LiveEntries
  <2>3. inode.addr \in [Blocks -> 0 .. Len(ssd)]
    <3>1. inode.addr \in [Blocks -> Nat] /\ Len(ssd) \in Nat
      BY <2>1 DEF DataInv
    <3>2. \A b \in Blocks : inode.addr[b] \in 0 .. Len(ssd)
      BY <2>1, <3>1 DEF DataInv
    <3> QED BY <3>1, <3>2
  <2>4. \A t \in Threads : {th[t].page, th[t].pre, th[t].put} \subseteq Entries \cup {NoEntry}
    BY <2>1 DEF ThreadRec
  <2>5. /\ size \in 0 .. NumBlocks /\ inode.i_size \in 0 .. NumBlocks /\ valid \subseteq 1 .. Len(ssd)
        /\ is_dirty \in BOOLEAN /\ dirty_files \in BOOLEAN
    BY <2>1 DEF DataInv
  <2> QED BY <2>1, <2>2, <2>3, <2>4, <2>5 DEF TypeOK, PosInv
<1> QED BY <1>1, Invariant, PTL

\* A page that a thread or the set of dirty pages has a handle on exists, its
\* count is the number of handles, it cannot be replaced, and it is the page of
\* the block that was asked for: whatever the threads do, for any number of
\* them, any file size and any size of the cache.
THEOREM HeldPages == Spec => []HeldPagesStay
<1>1. IInv => HeldPagesStay
  <2> SUFFICES ASSUME IInv PROVE HeldPagesStay
    OBVIOUS
  <2>1. /\ cache \in PageCaches /\ HeldBy \in [Entries -> Nat] /\ Counted(cache, HeldBy)
        /\ OneEach(cache) /\ Replaceable(cache)
    BY DEF IInv, PageInv, CacheOK
  <2>2. \A e \in Entries : Handles(e) = Refs(cache, HeldBy, e)
    BY DEF Handles, Refs, HeldBy
  <2>3. ASSUME NEW e \in Entries, Handles(e) > 0
        PROVE  /\ cache.ent[e].live /\ cache.ent[e].ref_count = Handles(e) /\ IsPinned(cache, e)
               /\ cache.ent[e].is_dirty <=> e \in cache.dirty_pages
    <3>1. cache.ent[e].live
      <4>1. CASE ~cache.ent[e].live
        <5>1. HeldBy[e] = 0 /\ e \notin cache.dirty_pages
          BY <2>1, <4>1 DEF Counted
        <5>2. Refs(cache, HeldBy, e) = 0
          BY <5>1 DEF Refs
        <5> QED BY <2>2, <2>3, <5>2
      <4> QED BY <4>1
    <3>2. /\ cache.ent[e].ref_count = Handles(e)
          /\ cache.ent[e].is_dirty <=> e \in cache.dirty_pages
      BY <2>1, <2>2, <3>1 DEF Counted
    <3>3. cache.ent[e].ref_count # 0
      BY <2>3, <3>2
    <3>4. IsPinned(cache, e)
      <4>1. CASE Contains(cache.lru, cache.ent[e].blkoff)
        <5>1. PICK x \in Entries : /\ cache.ent[x].live /\ cache.ent[x].blkoff = cache.ent[e].blkoff
                                   /\ cache.ent[x].ref_count = 0
          BY <2>1, <4>1 DEF Replaceable
        <5>2. x = e
          BY <2>1, <3>1, <5>1 DEF OneEach
        <5> QED BY <3>3, <5>1, <5>2
      <4> QED BY <4>1 DEF IsPinned
    <3> QED BY <3>1, <3>2, <3>4
  <2>4. failed # "page"
    BY DEF IInv, PageInv
  <2>5. \A t \in Threads : th[t].page # NoEntry => cache.ent[th[t].page].blkoff = th[t].next
    BY DEF IInv, PageInv
  <2> QED BY <2>3, <2>4, <2>5 DEF HeldPagesStay
<1> QED BY <1>1, Invariant, PTL

-----------------------------------------------------------------------------
(* Appends.  file_op_lock is held exclusively by one thread or shared.     *)
(* What was written at or past the size was written by a write that is     *)
(* still under way; where an append is going nothing was written.          *)

Writing(r) == Inside(r) /\ r.op = "write"
Locks == \A t, u \in Threads : th[t].hold = "wr" /\ th[u].hold # "none" => t = u
Marked(r) ==
    /\ Writing(r) /\ r.fd \in AppendFds => r.hold = "wr"
    /\ (r.pc = "lock" \/ Inside(r)) /\ r.op = "write" /\ r.fd \notin AppendFds => r.id > 0
Ahead(r, h) == Writing(r) /\ r.fd \in AppendFds => \A b \in Blocks : b >= r.next => h[b] = <<>>
PastSize ==
    \A b \in Blocks : b >= size /\ hist[b] # <<>> => \E t \in Threads : Writing(th[t]) /\ b < th[t].end
AppendInv ==
    /\ Locks /\ PastSize /\ AppendsNeverOverwrite
    /\ \A t \in Threads : Marked(th[t]) /\ Ahead(th[t], hist)

\* A step between two points of a call that changes none of this.
Alike(s, r) ==
    /\ r.hold = s.hold /\ r.op = s.op /\ r.fd = s.fd /\ r.id = s.id /\ r.end = s.end
    /\ r.next = s.next
    /\ Inside(r) <=> Inside(s)
    /\ r.pc = "lock" <=> s.pc = "lock"

LEMMA AlikeOK ==
  ASSUME AppendInv, NEW t \in Threads, \A u \in Threads : u # t => th'[u] = th[u],
         Alike(th[t], th'[t]), hist' = hist, size' = size
  PROVE  AppendInv'
<1>1. \A u \in Threads : /\ th'[u].hold = th[u].hold /\ th'[u].op = th[u].op /\ th'[u].fd = th[u].fd
                         /\ th'[u].id = th[u].id /\ th'[u].end = th[u].end /\ th'[u].next = th[u].next
                         /\ (Inside(th'[u]) <=> Inside(th[u]))
                         /\ (th'[u].pc = "lock" <=> th[u].pc = "lock")
  BY DEF Alike
<1>2. Locks'
  BY <1>1 DEF AppendInv, Locks
<1>3. \A u \in Threads : Writing(th'[u]) <=> Writing(th[u])
  BY <1>1 DEF Writing
<1>4. PastSize'
  BY <1>1, <1>3 DEF AppendInv, PastSize
<1>5. \A u \in Threads : Marked(th'[u])
  BY <1>1, <1>3 DEF AppendInv, Marked
<1>6. \A u \in Threads : Ahead(th'[u], hist')
  BY <1>1, <1>3 DEF AppendInv, Ahead
<1>7. AppendsNeverOverwrite'
  BY DEF AppendInv, AppendsNeverOverwrite
<1> QED BY <1>2, <1>4, <1>5, <1>6, <1>7 DEF AppendInv

\* Between calls, and a call that begins or ends.
LEMMA OutsideOK ==
  ASSUME AppendInv, NEW t \in Threads, \A u \in Threads : u # t => th'[u] = th[u],
         ~Inside(th[t]), ~Inside(th'[t]), hist' = hist, size' = size,
         th'[t].hold = "none" \/ (\A u \in Threads : th[u].hold = "none"), Marked(th'[t])
  PROVE  AppendInv'
<1>1. Locks'
  BY DEF AppendInv, Locks
<1>2. \A u \in Threads : Writing(th'[u]) <=> Writing(th[u])
  BY DEF Writing
<1>3. PastSize'
  <2> SUFFICES ASSUME NEW b \in Blocks, b >= size', hist'[b] # <<>>
               PROVE  \E u \in Threads : Writing(th'[u]) /\ b < th'[u].end
    BY DEF PastSize
  <2>1. PICK u \in Threads : Writing(th[u]) /\ b < th[u].end
    BY DEF AppendInv, PastSize
  <2>2. u # t
    BY <2>1 DEF Writing
  <2> QED BY <2>1, <2>2
<1>4. \A u \in Threads : Marked(th'[u])
  BY DEF AppendInv
<1>5. \A u \in Threads : Ahead(th'[u], hist')
  <2>1. Ahead(th'[t], hist')
    BY DEF Ahead, Writing
  <2> QED BY <2>1 DEF AppendInv
<1>6. AppendsNeverOverwrite'
  BY DEF AppendInv, AppendsNeverOverwrite
<1> QED BY <1>1, <1>3, <1>4, <1>5, <1>6 DEF AppendInv

\* file_op_lock is taken: an append finds nothing at or past the size.
LEMMA BeginAppend ==
  ASSUME IInv, AppendInv, failed = "none", NEW t \in Threads,
         ReadBegin(t) \/ AppendBegin(t) \/ WriteBegin(t)
  PROVE  AppendInv'
<1>1. th \in [Threads -> ThreadRec] /\ th[t] \in ThreadRec /\ th[t].pc = "lock"
  BY SMTT(40) DEF IInv, TypeInv, ReadBegin, AppendBegin, WriteBegin
<1>2. PICK lock, from, to, q :
        /\ th' = [th EXCEPT ![t].hold = lock, ![t].start = from, ![t].next = from, ![t].end = to,
                            ![t].pc = q]
        /\ q \in {"get", "unlock"}
        /\ \/ lock = "rd" /\ Shareable /\ (th[t].op = "write" => th[t].fd \notin AppendFds)
           \/ lock = "wr" /\ Available /\ from = size
  <2>1. CASE ReadBegin(t)
    BY <2>1 DEF ReadBegin
  <2>2. CASE AppendBegin(t)
    BY <2>2 DEF AppendBegin, WriteAt
  <2>3. CASE WriteBegin(t)
    BY <2>3 DEF WriteBegin, WriteAt
  <2> QED BY <2>1, <2>2, <2>3, ZenonT(40)
<1>3. /\ \A u \in Threads : u # t => th'[u] = th[u]
      /\ th'[t].hold = lock /\ th'[t].next = from /\ th'[t].end = to /\ th'[t].pc = q
      /\ th'[t].op = th[t].op /\ th'[t].fd = th[t].fd /\ th'[t].id = th[t].id
  BY <1>1, <1>2 DEF ThreadRec
<1>4. hist' = hist /\ size' = size
  BY DEF ReadBegin, AppendBegin, WriteBegin, fileVars
<1>5. Locks'
  <2> SUFFICES ASSUME NEW u \in Threads, NEW v \in Threads, th'[u].hold = "wr", th'[v].hold # "none"
               PROVE  u = v
    BY DEF Locks
  <2>1. CASE u # t /\ v # t
    BY <1>3, <2>1 DEF AppendInv, Locks
  <2>2. CASE u = t /\ v # t
    <3>1. Available
      BY <1>2, <1>3, <2>2
    <3> QED BY <1>3, <2>2, <3>1 DEF Available
  <2>3. CASE u # t /\ v = t
    <3>1. th[u].hold = "wr"
      BY <1>3, <2>3
    <3> QED BY <1>2, <3>1 DEF Available, Shareable
  <2> QED BY <2>1, <2>2, <2>3
<1>6. PastSize'
  <2> SUFFICES ASSUME NEW b \in Blocks, b >= size', hist'[b] # <<>>
               PROVE  \E u \in Threads : Writing(th'[u]) /\ b < th'[u].end
    BY DEF PastSize
  <2>1. PICK u \in Threads : Writing(th[u]) /\ b < th[u].end
    BY <1>4 DEF AppendInv, PastSize
  <2>2. u # t
    BY <1>1, <2>1 DEF Writing, Inside
  <2> QED BY <1>3, <2>1, <2>2
<1>7. Marked(th'[t])
  <2>1. th[t].op = "write" /\ th[t].fd \notin AppendFds => th[t].id > 0
    BY <1>1 DEF AppendInv, Marked
  <2>2. th[t].op = "write" /\ th[t].fd \in AppendFds => lock = "wr"
    BY <1>2
  <2> QED BY <1>3, <2>1, <2>2 DEF Marked, Writing
<1>8. Ahead(th'[t], hist')
  <2> SUFFICES ASSUME Writing(th'[t]), th'[t].fd \in AppendFds, NEW b \in Blocks, b >= th'[t].next
               PROVE  hist[b] = <<>>
    BY <1>4 DEF Ahead
  <2>1. Available /\ b >= size
    BY <1>2, <1>3 DEF Writing
  <2>2. \A u \in Threads : ~Inside(th[u])
    <3> SUFFICES ASSUME NEW u \in Threads PROVE ~Inside(th[u])
      OBVIOUS
    <3>1. Shape(th[u]) /\ th[u].hold = "none"
      BY <2>1 DEF IInv, Available
    <3> QED BY <3>1 DEF Shape, Inside, Waiting, Finishing
  <2> QED BY <2>1, <2>2 DEF AppendInv, PastSize, Writing
<1>9. \A u \in Threads : Marked(th'[u]) /\ Ahead(th'[u], hist')
  BY <1>3, <1>4, <1>7, <1>8 DEF AppendInv
<1>10. AppendsNeverOverwrite'
  BY <1>4 DEF AppendInv, AppendsNeverOverwrite
<1> QED BY <1>5, <1>6, <1>9, <1>10 DEF AppendInv

\* A page is copied: into the file, it is counted as written.
LEMMA CopyAppend ==
  ASSUME IInv, AppendInv, failed = "none", NEW t \in Threads, CopyPage(t)
  PROVE  AppendInv'
<1>1. /\ th \in [Threads -> ThreadRec] /\ th[t] \in ThreadRec /\ th[t].pc = "copy" /\ Shape(th[t])
      /\ hist \in [Blocks -> Seq(Int)] /\ NumBlocks \in Nat /\ size' = size
  BY SizeAssumption, Zenon DEF IInv, TypeInv, DataInv, CopyPage, fileVars
<1>2. /\ th[t].next < th[t].end /\ th[t].end <= NumBlocks /\ th[t].hold # "none"
      /\ th[t].next \in Nat /\ th[t].end \in Nat /\ th[t].id \in Int /\ Inside(th[t])
  BY <1>1 DEF Shape, Inside, Waiting, Finishing, ThreadRec
<1>3. PICK b \in Blocks : b = th[t].next
  BY <1>1, <1>2 DEF Blocks
<1>4. /\ \A u \in Threads : u # t => th'[u] = th[u]
      /\ th'[t].hold = th[t].hold /\ th'[t].end = th[t].end /\ th'[t].pc = "drop"
      /\ th'[t].op = th[t].op /\ th'[t].fd = th[t].fd /\ th'[t].id = th[t].id
      /\ th'[t].next = th[t].next + 1
  <2>1. CASE th[t].op = "read"
    <3>1. PICK x, g : /\ x = IF th[t].next + 1 < th[t].end THEN "get" ELSE "last"
                      /\ g = prepare_page_content(cache, th[t].page).ent[th[t].page].page
      BY SMTT(40)
    <3>2. th' = [th EXCEPT ![t].pre = th[t].page, ![t].put = th[t].pre, ![t].page = NoEntry,
                           ![t].next = th[t].next + 1, ![t].pc = "drop", ![t].then = x,
                           ![t].got = Append(@, g)]
      BY <2>1, <3>1 DEF CopyPage
    <3> QED BY <1>1, <3>2 DEF ThreadRec
  <2>2. CASE th[t].op = "write"
    <3>1. PICK x : x = IF th[t].next + 1 < th[t].end THEN "get" ELSE "last"
      BY SMTT(40)
    <3>2. th' = [th EXCEPT ![t].pre = th[t].page, ![t].put = th[t].pre, ![t].page = NoEntry,
                           ![t].next = th[t].next + 1, ![t].pc = "drop", ![t].then = x]
      BY <2>2, <3>1 DEF CopyPage
    <3> QED BY <1>1, <3>2 DEF ThreadRec
  <2> QED BY <1>1, <2>1, <2>2 DEF Shape, Inside
<1>5. hist' = IF th[t].op = "write" THEN [hist EXCEPT ![b] = Append(@, th[t].id)] ELSE hist
  BY <1>3, Zenon DEF CopyPage
<1>6. Locks'
  BY <1>4 DEF AppendInv, Locks
<1>7. Inside(th'[t]) /\ (Writing(th'[t]) <=> Writing(th[t])) /\ (Writing(th[t]) <=> th[t].op = "write")
  BY <1>2, <1>4 DEF Writing, Inside
<1>8. PastSize'
  <2> SUFFICES ASSUME NEW y \in Blocks, y >= size', hist'[y] # <<>>
               PROVE  \E u \in Threads : Writing(th'[u]) /\ y < th'[u].end
    BY DEF PastSize
  <2>1. CASE hist[y] # <<>>
    <3>1. PICK u \in Threads : Writing(th[u]) /\ y < th[u].end
      BY <1>1, <2>1 DEF AppendInv, PastSize
    <3> QED BY <1>4, <1>7, <3>1
  <2>2. CASE hist[y] = <<>>
    <3>1. th[t].op = "write" /\ y = b
      BY <1>1, <1>5, <2>2
    <3> QED BY <1>2, <1>3, <1>4, <1>7, <3>1
  <2> QED BY <2>1, <2>2
<1>9. Marked(th'[t])
  BY <1>2, <1>4, <1>7 DEF AppendInv, Marked
<1>10. Ahead(th'[t], hist')
  <2> SUFFICES ASSUME Writing(th'[t]), th'[t].fd \in AppendFds, NEW y \in Blocks, y >= th'[t].next
               PROVE  hist'[y] = <<>>
    BY DEF Ahead
  <2>1. y \in Nat /\ y >= th[t].next + 1
    BY <1>4, EntryNumbers
  <2>2. y # b /\ y >= th[t].next
    BY <1>2, <1>3, <2>1
  <2>3. hist[y] = <<>>
    BY <1>4, <1>7, <2>2 DEF AppendInv, Ahead
  <2> QED BY <1>1, <1>5, <2>2, <2>3
<1>11. ASSUME NEW u \in Threads, u # t PROVE Marked(th'[u]) /\ Ahead(th'[u], hist')
  <2>1. Marked(th[u]) /\ Ahead(th[u], hist) /\ th'[u] = th[u]
    BY <1>4, <1>11 DEF AppendInv
  <2>2. ~(Writing(th[u]) /\ th[u].fd \in AppendFds)
    <3>1. th[u].hold # "wr"
      BY <1>2, <1>11 DEF AppendInv, Locks
    <3> QED BY <2>1, <3>1 DEF Marked
  <2> QED BY <2>1, <2>2 DEF Ahead
<1>12. AppendsNeverOverwrite'
  <2> SUFFICES ASSUME NEW y \in Blocks, NEW i \in DOMAIN hist'[y], hist'[y][i] < 0
               PROVE  i = 1
    BY DEF AppendsNeverOverwrite
  <2>1. CASE th[t].op = "write" /\ y = b
    <3>1. PICK s \in Seq(Int), w \in Int : s = hist[b] /\ w = th[t].id
      BY <1>1, <1>2
    <3>2. hist'[y] = Append(s, w)
      BY <1>1, <1>5, <2>1, <3>1
    <3>3. i \in 1 .. Len(s) + 1 /\ Append(s, w)[i] < 0
      BY <3>2
    <3>4. CASE i \in 1 .. Len(s)
      <4>1. s[i] < 0
        BY <3>3, <3>4
      <4> QED BY <3>1, <3>4, <4>1 DEF AppendInv, AppendsNeverOverwrite
    <3>5. CASE i = Len(s) + 1
      <4>1. w < 0
        BY <3>3, <3>5
      <4>2. th[t].fd \in AppendFds
        <5>1. ~(th[t].id > 0)
          BY <3>1, <4>1
        <5> QED BY <1>2, <2>1, <5>1 DEF AppendInv, Marked
      <4>3. b >= th[t].next
        BY <1>2, <1>3
      <4>4. s = <<>>
        BY <1>7, <2>1, <3>1, <4>2, <4>3 DEF AppendInv, Ahead
      <4> QED BY <3>5, <4>4
    <3> QED BY <3>3, <3>4, <3>5
  <2>2. CASE ~(th[t].op = "write" /\ y = b)
    <3>1. hist'[y] = hist[y]
      BY <1>1, <1>5, <2>2
    <3> QED BY <3>1 DEF AppendInv, AppendsNeverOverwrite
  <2> QED BY <2>1, <2>2
<1> QED BY <1>6, <1>8, <1>9, <1>10, <1>11, <1>12 DEF AppendInv

\* A write's blocks are inside the size when it releases the lock.
LEMMA UnlockAppend ==
  ASSUME IInv, AppendInv, failed = "none", NEW t \in Threads, UnlockFile(t)
  PROVE  AppendInv'
<1>1. /\ th \in [Threads -> ThreadRec] /\ th[t] \in ThreadRec /\ th[t].pc = "unlock"
      /\ hist' = hist /\ size \in Nat /\ th[t].end \in Nat
  <2>1. size \in 0 .. NumBlocks /\ NumBlocks \in Nat
    BY SizeAssumption DEF IInv, TypeInv, DataInv
  <2> QED BY <2>1 DEF IInv, TypeInv, UnlockFile, ThreadRec
<1>2. /\ \A u \in Threads : u # t => th'[u] = th[u]
      /\ th'[t].hold = "none" /\ th'[t].pc = "mark"
  BY <1>1 DEF UnlockFile, ThreadRec
<1>3. Locks'
  BY <1>2 DEF AppendInv, Locks
<1>4. size' \in Nat /\ size' >= size /\ (th[t].op = "write" => size' >= th[t].end)
  BY <1>1 DEF UnlockFile, set_cur_size_if_larger
<1>5. PastSize'
  <2> SUFFICES ASSUME NEW b \in Blocks, b >= size', hist'[b] # <<>>
               PROVE  \E u \in Threads : Writing(th'[u]) /\ b < th'[u].end
    BY DEF PastSize
  <2>1. b \in Nat /\ b >= size
    BY <1>1, <1>4, EntryNumbers
  <2>2. PICK u \in Threads : Writing(th[u]) /\ b < th[u].end
    BY <1>1, <2>1 DEF AppendInv, PastSize
  <2>3. CASE u = t
    <3>1. b < th[t].end /\ size' >= th[t].end
      BY <1>4, <2>2, <2>3 DEF Writing
    <3> QED BY <1>1, <1>4, <2>1, <3>1
  <2>4. CASE u # t
    BY <1>2, <2>2, <2>4
  <2> QED BY <2>3, <2>4
<1>6. Marked(th'[t]) /\ Ahead(th'[t], hist')
  BY <1>2 DEF Marked, Ahead, Writing, Inside
<1>7. \A u \in Threads : Marked(th'[u]) /\ Ahead(th'[u], hist')
  BY <1>1, <1>2, <1>6 DEF AppendInv
<1>8. AppendsNeverOverwrite'
  BY <1>1 DEF AppendInv, AppendsNeverOverwrite
<1> QED BY <1>3, <1>5, <1>7, <1>8 DEF AppendInv

LEMMA TruncateAppend ==
  ASSUME IInv, AppendInv, failed = "none", NEW t \in Threads, Truncate(t)
  PROVE  AppendInv'
<1>1. th \in [Threads -> ThreadRec] /\ th[t] \in ThreadRec /\ th[t].pc = "truncate" /\ Shape(th[t])
  BY DEF IInv, TypeInv, Truncate
<1>2. PICK q : th' = [th EXCEPT ![t].pc = q] /\ q \in {"return", "mark"}
  BY DEF Truncate, Goto
<1>3. /\ \A u \in Threads : u # t => th'[u] = th[u]
      /\ th'[t].pc = q /\ th'[t].hold = th[t].hold /\ th'[t].op = th[t].op /\ th'[t].fd = th[t].fd
      /\ th'[t].id = th[t].id /\ th'[t].end = th[t].end /\ th'[t].next = th[t].next
  BY <1>1, <1>2 DEF ThreadRec
<1>4. ~Inside(th[t]) /\ ~Inside(th'[t]) /\ th[t].hold = "wr"
  BY <1>1, <1>2, <1>3 DEF Inside, Shape, Exclusive
<1>5. CASE th[t].end = inode.i_size
  <2>1. hist' = hist /\ size' = size
    BY <1>5 DEF Truncate, fileVars
  <2>2. Alike(th[t], th'[t])
    BY <1>1, <1>2, <1>3, <1>4 DEF Alike
  <2> QED BY <1>3, <2>1, <2>2, AlikeOK
<1>6. CASE th[t].end # inode.i_size
  <2>1. PICK n \in Nat : n = th[t].end
    BY <1>1 DEF ThreadRec
  <2>2. hist' = [b \in Blocks |-> IF b < n THEN hist[b] ELSE <<>>] /\ size' = n
    BY <1>6, <2>1 DEF Truncate
  <2>3. Locks'
    BY <1>3 DEF AppendInv, Locks
  <2>4. PastSize'
    <3>1. \A b \in Blocks : b >= n => hist'[b] = <<>>
      BY <2>2, EntryNumbers
    <3> QED BY <2>2, <3>1 DEF PastSize
  <2>5. \A u \in Threads : Marked(th'[u]) /\ Ahead(th'[u], hist')
    <3>1. Marked(th'[t]) /\ Ahead(th'[t], hist')
      BY <1>2, <1>3, <1>4 DEF Marked, Ahead, Writing
    <3>2. ASSUME NEW u \in Threads, u # t PROVE Marked(th'[u]) /\ Ahead(th'[u], hist')
      <4>1. th[u].hold = "none" /\ Shape(th[u])
        BY <1>4, <3>2 DEF AppendInv, Locks, IInv
      <4>2. ~Inside(th[u])
        BY <4>1 DEF Shape, Inside, Waiting, Finishing
      <4> QED BY <1>3, <3>2, <4>2 DEF AppendInv, Ahead, Writing
    <3> QED BY <3>1, <3>2
  <2>6. AppendsNeverOverwrite'
    <3>1. \A b \in Blocks : hist'[b] = hist[b] \/ hist'[b] = <<>>
      BY <2>2
    <3> QED BY <3>1 DEF AppendInv, AppendsNeverOverwrite
  <2> QED BY <2>3, <2>4, <2>5, <2>6 DEF AppendInv
<1> QED BY <1>5, <1>6

\* The calls, and the steps that neither take nor release the lock.
LEMMA OtherAppend ==
  ASSUME IInv, AppendInv, failed = "none", NEW t \in Threads,
         \/ NewCall(t) \/ GetPage(t) \/ DropHandle(t) \/ Unpin(t) \/ LastPage(t) \/ MarkDirty(t)
         \/ AddToDirtyFiles(t) \/ Advance(t) \/ ClearDirty(t) \/ RemoveFromDirtyFiles(t)
         \/ WriteBack(t) \/ Return(t)
  PROVE  AppendInv'
<1>1. /\ th \in [Threads -> ThreadRec] /\ th[t] \in ThreadRec /\ Shape(th[t]) /\ ops \in Nat
  BY DEF IInv, TypeInv, DataInv
<1>2. hist' = hist /\ size' = size
  BY Zenon DEF NewCall, Call, set_rw_pos, CallExclusive, GetPage, DropHandle, Unpin, LastPage, MarkDirty,
         AddToDirtyFiles, Advance, ClearDirty, RemoveFromDirtyFiles, WriteBack, Return, fileVars
<1>3. ASSUME NEW q, th' = [th EXCEPT ![t].pc = q],
             \/ Inside(th[t]) /\ q \in {"get", "last", "unlock", "unpin"}
             \/ th[t].pc \in {"mark", "add", "fsync", "remove", "write_back"}
                  /\ q \in {"add", "advance", "return", "remove", "write_back"}
      PROVE  AppendInv'
  <2>1. /\ \A u \in Threads : u # t => th'[u] = th[u]
        /\ th'[t].pc = q /\ th'[t].hold = th[t].hold /\ th'[t].op = th[t].op /\ th'[t].fd = th[t].fd
        /\ th'[t].id = th[t].id /\ th'[t].end = th[t].end /\ th'[t].next = th[t].next
    BY <1>1, <1>3 DEF ThreadRec
  <2>2. Alike(th[t], th'[t])
    BY <1>3, <2>1 DEF Alike, Inside
  <2> QED BY <1>2, <2>1, <2>2, AlikeOK
<1>4. CASE NewCall(t)
  <2>1. ASSUME NEW op \in {"read", "write"}, NEW f \in Fds, NEW n \in 1 .. MaxCount, Call(t, op, f, n)
        PROVE  AppendInv'
    <3>1. PICK w : w = WriteId(f) /\ (f \notin AppendFds => w > 0)
      BY <1>1 DEF WriteId
    <3>2. th' = [th EXCEPT ![t] = [Idle EXCEPT !.pc = "lock", !.op = op, !.fd = f, !.id = w,
                                               !.end = n]]
      BY <2>1, <3>1 DEF Call
    <3>3. /\ \A u \in Threads : u # t => th'[u] = th[u]
          /\ th'[t].pc = "lock" /\ th'[t].op = op /\ th'[t].fd = f /\ th'[t].id = w
          /\ th'[t].hold = "none"
      BY <1>1, <3>2 DEF Idle
    <3>4. ~Inside(th[t]) /\ ~Inside(th'[t])
      BY <2>1, <3>3 DEF Inside, Call
    <3>5. Marked(th'[t])
      BY <3>1, <3>3, <3>4 DEF Marked, Writing
    <3> QED BY <1>2, <3>3, <3>4, <3>5, OutsideOK
  <2>2. ASSUME NEW f \in Fds, NEW o, NEW whence, set_rw_pos(t, f, o, whence) PROVE AppendInv'
    <3>1. th' = th
      BY <2>2 DEF set_rw_pos
    <3>2. Alike(th[t], th'[t])
      BY <3>1 DEF Alike
    <3> QED BY <1>2, <3>1, <3>2, AlikeOK
  <2>3. ASSUME NEW op \in {"truncate", "fsync"}, NEW n, CallExclusive(t, op, n) PROVE AppendInv'
    <3>1. th' = [th EXCEPT ![t] = [Idle EXCEPT !.pc = op, !.op = op, !.hold = "wr", !.end = n,
                                               !.then = "return"]]
      BY <2>3 DEF CallExclusive
    <3>2. (\A u \in Threads : u # t => th'[u] = th[u]) /\ th'[t].pc = op /\ th'[t].op = op
      BY <1>1, <3>1 DEF Idle
    <3>3. ~Inside(th[t]) /\ ~Inside(th'[t]) /\ (\A u \in Threads : th[u].hold = "none")
      BY <2>3, <3>2 DEF Inside, CallExclusive, Available
    <3>4. Marked(th'[t])
      BY <3>2, <3>3 DEF Marked, Writing
    <3> QED BY <1>2, <3>2, <3>3, <3>4, OutsideOK
  <2> QED BY <1>4, <2>1, <2>2, <2>3 DEF NewCall
<1>5. CASE GetPage(t)
  <2>1. PICK e : th' = [th EXCEPT ![t].page = e, ![t].pc = "copy"]
    BY <1>5 DEF GetPage
  <2>2. /\ \A u \in Threads : u # t => th'[u] = th[u]
        /\ th'[t].pc = "copy" /\ th'[t].hold = th[t].hold /\ th'[t].op = th[t].op /\ th'[t].fd = th[t].fd
        /\ th'[t].id = th[t].id /\ th'[t].end = th[t].end /\ th'[t].next = th[t].next
    BY <1>1, <2>1 DEF ThreadRec
  <2>3. Alike(th[t], th'[t])
    BY <1>5, <2>2 DEF Alike, Inside, GetPage
  <2> QED BY <1>2, <2>2, <2>3, AlikeOK
<1>6. ASSUME NEW q, th' = [th EXCEPT ![t].put = NoEntry, ![t].pc = q],
             Inside(th[t]) /\ q \in {"get", "last", "unlock"}
      PROVE  AppendInv'
  <2>1. /\ \A u \in Threads : u # t => th'[u] = th[u]
        /\ th'[t].pc = q /\ th'[t].hold = th[t].hold /\ th'[t].op = th[t].op /\ th'[t].fd = th[t].fd
        /\ th'[t].id = th[t].id /\ th'[t].end = th[t].end /\ th'[t].next = th[t].next
    BY <1>1, <1>6 DEF ThreadRec
  <2>2. Alike(th[t], th'[t])
    BY <1>6, <2>1 DEF Alike, Inside
  <2> QED BY <1>2, <2>1, <2>2, AlikeOK
<1>7. CASE DropHandle(t) \/ Unpin(t)
  <2>1. Inside(th[t]) /\ th[t].then \in {"get", "last", "unlock"}
    BY <1>1, <1>7 DEF Shape, Inside, DropHandle, Unpin
  <2>2. PICK q : q = th[t].then
    OBVIOUS
  <2>3. \/ th' = [th EXCEPT ![t].pc = q] \/ th' = [th EXCEPT ![t].pc = "unpin"]
        \/ th' = [th EXCEPT ![t].put = NoEntry, ![t].pc = q]
    BY <1>7, <2>2 DEF DropHandle, Unpin, Goto
  <2> QED BY <1>3, <1>6, <2>1, <2>2, <2>3
<1>8. CASE LastPage(t)
  <2>1. th' = [th EXCEPT ![t].put = th[t].pre, ![t].pre = NoEntry, ![t].pc = "drop",
                         ![t].then = "unlock"]
    BY <1>8 DEF LastPage
  <2>2. /\ \A u \in Threads : u # t => th'[u] = th[u]
        /\ th'[t].pc = "drop" /\ th'[t].hold = th[t].hold /\ th'[t].op = th[t].op /\ th'[t].fd = th[t].fd
        /\ th'[t].id = th[t].id /\ th'[t].end = th[t].end /\ th'[t].next = th[t].next
    BY <1>1, <2>1 DEF ThreadRec
  <2>3. Alike(th[t], th'[t])
    BY <1>8, <2>2 DEF Alike, Inside, LastPage
  <2> QED BY <1>2, <2>2, <2>3, AlikeOK
<1>9. CASE MarkDirty(t) \/ AddToDirtyFiles(t) \/ ClearDirty(t) \/ RemoveFromDirtyFiles(t) \/ WriteBack(t)
  <2>1. th[t].pc \in {"mark", "add"} => th[t].then \in {"advance", "return"}
    BY <1>1 DEF Shape, Waiting, Inside, Finishing, Exclusive
  <2>2. PICK q : /\ th' = [th EXCEPT ![t].pc = q]
                 /\ th[t].pc \in {"mark", "add", "fsync", "remove", "write_back"}
                 /\ q \in {"add", "advance", "return", "remove", "write_back"}
    <3>1. CASE MarkDirty(t)
      BY <2>1, <3>1 DEF MarkDirty, Goto
    <3>2. CASE AddToDirtyFiles(t)
      BY <2>1, <3>2 DEF AddToDirtyFiles, Goto
    <3>3. CASE ClearDirty(t)
      BY <3>3 DEF ClearDirty, Goto
    <3>4. CASE RemoveFromDirtyFiles(t)
      BY <3>4 DEF RemoveFromDirtyFiles, Goto
    <3>5. CASE WriteBack(t)
      BY <3>5 DEF WriteBack, Goto
    <3> QED BY <1>9, <3>1, <3>2, <3>3, <3>4, <3>5
  <2> QED BY <1>3, <2>2
<1>10. CASE Advance(t) \/ Return(t)
  <2>1. th' = [th EXCEPT ![t] = Idle] /\ ~Inside(th[t])
    BY <1>10 DEF Advance, Return, Inside
  <2>2. (\A u \in Threads : u # t => th'[u] = th[u]) /\ th'[t] = Idle
    BY <1>1, <2>1
  <2>3. ~Inside(th'[t]) /\ th'[t].hold = "none" /\ th'[t].pc = "idle"
    BY <2>2 DEF Inside, Idle
  <2>4. Marked(th'[t])
    BY <2>3 DEF Marked, Writing
  <2> QED BY <1>2, <2>1, <2>2, <2>3, <2>4, OutsideOK
<1> QED BY <1>4, <1>5, <1>7, <1>8, <1>9, <1>10

LEMMA AppendInvariant == Spec => []AppendInv
<1>1. Init => AppendInv
  <2> SUFFICES ASSUME Init PROVE AppendInv
    OBVIOUS
  <2>1. th = [t \in Threads |-> Idle] /\ Earlier \in Int /\ ~(Earlier < 0)
    BY BoundAssumption DEF Init, Earlier
  <2>2. \A t \in Threads : th[t].hold = "none" /\ th[t].pc = "idle"
    BY <2>1 DEF Idle
  <2>3. Locks /\ \A t \in Threads : Marked(th[t]) /\ Ahead(th[t], hist)
    BY <2>2 DEF Locks, Marked, Ahead, Writing, Inside
  <2>4. hist = [b \in Blocks |-> IF b < size THEN <<Earlier>> ELSE <<>>] /\ size \in Nat
    BY SizeAssumption DEF Init
  <2>5. PastSize
    BY <2>4, EntryNumbers DEF PastSize
  <2>6. AppendsNeverOverwrite
    BY <2>1, <2>4 DEF AppendsNeverOverwrite
  <2> QED BY <2>3, <2>5, <2>6 DEF AppendInv
<1>2. IInv /\ AppendInv /\ [Next]_vars => AppendInv'
  <2> SUFFICES ASSUME IInv, AppendInv, [Next]_vars PROVE AppendInv'
    OBVIOUS
  <2>1. CASE UNCHANGED vars
    <3>1. th' = th /\ hist' = hist /\ size' = size
      BY <2>1 DEF vars, fileVars
    <3> QED BY <3>1 DEF AppendInv, Locks, PastSize, AppendsNeverOverwrite
  <2>2. CASE Next
    <3>1. failed = "none"
      BY <2>2 DEF Next
    <3>2. PICK t \in Threads : NewCall(t) \/ Step(t)
      BY <2>2 DEF Next
    <3>3. CASE ReadBegin(t) \/ AppendBegin(t) \/ WriteBegin(t)
      BY <3>1, <3>3, BeginAppend
    <3>4. CASE CopyPage(t)
      BY <3>1, <3>4, CopyAppend
    <3>5. CASE UnlockFile(t)
      BY <3>1, <3>5, UnlockAppend
    <3>6. CASE Truncate(t)
      BY <3>1, <3>6, TruncateAppend
    <3>7. CASE \/ NewCall(t) \/ GetPage(t) \/ DropHandle(t) \/ Unpin(t) \/ LastPage(t) \/ MarkDirty(t)
               \/ AddToDirtyFiles(t) \/ Advance(t) \/ ClearDirty(t) \/ RemoveFromDirtyFiles(t)
               \/ WriteBack(t) \/ Return(t)
      BY <3>1, <3>7, OtherAppend
    <3> QED BY <3>2, <3>3, <3>4, <3>5, <3>6, <3>7 DEF Step
  <2> QED BY <2>1, <2>2
<1> QED BY <1>1, <1>2, Invariant, PTL DEF Spec

\* Where an append writes, nothing was written since the block was last cut off:
\* it takes file_op_lock exclusively before it reads the size, and every other
\* write is inside the size when it releases the lock.
THEOREM AppendsAtTheEnd == Spec => []AppendsNeverOverwrite
<1>1. AppendInv => AppendsNeverOverwrite
  BY DEF AppendInv
<1> QED BY <1>1, AppendInvariant, PTL

-----------------------------------------------------------------------------
(* Contents.  A dirty page has its content; a page that has its content    *)
(* has what was written last to its block; a block that was written and    *)
(* has no dirty page is on the SSD, inside the inode's size.  The block    *)
(* tree's addresses are valid, no two blocks share one, and the address a  *)
(* page remembers is its block's or one that is not valid any more.        *)

Ready(c, e) == c.ent[e].live /\ c.ent[e].content_state = "ready"
Unwritten(b) == \E e \in cache.dirty_pages : cache.ent[e].blkoff = b
DirtyReady == \A e \in cache.dirty_pages : Ready(cache, e)
ReadyHolds ==
    \A e \in Entries : Ready(cache, e) /\ hist[cache.ent[e].blkoff] # <<>>
        => cache.ent[e].page = Last(hist[cache.ent[e].blkoff])
OnSSD ==
    \A b \in Blocks : hist[b] # <<>> /\ ~Unwritten(b) =>
        b < inode.i_size /\ inode.addr[b] # INVALID_LPA /\ ssd[inode.addr[b]] = Last(hist[b])
KeptInv == DirtyReady /\ ReadyHolds /\ OnSSD

AddrsValid == \A b \in Blocks : inode.addr[b] # INVALID_LPA => inode.addr[b] \in valid
AddrsApart ==
    \A b, d \in Blocks : inode.addr[b] = inode.addr[d] /\ inode.addr[b] # INVALID_LPA => b = d
LpasKnown ==
    \A e \in Entries : Ready(cache, e) =>
        /\ cache.ent[e].lpa <= Len(ssd)
        /\ \/ cache.ent[e].lpa = INVALID_LPA \/ cache.ent[e].lpa = inode.addr[cache.ent[e].blkoff]
           \/ cache.ent[e].lpa \notin valid
AddrInv == AddrsValid /\ AddrsApart /\ LpasKnown

\* A dirty page exists, and it is a page of some block of the file.
LEMMA DirtyLive ==
  ASSUME NEW c, NEW h, CacheOK(c, h), NEW e \in c.dirty_pages
  PROVE  e \in Entries /\ c.ent[e].live /\ c.ent[e].blkoff \in Blocks
<1>1. e \in Entries
  BY DEF CacheOK, PageCaches
<1>2. c.ent[e].live
  BY <1>1 DEF CacheOK, Counted
<1> QED BY <1>1, <1>2 DEF CacheOK, Counted

\* The steps that move handles and pages and write nothing.
LEMMA RetainedOK ==
  ASSUME IInv, IInv', KeptInv, AddrInv, failed = "none", Retains(cache, cache'),
         UNCHANGED <<inode, ssd, valid, hist>>
  PROVE  KeptInv' /\ AddrInv'
<1>1. CacheOK(cache, HeldBy) /\ CacheOK(cache', HeldBy')
  BY DEF IInv, PageInv
<1>2. /\ cache'.dirty_pages = cache.dirty_pages
      /\ inode' = inode /\ ssd' = ssd /\ valid' = valid /\ hist' = hist
  BY DEF Retains
<1>3. \A e \in cache.dirty_pages : e \in Entries /\ cache.ent[e].live /\ cache'.ent[e].live
  BY <1>1, <1>2, DirtyLive
<1>4. \A e \in cache.dirty_pages : SameContent(cache.ent[e], cache'.ent[e])
  BY <1>3 DEF Retains
<1>5. \A e \in Entries : Ready(cache', e) => Ready(cache, e) /\ SameContent(cache.ent[e], cache'.ent[e])
  BY DEF Retains, Ready, SameContent
<1>6. DirtyReady'
  <2> SUFFICES ASSUME NEW e \in cache'.dirty_pages PROVE Ready(cache', e)
    BY DEF DirtyReady
  <2>1. e \in cache.dirty_pages /\ Ready(cache, e)
    BY <1>2 DEF KeptInv, DirtyReady
  <2> QED BY <1>3, <1>4, <2>1 DEF Ready, SameContent
<1>7. ReadyHolds'
  <2> SUFFICES ASSUME NEW e \in Entries, Ready(cache', e), hist'[cache'.ent[e].blkoff] # <<>>
               PROVE  cache'.ent[e].page = Last(hist'[cache'.ent[e].blkoff])
    BY DEF ReadyHolds
  <2>1. Ready(cache, e) /\ SameContent(cache.ent[e], cache'.ent[e])
    BY <1>5
  <2>2. cache'.ent[e].page = cache.ent[e].page /\ cache'.ent[e].blkoff = cache.ent[e].blkoff
    BY <2>1 DEF SameContent
  <2> QED BY <1>2, <2>1, <2>2 DEF KeptInv, ReadyHolds
<1>8. \A b : Unwritten(b)' <=> Unwritten(b)
  BY <1>2, <1>4 DEF Unwritten, SameContent
<1>9. OnSSD'
  BY <1>2, <1>8 DEF KeptInv, OnSSD
<1>10. LpasKnown'
  <2> SUFFICES ASSUME NEW e \in Entries, Ready(cache', e)
               PROVE  /\ cache'.ent[e].lpa <= Len(ssd')
                      /\ \/ cache'.ent[e].lpa = INVALID_LPA
                         \/ cache'.ent[e].lpa = inode'.addr[cache'.ent[e].blkoff]
                         \/ cache'.ent[e].lpa \notin valid'
    BY DEF LpasKnown
  <2>1. Ready(cache, e) /\ SameContent(cache.ent[e], cache'.ent[e])
    BY <1>5
  <2>2. cache'.ent[e].lpa = cache.ent[e].lpa /\ cache'.ent[e].blkoff = cache.ent[e].blkoff
    BY <2>1 DEF SameContent
  <2> QED BY <1>2, <2>1, <2>2 DEF AddrInv, LpasKnown
<1>11. AddrsValid' /\ AddrsApart'
  BY <1>2 DEF AddrInv, AddrsValid, AddrsApart
<1> QED BY <1>6, <1>7, <1>9, <1>10, <1>11 DEF KeptInv, AddrInv

\* prepare_page_content gives a page what was written last to its block.
LEMMA PreparedContent ==
  ASSUME IInv, KeptInv, AddrInv, failed = "none", NEW e \in Entries, cache.ent[e].live,
         NEW b \in Blocks, cache.ent[e].blkoff = b,
         NEW r, r = prepare_page_content(cache, e)
  PROVE  /\ r.ent[e].content_state = "ready"
         /\ hist[b] # <<>> => r.ent[e].page = Last(hist[b])
         /\ r.ent[e].lpa <= Len(ssd)
         /\ r.ent[e].lpa = INVALID_LPA \/ r.ent[e].lpa = inode.addr[b] \/ r.ent[e].lpa \notin valid
<1>1. CacheOK(cache, HeldBy) /\ DataInv
  BY DEF IInv, PageInv, TypeInv
<1>2. /\ inode.i_size \in Nat /\ inode.addr[b] \in Nat /\ inode.addr[b] <= Len(ssd) /\ Len(ssd) \in Nat
      /\ b \in Nat
  <2>1. inode.i_size \in 0 .. NumBlocks /\ NumBlocks \in Nat
    BY <1>1, SizeAssumption DEF DataInv
  <2> QED BY <1>1, <2>1, EntryNumbers DEF DataInv
<1>3. CASE cache.ent[e].content_state = "ready"
  <2>1. r = cache
    BY <1>3, PrepareOK
  <2>2. Ready(cache, e)
    BY <1>3 DEF Ready
  <2>3. hist[b] # <<>> => cache.ent[e].page = Last(hist[b])
    BY <2>2 DEF KeptInv, ReadyHolds
  <2>4. LpasKnown
    BY DEF AddrInv
  <2>5. /\ cache.ent[e].lpa <= Len(ssd)
        /\ \/ cache.ent[e].lpa = INVALID_LPA \/ cache.ent[e].lpa = inode.addr[b]
           \/ cache.ent[e].lpa \notin valid
    BY <2>2, <2>4 DEF LpasKnown
  <2> QED BY <1>3, <2>1, <2>3, <2>5
<1>4. CASE cache.ent[e].content_state # "ready"
  <2>1. /\ prepare_page_content(cache, e).ent[e].content_state = "ready"
        /\ prepare_page_content(cache, e).ent[e].lpa = Mapped(cache.ent[e].blkoff)
        /\ Mapped(cache.ent[e].blkoff) # INVALID_LPA =>
             prepare_page_content(cache, e).ent[e].page = ssd[Mapped(cache.ent[e].blkoff)]
    BY <1>4, PrepareOK
  <2>2. PICK lpa : /\ lpa = IF inode.i_size # 0 /\ b > inode.i_size - 1 THEN INVALID_LPA
                            ELSE inode.addr[b]
                   /\ r.ent[e].lpa = lpa
                   /\ lpa # INVALID_LPA => r.ent[e].page = ssd[lpa]
    BY <2>1 DEF Mapped
  <2>3. lpa = INVALID_LPA \/ lpa = inode.addr[b]
    BY <2>2
  <2>4. lpa <= Len(ssd)
    BY <1>2, <2>3 DEF INVALID_LPA
  <2>5. ASSUME hist[b] # <<>> PROVE r.ent[e].page = Last(hist[b])
    <3>1. ~Unwritten(b)
      <4> SUFFICES ASSUME NEW x \in cache.dirty_pages, cache.ent[x].blkoff = b PROVE FALSE
        BY DEF Unwritten
      <4>1. x \in Entries /\ cache.ent[x].live
        BY <1>1, DirtyLive
      <4>2. x = e
        BY <1>1, <4>1 DEF CacheOK, OneEach
      <4>3. Ready(cache, x)
        BY DEF KeptInv, DirtyReady
      <4> QED BY <1>4, <4>2, <4>3 DEF Ready
    <3>2. /\ b < inode.i_size /\ inode.addr[b] # INVALID_LPA
          /\ ssd[inode.addr[b]] = Last(hist[b])
      BY <2>5, <3>1 DEF KeptInv, OnSSD
    <3>3. ~(b > inode.i_size - 1)
      BY <1>2, <3>2
    <3>4. lpa = inode.addr[b]
      BY <2>2, <3>3
    <3> QED BY <2>2, <3>2, <3>4
  <2> QED BY <2>1, <2>2, <2>3, <2>4, <2>5
<1> QED BY <1>3, <1>4

\* A page of block b gets its content, and b perhaps a new one.
LEMMA FilledOK ==
  ASSUME IInv, KeptInv, AddrInv, failed = "none", NEW e \in Entries, cache.ent[e].live,
         NEW b \in Blocks, cache.ent[e].blkoff = b,
         \A y \in Entries : /\ cache'.ent[y].live <=> cache.ent[y].live
                            /\ cache'.ent[y].blkoff = cache.ent[y].blkoff
                            /\ y # e => SameContent(cache.ent[y], cache'.ent[y]),
         cache'.ent[e].content_state = "ready", cache'.ent[e].lpa <= Len(ssd),
         \/ cache'.ent[e].lpa = INVALID_LPA \/ cache'.ent[e].lpa = inode.addr[b]
         \/ cache'.ent[e].lpa \notin valid,
         cache'.dirty_pages \in {cache.dirty_pages, cache.dirty_pages \cup {e}},
         \A d \in Blocks : d # b => hist'[d] = hist[d],
         hist'[b] = hist[b] \/ e \in cache'.dirty_pages,
         hist'[b] # <<>> => cache'.ent[e].page = Last(hist'[b]),
         UNCHANGED <<inode, ssd, valid>>
  PROVE  KeptInv' /\ AddrInv'
<1>1. CacheOK(cache, HeldBy) /\ inode' = inode /\ ssd' = ssd /\ valid' = valid
  BY DEF IInv, PageInv
<1>2. ASSUME NEW y \in Entries, y # e, Ready(cache', y)
      PROVE  /\ Ready(cache, y) /\ cache'.ent[y].page = cache.ent[y].page
             /\ cache'.ent[y].lpa = cache.ent[y].lpa
             /\ cache'.ent[y].blkoff = cache.ent[y].blkoff /\ cache.ent[y].blkoff \in Blocks \ {b}
  <2>1. SameContent(cache.ent[y], cache'.ent[y]) /\ (cache'.ent[y].live <=> cache.ent[y].live)
    BY <1>2
  <2>2. Ready(cache, y)
    BY <1>2, <2>1 DEF Ready, SameContent
  <2>3. cache.ent[y].blkoff \in Blocks
    BY <1>1, <2>2 DEF CacheOK, Counted, Ready
  <2>4. cache.ent[y].blkoff # b
    BY <1>1, <1>2, <2>2 DEF CacheOK, OneEach, Ready
  <2> QED BY <2>1, <2>2, <2>3, <2>4 DEF SameContent
<1>3. DirtyReady'
  <2> SUFFICES ASSUME NEW y \in cache'.dirty_pages PROVE Ready(cache', y)
    BY DEF DirtyReady
  <2>1. CASE y = e
    BY <2>1 DEF Ready
  <2>2. CASE y # e
    <3>1. y \in cache.dirty_pages
      BY <2>2
    <3>2. y \in Entries /\ Ready(cache, y)
      BY <1>1, <3>1, DirtyLive DEF KeptInv, DirtyReady
    <3> QED BY <2>2, <3>2 DEF Ready, SameContent
  <2> QED BY <2>1, <2>2
<1>4. ReadyHolds'
  <2> SUFFICES ASSUME NEW y \in Entries, Ready(cache', y), hist'[cache'.ent[y].blkoff] # <<>>
               PROVE  cache'.ent[y].page = Last(hist'[cache'.ent[y].blkoff])
    BY DEF ReadyHolds
  <2>1. CASE y = e
    <3>1. cache'.ent[e].blkoff = b
      OBVIOUS
    <3> QED BY <2>1, <3>1
  <2>2. CASE y # e
    <3>1. /\ Ready(cache, y) /\ cache'.ent[y].page = cache.ent[y].page
          /\ cache'.ent[y].blkoff = cache.ent[y].blkoff /\ cache.ent[y].blkoff \in Blocks \ {b}
      BY <1>2, <2>2
    <3>2. hist'[cache.ent[y].blkoff] = hist[cache.ent[y].blkoff]
      BY <3>1
    <3> QED BY <3>1, <3>2 DEF KeptInv, ReadyHolds
  <2> QED BY <2>1, <2>2
<1>5. OnSSD'
  <2> SUFFICES ASSUME NEW d \in Blocks, hist'[d] # <<>>, ~Unwritten(d)'
               PROVE  /\ d < inode.i_size /\ inode.addr[d] # INVALID_LPA
                      /\ ssd[inode.addr[d]] = Last(hist'[d])
    BY <1>1 DEF OnSSD
  <2>1. ~Unwritten(d)
    <3> SUFFICES ASSUME NEW x \in cache.dirty_pages, cache.ent[x].blkoff = d PROVE FALSE
      BY DEF Unwritten
    <3>1. x \in Entries /\ x \in cache'.dirty_pages
      BY <1>1, DirtyLive
    <3>2. cache'.ent[x].blkoff = d
      BY <3>1
    <3> QED BY <3>1, <3>2 DEF Unwritten
  <2>2. hist'[d] = hist[d]
    <3>1. CASE d = b /\ e \in cache'.dirty_pages
      <4>1. cache'.ent[e].blkoff = d
        BY <3>1
      <4> QED BY <3>1, <4>1 DEF Unwritten
    <3> QED BY <3>1
  <2> QED BY <2>1, <2>2 DEF KeptInv, OnSSD
<1>6. LpasKnown'
  <2> SUFFICES ASSUME NEW y \in Entries, Ready(cache', y)
               PROVE  /\ cache'.ent[y].lpa <= Len(ssd)
                      /\ \/ cache'.ent[y].lpa = INVALID_LPA
                         \/ cache'.ent[y].lpa = inode.addr[cache'.ent[y].blkoff]
                         \/ cache'.ent[y].lpa \notin valid
    BY <1>1 DEF LpasKnown
  <2>1. CASE y = e
    <3>1. cache'.ent[e].blkoff = b
      OBVIOUS
    <3> QED BY <2>1, <3>1
  <2>2. CASE y # e
    <3>1. /\ Ready(cache, y) /\ cache'.ent[y].lpa = cache.ent[y].lpa
          /\ cache'.ent[y].blkoff = cache.ent[y].blkoff
      BY <1>2, <2>2
    <3> QED BY <3>1 DEF AddrInv, LpasKnown
  <2> QED BY <2>1, <2>2
<1>7. AddrsValid' /\ AddrsApart'
  BY <1>1 DEF AddrInv, AddrsValid, AddrsApart
<1> QED BY <1>3, <1>4, <1>5, <1>6, <1>7 DEF KeptInv, AddrInv

\* What copying a page into or out of the page e of block b changes.
LEMMA CopyEffect ==
  ASSUME IInv, NEW t \in Threads, CopyPage(t), NEW e, e = th[t].page, NEW b, b = th[t].next,
         NEW r, r = prepare_page_content(cache, e)
  PROVE  /\ e \in Entries /\ b \in Blocks /\ cache.ent[e].live /\ cache.ent[e].blkoff = b
         /\ \A y \in Entries : /\ cache'.ent[y].live <=> cache.ent[y].live
                               /\ cache'.ent[y].blkoff = cache.ent[y].blkoff
                               /\ y # e => SameContent(cache.ent[y], cache'.ent[y])
         /\ UNCHANGED <<inode, ssd, valid>>
         /\ th[t].op = "read" =>
              cache' = r /\ cache'.dirty_pages = cache.dirty_pages /\ hist' = hist
         /\ th[t].op = "write" =>
              /\ cache'.dirty_pages = cache.dirty_pages \cup {e}
              /\ cache'.ent[e].content_state = "ready" /\ cache'.ent[e].lpa = r.ent[e].lpa
              /\ cache'.ent[e].page = th[t].id
              /\ hist'[b] = Append(hist[b], th[t].id) /\ \A x \in Blocks : x # b => hist'[x] = hist[x]
         /\ th[t].op \in {"read", "write"}
<1>1. /\ th[t] \in ThreadRec /\ th[t].pc = "copy" /\ Shape(th[t]) /\ CacheOK(cache, HeldBy)
      /\ hist \in [Blocks -> Seq(Int)] /\ NumBlocks \in Nat
  BY SizeAssumption, Zenon DEF IInv, TypeInv, DataInv, PageInv, CopyPage
<1>2. e \in Entries /\ th[t].op \in {"read", "write"}
  BY <1>1 DEF Shape, ThreadRec, Inside
<1>3. HeldBy[e] > 0
  BY <1>2, HeldAny
<1>4. cache.ent[e].live
  <2>1. HeldBy[e] # 0
    BY <1>3
  <2> QED BY <1>1, <1>2, <2>1 DEF CacheOK, Counted
<1>5. b \in Blocks
  <2>1. /\ th[t].next < th[t].end /\ th[t].end <= NumBlocks /\ th[t].next \in Nat /\ th[t].end \in Nat
    BY <1>1 DEF Shape, Inside, ThreadRec
  <2> QED BY <1>1, <2>1 DEF Blocks
<1>6. cache.ent[e].blkoff = b
  BY <1>2, <1>5, EntryNumbers DEF IInv, PageInv
<1>8. /\ CacheOK(r, HeldBy) /\ r.ent[e].live /\ r.dirty_pages = cache.dirty_pages
      /\ \A y \in Entries : r.ent[y].blkoff = cache.ent[y].blkoff
      /\ \A y \in Entries : y # e => r.ent[y] = cache.ent[y]
      /\ r.ent[e].content_state = "ready"
  BY <1>2, <1>4, PrepareOK
<1>10. UNCHANGED <<inode, ssd, valid>>
  BY Zenon DEF CopyPage, fileVars
<1>11. CASE th[t].op = "read"
  <2>1. cache' = r /\ hist' = hist
    BY <1>11 DEF CopyPage
  <2>2. \A y \in Entries : /\ cache'.ent[y].live <=> cache.ent[y].live
                           /\ cache'.ent[y].blkoff = cache.ent[y].blkoff
                           /\ y # e => SameContent(cache.ent[y], cache'.ent[y])
    BY <1>4, <1>8, <2>1, SMTT(40) DEF SameContent
  <2> QED BY <1>2, <1>4, <1>5, <1>6, <1>8, <1>10, <1>11, <2>1, <2>2
<1>12. CASE th[t].op = "write"
  <2>1. r \in PageCaches /\ r.ent[e] \in PageEntry /\ th[t].id \in Int
    BY <1>1, <1>2, <1>8 DEF CacheOK, PageCaches, ThreadRec
  <2>2. PICK p : p = [r.ent[e] EXCEPT !.page = th[t].id]
    OBVIOUS
  <2>3. /\ p \in PageEntry /\ p.blkoff = r.ent[e].blkoff /\ (p.live <=> r.ent[e].live)
        /\ p.ref_count = r.ent[e].ref_count /\ (p.is_dirty <=> r.ent[e].is_dirty)
        /\ p.content_state = r.ent[e].content_state /\ p.lpa = r.ent[e].lpa /\ p.page = th[t].id
    BY <2>1, <2>2 DEF PageEntry
  <2>4. PICK d : d = [r EXCEPT !.ent[e] = p]
    OBVIOUS
  <2>5. CacheOK(d, HeldBy)
    BY <1>2, <1>8, <2>3, <2>4, Refilled
  <2>6. d.dirty_pages = r.dirty_pages /\ \A y \in Entries : d.ent[y] = IF y = e THEN p ELSE r.ent[y]
    BY <2>1, <2>4 DEF PageCaches
  <2>7. /\ mark_dirty(d, e).dirty_pages = d.dirty_pages \cup {e}
        /\ \A y \in Entries : /\ mark_dirty(d, e).ent[y].live <=> d.ent[y].live
                              /\ SameContent(d.ent[y], mark_dirty(d, e).ent[y])
    BY <1>2, <1>3, <2>5, MarkDirtyOK
  <2>8. cache' = mark_dirty(d, e)
    <3>1. d = [r EXCEPT !.ent[e].page = th[t].id]
      BY <2>1, <2>2, <2>4, SMTT(40) DEF PageCaches
    <3>2. cache' = mark_dirty([r EXCEPT !.ent[e].page = th[t].id], e)
      BY <1>12 DEF CopyPage
    <3> QED BY <3>1, <3>2
  <2>9. /\ cache'.dirty_pages = cache.dirty_pages \cup {e}
        /\ \A y \in Entries : /\ cache'.ent[y].live <=> d.ent[y].live
                              /\ SameContent(d.ent[y], cache'.ent[y])
    BY <1>8, <2>6, <2>7, <2>8
  <2>10. /\ cache'.ent[e].content_state = "ready" /\ cache'.ent[e].lpa = r.ent[e].lpa
         /\ cache'.ent[e].page = th[t].id /\ cache'.ent[e].blkoff = b /\ cache'.ent[e].live
    <3>1. d.ent[e] = p /\ (cache'.ent[e].live <=> d.ent[e].live) /\ SameContent(d.ent[e], cache'.ent[e])
      BY <1>2, <2>6, <2>9
    <3>2. /\ cache'.ent[e].content_state = p.content_state /\ cache'.ent[e].lpa = p.lpa
          /\ cache'.ent[e].page = p.page /\ cache'.ent[e].blkoff = p.blkoff
          /\ (cache'.ent[e].live <=> p.live)
      BY <3>1 DEF SameContent
    <3>3. r.ent[e].blkoff = b
      BY <1>2, <1>6, <1>8
    <3> QED BY <1>8, <2>3, <3>2, <3>3
  <2>11. \A y \in Entries : y # e => /\ cache'.ent[y].live <=> cache.ent[y].live
                                     /\ SameContent(cache.ent[y], cache'.ent[y])
    BY <1>8, <2>6, <2>9
  <2>12. \A y \in Entries : /\ cache'.ent[y].live <=> cache.ent[y].live
                            /\ cache'.ent[y].blkoff = cache.ent[y].blkoff
                            /\ y # e => SameContent(cache.ent[y], cache'.ent[y])
    BY <1>4, <1>6, <2>10, <2>11, SMTT(40) DEF SameContent
  <2>13. hist' = [hist EXCEPT ![b] = Append(@, th[t].id)]
    BY <1>12 DEF CopyPage
  <2>14. hist'[b] = Append(hist[b], th[t].id) /\ \A x \in Blocks : x # b => hist'[x] = hist[x]
    BY <1>1, <1>5, <2>13
  <2> QED BY <1>2, <1>4, <1>5, <1>6, <1>10, <1>12, <2>9, <2>10, <2>12, <2>14
<1> QED BY <1>2, <1>11, <1>12

LEMMA CopyKept ==
  ASSUME IInv, KeptInv, AddrInv, failed = "none", NEW t \in Threads, CopyPage(t)
  PROVE  KeptInv' /\ AddrInv'
<1>1. PICK e, b, r : e = th[t].page /\ b = th[t].next /\ r = prepare_page_content(cache, e)
  OBVIOUS
<1>2. /\ e \in Entries /\ b \in Blocks /\ cache.ent[e].live /\ cache.ent[e].blkoff = b
      /\ \A y \in Entries : /\ cache'.ent[y].live <=> cache.ent[y].live
                            /\ cache'.ent[y].blkoff = cache.ent[y].blkoff
                            /\ y # e => SameContent(cache.ent[y], cache'.ent[y])
      /\ UNCHANGED <<inode, ssd, valid>>
      /\ th[t].op = "read" =>
           cache' = r /\ cache'.dirty_pages = cache.dirty_pages /\ hist' = hist
      /\ th[t].op = "write" =>
           /\ cache'.dirty_pages = cache.dirty_pages \cup {e}
           /\ cache'.ent[e].content_state = "ready" /\ cache'.ent[e].lpa = r.ent[e].lpa
           /\ cache'.ent[e].page = th[t].id
           /\ hist'[b] = Append(hist[b], th[t].id) /\ \A x \in Blocks : x # b => hist'[x] = hist[x]
      /\ th[t].op \in {"read", "write"}
  BY <1>1, CopyEffect
<1>3. /\ r.ent[e].content_state = "ready"
      /\ hist[b] # <<>> => r.ent[e].page = Last(hist[b])
      /\ r.ent[e].lpa <= Len(ssd)
      /\ r.ent[e].lpa = INVALID_LPA \/ r.ent[e].lpa = inode.addr[b] \/ r.ent[e].lpa \notin valid
  BY <1>1, <1>2, PreparedContent
<1>4. CASE th[t].op = "read"
  <2>1. cache'.dirty_pages \in {cache.dirty_pages, cache.dirty_pages \cup {e}}
    BY <1>2, <1>4
  <2> QED BY <1>2, <1>3, <1>4, <2>1, FilledOK
<1>5. CASE th[t].op = "write"
  <2>1. Last(hist'[b]) = th[t].id
    <3>1. PICK s \in Seq(Int) : s = hist[b]
      BY <1>2 DEF IInv, TypeInv, DataInv
    <3>2. PICK q : q = Append(s, th[t].id)
      OBVIOUS
    <3>3. th[t].id \in Int
      BY DEF IInv, TypeInv, ThreadRec
    <3>4. q[Len(q)] = th[t].id
      BY <3>1, <3>2, <3>3
    <3> QED BY <1>2, <1>5, <3>1, <3>2, <3>4 DEF Last
  <2>2. /\ hist'[b] # <<>> => cache'.ent[e].page = Last(hist'[b])
        /\ e \in cache'.dirty_pages
        /\ cache'.dirty_pages \in {cache.dirty_pages, cache.dirty_pages \cup {e}}
    BY <1>2, <1>5, <2>1
  <2>3. /\ cache'.ent[e].lpa <= Len(ssd)
        /\ \/ cache'.ent[e].lpa = INVALID_LPA \/ cache'.ent[e].lpa = inode.addr[b]
           \/ cache'.ent[e].lpa \notin valid
    BY <1>2, <1>3, <1>5
  <2> QED BY <1>2, <1>5, <2>2, <2>3, FilledOK
<1> QED BY <1>2, <1>4, <1>5

\* truncate: what is cut off goes with its pages and addresses, the rest stays.
LEMMA TruncateKept ==
  ASSUME IInv, IInv', KeptInv, AddrInv, failed = "none", NEW t \in Threads, Truncate(t)
  PROVE  KeptInv' /\ AddrInv'
<1>1. /\ th[t] \in ThreadRec /\ CacheOK(cache, HeldBy) /\ DataInv /\ NumBlocks \in Nat
  BY SizeAssumption DEF IInv, TypeInv, PageInv
<1>2. PICK n \in Nat : n = th[t].end
  BY <1>1 DEF ThreadRec
<1>3. CASE n = inode.i_size
  <2>1. UNCHANGED <<cache, inode, ssd, valid, hist>>
    BY <1>2, <1>3 DEF Truncate, fileVars
  <2>2. Retains(cache, cache')
    BY <2>1 DEF Retains, SameContent
  <2> QED BY <2>1, <2>2, RetainedOK
<1>4. CASE n # inode.i_size
  <2>1. /\ valid' = valid \ Freed(n) /\ inode' = Resized(n) /\ ssd' = ssd
        /\ hist' = [b \in Blocks |-> IF b < n THEN hist[b] ELSE <<>>]
        /\ cache' \in truncate(cache, MaxBlkoff(n))
    BY <1>2, <1>4 DEF Truncate
  <2>2. PICK m : m = MaxBlkoff(n) /\ \A b \in Blocks : b < n => ~(b > m)
    BY <1>2, EntryNumbers DEF MaxBlkoff
  <2>3. /\ cache'.dirty_pages = {e \in cache.dirty_pages : ~(cache.ent[e].blkoff > m)}
        /\ \A e \in Entries :
             /\ cache'.ent[e].live <=> cache.ent[e].live
             /\ IF e \in cache.dirty_pages /\ cache.ent[e].blkoff > m
                THEN cache'.ent[e].content_state = "invalid"
                ELSE SameContent(cache.ent[e], cache'.ent[e])
    BY <1>1, <2>1, <2>2, TruncateOK
  <2>4. PICK Cut : Cut = n .. inode.i_size - 1
    OBVIOUS
  <2>5. /\ inode'.i_size = n /\ Cut \subseteq Blocks /\ \A b \in Blocks : b < n => b \notin Cut
        /\ \A b \in Blocks : inode'.addr[b] = IF b \in Cut THEN INVALID_LPA ELSE inode.addr[b]
        /\ Freed(n) = {inode.addr[b] : b \in Cut} \ {INVALID_LPA}
    <3>1. PICK i \in Nat : i = inode.i_size /\ i <= NumBlocks
      BY <1>1 DEF DataInv
    <3>2. Cut \subseteq Blocks /\ \A b \in Blocks : b < n => b \notin Cut
      BY <1>1, <2>4, <3>1 DEF Blocks
    <3> QED BY <2>1, <2>4, <3>2 DEF Resized, Freed
  <2>6. \A b \in Blocks : hist'[b] = IF b < n THEN hist[b] ELSE <<>>
    BY <2>1
  <2>7. ASSUME NEW e \in Entries, Ready(cache', e)
        PROVE  /\ Ready(cache, e) /\ SameContent(cache.ent[e], cache'.ent[e])
               /\ cache.ent[e].blkoff \in Blocks
    <3>1. SameContent(cache.ent[e], cache'.ent[e]) /\ cache.ent[e].live
      BY <2>3, <2>7 DEF Ready
    <3> QED BY <1>1, <2>7, <3>1 DEF Ready, SameContent, CacheOK, Counted
  <2>8. DirtyReady'
    <3> SUFFICES ASSUME NEW e \in cache'.dirty_pages PROVE Ready(cache', e)
      BY DEF DirtyReady
    <3>1. e \in cache.dirty_pages /\ ~(cache.ent[e].blkoff > m)
      BY <2>3
    <3>2. e \in Entries /\ Ready(cache, e)
      BY <1>1, <3>1, DirtyLive DEF KeptInv, DirtyReady
    <3>3. (cache'.ent[e].live <=> cache.ent[e].live) /\ SameContent(cache.ent[e], cache'.ent[e])
      BY <2>3, <3>1, <3>2
    <3> QED BY <3>2, <3>3 DEF Ready, SameContent
  <2>9. ReadyHolds'
    <3> SUFFICES ASSUME NEW e \in Entries, Ready(cache', e), hist'[cache'.ent[e].blkoff] # <<>>
                 PROVE  cache'.ent[e].page = Last(hist'[cache'.ent[e].blkoff])
      BY DEF ReadyHolds
    <3>1. PICK b \in Blocks : b = cache.ent[e].blkoff
      BY <2>7
    <3>2. /\ Ready(cache, e) /\ cache'.ent[e].blkoff = b /\ cache'.ent[e].page = cache.ent[e].page
      BY <2>7, <3>1 DEF SameContent
    <3>3. hist'[b] = hist[b]
      BY <2>6, <3>2
    <3> QED BY <3>1, <3>2, <3>3 DEF KeptInv, ReadyHolds
  <2>10. OnSSD'
    <3> SUFFICES ASSUME NEW b \in Blocks, hist'[b] # <<>>, ~Unwritten(b)'
                 PROVE  /\ b < inode'.i_size /\ inode'.addr[b] # INVALID_LPA
                        /\ ssd'[inode'.addr[b]] = Last(hist'[b])
      BY DEF OnSSD
    <3>1. b < n /\ hist'[b] = hist[b]
      BY <2>6
    <3>2. ~Unwritten(b)
      <4> SUFFICES ASSUME NEW e \in cache.dirty_pages, cache.ent[e].blkoff = b PROVE FALSE
        BY DEF Unwritten
      <4>1. e \in Entries /\ ~(cache.ent[e].blkoff > m)
        BY <1>1, <2>2, <3>1, DirtyLive
      <4>2. e \in cache'.dirty_pages /\ cache'.ent[e].blkoff = b
        BY <2>3, <4>1 DEF SameContent
      <4> QED BY <4>2 DEF Unwritten
    <3>3. inode.addr[b] # INVALID_LPA /\ ssd[inode.addr[b]] = Last(hist[b])
      BY <3>1, <3>2 DEF KeptInv, OnSSD
    <3>4. inode'.addr[b] = inode.addr[b]
      BY <2>5, <3>1
    <3> QED BY <2>1, <2>5, <3>1, <3>3, <3>4
  <2>11. AddrsValid /\ AddrsApart /\ LpasKnown
    BY DEF AddrInv
  <2>12. AddrsValid'
    <3> SUFFICES ASSUME NEW b \in Blocks, inode'.addr[b] # INVALID_LPA
                 PROVE  inode'.addr[b] \in valid'
      BY DEF AddrsValid
    <3>1. b \notin Cut /\ inode'.addr[b] = inode.addr[b]
      BY <2>5
    <3>2. inode.addr[b] \in valid
      BY <2>11, <3>1 DEF AddrsValid
    <3>3. \A x \in Cut : inode.addr[x] # inode.addr[b]
      BY <2>5, <2>11, <3>1 DEF AddrsApart
    <3>4. inode.addr[b] \notin Freed(n)
      BY <2>5, <3>3
    <3> QED BY <2>1, <3>1, <3>2, <3>4
  <2>13. AddrsApart'
    <3> SUFFICES ASSUME NEW b \in Blocks, NEW x \in Blocks, inode'.addr[b] = inode'.addr[x],
                        inode'.addr[b] # INVALID_LPA
                 PROVE  b = x
      BY DEF AddrsApart
    <3>1. inode'.addr[b] = inode.addr[b] /\ inode'.addr[x] = inode.addr[x]
      BY <2>5
    <3> QED BY <2>11, <3>1 DEF AddrsApart
  <2>14. LpasKnown'
    <3> SUFFICES ASSUME NEW e \in Entries, Ready(cache', e)
                 PROVE  /\ cache'.ent[e].lpa <= Len(ssd')
                        /\ \/ cache'.ent[e].lpa = INVALID_LPA
                           \/ cache'.ent[e].lpa = inode'.addr[cache'.ent[e].blkoff]
                           \/ cache'.ent[e].lpa \notin valid'
      BY DEF LpasKnown
    <3>1. PICK b, a : b = cache.ent[e].blkoff /\ a = cache.ent[e].lpa
      BY <2>7
    <3>b. b \in Blocks
      BY <2>7, <3>1
    <3>2. /\ Ready(cache, e) /\ cache'.ent[e].blkoff = b /\ cache'.ent[e].lpa = a
      BY <2>7, <3>1 DEF SameContent
    <3>3. a <= Len(ssd) /\ (a = INVALID_LPA \/ a = inode.addr[b] \/ a \notin valid)
      BY <2>11, <3>1, <3>2 DEF LpasKnown
    <3>4. a = INVALID_LPA \/ a = inode'.addr[b] \/ a \notin valid'
      <4>1. CASE a = inode.addr[b] /\ b \in Cut
        <5>1. a = INVALID_LPA \/ a \in Freed(n)
          BY <2>5, <3>b, <4>1
        <5> QED BY <2>1, <5>1
      <4>2. CASE a = inode.addr[b] /\ b \notin Cut
        BY <2>5, <3>b, <4>2
      <4>3. CASE a \notin valid
        BY <2>1, <4>3
      <4> QED BY <3>3, <4>1, <4>2, <4>3
    <3> QED BY <2>1, <3>2, <3>3, <3>4
  <2> QED BY <2>8, <2>9, <2>10, <2>12, <2>13, <2>14 DEF KeptInv, AddrInv
<1> QED BY <1>3, <1>4

\* What write_back leaves: every page where it was, every dirty one at its new
\* address and its content there, no page dirty.
LEMMA WrittenBack ==
  ASSUME IInv, NEW t \in Threads, WriteBack(t)
  PROVE  /\ cache'.dirty_pages = {} /\ inode'.i_size = update_meta_to_inode
         /\ valid' = (valid \ OldLpas) \cup {NewLpa(e) : e \in cache.dirty_pages}
         /\ \A e \in Entries :
              /\ cache'.ent[e].live <=> cache.ent[e].live
              /\ cache'.ent[e].blkoff = cache.ent[e].blkoff
              /\ cache'.ent[e].content_state = cache.ent[e].content_state
              /\ cache'.ent[e].page = cache.ent[e].page
              /\ e \in cache.dirty_pages => cache'.ent[e].lpa = NewLpa(e)
              /\ e \notin cache.dirty_pages => cache'.ent[e].lpa = cache.ent[e].lpa
         /\ \A e \in cache.dirty_pages : /\ inode'.addr[cache.ent[e].blkoff] = NewLpa(e)
                                         /\ ssd'[NewLpa(e)] = cache.ent[e].page
         /\ \A b \in Blocks : ~Unwritten(b) => inode'.addr[b] = inode.addr[b]
         /\ \A a \in 1 .. Len(ssd) : ssd'[a] = ssd[a]
         /\ Len(ssd') = Len(ssd) + Cardinality(cache.dirty_pages)
<1>1. cache \in PageCaches /\ CacheOK(cache, HeldBy) /\ DataInv /\ ssd \in Seq(Int)
  BY DEF IInv, TypeInv, DataInv, PageInv, CacheOK
<1>2. PICK D : D = cache.dirty_pages
  OBVIOUS
<1>3. PICK m \in Nat, n \in Nat : m = Len(ssd) /\ n = Cardinality(D)
  BY <1>1, <1>2, NewAddresses
<1>4. /\ \A e \in D : NewLpa(e) \in m + 1 .. m + n
      /\ \A e, x \in D : NewLpa(e) = NewLpa(x) => e = x
      /\ \A i \in 1 .. n : \E e \in D : NewLpa(e) = m + i
  BY <1>2, <1>3, NewAddresses
<1>5. PICK moved : moved = [cache EXCEPT !.ent = [e \in Entries |->
                     IF e \in cache.dirty_pages THEN [cache.ent[e] EXCEPT !.lpa = NewLpa(e)]
                     ELSE cache.ent[e]]]
  OBVIOUS
<1>6. cache' \in clear_dirty_pages(moved)
  BY <1>5 DEF WriteBack
<1>7. /\ CacheOK(moved, HeldBy)
      /\ \A e \in Entries :
           /\ moved.ent[e].live <=> cache.ent[e].live
           /\ moved.ent[e].blkoff = cache.ent[e].blkoff
           /\ moved.ent[e].content_state = cache.ent[e].content_state
           /\ moved.ent[e].page = cache.ent[e].page
           /\ moved.ent[e].lpa = IF e \in cache.dirty_pages THEN NewLpa(e) ELSE cache.ent[e].lpa
  BY <1>5, MovedOK
<1>8. /\ cache'.dirty_pages = {}
      /\ \A e \in Entries : (cache'.ent[e].live <=> moved.ent[e].live)
                            /\ SameContent(moved.ent[e], cache'.ent[e])
  BY <1>6, <1>7, ClearOK
<1>9. ASSUME NEW e \in Entries
      PROVE  /\ cache'.ent[e].live <=> cache.ent[e].live
             /\ cache'.ent[e].blkoff = cache.ent[e].blkoff
             /\ cache'.ent[e].content_state = cache.ent[e].content_state
             /\ cache'.ent[e].page = cache.ent[e].page
             /\ e \in cache.dirty_pages => cache'.ent[e].lpa = NewLpa(e)
             /\ e \notin cache.dirty_pages => cache'.ent[e].lpa = cache.ent[e].lpa
  BY <1>7, <1>8 DEF SameContent
<1>10. PICK s : s = [i \in 1 .. n |-> cache.ent[CHOOSE e \in D : NewLpa(e) = m + i].page]
  OBVIOUS
<1>11. D \in SUBSET Entries /\ cache.ent \in [Entries -> PageEntry]
  BY <1>1, <1>2 DEF PageCaches
<1>12. ASSUME NEW i \in 1 .. n, NEW e \in D, NewLpa(e) = m + i PROVE s[i] = cache.ent[e].page
  <2>1. (CHOOSE x \in D : NewLpa(x) = m + i) = e
    BY <1>4, <1>12
  <2> QED BY <1>10, <2>1
<1>13. s \in Seq(Int) /\ Len(s) = n
  <2>1. \A i \in 1 .. n : s[i] \in Int
    <3> SUFFICES ASSUME NEW i \in 1 .. n PROVE s[i] \in Int
      OBVIOUS
    <3>1. PICK e \in D : NewLpa(e) = m + i
      BY <1>4
    <3>2. s[i] = cache.ent[e].page
      BY <1>12, <3>1
    <3> QED BY <1>11, <3>2 DEF PageEntry
  <2>2. s \in [1 .. n -> Int]
    BY <1>10, <2>1
  <2>3. DOMAIN s = 1 .. n /\ n \in Nat
    BY <1>3, <1>10
  <2> QED BY <2>1, <2>2, <2>3
<1>14. ssd' = ssd \o s
  BY <1>2, <1>3, <1>10 DEF WriteBack
<1>15. /\ Len(ssd') = m + n /\ \A a \in 1 .. m : ssd'[a] = ssd[a]
       /\ \A i \in 1 .. n : ssd'[m + i] = s[i]
  <2>1. PICK q : q = ssd \o s
    OBVIOUS
  <2>2. /\ Len(q) = m + n /\ \A a \in 1 .. m : q[a] = ssd[a]
        /\ \A i \in 1 .. n : q[m + i] = s[i]
    BY <1>1, <1>3, <1>13, <2>1
  <2> QED BY <1>14, <2>1, <2>2
<1>16. ASSUME NEW e \in D PROVE ssd'[NewLpa(e)] = cache.ent[e].page
  <2>1. PICK i \in 1 .. n : NewLpa(e) = m + i
    <3>1. PICK a \in m + 1 .. m + n : a = NewLpa(e)
      BY <1>4
    <3>2. a - m \in 1 .. n /\ a = m + (a - m)
      OBVIOUS
    <3> QED BY <3>1, <3>2
  <2> QED BY <1>12, <1>15, <2>1
<1>17. PICK g : g = [b \in Blocks |-> IF \E e \in D : cache.ent[e].blkoff = b
                                      THEN NewLpa(CHOOSE e \in D : cache.ent[e].blkoff = b)
                                      ELSE inode.addr[b]]
  OBVIOUS
<1>18. inode'.addr = g /\ inode'.i_size = update_meta_to_inode
  BY <1>2, <1>17 DEF WriteBack
<1>19. ASSUME NEW e \in D PROVE g[cache.ent[e].blkoff] = NewLpa(e)
  <2>1. PICK b \in Blocks : b = cache.ent[e].blkoff
    BY <1>1, <1>2, DirtyLive
  <2>2. \A x \in D : cache.ent[x].blkoff = b => x = e
    <3>1. \A x \in D : x \in Entries /\ cache.ent[x].live
      BY <1>1, <1>2, DirtyLive
    <3> QED BY <1>1, <2>1, <3>1 DEF CacheOK, OneEach
  <2>3. (CHOOSE x \in D : cache.ent[x].blkoff = b) = e
    BY <2>1, <2>2
  <2>4. \E x \in D : cache.ent[x].blkoff = b
    BY <2>1
  <2> QED BY <1>17, <2>1, <2>3, <2>4
<1>20. \A b \in Blocks : ~Unwritten(b) => g[b] = inode.addr[b]
  BY <1>2, <1>17 DEF Unwritten
<1>21. valid' = (valid \ OldLpas) \cup {NewLpa(e) : e \in cache.dirty_pages}
  BY DEF WriteBack
<1> QED BY <1>2, <1>3, <1>8, <1>9, <1>15, <1>16, <1>18, <1>19, <1>20, <1>21

\* Nobody else is inside a write, so what was written is inside the size.
LEMMA WriteBackKept ==
  ASSUME IInv, AppendInv, KeptInv, AddrInv, failed = "none", NEW t \in Threads, WriteBack(t)
  PROVE  /\ KeptInv' /\ AddrInv'
         /\ cache'.dirty_pages = {} /\ inode'.i_size >= size'
<1>1. /\ CacheOK(cache, HeldBy) /\ DataInv /\ Len(ssd) \in Nat /\ size' = size /\ hist' = hist
  BY DEF IInv, TypeInv, DataInv, PageInv, WriteBack
<1>2. PICK D : D = cache.dirty_pages
  OBVIOUS
<1>3. PICK m \in Nat, n \in Nat : m = Len(ssd) /\ n = Cardinality(D)
  BY <1>1, <1>2, NewAddresses
<1>4. /\ \A e \in D : NewLpa(e) \in m + 1 .. m + n
      /\ \A e, x \in D : NewLpa(e) = NewLpa(x) => e = x
  BY <1>2, <1>3, NewAddresses
<1>5. /\ cache'.dirty_pages = {} /\ inode'.i_size = update_meta_to_inode
      /\ valid' = (valid \ OldLpas) \cup {NewLpa(e) : e \in D}
      /\ \A e \in Entries :
           /\ cache'.ent[e].live <=> cache.ent[e].live
           /\ cache'.ent[e].blkoff = cache.ent[e].blkoff
           /\ cache'.ent[e].content_state = cache.ent[e].content_state
           /\ cache'.ent[e].page = cache.ent[e].page
           /\ e \in D => cache'.ent[e].lpa = NewLpa(e)
           /\ e \notin D => cache'.ent[e].lpa = cache.ent[e].lpa
      /\ \A e \in D : /\ inode'.addr[cache.ent[e].blkoff] = NewLpa(e)
                      /\ ssd'[NewLpa(e)] = cache.ent[e].page
      /\ \A b \in Blocks : ~Unwritten(b) => inode'.addr[b] = inode.addr[b]
      /\ \A a \in 1 .. m : ssd'[a] = ssd[a]
      /\ Len(ssd') = m + n
  BY <1>2, <1>3, WrittenBack
<1>6. \A e \in D : e \in Entries /\ Ready(cache, e) /\ cache.ent[e].blkoff \in Blocks
  BY <1>1, <1>2, DirtyLive DEF KeptInv, DirtyReady
<1>7. \A b \in Blocks : inode.addr[b] \in 0 .. m
  BY <1>1, <1>3 DEF DataInv
<1>8. /\ inode'.i_size >= size
      /\ \A b \in Blocks : hist[b] # <<>> => b < inode'.i_size
  <2>1. size \in Nat /\ inode.i_size \in Nat
    BY <1>1, SizeAssumption DEF DataInv
  <2>2. inode'.i_size \in Nat /\ inode'.i_size >= size
    BY <1>5, <2>1 DEF update_meta_to_inode
  <2>3. th[t].pc = "write_back" /\ th[t].hold = "wr" /\ ~Inside(th[t])
    BY DEF WriteBack, IInv, Shape, Exclusive, Inside
  <2>4. \A u \in Threads : ~Writing(th[u])
    <3> SUFFICES ASSUME NEW u \in Threads, Inside(th[u]) PROVE FALSE
      BY DEF Writing
    <3>1. Shape(th[u])
      BY DEF IInv
    <3>2. th[u].hold # "none"
      BY <3>1 DEF Shape, Inside, Waiting, Finishing
    <3>3. u = t
      BY <2>3, <3>2 DEF AppendInv, Locks
    <3> QED BY <2>3, <3>3
  <2>5. \A b \in Blocks : hist[b] # <<>> => ~(b >= size)
    BY <2>4 DEF AppendInv, PastSize
  <2> QED BY <2>1, <2>2, <2>5, EntryNumbers
<1>9. DirtyReady'
  BY <1>5 DEF DirtyReady
<1>10. ASSUME NEW e \in Entries, Ready(cache', e)
       PROVE  Ready(cache, e) /\ cache.ent[e].blkoff \in Blocks
  <2>1. Ready(cache, e)
    BY <1>5, <1>10 DEF Ready
  <2> QED BY <1>1, <2>1 DEF Ready, CacheOK, Counted
<1>11. ReadyHolds'
  <2> SUFFICES ASSUME NEW e \in Entries, Ready(cache', e), hist'[cache'.ent[e].blkoff] # <<>>
               PROVE  cache'.ent[e].page = Last(hist'[cache'.ent[e].blkoff])
    BY DEF ReadyHolds
  <2>1. Ready(cache, e) /\ cache'.ent[e].page = cache.ent[e].page
        /\ cache'.ent[e].blkoff = cache.ent[e].blkoff
    BY <1>5, <1>10
  <2> QED BY <1>1, <2>1 DEF KeptInv, ReadyHolds
<1>12. OnSSD'
  <2> SUFFICES ASSUME NEW b \in Blocks, hist[b] # <<>>
               PROVE  /\ b < inode'.i_size /\ inode'.addr[b] # INVALID_LPA
                      /\ ssd'[inode'.addr[b]] = Last(hist[b])
    BY <1>1 DEF OnSSD
  <2>1. CASE Unwritten(b)
    <3>1. PICK e \in D : cache.ent[e].blkoff = b
      BY <1>2, <2>1 DEF Unwritten
    <3>2. cache.ent[e].page = Last(hist[b])
      BY <1>6, <3>1 DEF KeptInv, ReadyHolds
    <3>3. inode'.addr[b] = NewLpa(e) /\ ssd'[NewLpa(e)] = cache.ent[e].page
      BY <1>5, <3>1
    <3>4. NewLpa(e) # INVALID_LPA
      BY <1>4 DEF INVALID_LPA
    <3> QED BY <1>8, <3>2, <3>3, <3>4
  <2>2. CASE ~Unwritten(b)
    <3>1. inode.addr[b] # INVALID_LPA /\ ssd[inode.addr[b]] = Last(hist[b])
      BY <2>2 DEF KeptInv, OnSSD
    <3>2. inode.addr[b] \in 1 .. m
      BY <1>7, <3>1 DEF INVALID_LPA
    <3>3. inode'.addr[b] = inode.addr[b] /\ ssd'[inode.addr[b]] = ssd[inode.addr[b]]
      BY <1>5, <2>2, <3>2
    <3> QED BY <1>8, <3>1, <3>3
  <2> QED BY <2>1, <2>2
<1>13. AddrsValid /\ AddrsApart /\ LpasKnown
  BY DEF AddrInv
<1>14. ASSUME NEW b \in Blocks
       PROVE  \/ \E e \in D : cache.ent[e].blkoff = b /\ inode'.addr[b] = NewLpa(e)
              \/ ~Unwritten(b) /\ inode'.addr[b] = inode.addr[b]
  <2>1. CASE Unwritten(b)
    <3>1. PICK e \in D : cache.ent[e].blkoff = b
      BY <1>2, <2>1 DEF Unwritten
    <3> QED BY <1>5, <3>1
  <2>2. CASE ~Unwritten(b)
    BY <1>5, <2>2
  <2> QED BY <2>1, <2>2
<1>15. AddrsValid'
  <2> SUFFICES ASSUME NEW b \in Blocks, inode'.addr[b] # INVALID_LPA PROVE inode'.addr[b] \in valid'
    BY DEF AddrsValid
  <2>1. CASE \E e \in D : cache.ent[e].blkoff = b /\ inode'.addr[b] = NewLpa(e)
    BY <1>5, <2>1
  <2>2. CASE ~Unwritten(b) /\ inode'.addr[b] = inode.addr[b]
    <3>1. inode.addr[b] \in valid /\ inode.addr[b] # INVALID_LPA
      BY <1>13, <2>2 DEF AddrsValid
    <3>2. inode.addr[b] \notin OldLpas
      <4> SUFFICES ASSUME NEW e \in D, cache.ent[e].lpa = inode.addr[b] PROVE FALSE
        BY <1>2 DEF OldLpas
      <4>1. inode.addr[b] = inode.addr[cache.ent[e].blkoff]
        BY <1>6, <1>13, <3>1 DEF LpasKnown
      <4>2. b = cache.ent[e].blkoff
        BY <1>6, <1>13, <3>1, <4>1 DEF AddrsApart
      <4> QED BY <1>2, <2>2, <4>2 DEF Unwritten
    <3> QED BY <1>5, <2>2, <3>1, <3>2
  <2> QED BY <1>14, <2>1, <2>2
<1>16. AddrsApart'
  <2> SUFFICES ASSUME NEW b \in Blocks, NEW x \in Blocks, inode'.addr[b] = inode'.addr[x],
                      inode'.addr[b] # INVALID_LPA
               PROVE  b = x
    BY DEF AddrsApart
  <2>1. \A e \in D, y \in Blocks : NewLpa(e) # inode.addr[y]
    <3> SUFFICES ASSUME NEW e \in D, NEW y \in Blocks, NewLpa(e) = inode.addr[y] PROVE FALSE
      OBVIOUS
    <3>1. NewLpa(e) \in m + 1 .. m + n /\ inode.addr[y] \in 0 .. m
      BY <1>4, <1>7
    <3> QED BY <3>1
  <2>2. CASE /\ \E e \in D : cache.ent[e].blkoff = b /\ inode'.addr[b] = NewLpa(e)
             /\ \E e \in D : cache.ent[e].blkoff = x /\ inode'.addr[x] = NewLpa(e)
    BY <1>4, <2>2
  <2>3. CASE inode'.addr[b] = inode.addr[b] /\ inode'.addr[x] = inode.addr[x]
    BY <1>13, <2>3 DEF AddrsApart
  <2> QED BY <1>14, <2>1, <2>2, <2>3
<1>17. LpasKnown'
  <2> SUFFICES ASSUME NEW e \in Entries, Ready(cache', e)
               PROVE  /\ cache'.ent[e].lpa <= m + n
                      /\ \/ cache'.ent[e].lpa = INVALID_LPA
                         \/ cache'.ent[e].lpa = inode'.addr[cache'.ent[e].blkoff]
                         \/ cache'.ent[e].lpa \notin valid'
    BY <1>5 DEF LpasKnown
  <2>1. PICK b \in Blocks : b = cache.ent[e].blkoff
    BY <1>10
  <2>2. cache'.ent[e].blkoff = b /\ Ready(cache, e)
    BY <1>5, <1>10, <2>1
  <2>3. CASE e \in D
    <3>1. cache'.ent[e].lpa = NewLpa(e) /\ inode'.addr[b] = NewLpa(e)
      BY <1>5, <2>1, <2>3
    <3>2. NewLpa(e) <= m + n
      BY <1>4, <2>3
    <3> QED BY <2>2, <3>1, <3>2
  <2>4. CASE e \notin D
    <3>1. PICK a \in Nat : a = cache.ent[e].lpa
      BY <1>1 DEF CacheOK, PageCaches, PageEntry
    <3>2. a <= m /\ (a = INVALID_LPA \/ a = inode.addr[b] \/ a \notin valid)
      BY <1>3, <1>13, <2>1, <2>2, <3>1 DEF LpasKnown
    <3>3. cache'.ent[e].lpa = a
      BY <1>5, <2>4, <3>1
    <3>4. ~Unwritten(b)
      <4> SUFFICES ASSUME NEW x \in D, cache.ent[x].blkoff = b PROVE FALSE
        BY <1>2 DEF Unwritten
      <4>1. x = e
        BY <1>1, <1>6, <2>1, <2>2 DEF CacheOK, OneEach, Ready
      <4> QED BY <2>4, <4>1
    <3>5. inode'.addr[b] = inode.addr[b]
      BY <1>5, <3>4
    <3>6. ASSUME a \notin valid PROVE a \notin valid'
      <4>1. \A x \in D : NewLpa(x) # a
        <5> SUFFICES ASSUME NEW x \in D, NewLpa(x) = a PROVE FALSE
          OBVIOUS
        <5>1. NewLpa(x) \in m + 1 .. m + n
          BY <1>4
        <5> QED BY <3>2, <5>1
      <4> QED BY <1>5, <3>6, <4>1
    <3>7. a <= m + n
      BY <3>2
    <3> QED BY <2>2, <3>2, <3>3, <3>5, <3>6, <3>7
  <2> QED BY <2>3, <2>4
<1> QED BY <1>1, <1>5, <1>8, <1>9, <1>11, <1>12, <1>15, <1>16, <1>17 DEF KeptInv, AddrInv

\* The steps that move no content.
\* The steps other than copying a page, truncate and write_back.
LEMMA OtherRetains ==
  ASSUME IInv, failed = "none", NEW t \in Threads,
         \/ NewCall(t) \/ ReadBegin(t) \/ AppendBegin(t) \/ WriteBegin(t) \/ GetPage(t)
         \/ DropHandle(t) \/ Unpin(t) \/ LastPage(t) \/ UnlockFile(t) \/ MarkDirty(t)
         \/ AddToDirtyFiles(t) \/ Advance(t) \/ ClearDirty(t) \/ RemoveFromDirtyFiles(t) \/ Return(t)
  PROVE  /\ Retains(cache, cache') /\ Keeps(cache, cache', HeldBy)
         /\ UNCHANGED <<inode, ssd, valid, hist>>
<1>1. UNCHANGED <<inode, ssd, valid, hist>>
  BY Zenon DEF NewCall, Call, set_rw_pos, CallExclusive, ReadBegin, AppendBegin, WriteBegin, GetPage,
         DropHandle, Unpin, LastPage, UnlockFile, MarkDirty, AddToDirtyFiles, Advance, ClearDirty,
         RemoveFromDirtyFiles, Return, fileVars
<1>2. ASSUME cache' = cache PROVE Retains(cache, cache') /\ Keeps(cache, cache', HeldBy)
  BY <1>2 DEF Retains, SameContent, Keeps
<1>3. CASE GetPage(t)
  BY <1>1, <1>3, GetPageOK
<1>4. ASSUME cache' # cache, DropHandle(t) PROVE Retains(cache, cache') /\ Keeps(cache, cache', HeldBy)
  <2>1. PICK e : e = th[t].put
    OBVIOUS
  <2>2. cache' = DropRef(cache, e) /\ e # NoEntry
    BY <1>4, <2>1 DEF DropHandle
  <2>3. e \in Entries
    BY <2>1, <2>2 DEF IInv, TypeInv, ThreadRec
  <2>4. cache \in PageCaches /\ cache.ent \in [Entries -> PageEntry]
    BY DEF IInv, PageInv, CacheOK, PageCaches
  <2>5. /\ cache'.dirty_pages = cache.dirty_pages
        /\ cache'.ent = [cache.ent EXCEPT ![e].ref_count = @ - 1]
    BY <2>2, <2>4 DEF DropRef, PageCaches
  <2>6. ASSUME NEW x \in Entries
        PROVE  (cache'.ent[x].live <=> cache.ent[x].live) /\ SameContent(cache.ent[x], cache'.ent[x])
    BY <2>3, <2>4, <2>5 DEF PageEntry, SameContent
  <2>7. \A x \in Entries : cache'.ent[x].page = cache.ent[x].page
                           /\ cache'.ent[x].blkoff = cache.ent[x].blkoff
    BY <2>6 DEF SameContent
  <2>8. Keeps(cache, cache', HeldBy)
    BY <2>7 DEF Keeps
  <2> QED BY <2>5, <2>6, <2>7, <2>8 DEF Retains
<1>5. ASSUME cache' # cache, Unpin(t) PROVE Retains(cache, cache') /\ Keeps(cache, cache', HeldBy)
  <2>1. PICK e : e = th[t].put
    OBVIOUS
  <2>2. cache' = RecheckAndUnpin(cache, e)
    BY <1>5, <2>1 DEF Unpin
  <2>3. cache \in PageCaches
    BY DEF IInv, PageInv, CacheOK
  <2>4. PICK s : cache' = [cache EXCEPT !.lru = s]
    BY <1>5, <2>2, Zenon DEF RecheckAndUnpin, unpin
  <2>5. cache'.dirty_pages = cache.dirty_pages /\ cache'.ent = cache.ent
    BY <2>3, <2>4 DEF PageCaches
  <2> QED BY <2>5 DEF Retains, SameContent, Keeps
<1>6. CASE ~GetPage(t)
  <2>1. cache' = cache \/ DropHandle(t) \/ Unpin(t)
    BY <1>6, Zenon DEF NewCall, Call, set_rw_pos, CallExclusive, ReadBegin, AppendBegin, WriteBegin,
         LastPage, UnlockFile, MarkDirty, AddToDirtyFiles, Advance, ClearDirty,
         RemoveFromDirtyFiles, Return
  <2> QED BY <1>1, <1>2, <1>4, <1>5, <2>1
<1> QED BY <1>3, <1>6

LEMMA OtherKept ==
  ASSUME IInv, IInv', KeptInv, AddrInv, failed = "none", NEW t \in Threads,
         \/ NewCall(t) \/ ReadBegin(t) \/ AppendBegin(t) \/ WriteBegin(t) \/ GetPage(t)
         \/ DropHandle(t) \/ Unpin(t) \/ LastPage(t) \/ UnlockFile(t) \/ MarkDirty(t)
         \/ AddToDirtyFiles(t) \/ Advance(t) \/ ClearDirty(t) \/ RemoveFromDirtyFiles(t) \/ Return(t)
  PROVE  KeptInv' /\ AddrInv'
BY OtherRetains, RetainedOK

LEMMA InitKept == Init => KeptInv /\ AddrInv
<1> SUFFICES ASSUME Init PROVE KeptInv /\ AddrInv
  OBVIOUS
<1>1. cache.dirty_pages = {} /\ \A e \in Entries : ~Ready(cache, e)
  <2>1. cache.dirty_pages = {} /\ cache.ent = [e \in Entries |-> [page_entry(0) EXCEPT !.live = FALSE]]
    BY DEF Init, EmptyPageCache
  <2>2. \A e \in Entries : cache.ent[e].live = FALSE
    BY <2>1 DEF page_entry
  <2> QED BY <2>1, <2>2 DEF Ready
<1>2. PICK n \in Nat : n = size
  BY SizeAssumption DEF Init
<1>3. /\ inode.i_size = n /\ ssd = [i \in 1 .. n |-> Earlier] /\ valid = 1 .. n
      /\ \A b \in Blocks : inode.addr[b] = IF b < n THEN b + 1 ELSE INVALID_LPA
      /\ \A b \in Blocks : hist[b] = IF b < n THEN <<Earlier>> ELSE <<>>
  BY <1>2 DEF Init
<1>4. \A b \in Blocks : b \in Nat
  BY EntryNumbers
<1>5. \A b \in Blocks : b < n => inode.addr[b] = b + 1 /\ b + 1 \in 1 .. n /\ b + 1 # INVALID_LPA
  BY <1>3, <1>4 DEF INVALID_LPA
<1>6. DirtyReady /\ ReadyHolds
  BY <1>1 DEF DirtyReady, ReadyHolds
<1>7. OnSSD
  <2> SUFFICES ASSUME NEW b \in Blocks, hist[b] # <<>>
               PROVE  /\ b < inode.i_size /\ inode.addr[b] # INVALID_LPA
                      /\ ssd[inode.addr[b]] = Last(hist[b])
    BY DEF OnSSD
  <2>1. b < n /\ hist[b] = <<Earlier>>
    BY <1>3
  <2>2. Last(<<Earlier>>) = Earlier
    BY DEF Last
  <2>3. ssd[b + 1] = Earlier
    BY <1>3, <1>5, <2>1
  <2> QED BY <1>3, <1>5, <2>1, <2>2, <2>3
<1>8. AddrsValid
  BY <1>3, <1>5 DEF AddrsValid
<1>9. AddrsApart
  <2> SUFFICES ASSUME NEW b \in Blocks, NEW x \in Blocks, inode.addr[b] = inode.addr[x],
                      inode.addr[b] # INVALID_LPA
               PROVE  b = x
    BY DEF AddrsApart
  <2>1. b < n /\ x < n
    BY <1>3
  <2>2. b + 1 = x + 1
    BY <1>5, <2>1
  <2> QED BY <1>4, <2>2
<1>10. LpasKnown
  BY <1>1 DEF LpasKnown
<1> QED BY <1>6, <1>7, <1>8, <1>9, <1>10 DEF KeptInv, AddrInv

LEMMA KeptInvariant == Spec => [](KeptInv /\ AddrInv)
<1>1. IInv /\ IInv' /\ AppendInv /\ KeptInv /\ AddrInv /\ [Next]_vars => KeptInv' /\ AddrInv'
  <2> SUFFICES ASSUME IInv, IInv', AppendInv, KeptInv, AddrInv, [Next]_vars PROVE KeptInv' /\ AddrInv'
    OBVIOUS
  <2>1. CASE UNCHANGED vars
    <3>1. UNCHANGED <<cache, inode, ssd, valid, failed, hist>>
      BY <2>1 DEF vars, fileVars
    <3>2. KeptInv'
      BY <3>1 DEF KeptInv, DirtyReady, ReadyHolds, OnSSD, Unwritten
    <3>3. AddrInv'
      BY <3>1 DEF AddrInv, AddrsValid, AddrsApart, LpasKnown
    <3> QED BY <3>2, <3>3
  <2>2. CASE Next
    <3>1. failed = "none"
      BY <2>2 DEF Next
    <3>2. PICK t \in Threads : NewCall(t) \/ Step(t)
      BY <2>2 DEF Next
    <3>3. CASE CopyPage(t)
      BY <3>1, <3>3, CopyKept
    <3>4. CASE Truncate(t)
      BY <3>1, <3>4, TruncateKept
    <3>5. CASE WriteBack(t)
      BY <3>1, <3>5, WriteBackKept
    <3>6. CASE \/ NewCall(t) \/ ReadBegin(t) \/ AppendBegin(t) \/ WriteBegin(t) \/ GetPage(t)
               \/ DropHandle(t) \/ Unpin(t) \/ LastPage(t) \/ UnlockFile(t) \/ MarkDirty(t)
               \/ AddToDirtyFiles(t) \/ Advance(t) \/ ClearDirty(t) \/ RemoveFromDirtyFiles(t)
               \/ Return(t)
      BY <3>1, <3>6, OtherKept
    <3> QED BY <3>2, <3>3, <3>4, <3>5, <3>6 DEF Step
  <2> QED BY <2>1, <2>2
<1> QED BY <1>1, InitKept, Invariant, AppendInvariant, PTL DEF Spec

\* No write is lost: for any number of threads, blocks and pages kept, a block
\* that was written holds what was written last, in the cache or on the SSD.
THEOREM WritesAreKept == Spec => []WrittenIsKept
<1>1. IInv /\ KeptInv => WrittenIsKept
  <2> SUFFICES ASSUME IInv, KeptInv, NEW b \in Blocks, hist[b] # <<>>
               PROVE  Content(b) = Last(hist[b])
    BY DEF WrittenIsKept
  <2>1. cache \in PageCaches /\ OneEach(cache) /\ CacheOK(cache, HeldBy)
    BY DEF IInv, PageInv, CacheOK
  <2>2. PICK e : e = EntryOf(cache, b)
    OBVIOUS
  <2>3. CASE IsCached(cache, b) /\ cache.ent[e].content_state = "ready"
    <3>1. e \in Entries /\ cache.ent[e].live /\ cache.ent[e].blkoff = b
      BY <2>1, <2>2, <2>3, EntryFound
    <3>2. Ready(cache, e)
      BY <2>3, <3>1 DEF Ready
    <3>3. cache.ent[e].page = Last(hist[b])
      BY <3>1, <3>2 DEF KeptInv, ReadyHolds
    <3>4. Content(b) = cache.ent[e].page
      BY <2>2, <2>3 DEF Content
    <3> QED BY <3>3, <3>4
  <2>4. CASE ~(IsCached(cache, b) /\ cache.ent[e].content_state = "ready")
    <3>1. ~Unwritten(b)
      <4> SUFFICES ASSUME NEW x \in cache.dirty_pages, cache.ent[x].blkoff = b PROVE FALSE
        BY DEF Unwritten
      <4>1. x \in Entries /\ cache.ent[x].live /\ cache.ent[x].content_state = "ready"
        BY <2>1, DirtyLive DEF KeptInv, DirtyReady, Ready
      <4>2. IsCached(cache, b) /\ EntryOf(cache, b) = x
        BY <2>1, <4>1, EntryIs
      <4> QED BY <2>2, <2>4, <4>1, <4>2
    <3>2. inode.addr[b] # INVALID_LPA /\ ssd[inode.addr[b]] = Last(hist[b])
      BY <3>1 DEF KeptInv, OnSSD
    <3> QED BY <2>2, <2>4, <3>2 DEF Content
  <2> QED BY <2>3, <2>4
<1> QED BY <1>1, Invariant, KeptInvariant, PTL

-----------------------------------------------------------------------------
(* fsync.  From its write back to its return nobody else has the file's    *)
(* lock, so nothing becomes dirty and the size does not grow.              *)

SavedBy(r) ==
    r.op = "fsync" =>
        /\ r.pc \in {"fsync", "remove", "write_back", "return"}
        /\ r.pc = "return" => cache.dirty_pages = {} /\ inode.i_size >= size
Saved == \A t \in Threads : SavedBy(th[t])

LEMMA StepsSaved ==
  ASSUME IInv, AppendInv, KeptInv, AddrInv, Saved, failed = "none", NEW t \in Threads,
         NewCall(t) \/ Step(t)
  PROVE  Saved'
<1>1. /\ th \in [Threads -> ThreadRec] /\ th[t] \in ThreadRec /\ Shape(th[t]) /\ SavedBy(th[t])
  BY DEF IInv, TypeInv, Saved
<1>2. \A u \in Threads : u # t => th'[u] = th[u]
  <2>1. CASE NewCall(t)
    BY <1>1, <2>1, Zenon DEF NewCall, Call, set_rw_pos, CallExclusive
  <2>2. CASE ReadBegin(t) \/ AppendBegin(t) \/ WriteBegin(t) \/ GetPage(t) \/ CopyPage(t)
    BY <1>1, <2>2, ZenonT(40) DEF ReadBegin, AppendBegin, WriteBegin, WriteAt, GetPage, CopyPage
  <2>3. CASE DropHandle(t) \/ Unpin(t) \/ LastPage(t) \/ UnlockFile(t) \/ Advance(t) \/ Return(t)
    BY <1>1, <2>3 DEF DropHandle, Unpin, LastPage, UnlockFile, Advance, Return, Goto
  <2>4. CASE \/ MarkDirty(t) \/ AddToDirtyFiles(t) \/ Truncate(t) \/ ClearDirty(t)
             \/ RemoveFromDirtyFiles(t) \/ WriteBack(t)
    BY <1>1, <2>4 DEF MarkDirty, AddToDirtyFiles, Truncate, ClearDirty, RemoveFromDirtyFiles,
                      WriteBack, Goto
  <2> QED BY <2>1, <2>2, <2>3, <2>4 DEF Step
<1>3. ASSUME th[t].hold = "none" PROVE UNCHANGED <<cache, inode, size>>
  <2>1. th[t].pc \notin {"get", "copy", "drop", "unpin", "unlock", "truncate", "write_back"}
    BY <1>1, <1>3 DEF Shape, Waiting, Finishing, Inside, Exclusive
  <2>2. CASE NewCall(t)
    BY <2>2, Zenon DEF NewCall, Call, set_rw_pos, CallExclusive, fileVars
  <2>3. CASE ReadBegin(t) \/ AppendBegin(t) \/ WriteBegin(t) \/ LastPage(t) \/ Advance(t) \/ Return(t)
    BY <2>3, Zenon DEF ReadBegin, AppendBegin, WriteBegin, LastPage, Advance, Return, fileVars
  <2>4. CASE MarkDirty(t) \/ AddToDirtyFiles(t) \/ ClearDirty(t) \/ RemoveFromDirtyFiles(t)
    BY <2>4, Zenon DEF MarkDirty, AddToDirtyFiles, ClearDirty, RemoveFromDirtyFiles, fileVars
  <2>5. ~ \/ GetPage(t) \/ CopyPage(t) \/ DropHandle(t) \/ Unpin(t) \/ UnlockFile(t)
          \/ Truncate(t) \/ WriteBack(t)
    BY <2>1, Zenon DEF GetPage, CopyPage, DropHandle, Unpin, UnlockFile, Truncate, WriteBack
  <2> QED BY <2>2, <2>3, <2>4, <2>5 DEF Step
<1>4. SavedBy(th[t])'
  <2>1. CASE NewCall(t)
    <3>1. UNCHANGED <<cache, inode, size>>
      BY <2>1, Zenon DEF NewCall, Call, set_rw_pos, CallExclusive, fileVars
    <3>2. ASSUME NEW op \in {"read", "write"}, NEW f, NEW n, Call(t, op, f, n)
          PROVE  th'[t].op = op
      BY <1>1, <3>2 DEF Call, Idle
    <3>3. ASSUME NEW op \in {"truncate", "fsync"}, NEW n, CallExclusive(t, op, n)
          PROVE  th'[t].op = op /\ th'[t].pc = op
      BY <1>1, <3>3 DEF CallExclusive, Idle
    <3>4. ASSUME NEW f, NEW o, NEW w, set_rw_pos(t, f, o, w) PROVE th' = th
      BY <3>4 DEF set_rw_pos
    <3>5. \/ th'[t].op \in {"read", "write", "truncate"} \/ th' = th
          \/ th'[t].op = "fsync" /\ th'[t].pc = "fsync"
      BY <2>1, <3>2, <3>3, <3>4 DEF NewCall
    <3> QED BY <1>1, <3>1, <3>5 DEF SavedBy
  <2>2. CASE \/ ReadBegin(t) \/ AppendBegin(t) \/ WriteBegin(t) \/ GetPage(t) \/ CopyPage(t)
             \/ DropHandle(t) \/ Unpin(t) \/ LastPage(t) \/ UnlockFile(t) \/ MarkDirty(t)
             \/ AddToDirtyFiles(t) \/ Truncate(t)
    <3>1. th[t].pc \notin {"fsync", "remove", "write_back", "return"}
      BY <2>2, Zenon DEF ReadBegin, AppendBegin, WriteBegin, GetPage, CopyPage, DropHandle, Unpin, LastPage,
                  UnlockFile, MarkDirty, AddToDirtyFiles, Truncate
    <3>2. th[t].op # "fsync"
      BY <1>1, <3>1 DEF SavedBy
    <3>3. th'[t].op = th[t].op
      <4>1. CASE ReadBegin(t) \/ AppendBegin(t) \/ WriteBegin(t)
        BY <1>1, <4>1 DEF ReadBegin, AppendBegin, WriteBegin, WriteAt, ThreadRec
      <4>2. CASE GetPage(t)
        BY <1>1, <4>2 DEF GetPage, ThreadRec
      <4>3. CASE CopyPage(t)
        <5>1. CASE th[t].op = "read"
          <6>1. PICK x, g : /\ x = IF th[t].next + 1 < th[t].end THEN "get" ELSE "last"
                            /\ g = prepare_page_content(cache, th[t].page).ent[th[t].page].page
            BY SMTT(40)
          <6>2. th' = [th EXCEPT ![t].pre = th[t].page, ![t].put = th[t].pre, ![t].page = NoEntry,
                                 ![t].next = th[t].next + 1, ![t].pc = "drop", ![t].then = x,
                                 ![t].got = Append(@, g)]
            BY <4>3, <5>1, <6>1 DEF CopyPage
          <6> QED BY <1>1, <6>2 DEF ThreadRec
        <5>2. CASE th[t].op = "write"
          <6>1. PICK x : x = IF th[t].next + 1 < th[t].end THEN "get" ELSE "last"
            BY SMTT(40)
          <6>2. th' = [th EXCEPT ![t].pre = th[t].page, ![t].put = th[t].pre, ![t].page = NoEntry,
                                 ![t].next = th[t].next + 1, ![t].pc = "drop", ![t].then = x]
            BY <4>3, <5>2, <6>1 DEF CopyPage
          <6> QED BY <1>1, <6>2 DEF ThreadRec
        <5> QED BY <4>3, <5>1, <5>2, Zenon DEF CopyPage
      <4>4. CASE DropHandle(t) \/ Unpin(t)
        BY <1>1, <4>4 DEF DropHandle, Unpin, Goto, ThreadRec
      <4>5. CASE LastPage(t) \/ UnlockFile(t)
        BY <1>1, <4>5 DEF LastPage, UnlockFile, ThreadRec
      <4>6. CASE MarkDirty(t) \/ AddToDirtyFiles(t) \/ Truncate(t)
        BY <1>1, <4>6 DEF MarkDirty, AddToDirtyFiles, Truncate, Goto, ThreadRec
      <4> QED BY <2>2, <4>1, <4>2, <4>3, <4>4, <4>5, <4>6
    <3> QED BY <3>2, <3>3 DEF SavedBy
  <2>3. CASE ClearDirty(t) \/ RemoveFromDirtyFiles(t)
    <3>1. th'[t].pc \in {"remove", "write_back"}
      BY <1>1, <2>3 DEF ClearDirty, RemoveFromDirtyFiles, Goto, ThreadRec
    <3> QED BY <3>1 DEF SavedBy
  <2>4. CASE WriteBack(t)
    <3>1. th'[t].pc = "return"
      BY <1>1, <2>4 DEF WriteBack, Goto, ThreadRec
    <3>2. cache'.dirty_pages = {} /\ inode'.i_size >= size'
      BY <2>4, WriteBackKept
    <3> QED BY <3>1, <3>2 DEF SavedBy
  <2>5. CASE Advance(t) \/ Return(t)
    <3>1. th'[t].op = "none"
      BY <1>1, <2>5 DEF Advance, Return, Idle
    <3> QED BY <3>1 DEF SavedBy
  <2> QED BY <2>1, <2>2, <2>3, <2>4, <2>5 DEF Step
<1>5. ASSUME NEW u \in Threads, u # t PROVE SavedBy(th[u])'
  <2>1. th'[u] = th[u] /\ SavedBy(th[u]) /\ Shape(th[u])
    BY <1>2, <1>5 DEF Saved, IInv
  <2>2. CASE th[t].hold = "none"
    BY <1>3, <2>1, <2>2 DEF SavedBy
  <2>3. CASE th[t].hold # "none"
    <3>1. th[u].hold # "wr"
      BY <1>5, <2>3 DEF AppendInv, Locks
    <3>2. ~Exclusive(th[u])
      BY <2>1, <3>1 DEF Shape
    <3>3. th[u].op # "fsync"
      BY <2>1, <3>2 DEF SavedBy, Exclusive
    <3> QED BY <2>1, <3>3 DEF SavedBy
  <2> QED BY <2>2, <2>3
<1> QED BY <1>4, <1>5 DEF Saved

\* When fsync has written back, nothing is dirty and every written block is in
\* the block tree, inside the inode's size, at a valid address with its last
\* content, whatever has failed before or in the write back itself: nobody can
\* write between the write back and the return.
THEOREM FsyncIsComplete == Spec => []FsyncSaves
<1>1. Init => Saved
  <2> SUFFICES ASSUME Init PROVE Saved
    OBVIOUS
  <2>1. th = [t \in Threads |-> Idle]
    BY DEF Init
  <2>2. \A t \in Threads : th[t].op = "none"
    BY <2>1 DEF Idle
  <2> QED BY <2>2 DEF Saved, SavedBy
<1>2. IInv /\ AppendInv /\ KeptInv /\ AddrInv /\ Saved /\ [Next]_vars => Saved'
  <2> SUFFICES ASSUME IInv, AppendInv, KeptInv, AddrInv, Saved, [Next]_vars PROVE Saved'
    OBVIOUS
  <2>1. CASE UNCHANGED vars
    <3>1. UNCHANGED <<cache, inode, size, th, failed>>
      BY <2>1 DEF vars, fileVars
    <3> QED BY <3>1 DEF Saved, SavedBy
  <2>2. CASE Next
    BY <2>2, StepsSaved DEF Next
  <2> QED BY <2>1, <2>2
<1>3. KeptInv /\ AddrInv /\ Saved => FsyncSaves
  <2> SUFFICES ASSUME KeptInv, AddrInv, Saved, NEW t \in Threads, th[t].op = "fsync",
                      th[t].pc = "return"
               PROVE  /\ cache.dirty_pages = {} /\ inode.i_size >= size
                      /\ \A b \in Blocks : hist[b] # <<>> =>
                           /\ b < inode.i_size /\ inode.addr[b] \in valid
                           /\ ssd[inode.addr[b]] = Last(hist[b])
    BY DEF FsyncSaves
  <2>1. cache.dirty_pages = {} /\ inode.i_size >= size
    BY DEF Saved, SavedBy
  <2>2. \A b \in Blocks : ~Unwritten(b)
    BY <2>1 DEF Unwritten
  <2>3. ASSUME NEW b \in Blocks, hist[b] # <<>>
        PROVE  /\ b < inode.i_size /\ inode.addr[b] # INVALID_LPA
               /\ ssd[inode.addr[b]] = Last(hist[b])
    BY <2>2, <2>3 DEF KeptInv, OnSSD
  <2>4. AddrsValid
    BY DEF AddrInv
  <2> QED BY <2>1, <2>3, <2>4 DEF AddrsValid
<1> QED BY <1>1, <1>2, <1>3, Invariant, AppendInvariant, KeptInvariant, PTL DEF Spec

-----------------------------------------------------------------------------
(* Tearing.  A thread in the middle of its range has the lock of the page  *)
(* just behind it, so two threads in the file are never both about to copy *)
(* the same block unless one of them is at its first block or past its     *)
(* last: neither overtakes the other.                                      *)

Reading(r) == Inside(r) /\ r.op = "read"

Coupled(r) ==
    Inside(r) =>
        /\ r.start <= r.next
        /\ r.start < r.next /\ r.next < r.end => r.pre # NoEntry
        /\ r.pc \in {"last", "unlock"} \/ (r.pc \in {"drop", "unpin"} /\ r.then \in {"last", "unlock"})
              => r.next >= r.end
LockInv ==
    /\ \A t \in Threads : /\ Coupled(th[t])
                          /\ th[t].pre # NoEntry => cache.ent[th[t].pre].blkoff + 1 = th[t].next
    /\ \A t, u \in Threads : th[t].pre # NoEntry /\ th[t].pre = th[u].pre => t = u

\* Two threads in the middle of their ranges are about to copy different blocks.
LEMMA Apart ==
  ASSUME IInv, LockInv, NEW t \in Threads, NEW u \in Threads, t # u, Inside(th[t]), Inside(th[u]),
         th[t].start < th[t].next, th[t].next < th[t].end,
         th[u].start < th[u].next, th[u].next < th[u].end
  PROVE  th[t].next # th[u].next
<1> SUFFICES ASSUME th[t].next = th[u].next PROVE FALSE
  OBVIOUS
<1>1. th[t].pre # NoEntry /\ th[u].pre # NoEntry
  BY DEF LockInv, Coupled
<1>2. PICK e \in Entries, x \in Entries : e = th[t].pre /\ x = th[u].pre
  BY <1>1 DEF IInv, TypeInv, ThreadRec
<1>3. HeldBy[e] > 0 /\ HeldBy[x] > 0
  BY <1>2, HeldAny
<1>4. CacheOK(cache, HeldBy)
  BY DEF IInv, PageInv
<1>5. HeldBy[e] # 0 /\ HeldBy[x] # 0
  BY <1>3
<1>6. cache.ent[e].live /\ cache.ent[x].live
  BY <1>4, <1>5 DEF CacheOK, Counted
<1>7. cache.ent[e].blkoff \in Blocks /\ cache.ent[x].blkoff \in Blocks
  BY <1>4, <1>6 DEF CacheOK, Counted
<1>8. cache.ent[e].blkoff + 1 = th[t].next /\ cache.ent[x].blkoff + 1 = th[u].next
  BY <1>1, <1>2 DEF LockInv
<1>9. PICK a \in Nat, b \in Nat : a = cache.ent[e].blkoff /\ b = cache.ent[x].blkoff
  BY <1>7, EntryNumbers
<1>10. a + 1 = b + 1
  BY <1>8, <1>9
<1>11. cache.ent[e].blkoff = cache.ent[x].blkoff
  BY <1>9, <1>10
<1>12. e = x
  BY <1>4, <1>6, <1>11 DEF CacheOK, OneEach
<1> QED BY <1>1, <1>2, <1>12 DEF LockInv

\* What a step does to the thread that takes it.
SameRange(s, r) ==
    /\ r.op = s.op /\ r.id = s.id /\ r.hold = s.hold /\ r.start = s.start
    /\ r.next = s.next /\ r.end = s.end /\ r.got = s.got

LEMMA StepWithin ==
  ASSUME IInv, NEW t \in Threads, GetPage(t) \/ DropHandle(t) \/ Unpin(t) \/ LastPage(t)
  PROVE  /\ \A u \in Threads : u # t => th'[u] = th[u]
         /\ Inside(th[t]) /\ Inside(th'[t]) /\ SameRange(th[t], th'[t])
         /\ th'[t].pre \in {th[t].pre, NoEntry}
         /\ Coupled(th[t]) => Coupled(th'[t])
<1>1. th \in [Threads -> ThreadRec] /\ th[t] \in ThreadRec /\ Shape(th[t])
  BY DEF IInv, TypeInv
<1>2. CASE GetPage(t)
  <2>1. PICK e : th' = [th EXCEPT ![t].page = e, ![t].pc = "copy"]
    BY <1>2 DEF GetPage
  <2>2. /\ \A u \in Threads : u # t => th'[u] = th[u]
        /\ SameRange(th[t], th'[t]) /\ th'[t].pre = th[t].pre /\ th'[t].pc = "copy"
    BY <1>1, <2>1 DEF ThreadRec, SameRange
  <2>3. th[t].pc = "get"
    BY <1>2 DEF GetPage
  <2> QED BY <2>2, <2>3 DEF Inside, SameRange, Coupled
<1>3. CASE DropHandle(t) \/ Unpin(t)
  <2>1. Inside(th[t]) /\ th[t].then \in {"get", "last", "unlock"} /\ th[t].pc \in {"drop", "unpin"}
    BY <1>1, <1>3 DEF Shape, Inside, DropHandle, Unpin
  <2>2. PICK q : q = th[t].then
    OBVIOUS
  <2>3. \/ th' = [th EXCEPT ![t].pc = q] \/ th' = [th EXCEPT ![t].pc = "unpin"]
        \/ th' = [th EXCEPT ![t].put = NoEntry, ![t].pc = q]
    BY <1>3, <2>2 DEF DropHandle, Unpin, Goto
  <2>4. /\ \A u \in Threads : u # t => th'[u] = th[u]
        /\ SameRange(th[t], th'[t]) /\ th'[t].pre = th[t].pre /\ th'[t].pc \in {q, "unpin"}
        /\ th'[t].then = th[t].then
    <3>1. CASE th' = [th EXCEPT ![t].pc = q]
      BY <1>1, <3>1 DEF ThreadRec, SameRange
    <3>2. CASE th' = [th EXCEPT ![t].pc = "unpin"]
      BY <1>1, <3>2 DEF ThreadRec, SameRange
    <3>3. CASE th' = [th EXCEPT ![t].put = NoEntry, ![t].pc = q]
      BY <1>1, <3>3 DEF ThreadRec, SameRange
    <3> QED BY <2>3, <3>1, <3>2, <3>3
  <2>5. Inside(th'[t])
    BY <2>1, <2>2, <2>4 DEF Inside
  <2>6. ASSUME Coupled(th[t]) PROVE Coupled(th'[t])
    <3>1. \/ th'[t].pc \in {"last", "unlock"}
          \/ th'[t].pc \in {"drop", "unpin"} /\ th'[t].then \in {"last", "unlock"}
       => th[t].pc \in {"drop", "unpin"} /\ th[t].then \in {"last", "unlock"}
      BY <2>1, <2>2, <2>4
    <3> QED BY <2>1, <2>4, <2>6, <3>1 DEF Coupled, SameRange
  <2> QED BY <2>1, <2>4, <2>5, <2>6
<1>4. CASE LastPage(t)
  <2>1. th' = [th EXCEPT ![t].put = th[t].pre, ![t].pre = NoEntry, ![t].pc = "drop",
                         ![t].then = "unlock"]
    BY <1>4 DEF LastPage
  <2>2. /\ \A u \in Threads : u # t => th'[u] = th[u]
        /\ SameRange(th[t], th'[t]) /\ th'[t].pre = NoEntry /\ th'[t].pc = "drop"
        /\ th'[t].next \in Nat /\ th'[t].end \in Nat
    BY <1>1, <2>1 DEF ThreadRec, SameRange
  <2>3. th[t].pc = "last"
    BY <1>4 DEF LastPage
  <2>4. Inside(th[t]) /\ Inside(th'[t])
    BY <2>2, <2>3 DEF Inside
  <2>5. ASSUME Coupled(th[t]) PROVE Coupled(th'[t])
    <3>1. th[t].next >= th[t].end /\ th[t].start <= th[t].next
      BY <2>3, <2>4, <2>5 DEF Coupled
    <3>2. th'[t].next >= th'[t].end /\ th'[t].start <= th'[t].next
      BY <2>2, <3>1 DEF SameRange
    <3>3. ~(th'[t].next < th'[t].end)
      BY <2>2, <3>2
    <3> QED BY <3>2, <3>3 DEF Coupled
  <2> QED BY <2>2, <2>4, <2>5
<1> QED BY <1>2, <1>3, <1>4

LEMMA StepOutside ==
  ASSUME IInv, NEW t \in Threads,
         \/ NewCall(t) \/ UnlockFile(t) \/ MarkDirty(t) \/ AddToDirtyFiles(t) \/ Advance(t)
         \/ Truncate(t) \/ ClearDirty(t) \/ RemoveFromDirtyFiles(t) \/ WriteBack(t) \/ Return(t)
  PROVE  /\ \A u \in Threads : u # t => th'[u] = th[u]
         /\ ~Inside(th'[t])
         /\ ~NewCall(t) => th'[t].pc # "lock"
<1>1. th \in [Threads -> ThreadRec] /\ th[t] \in ThreadRec /\ Shape(th[t])
  BY DEF IInv, TypeInv
<1>2. CASE NewCall(t)
  <2>1. PICK r : th' = [th EXCEPT ![t] = r] /\ r.pc \in {"lock", "idle", "truncate", "fsync"}
    <3>1. ASSUME NEW op \in {"read", "write"}, NEW f \in Fds, NEW n \in 1 .. MaxCount, Call(t, op, f, n)
          PROVE  \E r : th' = [th EXCEPT ![t] = r] /\ r.pc = "lock"
      <4>1. PICK r : r = [Idle EXCEPT !.pc = "lock", !.op = op, !.fd = f, !.id = WriteId(f), !.end = n]
        OBVIOUS
      <4>2. r.pc = "lock"
        BY <4>1 DEF Idle
      <4> QED BY <3>1, <4>1, <4>2 DEF Call
    <3>2. ASSUME NEW f \in Fds, NEW o, NEW whence, set_rw_pos(t, f, o, whence)
          PROVE  \E r : th' = [th EXCEPT ![t] = r] /\ r.pc = "idle"
      <4>1. th' = [th EXCEPT ![t] = th[t]] /\ th[t].pc = "idle"
        BY <1>1, <3>2 DEF set_rw_pos
      <4> QED BY <4>1
    <3>3. ASSUME NEW op \in {"truncate", "fsync"}, NEW n, CallExclusive(t, op, n)
          PROVE  \E r : th' = [th EXCEPT ![t] = r] /\ r.pc = op
      <4>1. PICK r : r = [Idle EXCEPT !.pc = op, !.op = op, !.hold = "wr", !.end = n, !.then = "return"]
        OBVIOUS
      <4>2. r.pc = op
        BY <4>1 DEF Idle
      <4> QED BY <3>3, <4>1, <4>2 DEF CallExclusive
    <3> QED BY <1>2, <3>1, <3>2, <3>3 DEF NewCall
  <2>2. (\A u \in Threads : u # t => th'[u] = th[u]) /\ th'[t] = r
    BY <1>1, <2>1
  <2> QED BY <1>2, <2>1, <2>2 DEF Inside
<1>3. CASE UnlockFile(t)
  <2>1. (\A u \in Threads : u # t => th'[u] = th[u]) /\ th'[t].pc = "mark"
    BY <1>1, <1>3 DEF UnlockFile, ThreadRec
  <2> QED BY <2>1 DEF Inside
<1>4. CASE Advance(t) \/ Return(t)
  <2>1. (\A u \in Threads : u # t => th'[u] = th[u]) /\ th'[t] = Idle
    BY <1>1, <1>4 DEF Advance, Return
  <2>2. th'[t].pc = "idle"
    BY <2>1 DEF Idle
  <2> QED BY <2>1, <2>2 DEF Inside
<1>5. CASE \/ MarkDirty(t) \/ AddToDirtyFiles(t) \/ Truncate(t) \/ ClearDirty(t)
           \/ RemoveFromDirtyFiles(t) \/ WriteBack(t)
  <2>1. th[t].pc \in {"mark", "add"} => th[t].then \in {"advance", "return"}
    BY <1>1 DEF Shape, Waiting, Inside, Finishing, Exclusive
  <2>2. PICK q : /\ th' = [th EXCEPT ![t].pc = q]
                 /\ q \in {"add", "advance", "return", "remove", "write_back", "mark"}
    <3>1. CASE MarkDirty(t)
      BY <2>1, <3>1 DEF MarkDirty, Goto
    <3>2. CASE AddToDirtyFiles(t)
      BY <2>1, <3>2 DEF AddToDirtyFiles, Goto
    <3>3. CASE ClearDirty(t)
      BY <3>3 DEF ClearDirty, Goto
    <3>4. CASE RemoveFromDirtyFiles(t)
      BY <3>4 DEF RemoveFromDirtyFiles, Goto
    <3>5. CASE WriteBack(t)
      BY <3>5 DEF WriteBack, Goto
    <3>6. CASE Truncate(t)
      BY <3>6 DEF Truncate, Goto
    <3> QED BY <1>5, <3>1, <3>2, <3>3, <3>4, <3>5, <3>6
  <2>3. (\A u \in Threads : u # t => th'[u] = th[u]) /\ th'[t].pc = q
    BY <1>1, <2>2 DEF ThreadRec
  <2> QED BY <2>2, <2>3 DEF Inside
<1> QED BY <1>2, <1>3, <1>4, <1>5

\* The lock is taken: nothing is passed and no page is locked yet.
LEMMA StepBegin ==
  ASSUME IInv, IInv', NEW t \in Threads, ReadBegin(t) \/ AppendBegin(t) \/ WriteBegin(t)
  PROVE  /\ \A u \in Threads : u # t => th'[u] = th[u]
         /\ th[t].pc = "lock" /\ Inside(th'[t]) /\ th'[t].op = th[t].op /\ th'[t].id = th[t].id
         /\ th'[t].start = th'[t].next /\ th'[t].got = <<>>
         /\ th'[t].pre = NoEntry /\ Coupled(th'[t])
<1>1. th \in [Threads -> ThreadRec] /\ th[t] \in ThreadRec /\ th[t].pc = "lock" /\ Shape(th[t]) /\ Owner(t)
  BY SMTT(40) DEF IInv, TypeInv, ReadBegin, AppendBegin, WriteBegin
<1>2. PICK lock, from, to, q :
        /\ th' = [th EXCEPT ![t].hold = lock, ![t].start = from, ![t].next = from, ![t].end = to,
                            ![t].pc = q]
        /\ q = IF from < to THEN "get" ELSE "unlock"
  <2>1. CASE ReadBegin(t)
    BY <2>1 DEF ReadBegin
  <2>2. CASE AppendBegin(t)
    BY <2>2 DEF AppendBegin, WriteAt
  <2>3. CASE WriteBegin(t)
    BY <2>3 DEF WriteBegin, WriteAt
  <2> QED BY <2>1, <2>2, <2>3, ZenonT(40)
<1>3. /\ \A u \in Threads : u # t => th'[u] = th[u]
      /\ th'[t].next = from /\ th'[t].end = to /\ th'[t].pc = q /\ th'[t].start = from
      /\ th'[t].op = th[t].op /\ th'[t].id = th[t].id /\ th'[t].got = th[t].got
      /\ th'[t].pre = th[t].pre
  BY <1>1, <1>2 DEF ThreadRec
<1>4. th[t].got = <<>> /\ th[t].pre = NoEntry
  BY <1>1 DEF Owner, Shape, Inside
<1>5. from \in Nat /\ to \in Nat
  <2>1. th'[t] \in ThreadRec
    BY DEF IInv, TypeInv
  <2> QED BY <1>3, <2>1 DEF ThreadRec
<1>6. q \in {"get", "unlock"} /\ (q = "unlock" => from >= to)
  BY <1>2, <1>5
<1>7. Inside(th'[t])
  BY <1>3, <1>6 DEF Inside
<1>8. Coupled(th'[t])
  <2>1. th'[t].start <= th'[t].next /\ ~(th'[t].start < th'[t].next)
    BY <1>3, <1>5
  <2>2. th'[t].pc \in {"last", "unlock"} => th'[t].next >= th'[t].end
    BY <1>3, <1>6
  <2>3. ~(th'[t].pc \in {"drop", "unpin"})
    BY <1>3, <1>6
  <2> QED BY <2>1, <2>2, <2>3 DEF Coupled
<1> QED BY <1>1, <1>3, <1>4, <1>7, <1>8

\* A page is copied: the thread is one block further and has that page's lock.
LEMMA StepCopy ==
  ASSUME IInv, NEW t \in Threads, CopyPage(t), NEW e, e = th[t].page, NEW b, b = th[t].next,
         NEW r, r = prepare_page_content(cache, e)
  PROVE  /\ \A u \in Threads : u # t => th'[u] = th[u]
         /\ Inside(th[t]) /\ Inside(th'[t]) /\ th'[t].pre = e /\ th'[t].next = b + 1
         /\ th'[t].op = th[t].op /\ th'[t].id = th[t].id /\ th'[t].hold = th[t].hold
         /\ th'[t].start = th[t].start /\ th'[t].end = th[t].end
         /\ th[t].op = "read" => th'[t].got = Append(th[t].got, r.ent[e].page)
         /\ th[t].op = "write" => th'[t].got = th[t].got
         /\ \A u \in Threads : th[u].pre # e
         /\ Coupled(th[t]) => Coupled(th'[t])
<1>1. /\ th \in [Threads -> ThreadRec] /\ th[t] \in ThreadRec /\ th[t].pc = "copy" /\ Shape(th[t])
      /\ \A u \in Threads : th[u].pre # e
  BY Zenon DEF IInv, TypeInv, CopyPage, PageLocked
<1>2. /\ b < th[t].end /\ b \in Nat /\ th[t].end \in Nat /\ th[t].start \in Nat /\ Inside(th[t])
      /\ th[t].op \in {"read", "write"} /\ e # NoEntry
  BY <1>1 DEF Shape, Inside, ThreadRec
<1>3. PICK x : x = IF b + 1 < th[t].end THEN "get" ELSE "last"
  OBVIOUS
<1>4. /\ \A u \in Threads : u # t => th'[u] = th[u]
      /\ th'[t].pre = e /\ th'[t].next = b + 1 /\ th'[t].pc = "drop" /\ th'[t].then = x
      /\ th'[t].op = th[t].op /\ th'[t].id = th[t].id /\ th'[t].hold = th[t].hold
      /\ th'[t].start = th[t].start /\ th'[t].end = th[t].end
      /\ th[t].op = "read" => th'[t].got = Append(th[t].got, r.ent[e].page)
      /\ th[t].op = "write" => th'[t].got = th[t].got
  <2>1. CASE th[t].op = "read"
    <3>1. PICK v : v = r.ent[e].page
      OBVIOUS
    <3>2. th' = [th EXCEPT ![t].pre = e, ![t].put = th[t].pre, ![t].page = NoEntry,
                           ![t].next = b + 1, ![t].pc = "drop", ![t].then = x,
                           ![t].got = Append(@, v)]
      BY <1>3, <2>1, <3>1 DEF CopyPage
    <3> QED BY <1>1, <2>1, <3>1, <3>2, ZenonT(40) DEF ThreadRec
  <2>2. CASE th[t].op = "write"
    <3>1. th' = [th EXCEPT ![t].pre = e, ![t].put = th[t].pre, ![t].page = NoEntry,
                           ![t].next = b + 1, ![t].pc = "drop", ![t].then = x]
      BY <1>3, <2>2 DEF CopyPage
    <3> QED BY <1>1, <2>2, <3>1 DEF ThreadRec
  <2> QED BY <1>2, <2>1, <2>2, SMTT(40)
<1>5. Inside(th'[t])
  BY <1>4 DEF Inside
<1>6. ASSUME Coupled(th[t]) PROVE Coupled(th'[t])
  <2>1. th[t].start <= b
    BY <1>2, <1>6 DEF Coupled
  <2>2. PICK a \in Nat, z \in Nat : a = th[t].start /\ z = th[t].end
    BY <1>2
  <2>3. a <= b + 1 /\ (x \in {"last", "unlock"} => b + 1 >= z)
    BY <1>2, <1>3, <2>1, <2>2
  <2>4. th'[t].start <= th'[t].next /\ th'[t].pre # NoEntry
    BY <1>2, <1>4, <2>2, <2>3
  <2>5. th'[t].then \in {"last", "unlock"} => th'[t].next >= th'[t].end
    BY <1>4, <2>2, <2>3
  <2>6. th'[t].pc = "drop"
    BY <1>4
  <2> QED BY <2>4, <2>5, <2>6 DEF Coupled
<1> QED BY <1>1, <1>2, <1>4, <1>5, <1>6

\* Where no page is locked, the locked pages are those of the blocks they were.
LEMMA LockKept ==
  ASSUME IInv, LockInv, NEW t \in Threads, \A u \in Threads : u # t => th'[u] = th[u],
         Keeps(cache, cache', HeldBy), Coupled(th'[t]),
         th'[t].pre \in {th[t].pre, NoEntry}, th'[t].pre # NoEntry => th'[t].next = th[t].next
  PROVE  LockInv'
<1>1. ASSUME NEW u \in Threads, th[u].pre # NoEntry
      PROVE  cache'.ent[th[u].pre].blkoff + 1 = th[u].next
  <2>1. th[u].pre \in Entries
    BY <1>1 DEF IInv, TypeInv, ThreadRec
  <2>2. PICK e \in Entries : e = th[u].pre
    BY <2>1
  <2>3. HeldBy[e] > 0
    BY <2>2, HeldAny
  <2>4. cache'.ent[e].blkoff = cache.ent[e].blkoff
    BY <2>3 DEF Keeps
  <2> QED BY <1>1, <2>2, <2>4 DEF LockInv
<1>2. \A u \in Threads : /\ th'[u].pre \in {th[u].pre, NoEntry} /\ Coupled(th'[u])
                         /\ th'[u].pre # NoEntry => th'[u].next = th[u].next
  BY DEF LockInv
<1>3. \A u \in Threads : th'[u].pre # NoEntry => cache'.ent[th'[u].pre].blkoff + 1 = th'[u].next
  BY <1>1, <1>2
<1>4. \A u, v \in Threads : th'[u].pre # NoEntry /\ th'[u].pre = th'[v].pre => u = v
  BY <1>2 DEF LockInv
<1> QED BY <1>2, <1>3, <1>4 DEF LockInv

LEMMA LockSteps ==
  ASSUME IInv, IInv', LockInv, failed = "none", NEW t \in Threads, NewCall(t) \/ Step(t)
  PROVE  LockInv'
<1>1. CASE CopyPage(t)
  <2>1. PICK e, b, r : e = th[t].page /\ b = th[t].next /\ r = prepare_page_content(cache, e)
    OBVIOUS
  <2>2. /\ e \in Entries /\ cache.ent[e].blkoff = b
        /\ \A y \in Entries : cache'.ent[y].blkoff = cache.ent[y].blkoff
    BY <1>1, <2>1, CopyEffect
  <2>3. /\ \A u \in Threads : u # t => th'[u] = th[u]
        /\ th'[t].pre = e /\ th'[t].next = b + 1 /\ \A u \in Threads : th[u].pre # e
        /\ Coupled(th[t]) => Coupled(th'[t])
    BY <1>1, <2>1, StepCopy
  <2>4. \A u \in Threads : Coupled(th'[u])
    BY <2>3 DEF LockInv
  <2>5. ASSUME NEW u \in Threads, th'[u].pre # NoEntry
        PROVE  cache'.ent[th'[u].pre].blkoff + 1 = th'[u].next
    <3>1. CASE u = t
      BY <2>2, <2>3, <3>1
    <3>2. CASE u # t
      <4>1. th[u].pre \in Entries
        BY <2>3, <2>5, <3>2 DEF IInv, TypeInv, ThreadRec
      <4> QED BY <2>2, <2>3, <2>5, <3>2, <4>1 DEF LockInv
    <3> QED BY <3>1, <3>2
  <2>6. \A u, v \in Threads : th'[u].pre # NoEntry /\ th'[u].pre = th'[v].pre => u = v
    BY <2>3 DEF LockInv
  <2> QED BY <2>4, <2>5, <2>6 DEF LockInv
<1>2. CASE ReadBegin(t) \/ AppendBegin(t) \/ WriteBegin(t)
  <2>1. Keeps(cache, cache', HeldBy)
    BY <1>2, OtherRetains
  <2>2. (\A u \in Threads : u # t => th'[u] = th[u]) /\ th'[t].pre = NoEntry /\ Coupled(th'[t])
    BY <1>2, StepBegin
  <2> QED BY <2>1, <2>2, LockKept
<1>3. CASE GetPage(t) \/ DropHandle(t) \/ Unpin(t) \/ LastPage(t)
  <2>1. Keeps(cache, cache', HeldBy)
    BY <1>3, OtherRetains
  <2>2. /\ \A u \in Threads : u # t => th'[u] = th[u]
        /\ SameRange(th[t], th'[t]) /\ th'[t].pre \in {th[t].pre, NoEntry}
        /\ Coupled(th[t]) => Coupled(th'[t])
    BY <1>3, StepWithin
  <2>3. Coupled(th'[t]) /\ th'[t].next = th[t].next
    BY <2>2 DEF LockInv, SameRange
  <2> QED BY <2>1, <2>2, <2>3, LockKept
<1>4. CASE \/ NewCall(t) \/ UnlockFile(t) \/ MarkDirty(t) \/ AddToDirtyFiles(t) \/ Advance(t)
           \/ Truncate(t) \/ ClearDirty(t) \/ RemoveFromDirtyFiles(t) \/ WriteBack(t) \/ Return(t)
  <2>1. (\A u \in Threads : u # t => th'[u] = th[u]) /\ ~Inside(th'[t])
    BY <1>4, StepOutside
  <2>2. Coupled(th'[t])
    BY <2>1 DEF Coupled
  <2>3. th'[t].pre = NoEntry
    <3>1. Shape(th'[t])
      BY DEF IInv
    <3> QED BY <2>1, <3>1 DEF Shape
  <2>4. Keeps(cache, cache', HeldBy)
    <3>1. CASE Truncate(t)
      <4>1. cache' = cache \/ \E n : cache' \in truncate(cache, n)
        BY <3>1 DEF Truncate
      <4>2. CacheOK(cache, HeldBy)
        BY DEF IInv, PageInv
      <4>3. CASE cache' = cache
        BY <4>3 DEF Keeps
      <4>4. ASSUME NEW n, cache' \in truncate(cache, n) PROVE Keeps(cache, cache', HeldBy)
        BY <4>2, <4>4, TruncateOK
      <4> QED BY <4>1, <4>3, <4>4
    <3>2. CASE WriteBack(t)
      <4>1. \A e \in Entries : cache'.ent[e].blkoff = cache.ent[e].blkoff
        BY <3>2, WrittenBack
      <4> QED BY <4>1 DEF Keeps
    <3> QED BY <1>4, <3>1, <3>2, OtherRetains
  <2> QED BY <2>1, <2>2, <2>3, <2>4, LockKept
<1> QED BY <1>1, <1>2, <1>3, <1>4 DEF Step

-----------------------------------------------------------------------------
(* Who has seen a write.  While a write is under way, its number is in the *)
(* history of exactly the blocks it has passed, on dirty pages of these    *)
(* blocks, nowhere on the SSD, and read by others only from these blocks.  *)
(* A number that is not used yet is nowhere.                               *)

Ids == - MaxOps .. MaxOps
Unused == {w \in Ids : w > ops \/ w < - ops}
UnderWay(r) == r.op = "write" /\ (r.pc = "lock" \/ Inside(r))
Done(r) == {b \in Blocks : Inside(r) /\ r.start <= b /\ b < r.next}
Traced(w, B) ==
    /\ \A b \in Blocks : Contains(hist[b], w) <=> b \in B
    /\ \A e \in Entries : cache.ent[e].page = w => e \in cache.dirty_pages /\ cache.ent[e].blkoff \in B
    /\ \A i \in 1 .. Len(ssd) : ssd[i] # w
    /\ \A t \in Threads : Reading(th[t]) =>
         \A i \in 1 .. Len(th[t].got) : th[t].got[i] = w => th[t].start + i - 1 \in B
IdInv ==
    /\ ops <= MaxOps
    /\ \A b \in Blocks : Distinct(hist[b])
    /\ \A w \in Unused : Traced(w, {})
    /\ \A t \in Threads : UnderWay(th[t]) =>
         /\ th[t].id \in Ids \ Unused /\ th[t].id # 0
         /\ Traced(th[t].id, Done(th[t]))
    /\ \A t, u \in Threads : UnderWay(th[t]) /\ UnderWay(th[u]) /\ th[t].id = th[u].id => t = u

\* A sequence of numbers with one more.
LEMMA Appended ==
  ASSUME NEW s \in Seq(Int), NEW v \in Int, NEW q, q = Append(s, v)
  PROVE  /\ q \in Seq(Int) /\ Len(s) \in Nat /\ Len(q) = Len(s) + 1 /\ q[Len(s) + 1] = v
         /\ \A i \in 1 .. Len(s) : q[i] = s[i]
         /\ \A x : Contains(q, x) <=> Contains(s, x) \/ x = v
         /\ Distinct(s) /\ ~Contains(s, v) => Distinct(q)
<1>1. /\ q \in Seq(Int) /\ Len(q) = Len(s) + 1 /\ Len(s) \in Nat /\ q[Len(s) + 1] = v
      /\ \A i \in 1 .. Len(s) : q[i] = s[i]
  OBVIOUS
<1>2. \A i : i \in 1 .. Len(q) <=> i \in 1 .. Len(s) \/ i = Len(s) + 1
  BY <1>1
<1>3. ASSUME NEW x PROVE Contains(q, x) <=> Contains(s, x) \/ x = v
  BY <1>1, <1>2 DEF Contains
<1>4. ASSUME Distinct(s), ~Contains(s, v) PROVE Distinct(q)
  <2>1. \A i \in 1 .. Len(s) : q[i] # v
    BY <1>1, <1>4 DEF Contains
  <2> SUFFICES ASSUME NEW i \in 1 .. Len(q), NEW j \in 1 .. Len(q), q[i] = q[j]
               PROVE  i = j
    BY DEF Distinct
  <2>2. CASE i \in 1 .. Len(s) /\ j \in 1 .. Len(s)
    <3>1. s[i] = s[j]
      BY <1>1, <2>2
    <3> QED BY <1>4, <2>2, <3>1 DEF Distinct
  <2> QED BY <1>1, <1>2, <2>1, <2>2
<1> QED BY <1>1, <1>3, <1>4

LEMMA Beyond ==
  ASSUME NEW a \in Nat, NEW z \in Nat, a <= z, NEW w \in Int, w > z \/ w < - z
  PROVE  w > a \/ w < - a
OBVIOUS

\* The numbers in use are those of the calls made.
LEMMA UnusedNumbers ==
  ASSUME IInv, ops <= MaxOps
  PROVE  /\ Ids \subseteq Int /\ 0 \notin Unused /\ Unused \subseteq Ids /\ ops \in Nat
         /\ \A w \in Ids : w \notin Unused <=> w \in - ops .. ops
<1>1. ops \in Nat /\ MaxOps \in Nat
  BY BoundAssumption DEF IInv, TypeInv, DataInv
<1> QED BY <1>1 DEF Ids, Unused

\* The numbers are what they were where no page is copied.
LEMMA TracedKept ==
  ASSUME IInv', NEW w, w # 0, NEW B, Traced(w, B), Retains(cache, cache'), hist' = hist, ssd' = ssd,
         \A t \in Threads : Reading(th'[t]) =>
            \/ th'[t].got = <<>>
            \/ Reading(th[t]) /\ th'[t].got = th[t].got /\ th'[t].start = th[t].start
  PROVE  Traced(w, B)'
<1>1. \A b \in Blocks : Contains(hist'[b], w) <=> b \in B
  BY DEF Traced
<1>2. ASSUME NEW e \in Entries, cache'.ent[e].page = w
      PROVE  e \in cache'.dirty_pages /\ cache'.ent[e].blkoff \in B
  <2>1. cache.ent[e].page = w
    BY <1>2 DEF Retains
  <2>2. e \in cache.dirty_pages /\ cache.ent[e].blkoff \in B
    BY <2>1 DEF Traced
  <2>3. e \in cache'.dirty_pages
    BY <2>2 DEF Retains
  <2>4. cache'.ent[e].live
    BY <2>3 DEF IInv, PageInv, CacheOK, Counted
  <2>5. SameContent(cache.ent[e], cache'.ent[e])
    BY <2>2, <2>4 DEF Retains
  <2> QED BY <2>2, <2>3, <2>5 DEF SameContent
<1>3. \A i \in 1 .. Len(ssd') : ssd'[i] # w
  BY DEF Traced
<1>4. ASSUME NEW t \in Threads, Reading(th'[t]), NEW i \in 1 .. Len(th'[t].got), th'[t].got[i] = w
      PROVE  th'[t].start + i - 1 \in B
  <2>1. th'[t].got # <<>>
    BY <1>4
  <2> QED BY <1>4, <2>1 DEF Traced
<1> QED BY <1>1, <1>2, <1>3, <1>4 DEF Traced

\* Calls, and the steps that copy no page and change no content.
LEMMA IdKept ==
  ASSUME IInv, IInv', IdInv, NEW t \in Threads, Retains(cache, cache'), hist' = hist, ssd' = ssd,
         ops' = ops \/ (ops' = ops + 1 /\ ops < MaxOps),
         \A u \in Threads : Reading(th'[u]) =>
            \/ th'[u].got = <<>>
            \/ Reading(th[u]) /\ th'[u].got = th[u].got /\ th'[u].start = th[u].start,
         \A u \in Threads : UnderWay(th'[u]) =>
            \/ UnderWay(th[u]) /\ th'[u].id = th[u].id /\ Done(th'[u]) = Done(th[u])
            \/ /\ u = t /\ ops' = ops + 1 /\ th'[u].id \in {ops + 1, - (ops + 1)}
               /\ Done(th'[u]) = {}
  PROVE  IdInv'
<1>1. ops \in Nat /\ MaxOps \in Nat /\ ops <= MaxOps
  BY BoundAssumption DEF IInv, TypeInv, DataInv, IdInv
<1>2. ops' \in Nat /\ ops' <= MaxOps /\ ops <= ops'
  BY <1>1
<1>3. Unused' \subseteq Unused
  <2>1. PICK a \in Nat, z \in Nat : a = ops /\ z = ops' /\ a <= z
    BY <1>1, <1>2
  <2>2. \A w \in Int : w > z \/ w < - z => w > a \/ w < - a
    BY <2>1, Beyond
  <2>3. Ids \subseteq Int
    BY <1>1 DEF Ids
  <2> QED BY <2>1, <2>2, <2>3 DEF Unused
<1>4. 0 \notin Unused /\ \A w \in Unused : Traced(w, {})
  BY <1>1, UnusedNumbers DEF IdInv
<1>5. \A w \in Unused : Traced(w, {})'
  BY <1>4, TracedKept
<1>6. \A w \in Unused' : Traced(w, {})'
  BY <1>3, <1>5
<1>7. \A b \in Blocks : Distinct(hist'[b])
  BY DEF IdInv
<1>8. ASSUME ops' = ops + 1, NEW w \in {ops + 1, - (ops + 1)}
      PROVE  w \in Unused /\ w \in Ids /\ w \notin Unused' /\ w # 0
  BY <1>1, <1>2, <1>8 DEF Ids, Unused
<1>9. ASSUME NEW u \in Threads, UnderWay(th'[u])
      PROVE  /\ th'[u].id \in Ids /\ th'[u].id \notin Unused' /\ th'[u].id # 0
             /\ Traced(th[u].id, Done(th[u]))'
             /\ th'[u].id \notin Unused => UnderWay(th[u]) /\ th'[u].id = th[u].id
             /\ th'[u].id \in Unused => u = t
  <2>1. CASE UnderWay(th[u]) /\ th'[u].id = th[u].id /\ Done(th'[u]) = Done(th[u])
    <3>1. PICK w, B : w = th[u].id /\ B = Done(th[u])
      OBVIOUS
    <3>2. w \in Ids \ Unused /\ w # 0 /\ Traced(w, B)
      BY <2>1, <3>1 DEF IdInv
    <3>3. Traced(w, B)'
      BY <3>2, TracedKept
    <3>4. w = th'[u].id /\ B = Done(th'[u])
      BY <2>1, <3>1
    <3>5. Traced(th[u].id, Done(th[u]))'
      BY <3>3, <3>4 DEF Traced
    <3> QED BY <1>3, <2>1, <3>2, <3>4, <3>5
  <2>2. CASE /\ u = t /\ ops' = ops + 1 /\ th'[u].id \in {ops + 1, - (ops + 1)}
             /\ Done(th'[u]) = {}
    <3>1. PICK w : w = th'[u].id
      OBVIOUS
    <3>2. w \in Unused /\ w \in Ids /\ w \notin Unused' /\ w # 0
      BY <1>8, <2>2, <3>1
    <3>3. Traced(w, {})'
      BY <1>5, <3>2
    <3>4. Traced(th[u].id, Done(th[u]))'
      BY <2>2, <3>1, <3>3 DEF Traced
    <3> QED BY <2>2, <3>1, <3>2, <3>4
  <2> QED BY <1>9, <2>1, <2>2
<1>10. \A u, v \in Threads : UnderWay(th'[u]) /\ UnderWay(th'[v]) /\ th'[u].id = th'[v].id => u = v
  BY <1>9 DEF IdInv
<1> QED BY <1>2, <1>6, <1>7, <1>9, <1>10 DEF IdInv

\* With file_op_lock held exclusively nobody reads or writes.
LEMMA Alone ==
  ASSUME IInv, AppendInv, NEW t \in Threads, Exclusive(th[t])
  PROVE  \A u \in Threads : ~Inside(th[u])
<1> SUFFICES ASSUME NEW u \in Threads PROVE ~Inside(th[u])
  OBVIOUS
<1>1. Shape(th[t]) /\ Shape(th[u])
  BY DEF IInv
<1>2. th[t].hold = "wr"
  BY <1>1 DEF Shape
<1>3. CASE u = t
  BY <1>3 DEF Exclusive, Inside
<1>4. CASE u # t
  <2>1. th[u].hold = "none"
    BY <1>2, <1>4 DEF AppendInv, Locks
  <2> QED BY <1>1, <2>1 DEF Shape, Waiting, Finishing, Inside
<1> QED BY <1>3, <1>4

\* truncate and write_back, with nobody else in the file: no write that is
\* under way has left a trace.
LEMMA IdAlone ==
  ASSUME IInv, IdInv, \A u \in Threads : ~Inside(th[u]) /\ ~Inside(th'[u]),
         \A u \in Threads : UnderWay(th'[u]) => UnderWay(th[u]) /\ th'[u].id = th[u].id,
         ops' = ops, \A b \in Blocks : hist'[b] \in {hist[b], <<>>},
         \A e \in Entries : cache'.ent[e].page = cache.ent[e].page,
         \A i \in 1 .. Len(ssd') : \/ \E j \in 1 .. Len(ssd) : ssd'[i] = ssd[j]
                                   \/ \E e \in Entries : ssd'[i] = cache.ent[e].page
  PROVE  IdInv'
<1>1. ASSUME NEW w, Traced(w, {}) PROVE Traced(w, {})'
  <2>1. \A b \in Blocks : ~Contains(hist'[b], w)
    <3>1. ~Contains(<<>>, w)
      BY DEF Contains
    <3> QED BY <1>1, <3>1 DEF Traced
  <2>2. \A e \in Entries : cache.ent[e].page # w
    BY <1>1 DEF Traced
  <2>3. \A i \in 1 .. Len(ssd') : ssd'[i] # w
    BY <1>1, <2>2 DEF Traced
  <2>4. \A u \in Threads : ~Reading(th'[u])
    BY DEF Reading
  <2> QED BY <2>1, <2>2, <2>3, <2>4 DEF Traced
<1>2. Unused' = Unused
  BY DEF Unused
<1>3. \A w \in Unused' : Traced(w, {})'
  BY <1>1, <1>2 DEF IdInv
<1>4. \A b \in Blocks : Distinct(hist'[b])
  <2>1. Distinct(<<>>)
    BY DEF Distinct
  <2> QED BY <2>1 DEF IdInv
<1>5. ASSUME NEW u \in Threads, UnderWay(th'[u])
      PROVE  /\ th'[u].id \in Ids \ Unused' /\ th'[u].id # 0
             /\ Traced(th[u].id, Done(th[u]))'
  <2>1. PICK w : w = th[u].id
    OBVIOUS
  <2>2. w \in Ids \ Unused /\ w # 0 /\ Traced(w, Done(th[u]))
    BY <1>5, <2>1 DEF IdInv
  <2>3. Done(th[u]) = {} /\ Done(th'[u]) = {}
    BY DEF Done
  <2>4. Traced(w, {})'
    BY <1>1, <2>2, <2>3
  <2>5. Traced(th[u].id, Done(th[u]))'
    BY <1>5, <2>1, <2>3, <2>4 DEF Traced
  <2> QED BY <1>2, <1>5, <2>1, <2>2, <2>5
<1>6. \A u, v \in Threads : UnderWay(th'[u]) /\ UnderWay(th'[v]) /\ th'[u].id = th'[v].id => u = v
  BY DEF IdInv
<1>7. ops' <= MaxOps
  BY DEF IdInv
<1> QED BY <1>3, <1>4, <1>5, <1>6, <1>7 DEF IdInv

\* A page is copied out: what the reader gets was there.
LEMMA IdRead ==
  ASSUME IInv, IdInv, NEW t \in Threads, CopyPage(t), th[t].op = "read"
  PROVE  IdInv'
<1>1. PICK e, b, r : e = th[t].page /\ b = th[t].next /\ r = prepare_page_content(cache, e)
  OBVIOUS
<1>2. /\ e \in Entries /\ b \in Blocks /\ cache.ent[e].live /\ cache.ent[e].blkoff = b
      /\ \A y \in Entries : /\ cache'.ent[y].live <=> cache.ent[y].live
                            /\ cache'.ent[y].blkoff = cache.ent[y].blkoff
                            /\ y # e => SameContent(cache.ent[y], cache'.ent[y])
      /\ ssd' = ssd /\ cache' = r /\ cache'.dirty_pages = cache.dirty_pages /\ hist' = hist
  BY <1>1, CopyEffect
<1>3. /\ \A u \in Threads : u # t => th'[u] = th[u]
      /\ Inside(th[t]) /\ Inside(th'[t]) /\ th'[t].op = th[t].op /\ th'[t].start = th[t].start
      /\ th'[t].got = Append(th[t].got, r.ent[e].page)
  <2>1. /\ \A u \in Threads : u # t => th'[u] = th[u]
        /\ Inside(th[t]) /\ Inside(th'[t]) /\ th'[t].op = th[t].op /\ th'[t].start = th[t].start
    BY <1>1, StepCopy
  <2>2. th[t].op = "read" => th'[t].got = Append(th[t].got, r.ent[e].page)
    BY <1>1, StepCopy
  <2> QED BY <2>1, <2>2
<1>4. r.ent[e].page = cache.ent[e].page \/ \E i \in 1 .. Len(ssd) : r.ent[e].page = ssd[i]
  BY <1>1, <1>2, PrepareOK
<1>5. PICK s \in Seq(Int), v \in Int : s = th[t].got /\ v = r.ent[e].page
  <2>1. th[t].got \in Seq(Int)
    BY DEF IInv, TypeInv, ThreadRec
  <2>2. ssd \in Seq(Int) /\ cache.ent[e] \in PageEntry
    BY <1>2 DEF IInv, TypeInv, DataInv, PageInv, CacheOK, PageCaches
  <2>3. r.ent[e].page \in Int
    BY <1>4, <2>2 DEF PageEntry
  <2> QED BY <2>1, <2>3
<1>6. PICK q : q = Append(s, v)
  OBVIOUS
<1>7. /\ th'[t].got = q /\ Len(s) \in Nat /\ Len(q) = Len(s) + 1 /\ q[Len(s) + 1] = v
      /\ \A i \in 1 .. Len(s) : q[i] = s[i]
  BY <1>3, <1>5, <1>6, Appended
<1>8. th[t].start + (Len(s) + 1) - 1 = b /\ th[t].start \in Nat
  <2>1. th[t].start + Len(th[t].got) = th[t].next /\ th[t].start \in Nat
    BY <1>3 DEF IInv, Owner, TypeInv, ThreadRec
  <2> QED BY <1>1, <1>5, <1>7, <2>1
<1>9. ASSUME NEW w, NEW B, Traced(w, B) PROVE Traced(w, B)'
  <2>1. v = w => e \in cache.dirty_pages /\ b \in B
    BY <1>2, <1>4, <1>5, <1>9 DEF Traced
  <2>2. ASSUME NEW y \in Entries, cache'.ent[y].page = w
        PROVE  y \in cache'.dirty_pages /\ cache'.ent[y].blkoff \in B
    <3>1. CASE y = e
      BY <1>2, <1>5, <2>1, <2>2, <3>1
    <3>2. CASE y # e
      <4>1. cache.ent[y].page = w
        BY <1>2, <2>2, <3>2 DEF SameContent
      <4> QED BY <1>2, <1>9, <4>1 DEF Traced
    <3> QED BY <3>1, <3>2
  <2>3. ASSUME NEW u \in Threads, Reading(th'[u]), NEW i \in 1 .. Len(th'[u].got), th'[u].got[i] = w
        PROVE  th'[u].start + i - 1 \in B
    <3>1. CASE u = t
      <4>1. i \in 1 .. Len(s) \/ i = Len(s) + 1
        BY <1>7, <2>3, <3>1
      <4>2. CASE i \in 1 .. Len(s)
        <5>1. th[t].got[i] = w /\ Reading(th[t])
          BY <1>3, <1>5, <1>7, <2>3, <3>1, <4>2 DEF Reading
        <5> QED BY <1>3, <1>5, <1>9, <3>1, <4>2, <5>1 DEF Traced
      <4>3. CASE i = Len(s) + 1
        BY <1>3, <1>7, <1>8, <2>1, <2>3, <3>1, <4>3
      <4> QED BY <4>1, <4>2, <4>3
    <3>2. CASE u # t
      BY <1>3, <1>9, <2>3, <3>2 DEF Traced
    <3> QED BY <3>1, <3>2
  <2> QED BY <1>2, <1>9, <2>2, <2>3 DEF Traced
<1>10. ops' = ops
  BY Zenon DEF CopyPage
<1>11. Unused' = Unused
  BY <1>10 DEF Unused
<1>12. \A w \in Unused' : Traced(w, {})'
  BY <1>9, <1>11 DEF IdInv
<1>13. \A u \in Threads : UnderWay(th'[u]) => u # t /\ UnderWay(th[u]) /\ th'[u] = th[u]
  BY <1>3 DEF UnderWay
<1>14. ASSUME NEW u \in Threads, UnderWay(th'[u])
       PROVE  /\ th'[u].id \in Ids \ Unused' /\ th'[u].id # 0
              /\ Traced(th[u].id, Done(th[u]))'
  <2>1. PICK w, B : w = th[u].id /\ B = Done(th[u])
    OBVIOUS
  <2>2. w \in Ids \ Unused /\ w # 0 /\ Traced(w, B)
    BY <1>13, <1>14, <2>1 DEF IdInv
  <2>3. Traced(w, B)'
    BY <1>9, <2>2
  <2>4. Traced(th[u].id, Done(th[u]))'
    BY <1>13, <1>14, <2>1, <2>3 DEF Traced
  <2> QED BY <1>11, <1>13, <1>14, <2>1, <2>2, <2>4
<1>15. \A u, z \in Threads : UnderWay(th'[u]) /\ UnderWay(th'[z]) /\ th'[u].id = th'[z].id => u = z
  BY <1>13 DEF IdInv
<1> QED BY <1>2, <1>10, <1>12, <1>14, <1>15 DEF IdInv

LEMMA DoneGrows ==
  ASSUME NEW a \in Nat, NEW n \in Nat, a <= n, NEW d \in Int
  PROVE  a <= d /\ d < n + 1 <=> (a <= d /\ d < n) \/ d = n
OBVIOUS

\* A copied block is one more that the thread has passed.
LEMMA CopyDone ==
  ASSUME IInv, LockInv, NEW t \in Threads, CopyPage(t), NEW b, b = th[t].next
  PROVE  /\ Done(th'[t]) = Done(th[t]) \cup {b} /\ b \notin Done(th[t])
         /\ th[t].start <= b /\ b < th[t].end
<1>1. PICK e, r : e = th[t].page /\ r = prepare_page_content(cache, e)
  OBVIOUS
<1>2. b \in Blocks
  BY <1>1, CopyEffect
<1>3. Inside(th[t]) /\ Inside(th'[t]) /\ th'[t].start = th[t].start /\ th'[t].next = b + 1
  BY <1>1, StepCopy
<1>4. /\ th[t].start \in Nat /\ th[t].next \in Nat /\ th[t].start <= th[t].next
      /\ th[t].next < th[t].end
  <2>1. th[t].start \in Nat /\ th[t].next \in Nat
    BY DEF IInv, TypeInv, ThreadRec
  <2>2. th[t].start <= th[t].next
    BY <1>3 DEF LockInv, Coupled
  <2>3. th[t].pc = "copy" /\ Shape(th[t])
    BY Zenon DEF IInv, CopyPage
  <2>4. th[t].next < th[t].end
    BY <2>3 DEF Shape
  <2> QED BY <2>1, <2>2, <2>4
<1>5. PICK a \in Nat, n \in Nat : a = th[t].start /\ n = th[t].next /\ a <= n
  BY <1>4, Zenon
<1>6. Blocks \subseteq Int /\ n = b /\ ~(n < n)
  BY <1>5 DEF Blocks
<1>7. \A d \in Blocks : a <= d /\ d < n + 1 <=> (a <= d /\ d < n) \/ d = n
  BY <1>5, <1>6, DoneGrows
<1>8. Done(th[t]) = {d \in Blocks : a <= d /\ d < n}
  BY <1>3, <1>5 DEF Done
<1>9. Done(th'[t]) = {d \in Blocks : a <= d /\ d < n + 1}
  BY <1>3, <1>5, <1>6 DEF Done
<1>10. \A d \in Blocks : d \in Done(th'[t]) <=> d \in Done(th[t]) \/ d = b
  BY <1>6, <1>7, <1>8, <1>9
<1>11. Done(th'[t]) \subseteq Blocks /\ Done(th[t]) \subseteq Blocks
  BY DEF Done
<1>12. b \notin Done(th[t])
  BY <1>6, <1>8
<1> QED BY <1>2, <1>4, <1>10, <1>11, <1>12

\* A page is written: its block is one more that the write has passed.
LEMMA IdWrite ==
  ASSUME IInv, LockInv, IdInv, NEW t \in Threads, CopyPage(t), th[t].op = "write"
  PROVE  IdInv'
<1>1. PICK e, b, r : e = th[t].page /\ b = th[t].next /\ r = prepare_page_content(cache, e)
  OBVIOUS
<1>2. /\ e \in Entries /\ b \in Blocks /\ cache.ent[e].blkoff = b
      /\ \A y \in Entries : /\ cache'.ent[y].blkoff = cache.ent[y].blkoff
                            /\ y # e => SameContent(cache.ent[y], cache'.ent[y])
      /\ ssd' = ssd /\ cache'.dirty_pages = cache.dirty_pages \cup {e}
      /\ cache'.ent[e].page = th[t].id
      /\ hist'[b] = Append(hist[b], th[t].id) /\ \A x \in Blocks : x # b => hist'[x] = hist[x]
  BY <1>1, CopyEffect
<1>3. /\ \A u \in Threads : u # t => th'[u] = th[u]
      /\ Inside(th[t]) /\ Inside(th'[t]) /\ th'[t].op = th[t].op /\ th'[t].start = th[t].start
      /\ th'[t].next = b + 1 /\ th'[t].id = th[t].id
  BY <1>1, StepCopy
<1>4. PICK v \in Int, s \in Seq(Int) : v = th[t].id /\ s = hist[b]
  BY <1>2 DEF IInv, TypeInv, DataInv, ThreadRec
<1>5. UnderWay(th[t]) /\ UnderWay(th'[t])
  BY <1>3 DEF UnderWay
<1>6. v \in Ids \ Unused /\ v # 0 /\ Traced(v, Done(th[t]))
  BY <1>4, <1>5 DEF IdInv
<1>7. Done(th'[t]) = Done(th[t]) \cup {b} /\ b \notin Done(th[t])
  BY <1>1, CopyDone
<1>8. ~Contains(s, v)
  BY <1>2, <1>4, <1>6, <1>7 DEF Traced
<1>9. PICK q : q = Append(s, v)
  OBVIOUS
<1>10. /\ hist'[b] = q /\ \A x : Contains(q, x) <=> Contains(s, x) \/ x = v
       /\ Distinct(s) /\ ~Contains(s, v) => Distinct(q)
  <2>1. hist'[b] = q
    BY <1>2, <1>4, <1>9
  <2>2. (\A x : Contains(q, x) <=> Contains(s, x) \/ x = v) /\ (Distinct(s) /\ ~Contains(s, v) => Distinct(q))
    BY <1>9, Appended
  <2> QED BY <2>1, <2>2
<1>11. \A u \in Threads : Reading(th'[u]) => u # t /\ th'[u] = th[u] /\ Reading(th[u])
  BY <1>3 DEF Reading
<1>12. ASSUME NEW w, w # v, NEW B, Traced(w, B) PROVE Traced(w, B)'
  <2>1. ASSUME NEW d \in Blocks PROVE Contains(hist'[d], w) <=> d \in B
    <3>1. Contains(hist'[d], w) <=> Contains(hist[d], w)
      BY <1>2, <1>4, <1>10, <1>12
    <3> QED BY <1>12, <3>1 DEF Traced
  <2>2. ASSUME NEW y \in Entries, cache'.ent[y].page = w
        PROVE  y \in cache'.dirty_pages /\ cache'.ent[y].blkoff \in B
    <3>1. y # e
      BY <1>2, <1>4, <1>12, <2>2
    <3>2. cache.ent[y].page = w
      BY <1>2, <2>2, <3>1 DEF SameContent
    <3> QED BY <1>2, <1>12, <3>2 DEF Traced
  <2>3. \A u \in Threads : Reading(th'[u]) =>
          \A i \in 1 .. Len(th'[u].got) : th'[u].got[i] = w => th'[u].start + i - 1 \in B
    BY <1>11, <1>12 DEF Traced
  <2> QED BY <1>2, <1>12, <2>1, <2>2, <2>3 DEF Traced
<1>13. Traced(v, Done(th[t]))'
  <2>1. PICK B : B = Done(th[t])
    OBVIOUS
  <2>2. Traced(v, B)
    BY <1>6, <2>1
  <2>3. ASSUME NEW d \in Blocks PROVE Contains(hist'[d], v) <=> d \in B \cup {b}
    <3>1. CASE d = b
      BY <1>10, <3>1
    <3>2. CASE d # b
      BY <1>2, <2>2, <3>2 DEF Traced
    <3> QED BY <3>1, <3>2
  <2>4. ASSUME NEW y \in Entries, cache'.ent[y].page = v
        PROVE  y \in cache'.dirty_pages /\ cache'.ent[y].blkoff \in B \cup {b}
    <3>1. CASE y = e
      BY <1>2, <3>1
    <3>2. CASE y # e
      <4>1. cache.ent[y].page = v
        BY <1>2, <2>4, <3>2 DEF SameContent
      <4> QED BY <1>2, <2>2, <4>1 DEF Traced
    <3> QED BY <3>1, <3>2
  <2>5. \A u \in Threads : Reading(th'[u]) =>
          \A i \in 1 .. Len(th'[u].got) : th'[u].got[i] = v => th'[u].start + i - 1 \in B \cup {b}
    BY <1>11, <2>2 DEF Traced
  <2>6. \A i \in 1 .. Len(ssd') : ssd'[i] # v
    BY <1>2, <2>2 DEF Traced
  <2>7. PICK C : C = B \cup {b} /\ C = Done(th'[t])
    BY <1>7, <2>1
  <2>8. Traced(v, C)'
    BY <2>3, <2>4, <2>5, <2>6, <2>7 DEF Traced
  <2> QED BY <2>7, <2>8
<1>14. ops' = ops
  BY Zenon DEF CopyPage
<1>15. Unused' = Unused
  BY <1>14 DEF Unused
<1>16. \A w \in Unused' : Traced(w, {})'
  BY <1>6, <1>12, <1>15 DEF IdInv
<1>17. \A d \in Blocks : Distinct(hist'[d])
  BY <1>2, <1>4, <1>8, <1>10 DEF IdInv
<1>18. \A u \in Threads : UnderWay(th'[u]) => UnderWay(th[u]) /\ th'[u].id = th[u].id
  BY <1>3, <1>5
<1>19. ASSUME NEW u \in Threads, UnderWay(th'[u])
       PROVE  /\ th'[u].id \in Ids \ Unused' /\ th'[u].id # 0
              /\ Traced(th[u].id, Done(th[u]))'
  <2>1. UnderWay(th[u]) /\ th'[u].id = th[u].id
    BY <1>18, <1>19
  <2>2. CASE u = t
    <3>1. Traced(th[u].id, Done(th[u]))'
      BY <1>4, <1>13, <2>1, <2>2 DEF Traced
    <3> QED BY <1>4, <1>6, <1>15, <2>1, <2>2, <3>1
  <2>3. CASE u # t
    <3>1. PICK w, B : w = th[u].id /\ B = Done(th[u])
      OBVIOUS
    <3>2. w \in Ids \ Unused /\ w # 0 /\ Traced(w, B) /\ w # v
      BY <1>4, <1>5, <2>1, <2>3, <3>1 DEF IdInv
    <3>3. Traced(w, B)'
      BY <1>12, <3>2
    <3>4. Traced(th[u].id, Done(th[u]))'
      BY <1>3, <2>3, <3>1, <3>3 DEF Traced
    <3> QED BY <1>15, <2>1, <3>1, <3>2, <3>4
  <2> QED BY <2>2, <2>3
<1>20. \A u, z \in Threads : UnderWay(th'[u]) /\ UnderWay(th'[z]) /\ th'[u].id = th'[z].id => u = z
  BY <1>18 DEF IdInv
<1> QED BY <1>14, <1>16, <1>17, <1>19, <1>20 DEF IdInv

\* A call takes the next number.
LEMMA NewIds ==
  ASSUME IInv, NEW t \in Threads, NewCall(t)
  PROVE  /\ ops' = ops + 1 /\ ops < MaxOps
         /\ UnderWay(th'[t]) => th'[t].id \in {ops + 1, - (ops + 1)}
<1>1. th \in [Threads -> ThreadRec]
  BY DEF IInv, TypeInv
<1>2. ASSUME NEW op \in {"read", "write"}, NEW f \in Fds, NEW n \in 1 .. MaxCount, Call(t, op, f, n)
      PROVE  ops' = ops + 1 /\ ops < MaxOps /\ th'[t].id \in {ops + 1, - (ops + 1)}
  <2>1. PICK w : w = WriteId(f) /\ w \in {ops + 1, - (ops + 1)}
    BY DEF WriteId
  <2>2. PICK r : r = [Idle EXCEPT !.pc = "lock", !.op = op, !.fd = f, !.id = w, !.end = n]
    OBVIOUS
  <2>3. r.id = w
    BY <2>2 DEF Idle
  <2>4. th' = [th EXCEPT ![t] = r]
    BY <1>2, <2>1, <2>2 DEF Call
  <2>5. th'[t].id = w
    BY <1>1, <2>3, <2>4
  <2>6. ops' = ops + 1 /\ ops < MaxOps
    BY <1>2 DEF Call
  <2> QED BY <2>1, <2>5, <2>6
<1>3. ASSUME NEW f \in Fds, NEW o, NEW whence, set_rw_pos(t, f, o, whence)
      PROVE  ops' = ops + 1 /\ ops < MaxOps /\ ~UnderWay(th'[t])
  <2>1. th'[t].pc = "idle"
    BY <1>3 DEF set_rw_pos
  <2>2. ops' = ops + 1 /\ ops < MaxOps
    BY <1>3 DEF set_rw_pos
  <2> QED BY <2>1, <2>2 DEF UnderWay, Inside
<1>4. ASSUME NEW op \in {"truncate", "fsync"}, NEW n, CallExclusive(t, op, n)
      PROVE  ops' = ops + 1 /\ ops < MaxOps /\ ~UnderWay(th'[t])
  <2>1. PICK r : r = [Idle EXCEPT !.pc = op, !.op = op, !.hold = "wr", !.end = n, !.then = "return"]
    OBVIOUS
  <2>2. r.op = op
    BY <2>1 DEF Idle
  <2>3. th' = [th EXCEPT ![t] = r]
    BY <1>4, <2>1 DEF CallExclusive
  <2>4. th'[t].op = op
    BY <1>1, <2>2, <2>3
  <2>5. ops' = ops + 1 /\ ops < MaxOps
    BY <1>4 DEF CallExclusive
  <2> QED BY <2>4, <2>5 DEF UnderWay
<1> QED BY <1>2, <1>3, <1>4 DEF NewCall

LEMMA IdSteps ==
  ASSUME IInv, IInv', AppendInv, AppendInv', LockInv, IdInv, failed = "none",
         NEW t \in Threads, NewCall(t) \/ Step(t)
  PROVE  IdInv'
<1>1. CASE CopyPage(t)
  <2>1. th[t].op \in {"read", "write"}
    BY <1>1, CopyEffect
  <2> QED BY <1>1, <2>1, IdRead, IdWrite
<1>2. ASSUME ~NewCall(t) PROVE ops' = ops
  BY <1>2, Zenon DEF Step, ReadBegin, AppendBegin, WriteBegin, GetPage, CopyPage,
         DropHandle, Unpin, LastPage, UnlockFile, MarkDirty, AddToDirtyFiles, Advance, Truncate,
         ClearDirty, RemoveFromDirtyFiles, WriteBack, Return
<1>3. CASE ReadBegin(t) \/ AppendBegin(t) \/ WriteBegin(t)
  <2>1. /\ \A u \in Threads : u # t => th'[u] = th[u]
        /\ th[t].pc = "lock" /\ Inside(th'[t]) /\ th'[t].op = th[t].op /\ th'[t].id = th[t].id
        /\ th'[t].start = th'[t].next /\ th'[t].got = <<>>
    BY <1>3, StepBegin
  <2>2. Retains(cache, cache') /\ hist' = hist /\ ssd' = ssd
    BY <1>3, OtherRetains
  <2>3. ops' = ops
    BY <1>3, Zenon DEF ReadBegin, AppendBegin, WriteBegin
  <2>4. Done(th[t]) = {} /\ Done(th'[t]) = {}
    <3>1. ~Inside(th[t])
      BY <2>1 DEF Inside
    <3>2. th'[t].start \in Nat /\ Blocks \subseteq Int
      BY DEF IInv, TypeInv, ThreadRec, Blocks
    <3>3. PICK n \in Nat : n = th'[t].start /\ n = th'[t].next
      BY <2>1, <3>2
    <3>4. \A b \in Int : ~(n <= b /\ b < n)
      BY <3>3
    <3> QED BY <3>1, <3>2, <3>3, <3>4 DEF Done
  <2>5. \A u \in Threads : Reading(th'[u]) =>
            \/ th'[u].got = <<>>
            \/ Reading(th[u]) /\ th'[u].got = th[u].got /\ th'[u].start = th[u].start
    BY <2>1
  <2>6. UnderWay(th'[t]) => UnderWay(th[t])
    BY <2>1 DEF UnderWay
  <2>7. \A u \in Threads : UnderWay(th'[u]) =>
            UnderWay(th[u]) /\ th'[u].id = th[u].id /\ Done(th'[u]) = Done(th[u])
    BY <2>1, <2>4, <2>6
  <2> QED BY <2>2, <2>3, <2>5, <2>7, IdKept
<1>4. CASE GetPage(t) \/ DropHandle(t) \/ Unpin(t) \/ LastPage(t)
  <2>1. /\ \A u \in Threads : u # t => th'[u] = th[u]
        /\ Inside(th[t]) /\ Inside(th'[t]) /\ SameRange(th[t], th'[t])
    BY <1>4, StepWithin
  <2>2. Retains(cache, cache') /\ hist' = hist /\ ssd' = ssd
    BY <1>4, OtherRetains
  <2>3. ops' = ops
    BY <1>4, Zenon DEF GetPage, DropHandle, Unpin, LastPage
  <2>4. \A u \in Threads : Reading(th'[u]) =>
            Reading(th[u]) /\ th'[u].got = th[u].got /\ th'[u].start = th[u].start
    BY <2>1 DEF Reading, SameRange
  <2>5. \A u \in Threads : UnderWay(th'[u]) =>
            UnderWay(th[u]) /\ th'[u].id = th[u].id /\ Done(th'[u]) = Done(th[u])
    BY <2>1 DEF UnderWay, SameRange, Done
  <2> QED BY <2>2, <2>3, <2>4, <2>5, IdKept
<1>5. CASE \/ NewCall(t) \/ UnlockFile(t) \/ MarkDirty(t) \/ AddToDirtyFiles(t) \/ Advance(t)
           \/ ClearDirty(t) \/ RemoveFromDirtyFiles(t) \/ Return(t)
  <2>1. /\ \A u \in Threads : u # t => th'[u] = th[u]
        /\ ~Inside(th'[t])
        /\ ~NewCall(t) => th'[t].pc # "lock"
    BY <1>5, StepOutside
  <2>2. Retains(cache, cache') /\ hist' = hist /\ ssd' = ssd
    BY <1>5, OtherRetains
  <2>3. \A u \in Threads : Reading(th'[u]) =>
            Reading(th[u]) /\ th'[u].got = th[u].got /\ th'[u].start = th[u].start
    BY <2>1 DEF Reading
  <2>4. CASE NewCall(t)
    <3>1. /\ ops' = ops + 1 /\ ops < MaxOps
          /\ UnderWay(th'[t]) => th'[t].id \in {ops + 1, - (ops + 1)}
      BY <2>4, NewIds
    <3>2. Done(th'[t]) = {}
      BY <2>1 DEF Done
    <3>3. \A u \in Threads : UnderWay(th'[u]) =>
            \/ UnderWay(th[u]) /\ th'[u].id = th[u].id /\ Done(th'[u]) = Done(th[u])
            \/ /\ u = t /\ ops' = ops + 1 /\ th'[u].id \in {ops + 1, - (ops + 1)}
               /\ Done(th'[u]) = {}
      BY <2>1, <3>1, <3>2
    <3> QED BY <2>2, <2>3, <3>1, <3>3, IdKept
  <2>5. CASE ~NewCall(t)
    <3>1. ~UnderWay(th'[t])
      BY <2>1, <2>5 DEF UnderWay
    <3>2. \A u \in Threads : UnderWay(th'[u]) =>
            UnderWay(th[u]) /\ th'[u].id = th[u].id /\ Done(th'[u]) = Done(th[u])
      BY <2>1, <3>1
    <3>3. ops' = ops
      BY <1>2, <2>5
    <3> QED BY <2>2, <2>3, <3>2, <3>3, IdKept
  <2> QED BY <2>4, <2>5
<1>6. CASE Truncate(t) \/ WriteBack(t)
  <2>1. /\ \A u \in Threads : u # t => th'[u] = th[u]
        /\ ~Inside(th'[t])
        /\ ~NewCall(t) => th'[t].pc # "lock"
    BY <1>6, StepOutside
  <2>2. Exclusive(th[t]) /\ th[t].pc # "idle"
    BY <1>6 DEF Truncate, WriteBack, Exclusive
  <2>3. ~NewCall(t)
    BY <2>2, Zenon DEF NewCall, Call, set_rw_pos, CallExclusive
  <2>4. \A u \in Threads : ~Inside(th[u])
    BY <2>2, Alone
  <2>5. \A u \in Threads : ~Inside(th'[u])
    BY <2>1, <2>4
  <2>6. \A u \in Threads : UnderWay(th'[u]) => UnderWay(th[u]) /\ th'[u].id = th[u].id
    BY <2>1, <2>3 DEF UnderWay
  <2>7. ops' = ops
    BY <1>2, <2>3
  <2>8. CASE Truncate(t)
    <3>1. ssd' = ssd
      BY <2>8, Zenon DEF Truncate, fileVars
    <3>2. \A b \in Blocks : hist'[b] \in {hist[b], <<>>}
      BY <2>8 DEF Truncate
    <3>3. \A e \in Entries : cache'.ent[e].page = cache.ent[e].page
      <4>1. cache' = cache \/ \E n : cache' \in truncate(cache, n)
        BY <2>8 DEF Truncate
      <4>2. CacheOK(cache, HeldBy)
        BY DEF IInv, PageInv
      <4>3. ASSUME NEW n, cache' \in truncate(cache, n)
            PROVE  \A e \in Entries : cache'.ent[e].page = cache.ent[e].page
        BY <4>2, <4>3, TruncateOK
      <4> QED BY <4>1, <4>3
    <3>4. \A i \in 1 .. Len(ssd') : \E j \in 1 .. Len(ssd) : ssd'[i] = ssd[j]
      BY <3>1
    <3> QED BY <2>4, <2>5, <2>6, <2>7, <3>2, <3>3, <3>4, IdAlone
  <2>9. CASE WriteBack(t)
    <3>1. hist' = hist
      BY <2>9, Zenon DEF WriteBack
    <3>2. /\ \A e \in Entries : cache'.ent[e].page = cache.ent[e].page
          /\ \A e \in cache.dirty_pages : ssd'[NewLpa(e)] = cache.ent[e].page
          /\ \A a \in 1 .. Len(ssd) : ssd'[a] = ssd[a]
          /\ Len(ssd') = Len(ssd) + Cardinality(cache.dirty_pages)
      BY <2>9, WrittenBack
    <3>3. PICK n \in Nat, k \in Nat :
             /\ n = Len(ssd) /\ k = Cardinality(cache.dirty_pages)
             /\ \A i \in 1 .. k : \E e \in cache.dirty_pages : NewLpa(e) = n + i
      <4>1. Len(ssd) \in Nat
        BY DEF IInv, TypeInv, DataInv
      <4> QED BY <4>1, NewAddresses
    <3>4. cache.dirty_pages \subseteq Entries
      BY DEF IInv, PageInv, CacheOK, PageCaches
    <3>5. ASSUME NEW i \in 1 .. Len(ssd')
          PROVE  \/ \E j \in 1 .. Len(ssd) : ssd'[i] = ssd[j]
                 \/ \E e \in Entries : ssd'[i] = cache.ent[e].page
      <4>1. i \in 1 .. n + k
        BY <3>2, <3>3, <3>5
      <4>2. CASE i \in 1 .. n
        BY <3>2, <3>3, <4>2
      <4>3. CASE i \notin 1 .. n
        <5>1. PICK m \in 1 .. k : i = n + m
          <6>1. i - n \in 1 .. k /\ i = n + (i - n)
            BY <4>1, <4>3
          <6> QED BY <6>1
        <5>2. PICK e \in cache.dirty_pages : NewLpa(e) = i
          BY <3>3, <5>1
        <5> QED BY <3>2, <3>4, <5>2
      <4> QED BY <4>2, <4>3
    <3> QED BY <2>4, <2>5, <2>6, <2>7, <3>1, <3>2, <3>5, IdAlone
  <2> QED BY <1>6, <2>8, <2>9
<1> QED BY <1>1, <1>3, <1>4, <1>5, <1>6 DEF Step

-----------------------------------------------------------------------------
(* A read among writes.  A read has passed some blocks and has others to   *)
(* come.  For each write, either the read has seen it nowhere and it has   *)
(* not reached the blocks to come (the read is before it), or the read has *)
(* seen it in every block passed that it covers (the read is after it).    *)
(* The page locks keep one of the two: a thread that is in the middle of   *)
(* its range holds the page before the next one.                           *)

Rank(s, v) == IF Contains(s, v) THEN CHOOSE i \in DOMAIN s : s[i] = v ELSE 0
Saw(s, w, g) == Contains(s, w) /\ Rank(s, w) <= Rank(s, g)
Got(r, b) == r.got[b - r.start + 1]
ToCome(r) == {b \in Blocks : r.next <= b /\ b < r.end}
Going(r, w, b) == Writing(r) /\ r.id = w /\ r.start <= b /\ b < r.end
Covered(w, b) == Contains(hist[b], w) \/ \E u \in Threads : Going(th[u], w, b)
Before(r, w) ==
    /\ \A b \in Done(r) : ~Saw(hist[b], w, Got(r, b))
    /\ \A b \in ToCome(r) : ~Contains(hist[b], w)
After(r, w) == \A b \in Done(r) : Covered(w, b) => Saw(hist[b], w, Got(r, b))
TearInv == \A t \in Threads : Reading(th[t]) => \A w \in Ids : Before(th[t], w) \/ After(th[t], w)

\* The rank of a write is its place among the writes to a block.
LEMMA RankIs ==
  ASSUME NEW s \in Seq(Int), Distinct(s)
  PROVE  /\ \A i \in 1 .. Len(s) : Rank(s, s[i]) = i
         /\ \A v : Contains(s, v) => Rank(s, v) \in 1 .. Len(s) /\ s[Rank(s, v)] = v
         /\ \A v : ~Contains(s, v) => Rank(s, v) = 0
<1>1. DOMAIN s = 1 .. Len(s)
  OBVIOUS
<1>2. ASSUME NEW v, Contains(s, v) PROVE Rank(s, v) \in 1 .. Len(s) /\ s[Rank(s, v)] = v
  <2>1. \E i \in DOMAIN s : s[i] = v
    BY <1>1, <1>2 DEF Contains
  <2>2. Rank(s, v) = CHOOSE i \in DOMAIN s : s[i] = v
    BY <1>2 DEF Rank
  <2> QED BY <1>1, <2>1, <2>2
<1>3. ASSUME NEW i \in 1 .. Len(s) PROVE Rank(s, s[i]) = i
  <2>1. Contains(s, s[i])
    BY DEF Contains
  <2> QED BY <1>2, <2>1 DEF Distinct
<1>4. \A v : ~Contains(s, v) => Rank(s, v) = 0
  BY DEF Rank
<1> QED BY <1>2, <1>3, <1>4

\* Whoever has the last write has seen all.
LEMMA SawLast ==
  ASSUME NEW s \in Seq(Int), Distinct(s), NEW w, Contains(s, w)
  PROVE  s # <<>> /\ Saw(s, w, Last(s))
<1>1. Rank(s, w) \in 1 .. Len(s) /\ Len(s) \in Nat
  BY RankIs
<1>2. Len(s) \in 1 .. Len(s) /\ s # <<>>
  BY <1>1
<1>3. Last(s) = s[Len(s)]
  BY DEF Last
<1>4. Rank(s, s[Len(s)]) = Len(s)
  BY <1>2, RankIs
<1>5. Rank(s, Last(s)) = Len(s)
  BY <1>3, <1>4
<1> QED BY <1>1, <1>2, <1>5 DEF Saw

\* One more write changes what was seen of no other, and is not seen by who
\* has something else.
LEMMA SawMore ==
  ASSUME NEW s \in Seq(Int), Distinct(s), NEW v \in Int, ~Contains(s, v), NEW q, q = Append(s, v),
         NEW w, NEW g, g # v
  PROVE  /\ w # v => (Saw(q, w, g) <=> Saw(s, w, g))
         /\ ~Saw(q, v, g)
<1>1. /\ q \in Seq(Int) /\ Len(s) \in Nat /\ Len(q) = Len(s) + 1 /\ q[Len(s) + 1] = v
      /\ \A i \in 1 .. Len(s) : q[i] = s[i]
      /\ \A x : Contains(q, x) <=> Contains(s, x) \/ x = v
      /\ Distinct(q)
  <2>1. /\ q \in Seq(Int) /\ Len(s) \in Nat /\ Len(q) = Len(s) + 1 /\ q[Len(s) + 1] = v
        /\ \A i \in 1 .. Len(s) : q[i] = s[i]
    OBVIOUS
  <2>2. \A x : Contains(q, x) <=> Contains(s, x) \/ x = v
    BY Appended
  <2>3. Distinct(s) /\ ~Contains(s, v) => Distinct(q)
    BY Appended
  <2> QED BY <2>1, <2>2, <2>3
<1>2. ASSUME NEW x, x # v PROVE Rank(q, x) = Rank(s, x) /\ Rank(s, x) \in 0 .. Len(s)
  <2>1. CASE Contains(s, x)
    <3>1. PICK i \in 1 .. Len(s) : s[i] = x /\ i = Rank(s, x)
      BY <2>1, RankIs
    <3>2. i \in 1 .. Len(q) /\ q[i] = x
      BY <1>1, <3>1
    <3>3. Rank(q, q[i]) = i
      BY <1>1, <3>2, RankIs
    <3> QED BY <1>1, <3>1, <3>2, <3>3
  <2>2. CASE ~Contains(s, x)
    <3>1. ~Contains(q, x)
      BY <1>1, <1>2, <2>2
    <3> QED BY <1>1, <2>2, <3>1 DEF Rank
  <2> QED BY <2>1, <2>2
<1>3. Rank(q, v) = Len(s) + 1
  <2>1. Len(s) + 1 \in 1 .. Len(q)
    BY <1>1
  <2>2. Rank(q, q[Len(s) + 1]) = Len(s) + 1
    BY <1>1, <2>1, RankIs
  <2> QED BY <1>1, <2>2
<1>4. ASSUME w # v PROVE Saw(q, w, g) <=> Saw(s, w, g)
  <2>1. Rank(q, w) = Rank(s, w) /\ Rank(q, g) = Rank(s, g)
    BY <1>2, <1>4
  <2>2. Contains(q, w) <=> Contains(s, w)
    BY <1>1, <1>4
  <2> QED BY <2>1, <2>2 DEF Saw
<1>5. ~Saw(q, v, g)
  <2>1. Rank(q, g) \in 0 .. Len(s)
    BY <1>2
  <2>2. ~(Rank(q, v) <= Rank(q, g))
    BY <1>1, <1>3, <2>1
  <2> QED BY <2>2 DEF Saw
<1> QED BY <1>4, <1>5

\* Covers, in terms of the threads inside a write.
LEMMA CoversIs ==
  ASSUME IInv, NEW w, NEW b \in Blocks
  PROVE  Covers(w, b) <=> Covered(w, b)
<1>1. ASSUME NEW u \in Threads
      PROVE  /\ th[u].op = "write" /\ th[u].id = w /\ th[u].hold # "none"
             /\ b \in th[u].start .. th[u].end - 1
         <=> Going(th[u], w, b)
  <2>1. th[u].start \in Nat /\ th[u].end \in Nat /\ b \in Int
    BY DEF IInv, TypeInv, ThreadRec, Blocks
  <2>2. b \in th[u].start .. th[u].end - 1 <=> th[u].start <= b /\ b < th[u].end
    BY <2>1
  <2>3. Shape(th[u])
    BY DEF IInv
  <2>4. th[u].op = "write" /\ th[u].hold # "none" <=> Writing(th[u])
    BY <2>3 DEF Shape, Writing, Inside, Waiting, Finishing, Exclusive
  <2> QED BY <2>2, <2>4 DEF Going
<1> QED BY <1>1 DEF Covers, Covered

\* Where nothing is written: a read goes on as it was or begins, a write goes on
\* as it was or begins with a number that is nowhere.
LEMMA TearKept ==
  ASSUME TearInv, hist' = hist,
         \A t \in Threads : Reading(th'[t]) =>
            \/ Done(th'[t]) = {}
            \/ /\ Reading(th[t]) /\ Done(th'[t]) = Done(th[t]) /\ ToCome(th'[t]) = ToCome(th[t])
               /\ th'[t].start = th[t].start /\ th'[t].got = th[t].got,
         \A u \in Threads : Writing(th'[u]) =>
            \/ /\ Writing(th[u]) /\ th'[u].id = th[u].id
               /\ th'[u].start = th[u].start /\ th'[u].end = th[u].end
            \/ \A b \in Blocks : ~Contains(hist[b], th'[u].id)
  PROVE  TearInv'
<1> SUFFICES ASSUME NEW t \in Threads, Reading(th'[t]), NEW w \in Ids
             PROVE  Before(th[t], w)' \/ After(th[t], w)'
  BY DEF TearInv, Ids
<1>1. CASE Done(th'[t]) = {}
  BY <1>1 DEF After
<1>2. CASE Done(th'[t]) # {}
  <2>1. /\ Reading(th[t]) /\ Done(th'[t]) = Done(th[t]) /\ ToCome(th'[t]) = ToCome(th[t])
        /\ th'[t].start = th[t].start /\ th'[t].got = th[t].got
    BY <1>2
  <2>2. \A b : Got(th'[t], b) = Got(th[t], b)
    BY <2>1 DEF Got
  <2>3. Done(th[t]) \subseteq Blocks /\ ToCome(th[t]) \subseteq Blocks
    BY DEF Done, ToCome
  <2>4. CASE \A b \in Blocks : ~Contains(hist[b], w)
    BY <2>1, <2>3, <2>4 DEF Before, Saw
  <2>5. CASE ~(\A b \in Blocks : ~Contains(hist[b], w))
    <3>1. \A u \in Threads, b \in Blocks : Going(th'[u], w, b) => Going(th[u], w, b)
      BY <2>5 DEF Going
    <3>2. \A b \in Blocks : Covered(w, b)' => Covered(w, b)
      BY <3>1 DEF Covered
    <3>3. CASE Before(th[t], w)
      BY <2>1, <2>2, <3>3 DEF Before
    <3>4. CASE After(th[t], w)
      BY <2>1, <2>2, <2>3, <3>2, <3>4 DEF After
    <3> QED BY <2>1, <3>3, <3>4 DEF TearInv
  <2> QED BY <2>4, <2>5
<1> QED BY <1>1, <1>2

\* Two threads are not about to copy the same block when both have passed a
\* block before it.
LEMMA NotBoth ==
  ASSUME IInv, LockInv, NEW t \in Threads, NEW u \in Threads, t # u, Inside(th[t]), Inside(th[u]),
         NEW d \in Blocks, th[t].start <= d, th[u].start <= d, d < th[t].next,
         th[t].next = th[u].next, th[t].next < th[t].end, th[u].next < th[u].end
  PROVE  FALSE
<1>1. /\ th[t].start \in Nat /\ th[t].next \in Nat /\ th[u].start \in Nat /\ th[u].next \in Nat
      /\ d \in Int
  BY DEF IInv, TypeInv, ThreadRec, Blocks
<1>2. th[t].start < th[t].next /\ th[u].start < th[u].next
  BY <1>1
<1> QED BY <1>2, Apart

\* The block before the one that a reader comes to, when a write it has met is
\* under way there.
LEMMA Between ==
  ASSUME NEW a \in Nat, NEW n \in Nat, NEW k \in Nat, NEW m \in Nat, NEW z \in Nat, NEW d \in Nat,
         a <= d, d < n, k <= d, d < m, m <= n, n < z
  PROVE  /\ n - 1 \in Nat /\ a <= n - 1 /\ n - 1 < n /\ k <= n - 1 /\ n - 1 < z
         /\ n - 1 < m => m = n
OBVIOUS

\* A read at a block which a write is going to reach: it has not met it.
LEMMA NotMet ==
  ASSUME IInv, LockInv, IdInv, NEW t \in Threads, CopyPage(t), th[t].op = "read", NEW w,
         NEW b, b = th[t].next, NEW u \in Threads, Going(th[u], w, b), ~Contains(hist[b], w),
         After(th[t], w)
  PROVE  /\ \A d \in Done(th[t]) : ~Contains(hist[d], w)
         /\ \A d \in Blocks : d > b => ~Contains(hist[d], w)
<1>1. /\ b \notin Done(th[t]) /\ th[t].start <= b /\ b < th[t].end
  BY CopyDone
<1>2. PICK e, r : e = th[t].page /\ r = prepare_page_content(cache, e)
  OBVIOUS
<1>3. b \in Blocks
  BY <1>2, CopyEffect
<1>4. Inside(th[t]) /\ u # t /\ Inside(th[u]) /\ UnderWay(th[u]) /\ th[u].id = w
  <2>1. Inside(th[t])
    BY <1>2, StepCopy
  <2>2. Inside(th[u]) /\ th[u].op = "write" /\ th[u].id = w
    BY DEF Going, Writing
  <2> QED BY <2>1, <2>2 DEF UnderWay
<1>5. \A d \in Blocks : Contains(hist[d], w) <=> d \in Done(th[u])
  BY <1>4 DEF IdInv, Traced
<1>6. PICK a \in Nat, n \in Nat, k \in Nat, m \in Nat, z \in Nat :
         a = th[t].start /\ n = b /\ k = th[u].start /\ m = th[u].next /\ z = th[u].end
  BY Zenon DEF IInv, TypeInv, ThreadRec
<1>7. /\ \A d \in Done(th[t]) : d \in Blocks /\ d \in Nat /\ a <= d /\ d < n
      /\ \A d \in Blocks : d \in Done(th[t]) <=> a <= d /\ d < n
      /\ \A d \in Blocks : d \in Nat /\ (d \in Done(th[u]) <=> k <= d /\ d < m)
  BY <1>4, <1>6 DEF Done, Blocks
<1>8. k <= n /\ n < z /\ m <= n
  <2>1. k <= n /\ n < z
    BY <1>6 DEF Going
  <2>2. n \notin Done(th[u]) /\ n \in Blocks
    BY <1>3, <1>5, <1>6
  <2>3. ~(n < m)
    BY <1>7, <2>1, <2>2
  <2> QED BY <1>6, <2>1, <2>3
<1>9. ASSUME NEW d \in Done(th[t]), Contains(hist[d], w) PROVE FALSE
  <2>1. d \in Blocks /\ d \in Nat /\ a <= d /\ d < n
    BY <1>7
  <2>2. k <= d /\ d < m
    BY <1>5, <1>7, <1>9, <2>1
  <2>3. PICK p : p = n - 1
    OBVIOUS
  <2>4. p \in Nat /\ a <= p /\ p < n /\ k <= p /\ p < z /\ (p < m => m = n)
    BY <1>6, <1>8, <2>1, <2>2, <2>3, Between
  <2>5. p \in Blocks
    <3>1. n \in 0 .. NumBlocks - 1 /\ NumBlocks \in Nat
      BY <1>3, <1>6, SizeAssumption DEF Blocks
    <3> QED BY <2>3, <2>4, <3>1 DEF Blocks
  <2>6. p \in Done(th[t]) /\ Going(th[u], w, p)
    BY <1>6, <1>7, <2>4, <2>5 DEF Going
  <2>7. Contains(hist[p], w)
    BY <2>6 DEF After, Covered, Saw
  <2>8. p < m
    BY <1>5, <1>7, <2>5, <2>7
  <2>9. m = n
    BY <2>4, <2>8
  <2>10. th[t].next = th[u].next /\ th[t].next < th[t].end /\ th[u].next < th[u].end
    BY <1>1, <1>6, <1>8, <2>9
  <2>11. th[t].start <= d /\ th[u].start <= d /\ d < th[t].next
    BY <1>6, <2>1, <2>2
  <2> QED BY <1>4, <2>1, <2>10, <2>11, NotBoth
<1>10. ASSUME NEW d \in Blocks, d > b PROVE ~Contains(hist[d], w)
  <2>1. d \in Nat /\ d > n
    BY <1>6, <1>7, <1>10
  <2>2. ~(d < m)
    BY <1>6, <1>8, <2>1
  <2> QED BY <1>5, <1>7, <2>2
<1> QED BY <1>9, <1>10

\* What is to come after a copied block.
LEMMA CopyToCome ==
  ASSUME IInv, LockInv, NEW t \in Threads, CopyPage(t), NEW b, b = th[t].next
  PROVE  /\ b \in Blocks /\ b \in ToCome(th[t])
         /\ \A d \in ToCome(th'[t]) : d \in ToCome(th[t]) /\ d \in Blocks /\ d > b
<1>1. PICK e, r : e = th[t].page /\ r = prepare_page_content(cache, e)
  OBVIOUS
<1>2. b \in Blocks
  BY <1>1, CopyEffect
<1>3. th'[t].next = b + 1 /\ th'[t].end = th[t].end
  BY <1>1, StepCopy
<1>4. b < th[t].end
  BY CopyDone
<1>5. PICK n \in Nat : n = b
  BY <1>2 DEF Blocks
<1>6. b \in ToCome(th[t])
  <2>1. th[t].next <= b
    BY <1>5
  <2> QED BY <1>2, <1>4, <2>1 DEF ToCome
<1>7. ASSUME NEW d \in ToCome(th'[t]) PROVE d \in ToCome(th[t]) /\ d \in Blocks /\ d > b
  <2>1. d \in Blocks /\ n + 1 <= d /\ d < th[t].end
    BY <1>3, <1>5 DEF ToCome
  <2>2. d \in Int
    BY <2>1 DEF Blocks
  <2>3. n <= d /\ d > n
    BY <1>5, <2>1, <2>2
  <2> QED BY <1>5, <2>1, <2>3 DEF ToCome
<1> QED BY <1>2, <1>6, <1>7

LEMMA Offsets ==
  ASSUME NEW a \in Nat, NEW k \in Nat, NEW n \in Nat, a + k = n
  PROVE  n - a + 1 = k + 1 /\ \A d \in Int : a <= d /\ d < n => d - a + 1 \in 1 .. k
OBVIOUS

LEMMA PlaceOf ==
  ASSUME NEW a \in Int, NEW b \in Int, NEW i \in Int, i = b - a + 1
  PROVE  a + i - 1 = b
OBVIOUS

\* A page is copied out.
LEMMA TearRead ==
  ASSUME IInv, LockInv, IdInv, KeptInv, AddrInv, TearInv, failed = "none",
         NEW t \in Threads, CopyPage(t), th[t].op = "read"
  PROVE  TearInv'
<1>1. PICK e, b, r : e = th[t].page /\ b = th[t].next /\ r = prepare_page_content(cache, e)
  OBVIOUS
<1>2. e \in Entries /\ b \in Blocks /\ cache.ent[e].live /\ cache.ent[e].blkoff = b /\ hist' = hist
  BY <1>1, CopyEffect
<1>3. /\ \A u \in Threads : u # t => th'[u] = th[u]
      /\ Inside(th[t]) /\ Inside(th'[t]) /\ th'[t].op = th[t].op /\ th'[t].start = th[t].start
  BY <1>1, StepCopy
<1>4. th[t].op = "read" => th'[t].got = Append(th[t].got, r.ent[e].page)
  BY <1>1, StepCopy
<1>5. Done(th'[t]) = Done(th[t]) \cup {b} /\ b \notin Done(th[t])
  BY <1>1, CopyDone
<1>6. /\ b \in ToCome(th[t])
      /\ \A d \in ToCome(th'[t]) : d \in ToCome(th[t]) /\ d \in Blocks /\ d > b
  BY <1>1, CopyToCome
<1>7. PICK s \in Seq(Int), g \in Int : s = th[t].got /\ g = r.ent[e].page
  <2>1. th[t].got \in Seq(Int)
    BY DEF IInv, TypeInv, ThreadRec
  <2>2. ssd \in Seq(Int) /\ cache.ent[e] \in PageEntry
    BY <1>2 DEF IInv, TypeInv, DataInv, PageInv, CacheOK, PageCaches
  <2>3. r.ent[e].page = cache.ent[e].page \/ \E i \in 1 .. Len(ssd) : r.ent[e].page = ssd[i]
    BY <1>1, <1>2, PrepareOK
  <2>4. r.ent[e].page \in Int
    BY <2>2, <2>3 DEF PageEntry
  <2> QED BY <2>1, <2>4
<1>8. /\ Got(th'[t], b) = g
      /\ \A d \in Done(th[t]) : Got(th'[t], d) = Got(th[t], d)
  <2>1. th[t].start + Len(th[t].got) = th[t].next /\ th[t].start \in Nat /\ th[t].next \in Nat
    BY <1>3 DEF IInv, Owner, TypeInv, ThreadRec
  <2>2. PICK a \in Nat, n \in Nat : a = th[t].start /\ n = b /\ a + Len(s) = n
    BY <1>1, <1>7, <2>1
  <2>3. PICK q : q = Append(s, g)
    OBVIOUS
  <2>4. q[n - a + 1] = g /\ \A d \in Int : a <= d /\ d < n => q[d - a + 1] = s[d - a + 1]
    <3>1. Len(s) \in Nat /\ q[Len(s) + 1] = g /\ \A i \in 1 .. Len(s) : q[i] = s[i]
      BY <2>3
    <3>2. PICK k \in Nat : k = Len(s) /\ a + k = n
      BY <2>2, <3>1
    <3>3. n - a + 1 = k + 1 /\ \A d \in Int : a <= d /\ d < n => d - a + 1 \in 1 .. k
      BY <3>2, Offsets
    <3> QED BY <3>1, <3>2, <3>3
  <2>5. th'[t].got = q /\ th'[t].start = a /\ th[t].got = s
    BY <1>3, <1>4, <1>7, <2>2, <2>3
  <2>6. \A d \in Done(th[t]) : d \in Int /\ a <= d /\ d < n
    BY <1>1, <2>2 DEF Done, Blocks
  <2>7. Got(th'[t], b) = g
    BY <2>2, <2>4, <2>5 DEF Got
  <2>8. ASSUME NEW d \in Done(th[t]) PROVE Got(th'[t], d) = Got(th[t], d)
    <3>1. q[d - a + 1] = s[d - a + 1]
      BY <2>4, <2>6, Zenon
    <3>2. Got(th'[t], d) = q[d - a + 1] /\ Got(th[t], d) = s[d - a + 1]
      BY <2>2, <2>5, Zenon DEF Got
    <3> QED BY <3>1, <3>2
  <2> QED BY <2>7, <2>8
<1>9. \A w : \A d \in Blocks : Covered(w, d)' <=> Covered(w, d)
  <2>1. \A u \in Threads : Writing(th'[u]) \/ Writing(th[u]) => th'[u] = th[u]
    BY <1>3 DEF Writing
  <2>2. \A w : \A d \in Blocks : \A u \in Threads : Going(th'[u], w, d) <=> Going(th[u], w, d)
    BY <2>1 DEF Going
  <2> QED BY <1>2, <2>2 DEF Covered
<1>10. Done(th[t]) \subseteq Blocks
  BY DEF Done
<1>11. ASSUME NEW w \in Ids, Before(th[t], w) PROVE Before(th[t], w)'
  <2>1. ~Contains(hist[b], w)
    BY <1>6, <1>11 DEF Before
  <2>2. \A d \in Done(th'[t]) : ~Saw(hist'[d], w, Got(th'[t], d))
    <3>1. ~Saw(hist[b], w, Got(th'[t], b))
      BY <2>1 DEF Saw
    <3> QED BY <1>2, <1>5, <1>8, <1>11, <3>1 DEF Before
  <2>3. \A d \in ToCome(th'[t]) : ~Contains(hist'[d], w)
    BY <1>2, <1>6, <1>11 DEF Before
  <2> QED BY <2>2, <2>3 DEF Before
<1>12. ASSUME NEW w \in Ids, After(th[t], w) PROVE Before(th[t], w)' \/ After(th[t], w)'
  <2>1. ASSUME Covered(w, b) => Saw(hist[b], w, g) PROVE After(th[t], w)'
    <3>1. \A d \in Done(th'[t]) : Covered(w, d) => Saw(hist'[d], w, Got(th'[t], d))
      BY <1>2, <1>5, <1>8, <1>12, <2>1 DEF After
    <3> QED BY <1>2, <1>5, <1>9, <1>10, <3>1 DEF After
  <2>2. CASE Contains(hist[b], w)
    <3>1. hist[b] \in Seq(Int) /\ Distinct(hist[b])
      BY <1>2 DEF IInv, TypeInv, DataInv, IdInv
    <3>2. hist[b] # <<>> /\ Saw(hist[b], w, Last(hist[b]))
      BY <2>2, <3>1, SawLast
    <3>3. hist[b] # <<>> => r.ent[e].page = Last(hist[b])
      BY <1>1, <1>2, PreparedContent
    <3>4. Saw(hist[b], w, g)
      BY <1>7, <3>2, <3>3
    <3> QED BY <2>1, <3>4
  <2>3. CASE ~Contains(hist[b], w)
    <3>1. CASE ~Covered(w, b)
      BY <2>1, <3>1
    <3>2. CASE Covered(w, b)
      <4>1. PICK u \in Threads : Going(th[u], w, b)
        BY <2>3, <3>2 DEF Covered
      <4>2. /\ \A d \in Done(th[t]) : ~Contains(hist[d], w)
            /\ \A d \in Blocks : d > b => ~Contains(hist[d], w)
        BY <1>1, <1>12, <2>3, <4>1, NotMet
      <4>3. \A d \in Done(th'[t]) : ~Saw(hist'[d], w, Got(th'[t], d))
        BY <1>2, <1>5, <2>3, <4>2 DEF Saw
      <4>4. \A d \in ToCome(th'[t]) : ~Contains(hist'[d], w)
        BY <1>2, <1>6, <4>2
      <4> QED BY <4>3, <4>4 DEF Before
    <3> QED BY <3>1, <3>2
  <2> QED BY <2>2, <2>3
<1>13. ASSUME NEW u \in Threads, u # t, Reading(th'[u]), NEW w \in Ids
       PROVE  Before(th[u], w)' \/ After(th[u], w)'
  <2>1. th'[u] = th[u] /\ Reading(th[u])
    BY <1>3, <1>13
  <2>2. CASE Before(th[u], w)
    BY <1>2, <2>1, <2>2 DEF Before
  <2>3. CASE After(th[u], w)
    <3>1. Done(th[u]) \subseteq Blocks
      BY DEF Done
    <3> QED BY <1>2, <1>9, <2>1, <2>3, <3>1 DEF After
  <2> QED BY <2>1, <2>2, <2>3 DEF TearInv
<1>14. \A w \in Ids : Before(th[t], w)' \/ After(th[t], w)'
  <2>1. Reading(th[t])
    BY <1>3 DEF Reading
  <2> QED BY <1>11, <1>12, <2>1 DEF TearInv
<1> QED BY <1>13, <1>14 DEF TearInv, Ids

\* A write at a block which a read has yet to come to, and which the read is
\* before: the read has passed no block of its range.
LEMMA NotPassed ==
  ASSUME IInv, LockInv, IdInv, NEW t \in Threads, CopyPage(t), th[t].op = "write",
         NEW b, b = th[t].next, NEW u \in Threads, Reading(th[u]), b \in ToCome(th[u]),
         Before(th[u], th[t].id), NEW d \in Done(th[u])
  PROVE  ~Covered(th[t].id, d)
<1>1. PICK e, r, v : e = th[t].page /\ r = prepare_page_content(cache, e) /\ v = th[t].id
  OBVIOUS
<1>2. b < th[t].end
  BY CopyDone
<1>3. Inside(th[t]) /\ Inside(th[u]) /\ u # t /\ UnderWay(th[t])
  <2>1. Inside(th[t])
    BY <1>1, StepCopy
  <2> QED BY <2>1 DEF Reading, UnderWay
<1>4. \A x \in Blocks : Contains(hist[x], v) <=> x \in Done(th[t])
  BY <1>1, <1>3 DEF IdInv, Traced
<1>5. PICK a \in Nat, n \in Nat, z \in Nat, k \in Nat, m \in Nat :
         a = th[u].start /\ n = th[u].next /\ z = th[u].end /\ k = th[t].start /\ m = b
  BY Zenon DEF IInv, TypeInv, ThreadRec
<1>6. b \in Blocks /\ n <= m /\ m < z
  BY <1>5 DEF ToCome
<1>7. d \in Blocks /\ a <= d /\ d < n /\ d \in Nat
  BY <1>5 DEF Done, Blocks
<1>8. \A x \in Blocks : x \in Done(th[t]) <=> k <= x /\ x < m
  BY <1>3, <1>5 DEF Done
<1>9. ASSUME Covered(v, d) PROVE k <= d
  <2>1. CASE Contains(hist[d], v)
    BY <1>4, <1>7, <1>8, <2>1
  <2>2. ASSUME NEW x \in Threads, Going(th[x], v, d) PROVE k <= d
    <3>1. UnderWay(th[x]) /\ th[x].id = th[t].id /\ th[x].start <= d
      BY <1>1, <2>2 DEF Going, Writing, UnderWay
    <3>2. x = t
      BY <1>3, <3>1 DEF IdInv
    <3> QED BY <1>5, <3>1, <3>2
  <2> QED BY <1>9, <2>1, <2>2 DEF Covered
<1>10. ASSUME k <= d PROVE FALSE
  <2>1. CASE n = m
    <3>1. /\ th[u].start <= d /\ th[t].start <= d /\ d < th[u].next
          /\ th[u].next = th[t].next /\ th[u].next < th[u].end /\ th[t].next < th[t].end
      BY <1>2, <1>5, <1>6, <1>7, <1>10, <2>1
    <3> QED BY <1>3, <1>7, <3>1, NotBoth
  <2>2. CASE n < m
    <3>1. n \in Blocks
      <4>1. m \in 0 .. NumBlocks - 1 /\ NumBlocks \in Nat
        BY <1>5, <1>6, SizeAssumption DEF Blocks
      <4> QED BY <1>5, <2>2, <4>1 DEF Blocks
    <3>2. n \in Done(th[t])
      <4>1. k <= n
        BY <1>5, <1>7, <1>10
      <4> QED BY <1>8, <2>2, <3>1, <4>1
    <3>3. n \in ToCome(th[u])
      <4>1. th[u].next <= n /\ n < th[u].end
        BY <1>5, <1>6, <2>2
      <4> QED BY <3>1, <4>1 DEF ToCome
    <3> QED BY <1>1, <1>4, <3>1, <3>2, <3>3 DEF Before
  <2> QED BY <1>5, <1>6, <2>1, <2>2
<1> QED BY <1>1, <1>9, <1>10

\* A page is written.
LEMMA TearWrite ==
  ASSUME IInv, LockInv, IdInv, TearInv, NEW t \in Threads, CopyPage(t), th[t].op = "write"
  PROVE  TearInv'
<1>1. PICK e, b, r : e = th[t].page /\ b = th[t].next /\ r = prepare_page_content(cache, e)
  OBVIOUS
<1>2. /\ b \in Blocks
      /\ hist'[b] = Append(hist[b], th[t].id) /\ \A x \in Blocks : x # b => hist'[x] = hist[x]
  BY <1>1, CopyEffect
<1>3. /\ \A u \in Threads : u # t => th'[u] = th[u]
      /\ Inside(th[t]) /\ Inside(th'[t]) /\ th'[t].op = th[t].op /\ th'[t].start = th[t].start
      /\ th'[t].id = th[t].id /\ th'[t].end = th[t].end
  BY <1>1, StepCopy
<1>4. b \notin Done(th[t]) /\ th[t].start <= b /\ b < th[t].end
  BY <1>1, CopyDone
<1>5. PICK v \in Int, s \in Seq(Int) : v = th[t].id /\ s = hist[b]
  BY <1>2 DEF IInv, TypeInv, DataInv, ThreadRec
<1>6. UnderWay(th[t]) /\ Writing(th[t]) /\ Writing(th'[t]) /\ Traced(v, Done(th[t])) /\ Distinct(s)
  <2>1. UnderWay(th[t]) /\ Writing(th[t]) /\ Writing(th'[t])
    BY <1>3 DEF UnderWay, Writing
  <2> QED BY <1>2, <1>5, <2>1 DEF IdInv
<1>7. ~Contains(s, v)
  BY <1>2, <1>4, <1>5, <1>6 DEF Traced
<1>8. PICK q : q = Append(s, v)
  OBVIOUS
<1>9. hist'[b] = q /\ \A x : Contains(q, x) <=> Contains(s, x) \/ x = v
  <2>1. hist'[b] = q
    BY <1>2, <1>5, <1>8
  <2>2. \A x : Contains(q, x) <=> Contains(s, x) \/ x = v
    BY <1>8, Appended
  <2> QED BY <2>1, <2>2
<1>10. ASSUME NEW w, NEW d \in Blocks PROVE Covered(w, d)' <=> Covered(w, d)
  <2>1. \A u \in Threads : Going(th'[u], w, d) <=> Going(th[u], w, d)
    BY <1>3, <1>6 DEF Going
  <2>2. d # b \/ w # v => (Contains(hist'[d], w) <=> Contains(hist[d], w))
    BY <1>2, <1>5, <1>9
  <2>3. d = b /\ w = v => Going(th[t], w, d)
    BY <1>4, <1>5, <1>6 DEF Going
  <2> QED BY <2>1, <2>2, <2>3 DEF Covered
<1> SUFFICES ASSUME NEW u \in Threads, Reading(th'[u]), NEW w \in Ids
             PROVE  Before(th[u], w)' \/ After(th[u], w)'
  BY DEF TearInv, Ids
<1>11. u # t /\ th'[u] = th[u] /\ Reading(th[u])
  BY <1>3 DEF Reading
<1>12. Done(th[u]) \subseteq Blocks /\ ToCome(th[u]) \subseteq Blocks
  BY DEF Done, ToCome
<1>13. b \in Done(th[u]) => Got(th[u], b) # v
  <2>1. ASSUME b \in Done(th[u]), Got(th[u], b) = v PROVE FALSE
    <3>1. PICK a \in Nat, n \in Nat, k \in Nat :
             a = th[u].start /\ n = th[u].next /\ k = Len(th[u].got) /\ a + k = n
      <4>1. /\ th[u].start \in Nat /\ th[u].next \in Nat /\ th[u].got \in Seq(Int)
            /\ th[u].start + Len(th[u].got) = th[u].next
        BY <1>11 DEF IInv, TypeInv, ThreadRec, Owner, Reading
      <4> QED BY <4>1
    <3>2. b \in Int /\ a <= b /\ b < n
      BY <2>1, <3>1 DEF Done, Blocks
    <3>3. b - a + 1 \in 1 .. k
      BY <3>1, <3>2, Offsets
    <3>4. PICK i \in 1 .. k : i = b - a + 1
      BY <3>3
    <3>5. th[u].got[i] = v
      BY <2>1, <3>1, <3>4 DEF Got
    <3>6. th[u].start + i - 1 \in Done(th[t])
      BY <1>6, <1>11, <3>1, <3>5 DEF Traced
    <3>7. a + i - 1 = b
      <4>1. a \in Int /\ b \in Int /\ i \in Int
        BY <3>2
      <4> QED BY <3>4, <4>1, PlaceOf
    <3> QED BY <1>4, <3>1, <3>6, <3>7
  <2> QED BY <2>1
<1>14. ASSUME NEW d \in Done(th[u])
       PROVE  /\ d # b \/ w # v => (Saw(hist'[d], w, Got(th[u], d)) <=> Saw(hist[d], w, Got(th[u], d)))
              /\ d = b => ~Saw(hist'[d], v, Got(th[u], d))
  <2>1. CASE d = b
    <3>1. PICK g : g = Got(th[u], d) /\ g # v
      BY <1>13, <2>1
    <3>2. (w # v => (Saw(q, w, g) <=> Saw(s, w, g))) /\ ~Saw(q, v, g)
      BY <1>6, <1>7, <1>8, <3>1, SawMore
    <3> QED BY <1>5, <1>9, <2>1, <3>1, <3>2
  <2>2. CASE d # b
    BY <1>2, <1>12, <2>2
  <2> QED BY <2>1, <2>2
<1>15. CASE w # v
  <2>1. CASE Before(th[u], w)
    <3>1. \A d \in Done(th'[u]) : ~Saw(hist'[d], w, Got(th'[u], d))
      BY <1>11, <1>14, <1>15, <2>1 DEF Before
    <3>2. \A d \in ToCome(th'[u]) : ~Contains(hist'[d], w)
      BY <1>2, <1>5, <1>9, <1>11, <1>12, <1>15, <2>1 DEF Before
    <3> QED BY <3>1, <3>2 DEF Before
  <2>2. CASE After(th[u], w)
    <3>1. \A d \in Done(th[u]) : Covered(w, d)' => Saw(hist'[d], w, Got(th[u], d))
      BY <1>10, <1>12, <1>14, <1>15, <2>2 DEF After
    <3> QED BY <1>11, <3>1 DEF After
  <2> QED BY <1>11, <2>1, <2>2 DEF TearInv
<1>16. CASE w = v
  <2>1. CASE After(th[u], w)
    <3>1. Covered(w, b)
      BY <1>4, <1>5, <1>6, <1>16 DEF Covered, Going
    <3>2. b \notin Done(th[u])
      BY <1>5, <1>7, <1>16, <2>1, <3>1 DEF After, Saw
    <3>3. \A d \in Done(th[u]) : Covered(w, d)' => Saw(hist'[d], w, Got(th[u], d))
      BY <1>10, <1>12, <1>14, <2>1, <3>2 DEF After
    <3> QED BY <1>11, <3>3 DEF After
  <2>2. CASE Before(th[u], w) /\ b \in ToCome(th[u])
    <3>1. \A d \in Done(th[u]) : ~Covered(th[t].id, d)
      BY <1>1, <1>5, <1>11, <1>16, <2>2, NotPassed
    <3>2. \A d \in Done(th[u]) : ~Covered(w, d)'
      BY <1>5, <1>10, <1>12, <1>16, <3>1
    <3> QED BY <1>11, <3>2 DEF After
  <2>3. CASE Before(th[u], w) /\ b \notin ToCome(th[u])
    <3>1. \A d \in Done(th'[u]) : ~Saw(hist'[d], w, Got(th'[u], d))
      BY <1>11, <1>14, <1>16, <2>3 DEF Before
    <3>2. \A d \in ToCome(th'[u]) : ~Contains(hist'[d], w)
      BY <1>2, <1>11, <1>12, <2>3 DEF Before
    <3> QED BY <3>1, <3>2 DEF Before
  <2> QED BY <1>11, <2>1, <2>2, <2>3 DEF TearInv
<1> QED BY <1>15, <1>16

LEMMA TearSteps ==
  ASSUME IInv, IInv', AppendInv, LockInv, IdInv, KeptInv, AddrInv, TearInv, failed = "none",
         NEW t \in Threads, NewCall(t) \/ Step(t)
  PROVE  TearInv'
<1>1. CASE CopyPage(t)
  <2>1. th[t].op \in {"read", "write"}
    BY <1>1, CopyEffect
  <2> QED BY <1>1, <2>1, TearRead, TearWrite
<1>2. CASE ReadBegin(t) \/ AppendBegin(t) \/ WriteBegin(t)
  <2>1. /\ \A u \in Threads : u # t => th'[u] = th[u]
        /\ th[t].pc = "lock" /\ Inside(th'[t]) /\ th'[t].op = th[t].op /\ th'[t].id = th[t].id
        /\ th'[t].start = th'[t].next
    BY <1>2, StepBegin
  <2>2. hist' = hist
    BY <1>2, OtherRetains
  <2>3. Done(th[t]) = {} /\ Done(th'[t]) = {}
    <3>1. ~Inside(th[t])
      BY <2>1 DEF Inside
    <3>2. th'[t].start \in Nat /\ Blocks \subseteq Int
      BY DEF IInv, TypeInv, ThreadRec, Blocks
    <3>3. PICK n \in Nat : n = th'[t].start /\ n = th'[t].next
      BY <2>1, <3>2
    <3>4. \A b \in Int : ~(n <= b /\ b < n)
      BY <3>3
    <3> QED BY <3>1, <3>2, <3>3, <3>4 DEF Done
  <2>4. \A u \in Threads : Reading(th'[u]) =>
            \/ Done(th'[u]) = {}
            \/ /\ Reading(th[u]) /\ Done(th'[u]) = Done(th[u]) /\ ToCome(th'[u]) = ToCome(th[u])
               /\ th'[u].start = th[u].start /\ th'[u].got = th[u].got
    BY <2>1, <2>3
  <2>5. Writing(th'[t]) => \A b \in Blocks : ~Contains(hist[b], th'[t].id)
    <3>1. Writing(th'[t]) => UnderWay(th[t])
      BY <2>1 DEF Writing, UnderWay
    <3>2. UnderWay(th[t]) => \A b \in Blocks : ~Contains(hist[b], th[t].id)
      BY <2>3 DEF IdInv, Traced
    <3> QED BY <2>1, <3>1, <3>2
  <2>6. \A u \in Threads : Writing(th'[u]) =>
            \/ /\ Writing(th[u]) /\ th'[u].id = th[u].id
               /\ th'[u].start = th[u].start /\ th'[u].end = th[u].end
            \/ \A b \in Blocks : ~Contains(hist[b], th'[u].id)
    BY <2>1, <2>5
  <2> QED BY <2>2, <2>4, <2>6, TearKept
<1>3. CASE GetPage(t) \/ DropHandle(t) \/ Unpin(t) \/ LastPage(t)
  <2>1. /\ \A u \in Threads : u # t => th'[u] = th[u]
        /\ Inside(th[t]) /\ Inside(th'[t]) /\ SameRange(th[t], th'[t])
    BY <1>3, StepWithin
  <2>2. hist' = hist
    BY <1>3, OtherRetains
  <2>3. \A u \in Threads : Reading(th'[u]) =>
           /\ Reading(th[u]) /\ Done(th'[u]) = Done(th[u]) /\ ToCome(th'[u]) = ToCome(th[u])
           /\ th'[u].start = th[u].start /\ th'[u].got = th[u].got
    BY <2>1 DEF Reading, SameRange, Done, ToCome
  <2>4. \A u \in Threads : Writing(th'[u]) =>
           /\ Writing(th[u]) /\ th'[u].id = th[u].id
           /\ th'[u].start = th[u].start /\ th'[u].end = th[u].end
    BY <2>1 DEF Writing, SameRange
  <2> QED BY <2>2, <2>3, <2>4, TearKept
<1>4. CASE \/ NewCall(t) \/ UnlockFile(t) \/ MarkDirty(t) \/ AddToDirtyFiles(t) \/ Advance(t)
           \/ ClearDirty(t) \/ RemoveFromDirtyFiles(t) \/ Return(t)
  <2>1. (\A u \in Threads : u # t => th'[u] = th[u]) /\ ~Inside(th'[t])
    BY <1>4, StepOutside
  <2>2. hist' = hist
    BY <1>4, OtherRetains
  <2>3. \A u \in Threads : Reading(th'[u]) \/ Writing(th'[u]) => th'[u] = th[u]
    BY <2>1 DEF Reading, Writing
  <2>4. \A u \in Threads : Reading(th'[u]) =>
           /\ Reading(th[u]) /\ Done(th'[u]) = Done(th[u]) /\ ToCome(th'[u]) = ToCome(th[u])
           /\ th'[u].start = th[u].start /\ th'[u].got = th[u].got
    BY <2>3
  <2>5. \A u \in Threads : Writing(th'[u]) =>
           /\ Writing(th[u]) /\ th'[u].id = th[u].id
           /\ th'[u].start = th[u].start /\ th'[u].end = th[u].end
    BY <2>3
  <2> QED BY <2>2, <2>4, <2>5, TearKept
<1>5. CASE Truncate(t) \/ WriteBack(t)
  <2>1. (\A u \in Threads : u # t => th'[u] = th[u]) /\ ~Inside(th'[t])
    BY <1>5, StepOutside
  <2>2. Exclusive(th[t])
    BY <1>5 DEF Truncate, WriteBack, Exclusive
  <2>3. \A u \in Threads : ~Inside(th[u])
    BY <2>2, Alone
  <2>4. \A u \in Threads : ~Reading(th'[u])
    BY <2>1, <2>3 DEF Reading
  <2> QED BY <2>4 DEF TearInv
<1> QED BY <1>1, <1>2, <1>3, <1>4, <1>5 DEF Step

LEMMA InitTear == Init => LockInv /\ IdInv /\ TearInv
<1> SUFFICES ASSUME Init PROVE LockInv /\ IdInv /\ TearInv
  OBVIOUS
<1>1. \A t \in Threads : th[t].pc = "idle" /\ th[t].op = "none" /\ th[t].pre = NoEntry
  <2>1. th = [t \in Threads |-> Idle]
    BY DEF Init
  <2> QED BY <2>1 DEF Idle
<1>2. \A t \in Threads : ~Inside(th[t]) /\ ~UnderWay(th[t]) /\ ~Reading(th[t])
  BY <1>1 DEF Inside, UnderWay, Reading
<1>3. LockInv
  BY <1>1, <1>2 DEF LockInv, Coupled
<1>4. TearInv
  BY <1>2 DEF TearInv
<1>5. ops = 0 /\ MaxOps \in Nat /\ NumBlocks \in Nat
  BY BoundAssumption, SizeAssumption DEF Init
<1>6. Earlier \in Int /\ \A w \in Ids : w # Earlier
  BY <1>5 DEF Ids, Earlier
<1>7. \A w \in Unused : w \in Ids /\ w # 0
  BY <1>5 DEF Unused, Ids
<1>8. \A b \in Blocks : hist[b] \in {<<Earlier>>, <<>>}
  BY DEF Init
<1>9. \A w : w # Earlier => ~Contains(<<Earlier>>, w) /\ ~Contains(<<>>, w)
  BY DEF Contains
<1>10. Distinct(<<Earlier>>) /\ Distinct(<<>>)
  BY DEF Distinct
<1>11. \A e \in Entries : cache.ent[e].page = 0
  BY DEF Init, EmptyPageCache, page_entry
<1>12. \A i \in 1 .. Len(ssd) : ssd[i] = Earlier
  <2>1. PICK n \in Nat : ssd = [i \in 1 .. n |-> Earlier]
    BY <1>5 DEF Init
  <2>2. Len(ssd) = n
    BY <1>6, <2>1
  <2> QED BY <2>1, <2>2
<1>13. ASSUME NEW w \in Unused PROVE Traced(w, {})
  <2>1. w # Earlier /\ w # 0
    BY <1>6, <1>7
  <2>2. \A b \in Blocks : ~Contains(hist[b], w)
    BY <1>8, <1>9, <2>1
  <2> QED BY <1>2, <1>11, <1>12, <2>1, <2>2 DEF Traced
<1>14. \A b \in Blocks : Distinct(hist[b])
  BY <1>8, <1>10
<1>15. ops <= MaxOps
  BY <1>5
<1>16. IdInv
  BY <1>2, <1>13, <1>14, <1>15 DEF IdInv
<1> QED BY <1>3, <1>4, <1>16

LEMMA Positions ==
  ASSUME NEW a \in Nat, NEW k \in Nat, NEW n \in Nat, NEW z \in Nat, a + k = n, n <= z,
         NEW x \in 1 .. k
  PROVE  a + x - 1 \in 0 .. z - 1 /\ a <= a + x - 1 /\ a + x - 1 < n /\ a + x - 1 - a + 1 = x
OBVIOUS

\* A read of several blocks sees a write of several blocks in all the blocks they
\* share or in none of them, for any number of threads, blocks and calls: each
\* page's lock is taken before that of the page before it is released.
THEOREM ReadsAreWhole == Spec => []ReadsDoNotTear
<1>1. IInv /\ IInv' /\ AppendInv /\ AppendInv' /\ KeptInv /\ AddrInv /\ LockInv /\ IdInv /\ TearInv
        /\ [Next]_vars => LockInv' /\ IdInv' /\ TearInv'
  <2> SUFFICES ASSUME IInv, IInv', AppendInv, AppendInv', KeptInv, AddrInv, LockInv, IdInv, TearInv,
                      [Next]_vars
               PROVE  LockInv' /\ IdInv' /\ TearInv'
    OBVIOUS
  <2>1. CASE UNCHANGED vars
    <3>1. UNCHANGED <<cache, ssd, th, ops, hist>>
      BY <2>1 DEF vars, fileVars
    <3>2. LockInv'
      BY <3>1 DEF LockInv
    <3>3. IdInv'
      BY <3>1 DEF IdInv, Unused, Traced
    <3>4. TearInv'
      BY <3>1 DEF TearInv, Before, After, Covered
    <3> QED BY <3>2, <3>3, <3>4
  <2>2. CASE Next
    <3>1. failed = "none"
      BY <2>2 DEF Next
    <3>2. PICK t \in Threads : NewCall(t) \/ Step(t)
      BY <2>2 DEF Next
    <3> QED BY <3>1, <3>2, LockSteps, IdSteps, TearSteps
  <2> QED BY <2>1, <2>2
<1>2. IInv /\ IdInv /\ TearInv => ReadsDoNotTear
  <2> SUFFICES ASSUME IInv, IdInv, TearInv, NEW t \in Threads, th[t].op = "read", th[t].pc = "unlock",
                      NEW i \in DOMAIN th[t].got, NEW j \in DOMAIN th[t].got, NEW w \in - ops .. ops,
                      Covers(w, th[t].start + i - 1), Covers(w, th[t].start + j - 1)
               PROVE  HasSeen(w, th[t].start + i - 1, th[t].got[i])
                        <=> HasSeen(w, th[t].start + j - 1, th[t].got[j])
    BY DEF ReadsDoNotTear
  <2>1. Inside(th[t]) /\ Reading(th[t])
    BY DEF Inside, Reading
  <2>2. w \in Ids
    <3>1. ops \in Nat /\ MaxOps \in Nat /\ ops <= MaxOps
      BY BoundAssumption DEF IInv, TypeInv, DataInv, IdInv
    <3> QED BY <3>1 DEF Ids
  <2>3. PICK a \in Nat, n \in Nat, k \in Nat :
           a = th[t].start /\ n = th[t].next /\ k = Len(th[t].got) /\ a + k = n /\ n <= NumBlocks
    <3>1. /\ th[t].start \in Nat /\ th[t].next \in Nat /\ th[t].got \in Seq(Int)
          /\ th[t].start + Len(th[t].got) = th[t].next
      BY <2>1 DEF IInv, TypeInv, ThreadRec, Owner
    <3>2. th[t].next <= NumBlocks
      BY <2>1 DEF IInv, Shape
    <3> QED BY <3>1, <3>2, SMTT(40)
  <2>4. DOMAIN th[t].got = 1 .. k
    BY <2>3 DEF IInv, TypeInv, ThreadRec
  <2>5. ASSUME NEW x \in 1 .. k
        PROVE  /\ a + x - 1 \in Blocks /\ a + x - 1 \in Done(th[t])
               /\ Got(th[t], a + x - 1) = th[t].got[x]
    <3>1. NumBlocks \in Nat /\ n <= NumBlocks /\ a + k = n
      BY <2>3, SizeAssumption
    <3>2. a + x - 1 \in 0 .. NumBlocks - 1 /\ a <= a + x - 1 /\ a + x - 1 < n /\ a + x - 1 - a + 1 = x
      BY <3>1, Positions
    <3>3. PICK y : y = a + x - 1
      OBVIOUS
    <3>4. y \in Blocks /\ a <= y /\ y < n /\ y - a + 1 = x
      BY <3>2, <3>3 DEF Blocks
    <3>5. y \in Done(th[t])
      BY <2>1, <2>3, <3>4 DEF Done
    <3>6. Got(th[t], y) = th[t].got[x]
      BY <2>3, <3>4 DEF Got
    <3> QED BY <3>3, <3>4, <3>5, <3>6
  <2>6. PICK b \in Blocks, d \in Blocks : b = th[t].start + i - 1 /\ d = th[t].start + j - 1
    BY <2>3, <2>4, <2>5
  <2>7. /\ b \in Done(th[t]) /\ d \in Done(th[t])
        /\ Got(th[t], b) = th[t].got[i] /\ Got(th[t], d) = th[t].got[j]
    BY <2>3, <2>4, <2>5, <2>6
  <2>8. Covered(w, b) /\ Covered(w, d)
    BY <2>6, CoversIs
  <2>9. \A y, g : HasSeen(w, y, g) <=> Saw(hist[y], w, g)
    BY DEF HasSeen, Seen, Saw, Rank
  <2>10. Before(th[t], w) \/ After(th[t], w)
    BY <2>1, <2>2 DEF TearInv
  <2>11. Saw(hist[b], w, Got(th[t], b)) <=> Saw(hist[d], w, Got(th[t], d))
    BY <2>7, <2>8, <2>10 DEF Before, After
  <2> QED BY <2>6, <2>7, <2>9, <2>11
<1> QED BY <1>1, <1>2, InitTear, Invariant, AppendInvariant, KeptInvariant, PTL DEF Spec

=============================================================================
