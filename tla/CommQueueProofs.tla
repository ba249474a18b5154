-------------------------- MODULE CommQueueProofs --------------------------
(***************************************************************************)
(* The queues of the communication layer: what the list operations do, and *)
(* what every step of the polling thread makes of its queues and cursor.   *)
(* CommSessionProofs rests on these lemmas.                                *)
(***************************************************************************)
EXTENDS CommSession, TLAPS, WellFoundedInduction

-----------------------------------------------------------------------------
(* Queues.  No element occurs twice on a queue: then removing one removes  *)
(* it, and the cursor that runs one element ahead stays on the queue.      *)

Injective(q) == \A i, j \in 1 .. Len(q) : q[i] = q[j] => i = j

LEMMA ElemsOf ==
  ASSUME NEW T, NEW q \in Seq(T)
  PROVE  /\ Elems(q) = {q[i] : i \in 1 .. Len(q)} /\ Elems(q) \subseteq T
         /\ \A x : x \in Elems(q) <=> \E i \in 1 .. Len(q) : q[i] = x
         /\ Len(q) \in Nat /\ \A i \in 1 .. Len(q) : q[i] \in Elems(q) /\ q[i] \in T
  BY DEF Elems

LEMMA EmptyQueue ==
  /\ Elems(<<>>) = {} /\ Injective(<<>>)
  /\ \A q : q = <<>> => Elems(q) = {} /\ Injective(q)
  BY DEF Elems, Injective

LEMMA PlaceOf ==
  ASSUME NEW T, NEW q \in Seq(T), Injective(q), NEW x \in Elems(q)
  PROVE  /\ Place(q, x) \in 1 .. Len(q) /\ q[Place(q, x)] = x
         /\ \A i \in 1 .. Len(q) : q[i] = x => i = Place(q, x)
<1>1. Place(q, x) \in 1 .. Len(q) /\ q[Place(q, x)] = x
  BY DEF Elems, Place
<1> QED BY <1>1 DEF Injective

LEMMA AppendQueue ==
  ASSUME NEW T, NEW q \in Seq(T), Injective(q), NEW x \in T, x \notin Elems(q)
  PROVE  /\ Append(q, x) \in Seq(T) /\ Injective(Append(q, x))
         /\ Elems(Append(q, x)) = Elems(q) \cup {x}
<1>1. PICK r : r = Append(q, x)
  OBVIOUS
<1>2. /\ r \in Seq(T) /\ Len(r) = Len(q) + 1 /\ Len(q) \in Nat /\ r[Len(q) + 1] = x
      /\ \A i \in 1 .. Len(q) : r[i] = q[i]
  BY <1>1
<1>3. Elems(r) = Elems(q) \cup {x}
  <2>1. ASSUME NEW y \in Elems(r) PROVE y \in Elems(q) \cup {x}
    <3>1. PICK i \in 1 .. Len(r) : r[i] = y
      BY <1>2, ElemsOf
    <3>2. CASE i = Len(q) + 1
      BY <1>2, <3>1, <3>2
    <3>3. CASE i \in 1 .. Len(q)
      BY <1>2, <3>1, <3>3, ElemsOf
    <3> QED BY <1>2, <3>1, <3>2, <3>3
  <2>2. ASSUME NEW y \in Elems(q) PROVE y \in Elems(r)
    <3>1. PICK i \in 1 .. Len(q) : q[i] = y
      BY ElemsOf
    <3>2. i \in 1 .. Len(r) /\ r[i] = y
      BY <1>2, <3>1
    <3> QED BY <1>2, <3>2, ElemsOf
  <2>3. x \in Elems(r)
    <3>1. Len(q) + 1 \in 1 .. Len(r)
      BY <1>2
    <3> QED BY <1>2, <3>1, ElemsOf
  <2> QED BY <2>1, <2>2, <2>3
<1>4. Injective(r)
  <2> SUFFICES ASSUME NEW i \in 1 .. Len(r), NEW j \in 1 .. Len(r), r[i] = r[j], i # j
               PROVE  FALSE
    BY DEF Injective
  <2>1. CASE i \in 1 .. Len(q) /\ j \in 1 .. Len(q)
    BY <1>2, <2>1 DEF Injective
  <2>2. CASE i \in 1 .. Len(q) /\ j = Len(q) + 1
    BY <1>2, <2>2, ElemsOf
  <2>3. CASE j \in 1 .. Len(q) /\ i = Len(q) + 1
    BY <1>2, <2>3, ElemsOf
  <2> QED BY <1>2, <2>1, <2>2, <2>3
<1> QED BY <1>1, <1>2, <1>3, <1>4

LEMMA ConcatQueue ==
  ASSUME NEW T, NEW p \in Seq(T), NEW q \in Seq(T)
  PROVE  /\ p \o q \in Seq(T) /\ Elems(p \o q) = Elems(p) \cup Elems(q)
         /\ Injective(p) /\ Injective(q) /\ Elems(p) \cap Elems(q) = {} => Injective(p \o q)
<1>1. PICK r : r = p \o q
  OBVIOUS
<1>2. /\ r \in Seq(T) /\ Len(r) = Len(p) + Len(q) /\ Len(q) \in Nat /\ Len(p) \in Nat
      /\ \A i \in 1 .. Len(p) : r[i] = p[i]
      /\ \A i \in 1 .. Len(r) : i > Len(p) => r[i] = q[i - Len(p)] /\ i - Len(p) \in 1 .. Len(q)
  BY <1>1
<1>3. Elems(r) = Elems(p) \cup Elems(q)
  <2>1. ASSUME NEW y \in Elems(r) PROVE y \in Elems(p) \cup Elems(q)
    <3>1. PICK i \in 1 .. Len(r) : r[i] = y
      BY <1>2, ElemsOf
    <3>2. CASE i > Len(p)
      BY <1>2, <3>1, <3>2, ElemsOf
    <3>3. CASE i \in 1 .. Len(p)
      BY <1>2, <3>1, <3>3, ElemsOf
    <3> QED BY <1>2, <3>1, <3>2, <3>3
  <2>2. ASSUME NEW y \in Elems(p) PROVE y \in Elems(r)
    <3>1. PICK i \in 1 .. Len(p) : p[i] = y
      BY ElemsOf
    <3>2. i \in 1 .. Len(r) /\ r[i] = y
      BY <1>2, <3>1
    <3> QED BY <1>2, <3>2, ElemsOf
  <2>3. ASSUME NEW y \in Elems(q) PROVE y \in Elems(r)
    <3>1. PICK i \in 1 .. Len(q) : q[i] = y
      BY ElemsOf
    <3>2. /\ Len(p) + i \in 1 .. Len(r) /\ Len(p) + i > Len(p) /\ (Len(p) + i) - Len(p) = i
      BY <1>2
    <3>3. r[Len(p) + i] = y
      BY <1>2, <3>1, <3>2
    <3> QED BY <1>2, <3>2, <3>3, ElemsOf
  <2> QED BY <2>1, <2>2, <2>3
<1>4. ASSUME Injective(p), Injective(q), Elems(p) \cap Elems(q) = {} PROVE Injective(r)
  <2> SUFFICES ASSUME NEW i \in 1 .. Len(r), NEW j \in 1 .. Len(r), r[i] = r[j], i # j
               PROVE  FALSE
    BY DEF Injective
  <2>1. CASE i <= Len(p) /\ j <= Len(p)
    BY <1>2, <1>4, <2>1 DEF Injective
  <2>2. CASE i > Len(p) /\ j > Len(p)
    <3>1. /\ r[i] = q[i - Len(p)] /\ r[j] = q[j - Len(p)]
          /\ i - Len(p) \in 1 .. Len(q) /\ j - Len(p) \in 1 .. Len(q)
      BY <1>2, <2>2
    <3>2. i - Len(p) = j - Len(p)
      BY <1>4, <3>1 DEF Injective
    <3> QED BY <1>2, <3>2
  <2>3. CASE i <= Len(p) /\ j > Len(p)
    <3>1. i \in 1 .. Len(p) /\ r[i] = p[i]
      BY <1>2, <2>3
    <3>2. j - Len(p) \in 1 .. Len(q) /\ r[j] = q[j - Len(p)]
      BY <1>2, <2>3
    <3>3. r[i] \in Elems(p)
      BY <3>1, ElemsOf
    <3>4. r[j] \in Elems(q)
      BY <3>2, ElemsOf
    <3> QED BY <1>4, <3>3, <3>4
  <2>4. CASE j <= Len(p) /\ i > Len(p)
    <3>1. j \in 1 .. Len(p) /\ r[j] = p[j]
      BY <1>2, <2>4
    <3>2. i - Len(p) \in 1 .. Len(q) /\ r[i] = q[i - Len(p)]
      BY <1>2, <2>4
    <3>3. r[j] \in Elems(p)
      BY <3>1, ElemsOf
    <3>4. r[i] \in Elems(q)
      BY <3>2, ElemsOf
    <3> QED BY <1>4, <3>3, <3>4
  <2> QED BY <1>2, <2>1, <2>2, <2>3, <2>4
<1> QED BY <1>1, <1>2, <1>3, <1>4

\* TAILQ_REMOVE takes x off the queue and leaves the others; TAILQ_NEXT, read
\* before, is one of the others.
LEMMA RemoveQueue ==
  ASSUME NEW T, NEW q \in Seq(T), Injective(q), NEW x \in Elems(q)
  PROVE  /\ Without(q, x) \in Seq(T) /\ Injective(Without(q, x))
         /\ Elems(Without(q, x)) = Elems(q) \ {x}
         /\ After(q, x) \subseteq Elems(q) \ {x}
<1>1. PICK r, n, p : r = Without(q, x) /\ n = Len(q) /\ p = Place(q, x)
  OBVIOUS
<1>2. /\ n \in Nat /\ p \in 1 .. n /\ q[p] = x /\ \A i \in 1 .. n : q[i] = x => i = p
      /\ \A i \in 1 .. n : q[i] \in T
  BY <1>1, PlaceOf, ElemsOf
<1>3. n - 1 \in Nat
  BY <1>2
<1>4. r = [i \in 1 .. (n - 1) |-> IF i < p THEN q[i] ELSE q[i + 1]]
  BY <1>1 DEF Without
<1>5. \A i \in 1 .. (n - 1) : /\ i \in 1 .. n /\ i + 1 \in 1 .. n
                              /\ r[i] = IF i < p THEN q[i] ELSE q[i + 1]
  BY <1>2, <1>4
<1>6. r \in Seq(T) /\ Len(r) = n - 1
  <2>1. \A i \in 1 .. (n - 1) : r[i] \in T
    BY <1>2, <1>5
  <2> QED BY <1>3, <1>4, <2>1
<1>7. Injective(r)
  <2> SUFFICES ASSUME NEW i \in 1 .. (n - 1), NEW j \in 1 .. (n - 1), r[i] = r[j], i < j
               PROVE  FALSE
    <3>1. \A i, j \in 1 .. (n - 1) : r[i] = r[j] => ~(i < j) /\ ~(j < i)
      OBVIOUS
    <3> QED BY <1>3, <1>6, <3>1 DEF Injective
  <2>1. PICK k, l \in 1 .. n : /\ k = (IF i < p THEN i ELSE i + 1) /\ l = (IF j < p THEN j ELSE j + 1)
    BY <1>5
  <2>2. r[i] = q[k] /\ r[j] = q[l]
    BY <1>5, <2>1
  <2>3. k # l
    BY <1>2, <2>1
  <2> QED BY <1>1, <2>2, <2>3 DEF Injective
<1>8. Elems(r) = Elems(q) \ {x}
  <2>1. ASSUME NEW y \in Elems(r) PROVE y \in Elems(q) \ {x}
    <3>1. PICK i \in 1 .. (n - 1) : r[i] = y
      BY <1>6, ElemsOf
    <3>2. PICK k \in 1 .. n : k = IF i < p THEN i ELSE i + 1
      BY <1>5
    <3>3. y = q[k] /\ k # p
      BY <1>2, <1>5, <3>1, <3>2
    <3>4. y # x
      BY <1>2, <3>3
    <3> QED BY <1>1, <3>3, <3>4, ElemsOf
  <2>2. ASSUME NEW y \in Elems(q) \ {x} PROVE y \in Elems(r)
    <3>1. PICK k \in 1 .. n : q[k] = y
      BY <1>1, ElemsOf
    <3>2. k # p
      BY <1>2, <2>2, <3>1
    <3>3. PICK i : i = IF k < p THEN k ELSE k - 1
      OBVIOUS
    <3>4. i \in 1 .. (n - 1) /\ r[i] = y
      <4>1. CASE k < p
        BY <1>2, <1>5, <3>1, <3>3, <4>1
      <4>2. CASE k > p
        <5>1. i = k - 1 /\ i \in 1 .. (n - 1) /\ ~(i < p) /\ i + 1 = k
          BY <1>2, <3>3, <4>2
        <5> QED BY <1>5, <3>1, <5>1
      <4> QED BY <1>2, <3>2, <4>1, <4>2
    <3> QED BY <1>6, <3>4, ElemsOf
  <2> QED BY <2>1, <2>2
<1>9. ASSUME NEW y \in After(q, x) PROVE y \in Elems(q) \ {x}
  <2>1. PICK j \in 2 .. n : q[j - 1] = x /\ y = q[j]
    BY <1>1, <1>9 DEF After
  <2>2. j \in 1 .. n /\ j - 1 \in 1 .. n /\ j # j - 1
    BY <1>2
  <2>3. j - 1 = p /\ y # x
    BY <1>2, <2>1, <2>2
  <2> QED BY <1>1, <2>1, <2>2, <2>3, ElemsOf
<1> QED BY <1>1, <1>6, <1>7, <1>8, <1>9

LEMMA CursorOf ==
  ASSUME NEW T, NEW q \in Seq(T), NEW x
  PROVE  First(q) \subseteq Elems(q) /\ After(q, x) \subseteq Elems(q)
<1>1. First(q) \subseteq Elems(q)
  BY DEF First, Elems
<1>2. After(q, x) \subseteq Elems(q)
  BY DEF After, Elems
<1> QED BY <1>1, <1>2
-----------------------------------------------------------------------------
(* comm_channel_controller_get_channel finds a channel.                    *)

LEMMA LeastNatural ==
  ASSUME NEW T, T \subseteq Nat, T # {}
  PROVE  \E m \in T : \A k \in T : m <= k
<1>1. PICK R : R = OpToRel(<, Nat)
  OBVIOUS
<1>2. IsWellFoundedOn(R, Nat)
  BY <1>1, NatLessThanWellFounded
<1>3. PICK m \in T : \A k \in T : <<k, m>> \notin R
  BY <1>2, WFMin
<1>4. ASSUME NEW k \in T, NEW n \in T, k < n PROVE <<k, n>> \in R
  BY <1>1, <1>4 DEF OpToRel
<1>5. \A k \in T : ~ (k < m)
  BY <1>3, <1>4, Zenon
<1>6. \A k \in T : k \in Nat
  OBVIOUS
<1> QED BY <1>3, <1>5, <1>6

\* Finitely many numbers have a lower bound: the least n for which the first
\* n had none would be one too many.
LEMMA LowerBound ==
  ASSUME NEW n \in Nat, NEW f \in [1 .. n -> Int]
  PROVE  \E b \in Int : \A i \in 1 .. n : b <= f[i]
<1> DEFINE Bounded(k) == \E b \in Int : \A i \in 1 .. k : b <= f[i]
<1>1. SUFFICES ASSUME ~Bounded(n) PROVE FALSE
  OBVIOUS
<1>2. PICK T : T = {k \in 0 .. n : ~Bounded(k)}
  OBVIOUS
<1>3. T \subseteq Nat /\ n \in T
  BY <1>1, <1>2
<1>4. PICK m \in T : \A k \in T : m <= k
  BY <1>3, LeastNatural
<1>5. m \in 0 .. n /\ ~Bounded(m)
  BY <1>2, <1>4
<1>6. m # 0
  <2>1. Bounded(0)
    <3>1. 0 \in Int /\ \A i \in 1 .. 0 : 0 <= f[i]
      OBVIOUS
    <3> QED BY <3>1
  <2> QED BY <1>5, <2>1
<1>7. m - 1 \in 0 .. n /\ m \in 1 .. n
  BY <1>5, <1>6
<1>8. Bounded(m - 1)
  <2>1. m - 1 \notin T
    BY <1>4, <1>5
  <2> HIDE DEF Bounded
  <2> QED BY <1>2, <1>7, <2>1
<1>9. PICK b \in Int : \A i \in 1 .. (m - 1) : b <= f[i]
  BY <1>8
<1>10. PICK d \in Int : d <= b /\ d <= f[m]
  <2>1. f[m] \in Int
    BY <1>7
  <2>2. CASE b <= f[m]
    BY <2>2
  <2>3. CASE f[m] <= b
    BY <2>1, <2>3
  <2> QED BY <2>1, <2>2, <2>3
<1>11. \A i \in 1 .. m : d <= f[i]
  <2> SUFFICES ASSUME NEW i \in 1 .. m PROVE d <= f[i]
    OBVIOUS
  <2>1. CASE i = m
    BY <1>10, <2>1
  <2>2. CASE i \in 1 .. (m - 1)
    <3>1. b <= f[i] /\ f[i] \in Int
      BY <1>7, <1>9, <2>2
    <3> QED BY <1>10, <3>1
  <2> QED BY <1>7, <2>1, <2>2
<1> QED BY <1>5, <1>11

LEMMA ChannelFound == use_cnt \in [Channels -> Int] => LeastUsed \in Channels
<1> SUFFICES ASSUME use_cnt \in [Channels -> Int] PROVE LeastUsed \in Channels
  OBVIOUS
<1>1. ChannelNum \in Nat /\ 1 \in Channels
  BY DeviceAssumption DEF Channels
<1>2. PICK b \in Int : \A i \in Channels : b <= use_cnt[i]
  BY <1>1, LowerBound DEF Channels
<1>3. PICK V : V = {use_cnt[i] - b : i \in Channels}
  OBVIOUS
<1>4. V \subseteq Nat /\ V # {}
  BY <1>1, <1>2, <1>3
<1>5. PICK v \in V : \A w \in V : v <= w
  BY <1>4, LeastNatural
<1>6. PICK W : W = {i \in Channels : use_cnt[i] - b = v}
  OBVIOUS
<1>7. W \subseteq Nat /\ W # {}
  BY <1>1, <1>3, <1>5, <1>6 DEF Channels
<1>8. PICK i \in W : \A j \in W : i <= j
  BY <1>7, LeastNatural
<1>9. i \in Channels /\ use_cnt[i] - b = v
  BY <1>6, <1>8
<1>10. ASSUME NEW j \in Channels
       PROVE  use_cnt[i] < use_cnt[j] \/ (use_cnt[i] = use_cnt[j] /\ i <= j)
  <2>1. /\ use_cnt[i] \in Int /\ use_cnt[j] \in Int /\ v <= use_cnt[j] - b
        /\ use_cnt[j] - b = v => i <= j
    BY <1>3, <1>5, <1>6, <1>8, <1>9, <1>10
  <2> QED BY <1>9, <2>1
<1>11. \E k \in Channels : \A j \in Channels :
          use_cnt[k] < use_cnt[j] \/ (use_cnt[k] = use_cnt[j] /\ k <= j)
  BY <1>9, <1>10
<1> QED BY <1>11 DEF LeastUsed

-----------------------------------------------------------------------------
(* The four queues a context can be on: the session's command queue e, and *)
(* the polling thread's cq_queue, tid_queue and error queue.  A context is *)
(* on one of them at most, but for the refused long commands R, which may  *)
(* be on the last two at once.                                             *)

Queues(e, cq, tid, err, R) ==
    /\ e \in Seq(Cmds) /\ cq \in Seq(Ctxs) /\ tid \in Seq(Long) /\ err \in Seq(Ctxs)
    /\ Injective(e) /\ Injective(cq) /\ Injective(tid) /\ Injective(err)
    /\ Elems(e) \cap (Elems(cq) \cup Elems(tid) \cup Elems(err)) = {}
    /\ Elems(cq) \cap (Elems(tid) \cup Elems(err)) = {}
    /\ Elems(tid) \cap Elems(err) \subseteq R

\* The cursor is on the queue that is being gone through.
CursorOK(pc, cur, cq, tid, err) ==
    /\ pc \in {"cq", "polled"} => cur \subseteq Elems(cq)
    /\ pc = "tid" => cur \subseteq Elems(tid)
    /\ pc = "exited" => Elems(cq) \cup Elems(tid) \cup Elems(err) = {}

LEMMA LeaveCq ==
  ASSUME NEW e, NEW cq, NEW tid, NEW err, NEW R, Queues(e, cq, tid, err, R), NEW x \in Elems(cq)
  PROVE  /\ Queues(e, Without(cq, x), tid, err, R)
         /\ Without(cq, x) \in Seq(Ctxs)
         /\ Elems(Without(cq, x)) = Elems(cq) \ {x}
         /\ After(cq, x) \subseteq Elems(cq) \ {x}
         /\ x \notin Elems(e) \cup Elems(tid) \cup Elems(err)
<1>1. /\ Without(cq, x) \in Seq(Ctxs) /\ Injective(Without(cq, x))
      /\ Elems(Without(cq, x)) = Elems(cq) \ {x} /\ After(cq, x) \subseteq Elems(cq) \ {x}
  BY RemoveQueue DEF Queues
<1>2. x \notin Elems(e) \cup Elems(tid) \cup Elems(err)
  BY DEF Queues
<1>3. Queues(e, Without(cq, x), tid, err, R)
  BY <1>1 DEF Queues
<1> QED BY <1>1, <1>2, <1>3

LEMMA LeaveTid ==
  ASSUME NEW e, NEW cq, NEW tid, NEW err, NEW R, Queues(e, cq, tid, err, R), NEW x \in Elems(tid)
  PROVE  /\ Queues(e, cq, Without(tid, x), err, R)
         /\ Without(tid, x) \in Seq(Long)
         /\ Elems(Without(tid, x)) = Elems(tid) \ {x}
         /\ After(tid, x) \subseteq Elems(tid) \ {x}
         /\ x \notin Elems(e) \cup Elems(cq)
         /\ x \in Elems(err) => x \in R
<1>1. /\ Without(tid, x) \in Seq(Long) /\ Injective(Without(tid, x))
      /\ Elems(Without(tid, x)) = Elems(tid) \ {x} /\ After(tid, x) \subseteq Elems(tid) \ {x}
  BY RemoveQueue DEF Queues
<1>2. /\ x \notin Elems(e) \cup Elems(cq)
      /\ x \in Elems(err) => x \in R
  BY DEF Queues
<1>3. Queues(e, cq, Without(tid, x), err, R)
  BY <1>1 DEF Queues
<1> QED BY <1>1, <1>2, <1>3

LEMMA EnterCqQueue ==
  ASSUME NEW e, NEW cq, NEW tid, NEW err, NEW R, Queues(e, cq, tid, err, R), NEW x \in Ctxs,
         x \notin Elems(e) \cup Elems(cq) \cup Elems(tid) \cup Elems(err)
  PROVE  /\ Queues(e, Append(cq, x), tid, err, R) /\ Append(cq, x) \in Seq(Ctxs)
         /\ Elems(Append(cq, x)) = Elems(cq) \cup {x}
<1>1. /\ Append(cq, x) \in Seq(Ctxs) /\ Injective(Append(cq, x))
      /\ Elems(Append(cq, x)) = Elems(cq) \cup {x}
  BY AppendQueue DEF Queues
<1> QED BY <1>1 DEF Queues

LEMMA EnterTidQueue ==
  ASSUME NEW e, NEW cq, NEW tid, NEW err, NEW R, Queues(e, cq, tid, err, R), NEW x \in Long,
         x \notin Elems(e) \cup Elems(cq) \cup Elems(tid), x \notin Elems(err) \/ x \in R
  PROVE  /\ Queues(e, cq, Append(tid, x), err, R) /\ Append(tid, x) \in Seq(Long)
         /\ Elems(Append(tid, x)) = Elems(tid) \cup {x}
<1>1. /\ Append(tid, x) \in Seq(Long) /\ Injective(Append(tid, x))
      /\ Elems(Append(tid, x)) = Elems(tid) \cup {x}
  BY AppendQueue DEF Queues
<1> QED BY <1>1 DEF Queues

LEMMA EnterErrQueue ==
  ASSUME NEW e, NEW cq, NEW tid, NEW err, NEW R, Queues(e, cq, tid, err, R), NEW x \in Ctxs,
         x \notin Elems(e) \cup Elems(cq) \cup Elems(err), x \notin Elems(tid) \/ x \in R
  PROVE  /\ Queues(e, cq, tid, Append(err, x), R) /\ Append(err, x) \in Seq(Ctxs)
         /\ Elems(Append(err, x)) = Elems(err) \cup {x}
<1>1. /\ Append(err, x) \in Seq(Ctxs) /\ Injective(Append(err, x))
      /\ Elems(Append(err, x)) = Elems(err) \cup {x}
  BY AppendQueue DEF Queues
<1> QED BY <1>1 DEF Queues

LEMMA EnterCmdQueue ==
  ASSUME NEW e, NEW cq, NEW tid, NEW err, NEW R, Queues(e, cq, tid, err, R), NEW x \in Cmds,
         x \notin Elems(e) \cup Elems(cq) \cup Elems(tid) \cup Elems(err)
  PROVE  /\ Queues(Append(e, x), cq, tid, err, R) /\ Append(e, x) \in Seq(Cmds)
         /\ Elems(Append(e, x)) = Elems(e) \cup {x}
<1>1. /\ Append(e, x) \in Seq(Cmds) /\ Injective(Append(e, x))
      /\ Elems(Append(e, x)) = Elems(e) \cup {x}
  BY AppendQueue DEF Queues
<1> QED BY <1>1 DEF Queues

LEMMA SpliceQueues ==
  ASSUME NEW e, NEW cq, NEW tid, NEW err, NEW R, Queues(e, cq, tid, err, R)
  PROVE  /\ Queues(<<>>, cq \o e, tid, err, R) /\ cq \o e \in Seq(Ctxs)
         /\ Elems(cq \o e) = Elems(cq) \cup Elems(e)
<1>1. e \in Seq(Ctxs)
  BY DEF Queues, Ctxs
<1>2. /\ cq \o e \in Seq(Ctxs) /\ Elems(cq \o e) = Elems(cq) \cup Elems(e)
      /\ Injective(cq \o e)
  BY <1>1, ConcatQueue DEF Queues
<1>3. <<>> \in Seq(Cmds) /\ Injective(<<>>) /\ Elems(<<>>) = {}
  BY EmptyQueue
<1> QED BY <1>2, <1>3 DEF Queues

LEMMA QueuesMoreRefused ==
  ASSUME NEW e, NEW cq, NEW tid, NEW err, NEW R, NEW S, Queues(e, cq, tid, err, R), R \subseteq S
  PROVE  Queues(e, cq, tid, err, S)
  BY DEF Queues

-----------------------------------------------------------------------------
(* What each step of the polling thread does to its environment.           *)

ThreadPcs == {"fetch", "sleep", "cq", "polled", "tid", "end", "exited"}

ThreadIs(t, pc, cur, cq, tid, err, ids, query) ==
    /\ t \in ThreadType /\ t.pc = pc /\ t.cur = cur /\ t.cq = cq /\ t.tid = tid
    /\ t.err = err /\ t.cplt_tids = ids /\ t.query = query

LEMMA ThreadFields ==
  ASSUME th \in ThreadType
  PROVE  /\ th.pc \in ThreadPcs /\ th.cur \subseteq Ctxs /\ th.cq \in Seq(Ctxs)
         /\ th.tid \in Seq(Ctxs) /\ th.err \in Seq(Ctxs) /\ th.cplt_tids \subseteq Cmds
         /\ ThreadIs(th, th.pc, th.cur, th.cq, th.tid, th.err, th.cplt_tids, th.query)
  BY DEF ThreadType, ThreadPcs, ThreadIs

\* NextCq and NextTid.
LEMMA CursorMoved ==
  ASSUME th \in ThreadType, NEW x \in Ctxs
  PROVE  /\ ThreadIs(NextCq(x), "cq", After(th.cq, x), th.cq, th.tid, th.err, th.cplt_tids, th.query)
         /\ ThreadIs(NextTid(x), th.pc, After(th.tid, x), th.cq, th.tid, th.err, th.cplt_tids,
                     th.query)
<1>1. After(th.cq, x) \in SUBSET Ctxs /\ After(th.tid, x) \in SUBSET Ctxs
  BY CursorOf, ElemsOf, ThreadFields
<1> QED BY <1>1 DEF ThreadIs, ThreadType, NextCq, NextTid

\* One queue of a thread record is replaced.
LEMMA QueueReplaced ==
  ASSUME NEW t, NEW pc, NEW cur, NEW cq, NEW tid, NEW err, NEW ids, NEW query,
         ThreadIs(t, pc, cur, cq, tid, err, ids, query), NEW q \in Seq(Ctxs)
  PROVE  /\ ThreadIs([t EXCEPT !.cq = q], pc, cur, q, tid, err, ids, query)
         /\ ThreadIs([t EXCEPT !.tid = q], pc, cur, cq, q, err, ids, query)
         /\ ThreadIs([t EXCEPT !.err = q], pc, cur, cq, tid, q, ids, query)
  BY DEF ThreadIs, ThreadType

LEMMA QueryReplaced ==
  ASSUME NEW t, NEW pc, NEW cur, NEW cq, NEW tid, NEW err, NEW ids, NEW query,
         ThreadIs(t, pc, cur, cq, tid, err, ids, query)
  PROVE  /\ ThreadIs([t EXCEPT !.query = "finished"], pc, cur, cq, tid, err, ids, "finished")
         /\ ThreadIs([t EXCEPT !.query = "error"], pc, cur, cq, tid, err, ids, "error")
         /\ \A x \in Sync : ThreadIs([t EXCEPT !.bcast = {x}], pc, cur, cq, tid, err, ids, query)
  BY DEF ThreadIs, ThreadType

RefusedCmds == {c \in Cmds : Refused(c)}

QueueInv == /\ Queues(env.queue, th.cq, th.tid, th.err, RefusedCmds)
            /\ CursorOK(th.pc, th.cur, th.cq, th.tid, th.err)

EnvType == env \in [queue : Seq(Cmds), exit_req : BOOLEAN]

\* The steps that leave every queue as it is.
QuietThread ==
    /\ th' \in ThreadType /\ UNCHANGED env
    /\ th'.cq = th.cq /\ th'.tid = th.tid /\ th'.err = th.err
    /\ th'.cplt_tids \subseteq th.cplt_tids \cup tids
    /\ th'.query = "running" <=> th.query = "running"
    /\ th'.pc = "exited" <=> th.pc = "exited"
    /\ CursorOK(th'.pc, th'.cur, th'.cq, th'.tid, th'.err)

LEMMA QuietFetch ==
  ASSUME th \in ThreadType, QueueInv, FetchBusy \/ FetchWait \/ Broadcast
  PROVE  QuietThread
<1>1. First(th.cq) \subseteq Elems(th.cq) /\ First(th.cq) \in SUBSET Ctxs /\ th.cq \in Seq(Ctxs)
  BY CursorOf, ElemsOf, ThreadFields
<1>2. CASE FetchBusy
  BY <1>1, <1>2 DEF FetchBusy, EnterCq, QuietThread, CursorOK, ThreadType, At
<1>3. CASE FetchWait
  BY <1>3 DEF FetchWait, QuietThread, CursorOK, ThreadType, At
<1>4. CASE Broadcast
  BY <1>4 DEF Broadcast, QuietThread, CursorOK, ThreadType, QueueInv
<1> QED BY <1>2, <1>3, <1>4

LEMMA QuietCq ==
  ASSUME th \in ThreadType, QueueInv, PollCq \/ PollBusy \/ NotReceived
  PROVE  QuietThread
<1>1. CASE PollCq
  BY <1>1 DEF PollCq, QuietThread, CursorOK, ThreadType, At, QueueInv
<1>2. ASSUME NEW x \in th.cur, th' = NextCq(x), UNCHANGED env, th.pc # "exited"
      PROVE QuietThread
  <2>1. x \in Ctxs /\ th.cq \in Seq(Ctxs)
    BY ThreadFields
  <2>2. ThreadIs(th', "cq", After(th.cq, x), th.cq, th.tid, th.err, th.cplt_tids, th.query)
    BY <1>2, <2>1, CursorMoved
  <2>3. After(th.cq, x) \subseteq Elems(th.cq)
    BY <2>1, CursorOf
  <2> QED BY <1>2, <2>2, <2>3 DEF QuietThread, CursorOK, ThreadIs
<1>3. CASE PollBusy
  BY <1>2, <1>3 DEF PollBusy, At
<1>4. CASE NotReceived
  BY <1>2, <1>4 DEF NotReceived, At
<1> QED BY <1>1, <1>3, <1>4

LEMMA QuietTid ==
  ASSUME th \in ThreadType, QueueInv, MatchTids \/ StillRunning
  PROVE  QuietThread
<1>1. CASE MatchTids
  <2>1. First(th.tid) \subseteq Elems(th.tid) /\ First(th.tid) \in SUBSET Ctxs
    BY CursorOf, ElemsOf, ThreadFields
  <2> QED BY <1>1, <2>1 DEF MatchTids, QuietThread, CursorOK, ThreadType, At
<1>2. ASSUME NEW x \in th.cur, th' = NextTid(x), UNCHANGED env, th.pc = "tid"
      PROVE QuietThread
  <2>1. x \in Ctxs /\ th.tid \in Seq(Ctxs)
    BY ThreadFields
  <2>2. ThreadIs(th', "tid", After(th.tid, x), th.cq, th.tid, th.err, th.cplt_tids, th.query)
    BY <1>2, <2>1, CursorMoved
  <2>3. After(th.tid, x) \subseteq Elems(th.tid)
    BY <2>1, CursorOf
  <2> QED BY <1>2, <2>2, <2>3 DEF QuietThread, CursorOK, ThreadIs
<1>3. CASE StillRunning
  BY <1>2, <1>3 DEF StillRunning, At
<1> QED BY <1>1, <1>3

LEMMA QuietEnd ==
  ASSUME th \in ThreadType, tids \subseteq Cmds, QueueInv,
         \/ StartTimer \/ SendQueryFails \/ TakeTids \/ NoQueryWork \/ Again \/ TimerExpires
         \/ FiniNotify \/ \E c \in Cmds : Notify(c)
  PROVE  QuietThread
<1>1. CASE StartTimer
  BY <1>1 DEF StartTimer, TidPassDone, QuietThread, CursorOK, ThreadType, At
<1>2. CASE SendQueryFails
  BY <1>2 DEF SendQueryFails, TidPassDone, QuietThread, CursorOK, ThreadType, At
<1>3. CASE TakeTids
  BY <1>3 DEF TakeTids, TidPassDone, QuietThread, CursorOK, ThreadType, At
<1>4. CASE NoQueryWork
  BY <1>4 DEF NoQueryWork, TidPassDone, QuietThread, CursorOK, ThreadType, At
<1>5. CASE Again
  BY <1>5 DEF Again, QuietThread, CursorOK, ThreadType, At
<1>6. CASE TimerExpires
  BY <1>6 DEF TimerExpires, QuietThread, QueueInv, CursorOK, ThreadType
<1>7. ASSUME WakePolling, UNCHANGED env PROVE QuietThread
  BY <1>7 DEF WakePolling, QuietThread, QueueInv, CursorOK, ThreadType
<1> QED BY <1>1, <1>2, <1>3, <1>4, <1>5, <1>6, <1>7 DEF FiniNotify, Notify

\* The thread's queues hold these sets after a step.
QueuesNow(cqs, longs, errs, query) ==
    /\ th' \in ThreadType /\ th'.pc # "exited"
    /\ Queues(env'.queue, th'.cq, th'.tid, th'.err, RefusedCmds)
    /\ CursorOK(th'.pc, th'.cur, th'.cq, th'.tid, th'.err)
    /\ Elems(th'.cq) = cqs /\ Elems(th'.tid) = longs /\ Elems(th'.err) = errs
    /\ th'.cplt_tids = th.cplt_tids /\ th'.query = query

\* x is on cq_queue, and nowhere else; Taken(x) has it nowhere.
OnCq(x) == /\ x \in Ctxs /\ x \in Elems(th.cq)
           /\ x \notin Elems(env.queue) \cup Elems(th.tid) \cup Elems(th.err)

LEMMA TakenFromCq ==
  ASSUME th \in ThreadType, QueueInv, th.pc \in {"cq", "polled"}, NEW x \in th.cur
  PROVE  /\ OnCq(x)
         /\ Queues(env.queue, Without(th.cq, x), th.tid, th.err, RefusedCmds)
         /\ ThreadIs(Taken(x), "cq", After(th.cq, x), Without(th.cq, x), th.tid, th.err,
                     th.cplt_tids, th.query)
         /\ Elems(Without(th.cq, x)) = Elems(th.cq) \ {x}
         /\ After(th.cq, x) \subseteq Elems(th.cq) \ {x}
<1>1. x \in Elems(th.cq) /\ x \in Ctxs
  BY ThreadFields DEF QueueInv, CursorOK
<1>2. /\ Queues(env.queue, Without(th.cq, x), th.tid, th.err, RefusedCmds)
      /\ Without(th.cq, x) \in Seq(Ctxs)
      /\ Elems(Without(th.cq, x)) = Elems(th.cq) \ {x}
      /\ After(th.cq, x) \subseteq Elems(th.cq) \ {x}
      /\ x \notin Elems(env.queue) \cup Elems(th.tid) \cup Elems(th.err)
  BY <1>1, LeaveCq DEF QueueInv
<1>3. ThreadIs(NextCq(x), "cq", After(th.cq, x), th.cq, th.tid, th.err, th.cplt_tids, th.query)
  BY <1>1, CursorMoved
<1>4. ThreadIs([NextCq(x) EXCEPT !.cq = Without(th.cq, x)], "cq", After(th.cq, x),
               Without(th.cq, x), th.tid, th.err, th.cplt_tids, th.query)
  BY <1>2, <1>3, QueueReplaced
<1>5. Taken(x) = [NextCq(x) EXCEPT !.cq = Without(th.cq, x)]
  BY <1>3 DEF Taken, ThreadIs
<1> QED BY <1>1, <1>2, <1>4, <1>5 DEF OnCq

LEMMA EffectFetch ==
  ASSUME th \in ThreadType, EnvType, QueueInv, Fetch
  PROVE  /\ QueuesNow(Elems(th.cq) \cup Elems(env.queue), Elems(th.tid), Elems(th.err), th.query)
         /\ env'.queue = <<>> /\ EnvType'
<1>1. PICK q : q = th.cq \o env.queue
  OBVIOUS
<1>2. /\ Queues(<<>>, q, th.tid, th.err, RefusedCmds) /\ q \in Seq(Ctxs)
      /\ Elems(q) = Elems(th.cq) \cup Elems(env.queue)
  BY <1>1, SpliceQueues DEF QueueInv
<1>3. First(q) \in SUBSET Ctxs /\ First(q) \subseteq Elems(q)
  BY <1>2, CursorOf, ElemsOf
<1>4. env'.queue = <<>> /\ EnvType'
  <2>1. env' = [env EXCEPT !.queue = <<>>]
    BY DEF Fetch
  <2>2. <<>> \in Seq(Cmds)
    OBVIOUS
  <2> QED BY <2>1, <2>2 DEF EnvType
<1>5. PICK b \in BOOLEAN : th' = [th EXCEPT !.pc = "cq", !.cq = q, !.cur = First(q), !.need_exit = b]
  <2>1. th.need_exit \in BOOLEAN /\ env.exit_req \in BOOLEAN
    BY DEF ThreadType, EnvType
  <2>2. PICK b : b = (th.need_exit \/ env.exit_req)
    OBVIOUS
  <2>3. b \in BOOLEAN
    BY <2>2
  <2>4. EnterCq(q).need_exit = th.need_exit
    BY DEF EnterCq, ThreadType
  <2>5. th' = [EnterCq(q) EXCEPT !.need_exit = b]
    BY <1>1, <2>2, <2>4 DEF Fetch
  <2> QED BY <2>3, <2>5 DEF EnterCq, ThreadType
<1>6. ThreadIs(th', "cq", First(q), q, th.tid, th.err, th.cplt_tids, th.query)
  BY <1>2, <1>3, <1>5 DEF ThreadIs, ThreadType
<1> QED BY <1>2, <1>3, <1>4, <1>6 DEF QueuesNow, ThreadIs, CursorOK

\* The thread's record after a step, put together from its parts.
LEMMA Arranged ==
  ASSUME UNCHANGED env, NEW pc \in {"cq", "tid", "end"}, NEW cur, NEW cq, NEW tid, NEW err, NEW query,
         ThreadIs(th', pc, cur, cq, tid, err, th.cplt_tids, query),
         Queues(env.queue, cq, tid, err, RefusedCmds),
         pc = "cq" => cur \subseteq Elems(cq), pc = "tid" => cur \subseteq Elems(tid)
  PROVE  QueuesNow(Elems(cq), Elems(tid), Elems(err), query)
  BY DEF QueuesNow, ThreadIs, CursorOK

\* What PollFails makes of the thread.
GivenUp(x) == [NextCq(x) EXCEPT !.cq = Without(@, x), !.err = Append(@, x)]

LEMMA EffectPollFails ==
  ASSUME th \in ThreadType, QueueInv, th.pc = "cq", UNCHANGED env, NEW x \in th.cur,
         th' = GivenUp(x)
  PROVE  /\ OnCq(x)
         /\ QueuesNow(Elems(th.cq) \ {x}, Elems(th.tid), Elems(th.err) \cup {x}, th.query)
<1>1. PICK t, cq, err : t = Taken(x) /\ cq = Without(th.cq, x) /\ err = Append(th.err, x)
  OBVIOUS
<1>2. /\ OnCq(x) /\ Queues(env.queue, cq, th.tid, th.err, RefusedCmds)
      /\ ThreadIs(t, "cq", After(th.cq, x), cq, th.tid, th.err, th.cplt_tids, th.query)
      /\ Elems(cq) = Elems(th.cq) \ {x} /\ After(th.cq, x) \subseteq Elems(cq)
  BY <1>1, TakenFromCq
<1>3. /\ Queues(env.queue, cq, th.tid, err, RefusedCmds)
      /\ err \in Seq(Ctxs) /\ Elems(err) = Elems(th.err) \cup {x}
  BY <1>1, <1>2, EnterErrQueue DEF OnCq
<1>4. th' = [t EXCEPT !.err = err]
  <2>1. NextCq(x).err = th.err /\ NextCq(x).cq = th.cq
    BY <1>2, CursorMoved DEF OnCq, ThreadIs
  <2>2. th' = [NextCq(x) EXCEPT !.cq = cq, !.err = err]
    BY <1>1, <2>1 DEF GivenUp
  <2>3. t = [NextCq(x) EXCEPT !.cq = cq]
    BY <1>1, <2>1 DEF Taken
  <2> QED BY <2>2, <2>3
<1>5. ThreadIs(th', "cq", After(th.cq, x), cq, th.tid, err, th.cplt_tids, th.query)
  <2>1. ThreadIs([t EXCEPT !.err = err], "cq", After(th.cq, x), cq, th.tid, err, th.cplt_tids,
                 th.query)
    BY <1>2, <1>3, QueueReplaced
  <2> QED BY <1>4, <2>1
<1>6. QueuesNow(Elems(cq), Elems(th.tid), Elems(err), th.query)
  BY <1>2, <1>3, <1>5, Arranged
<1> QED BY <1>2, <1>3, <1>6

\* polling_thread_process_cplt_cmd changes the thread's queues only where it is told
\* to for a busy waiter, and the query task only for Query.
LEMMA EffectComplete ==
  ASSUME NEW x, NEW c, NEW t, NEW busy, NEW pc, NEW cur, NEW cq, NEW tid, NEW err, NEW ids,
         NEW query, ThreadIs(t, pc, cur, cq, tid, err, ids, query),
         process_cplt_cmd(x, c, t, busy)
  PROVE  \/ /\ CompleteQuery(x, c, t)
            /\ \E q \in {"finished", "error"} : ThreadIs(th', pc, cur, cq, tid, err, ids, q)
         \/ /\ CompleteAsync(x, c, t) \/ CompleteSync(x, c, t)
            /\ ThreadIs(th', pc, cur, cq, tid, err, ids, query)
         \/ CompleteBusy(x, c, busy)
<1>1. CASE CompleteQuery(x, c, t)
  <2>1. th' = [t EXCEPT !.query = "finished"] \/ th' = [t EXCEPT !.query = "error"]
    BY <1>1 DEF CompleteQuery
  <2>2. /\ ThreadIs([t EXCEPT !.query = "finished"], pc, cur, cq, tid, err, ids, "finished")
        /\ ThreadIs([t EXCEPT !.query = "error"], pc, cur, cq, tid, err, ids, "error")
    BY QueryReplaced
  <2>3. \E q \in {"finished", "error"} : ThreadIs(th', pc, cur, cq, tid, err, ids, q)
    BY <2>1, <2>2
  <2> QED BY <1>1, <2>3
<1>2. CASE CompleteAsync(x, c, t)
  BY <1>2 DEF CompleteAsync
<1>3. CASE CompleteSync(x, c, t)
  <2>1. x \in Sync /\ th' = [t EXCEPT !.bcast = {x}]
    BY <1>3 DEF CompleteSync
  <2> QED BY <1>3, <2>1, QueryReplaced
<1> QED BY <1>1, <1>2, <1>3 DEF process_cplt_cmd

LEMMA EffectShort ==
  ASSUME th \in ThreadType, QueueInv, th.pc \in {"cq", "polled"}, UNCHANGED env,
         NEW x \in th.cur,
         process_cplt_cmd(x, ctx, Taken(x), [Taken(x) EXCEPT !.cq = Append(@, x)])
  PROVE  /\ OnCq(x)
         /\ \/ /\ CompleteQuery(x, ctx, Taken(x))
               /\ \E q \in {"finished", "error"} :
                    QueuesNow(Elems(th.cq) \ {x}, Elems(th.tid), Elems(th.err), q)
            \/ /\ CompleteAsync(x, ctx, Taken(x)) \/ CompleteSync(x, ctx, Taken(x))
               /\ QueuesNow(Elems(th.cq) \ {x}, Elems(th.tid), Elems(th.err), th.query)
            \/ /\ x \in Sync /\ ctx' = ctx /\ answers' = answers /\ use_cnt' = use_cnt
               /\ QueuesNow(Elems(th.cq), Elems(th.tid), Elems(th.err), th.query)
<1>1. /\ OnCq(x)
      /\ Queues(env.queue, Without(th.cq, x), th.tid, th.err, RefusedCmds)
      /\ ThreadIs(Taken(x), "cq", After(th.cq, x), Without(th.cq, x), th.tid, th.err,
                  th.cplt_tids, th.query)
      /\ Elems(Without(th.cq, x)) = Elems(th.cq) \ {x}
      /\ After(th.cq, x) \subseteq Elems(th.cq) \ {x}
  BY TakenFromCq
<1>2. ASSUME NEW q, ThreadIs(th', "cq", After(th.cq, x), Without(th.cq, x), th.tid, th.err,
                             th.cplt_tids, q)
      PROVE  QueuesNow(Elems(th.cq) \ {x}, Elems(th.tid), Elems(th.err), q)
  <2>1. QueuesNow(Elems(Without(th.cq, x)), Elems(th.tid), Elems(th.err), q)
    BY <1>1, <1>2, Arranged
  <2> QED BY <1>1, <2>1
<1>3. CASE CompleteBusy(x, ctx, [Taken(x) EXCEPT !.cq = Append(@, x)])
  <2>1. PICK q : q = Append(Without(th.cq, x), x)
    OBVIOUS
  <2>2. /\ Queues(env.queue, q, th.tid, th.err, RefusedCmds) /\ q \in Seq(Ctxs)
        /\ Elems(q) = (Elems(th.cq) \ {x}) \cup {x}
    BY <1>1, <2>1, EnterCqQueue DEF OnCq
  <2>3. Taken(x).cq = Without(th.cq, x)
    BY <1>1 DEF ThreadIs
  <2>4. th' = [Taken(x) EXCEPT !.cq = q]
    BY <1>3, <2>1, <2>3 DEF CompleteBusy
  <2>5. ThreadIs(th', "cq", After(th.cq, x), q, th.tid, th.err, th.cplt_tids, th.query)
    BY <1>1, <2>2, <2>4, QueueReplaced
  <2>6. Elems(q) = Elems(th.cq)
    BY <1>1, <2>2 DEF OnCq
  <2>7. QueuesNow(Elems(q), Elems(th.tid), Elems(th.err), th.query)
    BY <1>1, <2>2, <2>5, <2>6, Arranged
  <2> QED BY <1>1, <1>3, <2>6, <2>7 DEF CompleteBusy
<1>4. CASE CompleteQuery(x, ctx, Taken(x))
           /\ \E q \in {"finished", "error"} :
                ThreadIs(th', "cq", After(th.cq, x), Without(th.cq, x), th.tid, th.err,
                         th.cplt_tids, q)
  BY <1>1, <1>2, <1>4
<1>5. CASE (CompleteAsync(x, ctx, Taken(x)) \/ CompleteSync(x, ctx, Taken(x)))
           /\ ThreadIs(th', "cq", After(th.cq, x), Without(th.cq, x), th.tid, th.err,
                       th.cplt_tids, th.query)
  BY <1>1, <1>2, <1>5
<1> QED BY <1>1, <1>3, <1>4, <1>5, EffectComplete

LEMMA ToTid ==
  ASSUME th \in ThreadType, QueueInv, th.pc \in {"cq", "polled"}, NEW x \in th.cur \cap Long
  PROVE  \E cq, tid :
           /\ OnCq(x) /\ Queues(env.queue, cq, tid, th.err, RefusedCmds)
           /\ ThreadIs(ToTidQueue(x), "cq", After(th.cq, x), cq, tid, th.err, th.cplt_tids, th.query)
           /\ Elems(cq) = Elems(th.cq) \ {x} /\ Elems(tid) = Elems(th.tid) \cup {x}
           /\ After(th.cq, x) \subseteq Elems(cq)
<1>1. PICK t, cq, tid : t = Taken(x) /\ cq = Without(th.cq, x) /\ tid = Append(th.tid, x)
  OBVIOUS
<1>2. /\ OnCq(x) /\ Queues(env.queue, cq, th.tid, th.err, RefusedCmds)
      /\ ThreadIs(t, "cq", After(th.cq, x), cq, th.tid, th.err, th.cplt_tids, th.query)
      /\ Elems(cq) = Elems(th.cq) \ {x} /\ After(th.cq, x) \subseteq Elems(cq)
  BY <1>1, TakenFromCq
<1>3. /\ Queues(env.queue, cq, tid, th.err, RefusedCmds)
      /\ tid \in Seq(Long) /\ Elems(tid) = Elems(th.tid) \cup {x}
  BY <1>1, <1>2, EnterTidQueue DEF OnCq
<1>4. tid \in Seq(Ctxs)
  BY <1>3, CommandAssumption DEF Ctxs
<1>5. ThreadIs([t EXCEPT !.tid = tid], "cq", After(th.cq, x), cq, tid, th.err, th.cplt_tids,
               th.query)
  BY <1>2, <1>4, QueueReplaced
<1>6. ToTidQueue(x) = [t EXCEPT !.tid = tid]
  BY <1>1, <1>2 DEF ToTidQueue, ThreadIs
<1> QED BY <1>2, <1>3, <1>5, <1>6

LEMMA EffectLong ==
  ASSUME th \in ThreadType, QueueInv, th.pc \in {"cq", "polled"}, UNCHANGED env,
         NEW x \in th.cur \cap Long, th' = ToTidQueue(x)
  PROVE  /\ OnCq(x)
         /\ QueuesNow(Elems(th.cq) \ {x}, Elems(th.tid) \cup {x}, Elems(th.err), th.query)
<1>1. PICK cq, tid :
           /\ OnCq(x) /\ Queues(env.queue, cq, tid, th.err, RefusedCmds)
           /\ ThreadIs(ToTidQueue(x), "cq", After(th.cq, x), cq, tid, th.err, th.cplt_tids, th.query)
           /\ Elems(cq) = Elems(th.cq) \ {x} /\ Elems(tid) = Elems(th.tid) \cup {x}
           /\ After(th.cq, x) \subseteq Elems(cq)
  BY ToTid
<1>2. ThreadIs(th', "cq", After(th.cq, x), cq, tid, th.err, th.cplt_tids, th.query)
  BY <1>1
<1>3. QueuesNow(Elems(cq), Elems(tid), Elems(th.err), th.query)
  BY <1>1, <1>2, Arranged
<1> QED BY <1>1, <1>3

LEMMA EffectLongError ==
  ASSUME th \in ThreadType, QueueInv, th.pc \in {"cq", "polled"}, UNCHANGED env,
         NEW x \in th.cur \cap Long, x \in RefusedCmds,
         process_cplt_cmd(x, AwaitingTid(x), ToTidQueue(x),
                          [ToTidQueue(x) EXCEPT !.err = Append(@, x)])
  PROVE  /\ OnCq(x)
         /\ \/ /\ CompleteAsync(x, AwaitingTid(x), ToTidQueue(x))
                  \/ CompleteSync(x, AwaitingTid(x), ToTidQueue(x))
               /\ QueuesNow(Elems(th.cq) \ {x}, Elems(th.tid) \cup {x}, Elems(th.err), th.query)
            \/ /\ ctx' = AwaitingTid(x) /\ answers' = answers /\ use_cnt' = use_cnt
               /\ QueuesNow(Elems(th.cq) \ {x}, Elems(th.tid) \cup {x}, Elems(th.err) \cup {x},
                            th.query)
<1>1. PICK cq, tid :
           /\ OnCq(x) /\ Queues(env.queue, cq, tid, th.err, RefusedCmds)
           /\ ThreadIs(ToTidQueue(x), "cq", After(th.cq, x), cq, tid, th.err, th.cplt_tids, th.query)
           /\ Elems(cq) = Elems(th.cq) \ {x} /\ Elems(tid) = Elems(th.tid) \cup {x}
           /\ After(th.cq, x) \subseteq Elems(cq)
  BY ToTid
<1>2. CASE CompleteBusy(x, AwaitingTid(x), [ToTidQueue(x) EXCEPT !.err = Append(@, x)])
  <2>1. PICK t, err : t = ToTidQueue(x) /\ err = Append(th.err, x)
    OBVIOUS
  <2>2. /\ Queues(env.queue, cq, tid, err, RefusedCmds)
        /\ err \in Seq(Ctxs) /\ Elems(err) = Elems(th.err) \cup {x}
    BY <1>1, <2>1, EnterErrQueue DEF OnCq
  <2>3. ThreadIs([t EXCEPT !.err = err], "cq", After(th.cq, x), cq, tid, err, th.cplt_tids,
                 th.query)
    BY <1>1, <2>1, <2>2, QueueReplaced
  <2>4. th' = [t EXCEPT !.err = err]
    BY <1>1, <1>2, <2>1 DEF CompleteBusy, ThreadIs
  <2>5. ThreadIs(th', "cq", After(th.cq, x), cq, tid, err, th.cplt_tids, th.query)
    BY <2>3, <2>4
  <2>6. QueuesNow(Elems(cq), Elems(tid), Elems(err), th.query)
    BY <1>1, <2>2, <2>5, Arranged
  <2>7. ctx' = AwaitingTid(x) /\ answers' = answers /\ use_cnt' = use_cnt
    BY <1>2 DEF CompleteBusy
  <2> QED BY <1>1, <2>2, <2>6, <2>7
<1>3. CASE (CompleteAsync(x, AwaitingTid(x), ToTidQueue(x))
               \/ CompleteSync(x, AwaitingTid(x), ToTidQueue(x)))
           /\ ThreadIs(th', "cq", After(th.cq, x), cq, tid, th.err, th.cplt_tids, th.query)
  <2>1. QueuesNow(Elems(cq), Elems(tid), Elems(th.err), th.query)
    BY <1>1, <1>3, Arranged
  <2> QED BY <1>1, <1>3, <2>1
<1>4. ~CompleteQuery(x, AwaitingTid(x), ToTidQueue(x))
  BY CommandAssumption DEF CompleteQuery
<1> QED BY <1>1, <1>2, <1>3, <1>4, EffectComplete

\* x is on tid_queue, and nowhere else unless it was refused.
OnTid(x) == /\ x \in Long /\ x \in Elems(th.tid) /\ x \in Ctxs
            /\ x \notin Elems(env.queue) \cup Elems(th.cq)
            /\ x \in Elems(th.err) => x \in RefusedCmds

TakenTid(x) == [NextTid(x) EXCEPT !.tid = Without(@, x)]

LEMMA TakenFromTid ==
  ASSUME th \in ThreadType, QueueInv, th.pc = "tid", NEW x \in th.cur
  PROVE  /\ OnTid(x)
         /\ Queues(env.queue, th.cq, Without(th.tid, x), th.err, RefusedCmds)
         /\ ThreadIs(TakenTid(x), "tid", After(th.tid, x), th.cq, Without(th.tid, x), th.err,
                     th.cplt_tids, th.query)
         /\ Elems(Without(th.tid, x)) = Elems(th.tid) \ {x}
         /\ After(th.tid, x) \subseteq Elems(th.tid) \ {x}
<1>1. x \in Elems(th.tid) /\ x \in Ctxs
  BY ThreadFields DEF QueueInv, CursorOK
<1>2. /\ Queues(env.queue, th.cq, Without(th.tid, x), th.err, RefusedCmds)
      /\ Without(th.tid, x) \in Seq(Long)
      /\ Elems(Without(th.tid, x)) = Elems(th.tid) \ {x}
      /\ After(th.tid, x) \subseteq Elems(th.tid) \ {x}
      /\ x \notin Elems(env.queue) \cup Elems(th.cq)
      /\ x \in Elems(th.err) => x \in RefusedCmds
  BY <1>1, LeaveTid DEF QueueInv
<1>3. Without(th.tid, x) \in Seq(Ctxs)
  BY <1>2, CommandAssumption DEF Ctxs
<1>4. ThreadIs(NextTid(x), "tid", After(th.tid, x), th.cq, th.tid, th.err, th.cplt_tids, th.query)
  BY <1>1, CursorMoved
<1>5. ThreadIs([NextTid(x) EXCEPT !.tid = Without(th.tid, x)], "tid", After(th.tid, x), th.cq,
               Without(th.tid, x), th.err, th.cplt_tids, th.query)
  BY <1>3, <1>4, QueueReplaced
<1>6. TakenTid(x) = [NextTid(x) EXCEPT !.tid = Without(th.tid, x)]
  BY <1>4 DEF TakenTid, ThreadIs
<1>7. x \in Long
  BY <1>1, ElemsOf DEF QueueInv, Queues
<1> QED BY <1>1, <1>2, <1>5, <1>6, <1>7 DEF OnTid

\* What QueryResult and QueryResultFails make of the thread.
ToCqQueue(x) == [NextTid(x) EXCEPT !.tid = Without(@, x), !.cq = Append(@, x)]
ToErrQueue(x) == [NextTid(x) EXCEPT !.tid = Without(@, x), !.err = Append(@, x)]

LEMMA EffectQueryResult ==
  ASSUME th \in ThreadType, QueueInv, th.pc = "tid", UNCHANGED env, NEW x \in th.cur,
         x \notin RefusedCmds
  PROVE  /\ OnTid(x)
         /\ th' = ToCqQueue(x) =>
              QueuesNow(Elems(th.cq) \cup {x}, Elems(th.tid) \ {x}, Elems(th.err), th.query)
         /\ th' = ToErrQueue(x) =>
              QueuesNow(Elems(th.cq), Elems(th.tid) \ {x}, Elems(th.err) \cup {x}, th.query)
<1>1. PICK t, cq, tid, err : /\ t = TakenTid(x) /\ cq = Append(th.cq, x)
                             /\ tid = Without(th.tid, x) /\ err = Append(th.err, x)
  OBVIOUS
<1>2. /\ OnTid(x) /\ Queues(env.queue, th.cq, tid, th.err, RefusedCmds)
      /\ ThreadIs(t, "tid", After(th.tid, x), th.cq, tid, th.err, th.cplt_tids, th.query)
      /\ Elems(tid) = Elems(th.tid) \ {x} /\ After(th.tid, x) \subseteq Elems(tid)
  BY <1>1, TakenFromTid
<1>3. NextTid(x).tid = th.tid /\ NextTid(x).cq = th.cq /\ NextTid(x).err = th.err
  BY <1>2, CursorMoved DEF OnTid, ThreadIs
<1>4. x \notin Elems(env.queue) \cup Elems(th.cq) \cup Elems(tid) \cup Elems(th.err) /\ x \in Ctxs
  BY <1>2 DEF OnTid
<1>5. t = [NextTid(x) EXCEPT !.tid = tid]
  BY <1>1, <1>3 DEF TakenTid
<1>6. ASSUME th' = ToCqQueue(x)
      PROVE  QueuesNow(Elems(th.cq) \cup {x}, Elems(th.tid) \ {x}, Elems(th.err), th.query)
  <2>1. /\ Queues(env.queue, cq, tid, th.err, RefusedCmds)
        /\ cq \in Seq(Ctxs) /\ Elems(cq) = Elems(th.cq) \cup {x}
    BY <1>1, <1>2, <1>4, EnterCqQueue
  <2>2. th' = [t EXCEPT !.cq = cq]
    <3>1. th' = [NextTid(x) EXCEPT !.tid = tid, !.cq = cq]
      BY <1>1, <1>3, <1>6 DEF ToCqQueue
    <3> QED BY <1>5, <3>1
  <2>3. ThreadIs([t EXCEPT !.cq = cq], "tid", After(th.tid, x), cq, tid, th.err, th.cplt_tids,
                 th.query)
    BY <1>2, <2>1, QueueReplaced
  <2>4. ThreadIs(th', "tid", After(th.tid, x), cq, tid, th.err, th.cplt_tids, th.query)
    BY <2>2, <2>3
  <2>5. QueuesNow(Elems(cq), Elems(tid), Elems(th.err), th.query)
    BY <1>2, <2>1, <2>4, Arranged
  <2> QED BY <1>2, <2>1, <2>5
<1>7. ASSUME th' = ToErrQueue(x)
      PROVE  QueuesNow(Elems(th.cq), Elems(th.tid) \ {x}, Elems(th.err) \cup {x}, th.query)
  <2>1. /\ Queues(env.queue, th.cq, tid, err, RefusedCmds)
        /\ err \in Seq(Ctxs) /\ Elems(err) = Elems(th.err) \cup {x}
    BY <1>1, <1>2, <1>4, EnterErrQueue
  <2>2. th' = [t EXCEPT !.err = err]
    <3>1. th' = [NextTid(x) EXCEPT !.tid = tid, !.err = err]
      BY <1>1, <1>3, <1>7 DEF ToErrQueue
    <3> QED BY <1>5, <3>1
  <2>3. ThreadIs([t EXCEPT !.err = err], "tid", After(th.tid, x), th.cq, tid, err, th.cplt_tids,
                 th.query)
    BY <1>2, <2>1, QueueReplaced
  <2>4. ThreadIs(th', "tid", After(th.tid, x), th.cq, tid, err, th.cplt_tids, th.query)
    BY <2>2, <2>3
  <2>5. QueuesNow(Elems(th.cq), Elems(tid), Elems(err), th.query)
    BY <1>2, <2>1, <2>4, Arranged
  <2> QED BY <1>2, <2>1, <2>5
<1> QED BY <1>2, <1>6, <1>7

LEMMA EffectLongDone ==
  ASSUME th \in ThreadType, QueueInv, th.pc = "tid", UNCHANGED env, NEW x \in th.cur,
         x \notin RefusedCmds,
         process_cplt_cmd(x, ctx, TakenTid(x), [TakenTid(x) EXCEPT !.tid = Append(@, x)])
  PROVE  /\ OnTid(x)
         /\ \/ /\ CompleteAsync(x, ctx, TakenTid(x)) \/ CompleteSync(x, ctx, TakenTid(x))
               /\ QueuesNow(Elems(th.cq), Elems(th.tid) \ {x}, Elems(th.err), th.query)
            \/ /\ ctx' = ctx /\ answers' = answers /\ use_cnt' = use_cnt
               /\ QueuesNow(Elems(th.cq), Elems(th.tid), Elems(th.err), th.query)
<1>1. PICK t, tid : t = TakenTid(x) /\ tid = Without(th.tid, x)
  OBVIOUS
<1>2. /\ OnTid(x) /\ Queues(env.queue, th.cq, tid, th.err, RefusedCmds)
      /\ ThreadIs(t, "tid", After(th.tid, x), th.cq, tid, th.err, th.cplt_tids, th.query)
      /\ Elems(tid) = Elems(th.tid) \ {x} /\ After(th.tid, x) \subseteq Elems(tid)
  BY <1>1, TakenFromTid
<1>3. CASE CompleteBusy(x, ctx, [t EXCEPT !.tid = Append(@, x)])
  <2>1. PICK q : q = Append(tid, x)
    OBVIOUS
  <2>2. /\ Queues(env.queue, th.cq, q, th.err, RefusedCmds) /\ q \in Seq(Long)
        /\ Elems(q) = (Elems(th.tid) \ {x}) \cup {x}
    BY <1>2, <2>1, EnterTidQueue DEF OnTid
  <2>3. q \in Seq(Ctxs) /\ Elems(q) = Elems(th.tid)
    BY <1>2, <2>2, CommandAssumption DEF Ctxs, OnTid
  <2>4. th' = [t EXCEPT !.tid = q]
    BY <1>2, <1>3, <2>1 DEF CompleteBusy, ThreadIs
  <2>5. ThreadIs([t EXCEPT !.tid = q], "tid", After(th.tid, x), th.cq, q, th.err, th.cplt_tids,
                 th.query)
    BY <1>2, <2>3, QueueReplaced
  <2>6. ThreadIs(th', "tid", After(th.tid, x), th.cq, q, th.err, th.cplt_tids, th.query)
    BY <2>4, <2>5
  <2>7. QueuesNow(Elems(th.cq), Elems(q), Elems(th.err), th.query)
    <3>1. After(th.tid, x) \subseteq Elems(q)
      BY <1>2, <2>3
    <3> QED BY <2>2, <2>6, <3>1, Arranged
  <2>8. ctx' = ctx /\ answers' = answers /\ use_cnt' = use_cnt
    BY <1>3 DEF CompleteBusy
  <2> QED BY <1>2, <2>3, <2>7, <2>8
<1>4. CASE (CompleteAsync(x, ctx, t) \/ CompleteSync(x, ctx, t))
           /\ ThreadIs(th', "tid", After(th.tid, x), th.cq, tid, th.err, th.cplt_tids, th.query)
  <2>1. QueuesNow(Elems(th.cq), Elems(tid), Elems(th.err), th.query)
    BY <1>2, <1>4, Arranged
  <2> QED BY <1>1, <1>2, <1>4, <2>1
<1>5. ~CompleteQuery(x, ctx, t)
  BY <1>2, CommandAssumption DEF CompleteQuery, OnTid
<1>6. process_cplt_cmd(x, ctx, t, [t EXCEPT !.tid = Append(@, x)])
  BY <1>1
<1> QED BY <1>2, <1>3, <1>4, <1>5, <1>6, EffectComplete

LEMMA EffectSendQuery ==
  ASSUME th \in ThreadType, QueueInv, th.pc # "exited", UNCHANGED env,
         Query \notin Elems(th.cq) \cup Elems(th.err),
         th' = [th EXCEPT !.pc = "end", !.query = "running", !.timer = "off",
                          !.cq = Append(@, Query)]
  PROVE  QueuesNow(Elems(th.cq) \cup {Query}, Elems(th.tid), Elems(th.err), "running")
<1>1. PICK cq : cq = Append(th.cq, Query)
  OBVIOUS
<1>2. Query \in Ctxs /\ Query \notin Elems(env.queue) \cup Elems(th.tid)
  <2>1. Elems(env.queue) \subseteq Cmds /\ Elems(th.tid) \subseteq Long
    BY ElemsOf DEF QueueInv, Queues
  <2> QED BY <2>1, CommandAssumption DEF Ctxs
<1>3. /\ Queues(env.queue, cq, th.tid, th.err, RefusedCmds)
      /\ cq \in Seq(Ctxs) /\ Elems(cq) = Elems(th.cq) \cup {Query}
  BY <1>1, <1>2, EnterCqQueue DEF QueueInv
<1>4. ThreadIs(th', "end", th.cur, cq, th.tid, th.err, th.cplt_tids, "running")
  BY <1>1, <1>3 DEF ThreadIs, ThreadType
<1>5. QueuesNow(Elems(cq), Elems(th.tid), Elems(th.err), "running")
  BY <1>3, <1>4, Arranged
<1> QED BY <1>3, <1>5

\* The environment's destructor and fini empty the queues.
LEMMA EffectExit ==
  ASSUME th \in ThreadType, QueueInv, UNCHANGED <<env, posted>>,
         th' = [th EXCEPT !.pc = "exited", !.cq = <<>>, !.tid = <<>>, !.err = <<>>,
                          !.cplt_tids = {}, !.timer = "off"]
  PROVE  /\ th' \in ThreadType /\ QueueInv' /\ th'.pc = "exited" /\ th'.cplt_tids = {}
         /\ Elems(th'.cq) = {} /\ Elems(th'.tid) = {} /\ Elems(th'.err) = {}
<1>1. /\ <<>> \in Seq(Ctxs) /\ <<>> \in Seq(Long) /\ Elems(<<>>) = {} /\ Injective(<<>>)
  BY EmptyQueue
<1>2. /\ th' \in ThreadType /\ th'.pc = "exited" /\ th'.cplt_tids = {}
      /\ th'.cq = <<>> /\ th'.tid = <<>> /\ th'.err = <<>>
  BY <1>1 DEF ThreadType
<1>3. RefusedCmds' = RefusedCmds
  BY DEF RefusedCmds, Refused
<1>4. QueueInv'
  BY <1>1, <1>2, <1>3 DEF QueueInv, Queues, CursorOK
<1> QED BY <1>1, <1>2, <1>4

LEMMA EffectFiniJoin ==
  ASSUME th \in ThreadType, EnvType, QueueInv, UNCHANGED <<th, posted>>,
         env' = [env EXCEPT !.queue = <<>>]
  PROVE  QueueInv' /\ EnvType' /\ Elems(env'.queue) = {}
<1>1. <<>> \in Seq(Cmds) /\ Elems(<<>>) = {} /\ Injective(<<>>)
  BY EmptyQueue
<1>2. EnvType' /\ env'.queue = <<>>
  BY <1>1 DEF EnvType
<1>3. RefusedCmds' = RefusedCmds
  BY DEF RefusedCmds, Refused
<1>4. QueueInv'
  BY <1>1, <1>2, <1>3 DEF QueueInv, Queues
<1> QED BY <1>1, <1>2, <1>4

LEMMA EffectSubmit ==
  ASSUME EnvType, QueueInv, UNCHANGED <<th, posted>>, NEW c \in Cmds,
         c \notin Elems(env.queue) \cup Elems(th.cq) \cup Elems(th.tid) \cup Elems(th.err),
         env' = [env EXCEPT !.queue = Append(@, c)]
  PROVE  QueueInv' /\ EnvType' /\ Elems(env'.queue) = Elems(env.queue) \cup {c}
<1>1. PICK q : q = Append(env.queue, c)
  OBVIOUS
<1>2. /\ Queues(q, th.cq, th.tid, th.err, RefusedCmds) /\ q \in Seq(Cmds)
      /\ Elems(q) = Elems(env.queue) \cup {c}
  BY <1>1, EnterCmdQueue DEF QueueInv
<1>3. EnvType' /\ env'.queue = q
  BY <1>1, <1>2 DEF EnvType
<1>4. RefusedCmds' = RefusedCmds
  BY DEF RefusedCmds, Refused
<1>5. QueueInv'
  BY <1>2, <1>3, <1>4 DEF QueueInv
<1> QED BY <1>2, <1>3, <1>5

=============================================================================
