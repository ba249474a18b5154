--------------------------- MODULE JournalRingProofs ---------------------------
(***************************************************************************)
(* For every journal area, every set of journal sizes and any number of    *)
(* transactions and crashes: the SSD meets the published journals block by *)
(* block and in order, and the journal thread, which sees only the ring's  *)
(* two positions, reports a transaction only when the SSD has applied its  *)
(* last block.                                                             *)
(***************************************************************************)
EXTENDS JournalProcessorProofs, SequenceTheorems

-------------------------------------------------------------------------------
(* More about positions on the ring.                                       *)

\* Two moves forward are one.
LEMMA AdvanceTwice ==
  \A a \in Lpa : \A i, k \in Nat :
     i + k <= total_avail_lpa => Advance(Advance(a, k), i) = Advance(a, k + i)
  BY AreaAssumption DEF Lpa, Advance, total_avail_lpa, AreaSize

\* Going as far as b and on is going on from b.
LEMMA AdvancePast ==
  \A a, b \in Lpa : \A i \in Nat :
     Dist(a, b) + i <= total_avail_lpa => Advance(a, Dist(a, b) + i) = Advance(b, i)
  BY AreaAssumption DEF Lpa, Dist, Advance, total_avail_lpa, AreaSize

\* How far a move forward goes.
LEMMA DistOfAdvance ==
  \A a \in Lpa : \A k \in 0 .. total_avail_lpa : Dist(a, Advance(a, k)) = k
  BY AreaAssumption DEF Lpa, Dist, Advance, total_avail_lpa, AreaSize

\* b on the way from a to c splits the way in two.
LEMMA DistSplit ==
  \A a, b, c \in Lpa : Dist(a, b) <= Dist(a, c) => Dist(b, c) = Dist(a, c) - Dist(a, b)
  BY AreaAssumption DEF Lpa, Dist

\* Two ways that together do not go round the ring are one.
LEMMA DistJoin ==
  \A a, b, c \in Lpa :
     Dist(a, b) + Dist(b, c) <= total_avail_lpa => Dist(a, c) = Dist(a, b) + Dist(b, c)
  BY AreaAssumption DEF Lpa, Dist, total_avail_lpa, AreaSize

\* is_applied says no of a record that has the polled head inside it or at
\* its start: the case analysis of is_tx_record_applied on wrap-around.
LEMMA NotYetApplied ==
  \A h, t \in Lpa : \A r \in TxRecord :
     /\ 1 <= Dist(h, r.end) /\ Dist(h, r.end) <= Dist(r.start, r.end)
     /\ Dist(h, r.end) <= Dist(h, t)
     => ~is_applied(r, h, t)
<1> SUFFICES ASSUME NEW h \in Lpa, NEW t \in Lpa, NEW r \in TxRecord,
                    1 <= Dist(h, r.end), Dist(h, r.end) <= Dist(r.start, r.end),
                    Dist(h, r.end) <= Dist(h, t)
             PROVE  ~is_applied(r, h, t)
  OBVIOUS
<1> DEFINE s == r.start
           e == r.end
<1>1. /\ s \in Lpa /\ e \in Lpa
      /\ 1 <= Dist(h, e) /\ Dist(h, e) <= Dist(s, e) /\ Dist(h, e) <= Dist(h, t)
  BY DEF TxRecord
<1>2. is_applied(r, h, t) <=> IF s < e
                              THEN IF h <= t THEN h >= e \/ t < s ELSE h >= e
                              ELSE h <= t /\ h >= e
  BY DEF is_applied
<1> HIDE DEF s, e
<1>3. ~(IF s < e THEN IF h <= t THEN h >= e \/ t < s ELSE h >= e ELSE h <= t /\ h >= e)
  BY <1>1, AreaAssumption DEF Lpa, Dist
<1> QED BY <1>2, <1>3

-------------------------------------------------------------------------------
(* The ring's contents.  The inductive form of RingHoldsJournals takes the *)
(* concatenation apart, and remembers between write_to_SSD and the tail    *)
(* update that the blocks are on the ring.                                 *)
AppliedInOrder == \A k \in 1 .. Len(applied) : applied[k] = published[k]
LiveInOrder == \A k \in 1 .. Live : LiveBlock(k) = published[Len(applied) + k]
AllThere == Len(published) = Len(applied) + Live
Written == proc = "publish" =>
    \A i \in 1 .. cur_journal.blocks : flash[Advance(tail_lpa, i - 1)] = BlockOf(cur_journal, i)

RingInv == AppliedInOrder /\ LiveInOrder /\ AllThere /\ Written

LEMMA RingTypes ==
  ASSUME NInv
  PROVE  /\ Live \in 0 .. total_avail_lpa /\ total_avail_lpa \in Nat
         /\ Len(applied) \in Nat /\ Len(published) \in Nat
         /\ ssd_head \in Lpa /\ ssd_tail \in Lpa /\ head_lpa \in Lpa /\ tail_lpa \in Lpa
         /\ applied \in Seq(Block) /\ published \in Seq(Block)
         /\ cur_avail_lpa \in Nat /\ Dist(head_lpa, ssd_head) \in Nat
<1>1. ssd_head \in Lpa /\ ssd_tail \in Lpa /\ head_lpa \in Lpa /\ tail_lpa \in Lpa
  BY DEF NInv, SSDTypeOK, PosTypeOK
<1>2. Live \in 0 .. total_avail_lpa /\ total_avail_lpa \in Nat /\ Dist(head_lpa, ssd_head) \in Nat
  BY <1>1, DistRange, AreaAssumption DEF Live, total_avail_lpa, AreaSize
<1>3. applied \in Seq(Block) /\ published \in Seq(Block)
  BY DEF NInv, HistTypeOK
<1>4. cur_avail_lpa \in Nat
  BY <1>2 DEF NInv, PosTypeOK
<1> QED BY <1>1, <1>2, <1>3, <1>4

\* Steps that touch neither the ring nor the journal being written.
LEMMA RingFrame ==
  ASSUME RingInv, UNCHANGED <<flash, ssd_head, ssd_tail, applied, published>>,
         proc' = "publish" => proc = "publish" /\ UNCHANGED <<cur_journal, tail_lpa>>
  PROVE  RingInv'
  BY DEF RingInv, AppliedInOrder, LiveInOrder, AllThere, Written, Live, LiveBlock

\* write_to_SSD leaves the live range alone and puts every block in place.
LEMMA RingWrite ==
  ASSUME NInv, RingInv, WriteBlocks
  PROVE  RingInv'
<1>0. /\ Live \in 0 .. total_avail_lpa /\ total_avail_lpa \in Nat
      /\ ssd_head \in Lpa /\ ssd_tail \in Lpa /\ tail_lpa \in Lpa
      /\ cur_avail_lpa \in Nat /\ Dist(head_lpa, ssd_head) \in Nat
  BY RingTypes
<1>1. /\ Candidate \in Journal /\ Candidate.blocks \in 1 .. total_avail_lpa
      /\ Candidate.blocks <= cur_avail_lpa /\ cur_journal' = Candidate
  BY TakeCandidateType, BlocksType DEF WriteBlocks, HasSpace, TakeCandidate
<1>2. /\ tail_lpa = ssd_tail
      /\ cur_avail_lpa + Dist(head_lpa, ssd_head) + Live = total_avail_lpa
  BY DEF NInv, SpaceAccounting, WriteBlocks
<1>3. UNCHANGED <<ssd_head, ssd_tail, tail_lpa, applied, published>>
  BY DEF WriteBlocks, posVars, histVars
<1>4. \A k \in 1 .. Live : LiveBlock(k)' = LiveBlock(k)
  <2> TAKE k \in 1 .. Live
  <2> DEFINE l == Advance(ssd_head, k - 1)
  <2>1. l \in Lpa /\ Dist(ssd_head, l) = k - 1 /\ k \in Nat /\ k - 1 < Live
    BY <1>0, AdvanceType, DistOfAdvance
  <2>2. l \notin TargetLpas(tail_lpa, Candidate)
    <3> SUFFICES ASSUME NEW i \in 0 .. (Candidate.blocks - 1), l = Advance(tail_lpa, i)
                 PROVE  FALSE
      BY DEF TargetLpas
    <3>1. i \in Nat /\ Live + i <= total_avail_lpa
      BY <1>0, <1>1, <1>2
    <3>2. Dist(ssd_head, Advance(ssd_tail, i)) = Live + i
      BY <1>0, <3>1, DistAdvanceFar DEF Live
    <3> QED BY <1>0, <1>2, <2>1, <3>1, <3>2
  <2>3. flash'[l] = flash[l]
    BY <2>1, <2>2 DEF WriteBlocks
  <2> QED BY <1>3, <2>3 DEF LiveBlock
<1>5. Written'
  <2> SUFFICES ASSUME NEW i \in 1 .. Candidate.blocks
               PROVE  flash'[Advance(tail_lpa, i - 1)] = BlockOf(Candidate, i)
    BY <1>1, <1>3 DEF Written
  <2> DEFINE l == Advance(tail_lpa, i - 1)
  <2>1. i - 1 \in 0 .. (Candidate.blocks - 1) /\ i - 1 \in 0 .. total_avail_lpa /\ i \in Int
    BY <1>0, <1>1
  <2>2. l \in Lpa /\ Dist(tail_lpa, l) = i - 1
    BY <1>0, <2>1, AdvanceType, DistOfAdvance
  <2>3. l \in TargetLpas(tail_lpa, Candidate)
    BY <2>1 DEF TargetLpas
  <2>4. flash'[l] = BlockOf(Candidate, Dist(tail_lpa, l) + 1)
    BY <2>2, <2>3 DEF WriteBlocks
  <2>5. Dist(tail_lpa, l) + 1 = i
    BY <2>1, <2>2
  <2> QED BY <2>4, <2>5
<1>6. Live' = Live
  BY <1>3 DEF Live
<1> QED BY <1>3, <1>4, <1>5, <1>6 DEF RingInv, AppliedInOrder, LiveInOrder, AllThere

\* The tail update adds the journal's blocks to the live range.
LEMMA RingPublish ==
  ASSUME NInv, RingInv, PublishTail
  PROVE  RingInv'
<1> DEFINE b == cur_journal.blocks
<1>0. /\ Live \in 0 .. total_avail_lpa /\ total_avail_lpa \in Nat /\ Len(applied) \in Nat
      /\ ssd_head \in Lpa /\ ssd_tail \in Lpa /\ tail_lpa \in Lpa /\ published \in Seq(Block)
      /\ cur_avail_lpa \in Nat /\ Dist(head_lpa, ssd_head) \in Nat
  BY RingTypes
<1>1. cur_journal \in Journal /\ b \in 1 .. total_avail_lpa /\ b <= cur_avail_lpa
  BY BlocksType DEF NInv, PublishHasSpace, PublishTail
<1>2. /\ tail_lpa = ssd_tail /\ Live + b <= total_avail_lpa
  <2>1. /\ tail_lpa = ssd_tail
        /\ cur_avail_lpa + Dist(head_lpa, ssd_head) + Live = total_avail_lpa
    BY DEF NInv, SpaceAccounting, PublishTail
  <2> QED BY <2>1, <1>0, <1>1
<1>3. /\ UNCHANGED <<flash, ssd_head, applied>> /\ ssd_tail' = Advance(ssd_tail, b)
      /\ published' = published \o BlocksOf(cur_journal) /\ proc' = "cplt"
  BY <1>2 DEF PublishTail
<1>4. Live' = Live + b
  BY <1>0, <1>1, <1>2, <1>3, DistAdvanceFar DEF Live
<1>5. /\ BlocksOf(cur_journal) \in Seq(Block) /\ Len(BlocksOf(cur_journal)) = b /\ b \in Nat
      /\ \A i \in 1 .. b : BlocksOf(cur_journal)[i] = BlockOf(cur_journal, i)
  BY <1>1, BlocksOfType
<1>6. Len(published) \in Nat /\ Len(published) = Len(applied) + Live
  BY <1>0 DEF RingInv, AllThere
<1>7. /\ Len(published') = Len(published) + b
      /\ \A k \in 1 .. Len(published) : published'[k] = published[k]
      /\ \A i \in 1 .. b : published'[Len(published) + i] = BlocksOf(cur_journal)[i]
  BY <1>0, <1>3, <1>5
<1>8. AllThere'
  BY <1>0, <1>3, <1>4, <1>5, <1>6, <1>7 DEF AllThere
<1>9. AppliedInOrder'
  <2> SUFFICES ASSUME NEW k \in 1 .. Len(applied) PROVE applied[k] = published'[k]
    BY <1>3 DEF AppliedInOrder
  <2>1. k \in 1 .. Len(published)
    BY <1>0, <1>6
  <2> QED BY <2>1, <1>7 DEF RingInv, AppliedInOrder
<1>10. LiveInOrder'
  <2> SUFFICES ASSUME NEW k \in 1 .. (Live + b)
               PROVE  LiveBlock(k) = published'[Len(applied) + k]
    BY <1>3, <1>4 DEF LiveInOrder, LiveBlock
  <2>1. CASE k <= Live
    <3>1. k \in 1 .. Live /\ Len(applied) + k \in 1 .. Len(published)
      BY <1>0, <1>6, <2>1
    <3> QED BY <3>1, <1>7 DEF RingInv, LiveInOrder
  <2>2. CASE k > Live
    <3> DEFINE i == k - Live
    <3>1. i \in 1 .. b /\ Live + (i - 1) = k - 1 /\ Len(applied) + k = Len(published) + i
      BY <1>0, <1>5, <1>6, <2>2
    <3>2. Advance(ssd_head, Live + (i - 1)) = Advance(ssd_tail, i - 1)
      <4>1. i - 1 \in Nat /\ Live + (i - 1) <= total_avail_lpa
        BY <1>0, <1>1, <1>2, <3>1
      <4> QED BY <4>1, <1>0, AdvancePast DEF Live
    <3>3. flash[Advance(tail_lpa, i - 1)] = BlockOf(cur_journal, i)
      BY <3>1 DEF RingInv, Written, PublishTail
    <3>4. published'[Len(published) + i] = BlockOf(cur_journal, i)
      BY <1>5, <1>7, <3>1
    <3>5. LiveBlock(k) = flash[Advance(ssd_tail, i - 1)]
      BY <3>1, <3>2 DEF LiveBlock
    <3> QED BY <1>2, <3>1, <3>3, <3>4, <3>5
  <2> QED BY <1>0, <1>5, <2>1, <2>2
<1> QED BY <1>3, <1>8, <1>9, <1>10 DEF RingInv, Written

\* What the SSD has applied stays applied.
LEMMA AppliedGrows ==
  ASSUME NInv, SSDApply
  PROVE  \E k \in 1 .. Live :
           /\ ssd_head' = Advance(ssd_head, k)
           /\ Len(applied') = Len(applied) + k
           /\ \A j \in 1 .. Len(applied) : applied'[j] = applied[j]
           /\ \A i \in 1 .. k : applied'[Len(applied) + i] = LiveBlock(i)
           /\ k = 1
<1>0. /\ Live \in 0 .. total_avail_lpa /\ total_avail_lpa \in Nat /\ Len(applied) \in Nat
      /\ applied \in Seq(Block)
  BY RingTypes DEF NInv, SSDTypeOK
<1>1. Live > 0 /\ ssd_head' = Advance(ssd_head, 1) /\ applied' = Append(applied, LiveBlock(1))
  BY DEF SSDApply
<1>2. 1 \in 1 .. Live
  BY <1>0, <1>1
<1>3. /\ Len(applied') = Len(applied) + 1
      /\ \A j \in 1 .. Len(applied) : applied'[j] = applied[j]
      /\ applied'[Len(applied) + 1] = LiveBlock(1)
  BY <1>0, <1>1
<1>4. \A i \in 1 .. 1 : applied'[Len(applied) + i] = LiveBlock(i)
  BY <1>3
<1> QED BY <1>1, <1>2, <1>3, <1>4

\* The SSD takes blocks off the front of the live range.
LEMMA RingApply ==
  ASSUME NInv, RingInv, SSDApply
  PROVE  RingInv'
<1>0. /\ Live \in 0 .. total_avail_lpa /\ total_avail_lpa \in Nat /\ Len(applied) \in Nat
      /\ ssd_head \in Lpa /\ ssd_tail \in Lpa /\ applied \in Seq(Block)
      /\ flash \in [Lpa -> Block]
  BY RingTypes DEF NInv, SSDTypeOK
<1>1. PICK k \in 1 .. Live :
        /\ ssd_head' = Advance(ssd_head, k)
        /\ Len(applied') = Len(applied) + k
        /\ \A j \in 1 .. Len(applied) : applied'[j] = applied[j]
        /\ \A i \in 1 .. k : applied'[Len(applied) + i] = LiveBlock(i)
  BY AppliedGrows
<1>5. UNCHANGED <<proc, listVars, posVars, flash, ssd_tail, published>>
  BY DEF SSDApply
<1>2. k \in Nat /\ k <= Live /\ k \in 0 .. Dist(ssd_head, ssd_tail)
  BY <1>0 DEF Live
<1>3. Live' = Live - k
  BY <1>0, <1>1, <1>2, <1>5, DistAdvanceNear DEF Live
<1>6. AllThere'
  <2>1. Len(published) = Len(applied) + Live
    BY DEF RingInv, AllThere
  <2>2. Len(applied') + Live' = Len(applied) + Live
    BY <1>0, <1>1, <1>2, <1>3
  <2> QED BY <1>5, <2>1, <2>2 DEF AllThere
<1>7. AppliedInOrder'
  <2> SUFFICES ASSUME NEW j \in 1 .. (Len(applied) + k) PROVE applied'[j] = published[j]
    BY <1>1, <1>5 DEF AppliedInOrder
  <2>1. CASE j <= Len(applied)
    <3>1. j \in 1 .. Len(applied)
      BY <1>0, <2>1
    <3> QED BY <3>1, <1>1 DEF RingInv, AppliedInOrder
  <2>2. CASE j > Len(applied)
    <3> DEFINE i == j - Len(applied)
    <3>1. i \in 1 .. k /\ i \in 1 .. Live /\ j = Len(applied) + i
      BY <1>0, <1>2, <2>2
    <3> HIDE DEF i
    <3> QED BY <3>1, <1>1 DEF RingInv, LiveInOrder
  <2> QED BY <1>0, <2>1, <2>2
<1>8. LiveInOrder'
  <2> SUFFICES ASSUME NEW i \in 1 .. (Live - k)
               PROVE  flash[Advance(Advance(ssd_head, k), i - 1)] = published[Len(applied) + k + i]
    BY <1>1, <1>3, <1>5 DEF LiveInOrder, LiveBlock
  <2>1. /\ k + i \in 1 .. Live /\ i - 1 \in Nat /\ (i - 1) + k <= total_avail_lpa
        /\ k + (i - 1) = k + i - 1 /\ Len(applied) + (k + i) = Len(applied) + k + i
    BY <1>0, <1>2
  <2>2. Advance(Advance(ssd_head, k), i - 1) = Advance(ssd_head, k + i - 1)
    BY <1>0, <1>2, <2>1, AdvanceTwice
  <2>3. LiveBlock(k + i) = published[Len(applied) + (k + i)]
    BY <2>1 DEF RingInv, LiveInOrder
  <2> QED BY <2>1, <2>2, <2>3 DEF LiveBlock
<1>9. Written'
  BY <1>5 DEF RingInv, Written, listVars, posVars
<1> QED BY <1>6, <1>7, <1>8, <1>9 DEF RingInv

LEMMA RingStep == NInv /\ RingInv /\ [Next]_vars => RingInv'
<1> SUFFICES ASSUME NInv, RingInv, [Next]_vars PROVE RingInv'
  OBVIOUS
<1> USE DEF envVars, listVars, posVars, ssdVars, histVars
<1>1. CASE WriteBlocks
  BY <1>1, RingWrite
<1>2. CASE PublishTail
  BY <1>2, RingPublish
<1>3. CASE SSDApply
  BY <1>3, RingApply
<1>4. CASE \/ \E b \in Sizes : commit_journal(b)
           \/ stop_process_thread \/ CommitNotify \/ StopNotify \/ StopJoin
  BY <1>4, RingFrame DEF commit_journal, stop_process_thread, CommitNotify, StopNotify, StopJoin,
       WakeProcessor
<1>5. CASE FetchJournals \/ FetchNothing \/ FetchWait \/ FetchExit \/ SpuriousWakeup
           \/ PendingNothing \/ PendingNoSpace
  BY <1>5, RingFrame DEF FetchJournals, FetchNothing, FetchWait, FetchExit, SpuriousWakeup,
       PendingNothing, PendingNoSpace
<1>6. CASE enable_poll_timer \/ sync_with_SSD_journal_pos \/ NotifyCplt \/ RecordsDone
  BY <1>6, RingFrame DEF enable_poll_timer, sync_with_SSD_journal_pos, NotifyCplt, RecordsDone
<1>7. CASE Crash \/ ssd_recovery
  BY <1>7, RingFrame DEF Crash, ssd_recovery
<1>8. CASE Stopped \/ UNCHANGED vars
  BY <1>8, RingFrame DEF Stopped, vars
<1> QED BY <1>1, <1>2, <1>3, <1>4, <1>5, <1>6, <1>7, <1>8 DEF Next, Caller, Processor

LEMMA InitRing == Init => RingInv
<1> SUFFICES ASSUME Init PROVE RingInv
  OBVIOUS
<1>1. Live = 0
  BY DistSelf DEF Init, Live
<1> QED BY <1>1 DEF Init, RingInv, AppliedInOrder, LiveInOrder, AllThere, Written

\* Put together, the parts are the stream of blocks the SSD meets.
LEMMA RingInvIsRingHoldsJournals == NInv /\ RingInv => RingHoldsJournals
<1> SUFFICES ASSUME NInv, RingInv PROVE RingHoldsJournals
  OBVIOUS
<1> DEFINE live == [i \in 1 .. Live |-> LiveBlock(i)]
<1>0. /\ Live \in 0 .. total_avail_lpa /\ total_avail_lpa \in Nat /\ Len(applied) \in Nat
      /\ ssd_head \in Lpa /\ applied \in Seq(Block) /\ published \in Seq(Block)
      /\ flash \in [Lpa -> Block] /\ Live \in Nat
  BY RingTypes DEF NInv, SSDTypeOK
<1>1. live \in Seq(Block)
  <2>1. \A i \in 1 .. Live : Advance(ssd_head, i - 1) \in Lpa
    BY <1>0, AdvanceType
  <2>2. \A i \in 1 .. Live : LiveBlock(i) \in Block
    BY <1>0, <2>1 DEF LiveBlock
  <2> QED BY <1>0, <2>2
<1>2. Len(live) = Live /\ \A i \in 1 .. Live : live[i] = LiveBlock(i)
  BY <1>0
<1> HIDE DEF live
<1>3. /\ applied \o live \in Seq(Block) /\ Len(applied \o live) = Len(applied) + Live
      /\ \A j \in 1 .. Len(applied) : (applied \o live)[j] = applied[j]
      /\ \A i \in 1 .. Live : (applied \o live)[Len(applied) + i] = live[i]
  BY <1>0, <1>1, <1>2
<1>4. Len(published) = Len(applied) + Live
  BY DEF RingInv, AllThere
<1>5. ASSUME NEW j \in 1 .. Len(published) PROVE (applied \o live)[j] = published[j]
  <2>0. j \in Nat /\ j >= 1 /\ j <= Len(applied) + Live
    BY <1>0, <1>4
  <2>1. CASE j <= Len(applied)
    <3>1. j \in 1 .. Len(applied)
      BY <1>0, <2>0, <2>1
    <3> QED BY <3>1, <1>3 DEF RingInv, AppliedInOrder
  <2>2. CASE j > Len(applied)
    <3> DEFINE i == j - Len(applied)
    <3>1. i \in 1 .. Live /\ j = Len(applied) + i
      BY <1>0, <2>0, <2>2
    <3> HIDE DEF i
    <3> QED BY <3>1, <1>2, <1>3 DEF RingInv, LiveInOrder
  <2>3. j <= Len(applied) \/ j > Len(applied)
    BY <1>0, <2>0
  <2> QED BY <2>1, <2>2, <2>3, Zenon
<1>6. applied \o live = published
  BY <1>0, <1>3, <1>4, <1>5, SeqEqual
<1> QED BY <1>6 DEF RingHoldsJournals, live

LEMMA NInvAlways == Spec => []NInv
<1>1. IInv => NInv
  BY DEF IInv, TypeOK, NInv
<1> QED BY Inductive, <1>1, PTL

LEMMA RingInductive == Spec => []RingInv
  BY InitRing, RingStep, NInvAlways, PTL DEF Spec

\* What the SSD has applied and what lies between its head and its tail is
\* the sequence of published journals, block for block: write_to_SSD, the
\* wrap-around of the ring, the polling and a crash at any point never show
\* the SSD a stale, torn or overwritten block.
THEOREM RingCorrect == Spec => []RingHoldsJournals
  BY RingInductive, NInvAlways, RingInvIsRingHoldsJournals, PTL

-------------------------------------------------------------------------------
(* Which records are applied.  A record's transaction ends at some index   *)
(* of the published blocks; the invariant says that there are such indices *)
(* for the records the thread keeps, one record's length apart, the last   *)
(* one at the end of what is published, and that every record ending past  *)
(* the polled head has its end at that distance from the head.  A record   *)
(* the head has passed may lie anywhere: a partly applied record lets the  *)
(* tail go round the ring into it.                                         *)

\* The number of published blocks the thread has seen applied.
Polled == Len(applied) - Dist(head_lpa, ssd_head)

RecordLength(n) == Dist(tx_record[n].start, tx_record[n].end)

EndsTx(k, t) == k \in 1 .. Len(published) /\ published[k].tx = t /\ IsLast(published[k])

EndsAtTail(E) == tx_record # <<>> => E[Len(tx_record)] = Len(published)
EndsTile(E) == \A n \in 2 .. Len(tx_record) : E[n] - RecordLength(n) = E[n - 1]
FrontAtHead(E) == tx_record # <<>> => E[1] - RecordLength(1) <= Polled
EndsOfRecords(E) == \A n \in 1 .. Len(tx_record) : EndsTx(E[n], tx_record[n].tx)
EndsSeen(E) ==
    \A n \in 1 .. Len(tx_record) :
        E[n] > Polled => Dist(head_lpa, tx_record[n].end) = E[n] - Polled

Chain(E) == EndsAtTail(E) /\ EndsTile(E) /\ FrontAtHead(E) /\ EndsOfRecords(E) /\ EndsSeen(E)

ChainInv ==
    proc # "down" => /\ \E E \in [1 .. Len(tx_record) -> Nat] : Chain(E)
                     /\ tx_record = <<>> => Polled = Len(published)

LEMMA ChainTypes ==
  ASSUME NInv, RingInv, proc # "down"
  PROVE  /\ Polled \in Int /\ Polled <= Len(applied) /\ Polled <= Len(published)
         /\ Len(applied) \in Nat /\ Len(published) \in Nat /\ Live \in Nat
         /\ Len(published) = Len(applied) + Live
         /\ tx_record \in Seq(TxRecord) /\ Len(tx_record) \in Nat
         /\ Dist(head_lpa, tail_lpa) = Len(published) - Polled
         /\ Dist(head_lpa, ssd_head) + Live + cur_avail_lpa = total_avail_lpa
         /\ tail_lpa = ssd_tail /\ Dist(head_lpa, ssd_head) \in Nat /\ total_avail_lpa \in Nat
         /\ cur_avail_lpa \in Nat
         /\ head_lpa \in Lpa /\ tail_lpa \in Lpa /\ ssd_head \in Lpa
<1>1. /\ Live \in Nat /\ Len(applied) \in Nat /\ Len(published) \in Nat /\ cur_avail_lpa \in Nat
      /\ Dist(head_lpa, ssd_head) \in Nat /\ total_avail_lpa \in Nat
      /\ head_lpa \in Lpa /\ tail_lpa \in Lpa /\ ssd_head \in Lpa
  BY RingTypes
<1>2. /\ Len(published) = Len(applied) + Live /\ tail_lpa = ssd_tail
      /\ cur_avail_lpa + Dist(head_lpa, ssd_head) + Live = total_avail_lpa
  BY DEF RingInv, AllThere, NInv, SpaceAccounting
<1>3. Dist(head_lpa, tail_lpa) = Dist(head_lpa, ssd_head) + Live
  BY <1>1, <1>2, DistJoin DEF Live
<1>4. tx_record \in Seq(TxRecord) /\ Len(tx_record) \in Nat
  BY DEF NInv, ListTypeOK
<1> QED BY <1>1, <1>2, <1>3, <1>4 DEF Polled

LEMMA RecordTypes ==
  ASSUME NInv, NEW n \in 1 .. Len(tx_record)
  PROVE  /\ tx_record[n] \in TxRecord /\ tx_record[n].start \in Lpa /\ tx_record[n].end \in Lpa
         /\ RecordLength(n) \in Nat
<1>1. tx_record[n] \in TxRecord
  BY DEF NInv, ListTypeOK
<1>2. tx_record[n].start \in Lpa /\ tx_record[n].end \in Lpa
  BY <1>1 DEF TxRecord
<1>3. RecordLength(n) \in Nat
  BY <1>2, DistRange, AreaAssumption DEF RecordLength, total_avail_lpa, AreaSize
<1> QED BY <1>1, <1>2, <1>3

\* Steps that leave the records, the polled head and the published blocks.
LEMMA ChainFrame ==
  ASSUME ChainInv, UNCHANGED <<tx_record, head_lpa, published>>, Polled' = Polled,
         proc' # "down" => proc # "down"
  PROVE  ChainInv'
<1>1. \A E : Chain(E) => Chain(E)'
  BY DEF Chain, EndsAtTail, EndsTile, FrontAtHead, EndsOfRecords, EndsSeen, EndsTx, RecordLength
<1> QED BY <1>1 DEF ChainInv

\* The SSD's progress is seen only when it is polled.
LEMMA ChainApply ==
  ASSUME NInv, RingInv, ChainInv, SSDApply
  PROVE  ChainInv'
<1>1. PICK k \in 1 .. Live :
        ssd_head' = Advance(ssd_head, k) /\ Len(applied') = Len(applied) + k
  BY AppliedGrows
<1>4. UNCHANGED <<proc, listVars, posVars, published>>
  BY DEF SSDApply
<1>2. CASE proc = "down"
  BY <1>2, <1>4 DEF ChainInv
<1>3. CASE proc # "down"
  <2>1. /\ Live \in Nat /\ Len(applied) \in Nat /\ Dist(head_lpa, ssd_head) \in Nat
        /\ Dist(head_lpa, ssd_head) + Live + cur_avail_lpa = total_avail_lpa
        /\ head_lpa \in Lpa /\ ssd_head \in Lpa /\ total_avail_lpa \in Nat /\ cur_avail_lpa \in Nat
    BY <1>3, ChainTypes
  <2>2. k \in Nat /\ Dist(head_lpa, ssd_head) + k <= total_avail_lpa
    BY <2>1
  <2>3. Dist(head_lpa, ssd_head') = Dist(head_lpa, ssd_head) + k
    BY <1>1, <2>1, <2>2, DistAdvanceFar
  <2>5. Polled' = Polled
    BY <1>1, <1>4, <2>1, <2>2, <2>3 DEF Polled, posVars
  <2> QED BY <1>4, <2>5, ChainFrame DEF listVars, posVars
<1> QED BY <1>2, <1>3

\* Polling brings the thread's head to the SSD's.
LEMMA ChainSync ==
  ASSUME NInv, RingInv, ChainInv, sync_with_SSD_journal_pos
  PROVE  ChainInv'
<1>0. proc # "down"
  BY DEF sync_with_SSD_journal_pos
<1>1. /\ Polled \in Int /\ Polled <= Len(applied) /\ Len(applied) <= Len(published)
      /\ Len(applied) \in Nat /\ Len(published) \in Nat /\ Len(tx_record) \in Nat
      /\ Dist(head_lpa, ssd_head) \in Nat /\ head_lpa \in Lpa /\ ssd_head \in Lpa
      /\ tx_record \in Seq(TxRecord) /\ Live \in Nat
  BY <1>0, ChainTypes
<1>2. /\ head_lpa' = ssd_head /\ UNCHANGED <<tx_record, ssd_head, applied, published>>
  BY DEF sync_with_SSD_journal_pos, listVars, ssdVars, histVars
<1>3. Polled' = Len(applied)
  BY <1>1, <1>2, DistSelf DEF Polled
<1>4. PICK E \in [1 .. Len(tx_record) -> Nat] : Chain(E)
  BY <1>0 DEF ChainInv
<1>5. ASSUME NEW n \in 1 .. Len(tx_record), E[n] > Len(applied)
      PROVE  Dist(ssd_head, tx_record[n].end) = E[n] - Len(applied)
  <2>1. Dist(head_lpa, tx_record[n].end) = E[n] - Polled /\ E[n] \in Nat
    BY <1>1, <1>4, <1>5 DEF Chain, EndsSeen
  <2>2. tx_record[n].end \in Lpa
    BY RecordTypes
  <2>3. Dist(head_lpa, ssd_head) <= Dist(head_lpa, tx_record[n].end)
    BY <1>1, <1>5, <2>1 DEF Polled
  <2>4. Dist(ssd_head, tx_record[n].end) = Dist(head_lpa, tx_record[n].end) - Dist(head_lpa, ssd_head)
    BY <1>1, <2>2, <2>3, DistSplit
  <2> QED BY <1>1, <2>1, <2>4 DEF Polled
<1>6. EndsAtTail(E)' /\ EndsTile(E)' /\ EndsOfRecords(E)'
  BY <1>2, <1>4 DEF Chain, EndsAtTail, EndsTile, EndsOfRecords, EndsTx, RecordLength
<1>7. EndsSeen(E)'
  BY <1>2, <1>3, <1>5 DEF EndsSeen
<1>8. FrontAtHead(E)'
  <2> SUFFICES ASSUME tx_record # <<>> PROVE E[1] - RecordLength(1) <= Len(applied)
    BY <1>2, <1>3 DEF FrontAtHead, RecordLength
  <2>1. E[1] - RecordLength(1) <= Polled
    BY <1>4 DEF Chain, FrontAtHead
  <2>2. E[1] \in Nat /\ RecordLength(1) \in Int
    <3>1. 1 \in 1 .. Len(tx_record)
      BY <1>1
    <3> QED BY <3>1, <1>4, RecordTypes
  <2> QED BY <1>1, <2>1, <2>2
<1>9. tx_record = <<>> => Len(applied) = Len(published)
  <2>1. Polled <= Len(applied)
    BY <1>1
  <2> QED BY <1>0, <1>1, <2>1 DEF ChainInv
<1> QED BY <1>2, <1>3, <1>4, <1>6, <1>7, <1>8, <1>9 DEF ChainInv, Chain

\* The tail update appends the journal's record.
LEMMA ChainPublish ==
  ASSUME NInv, RingInv, ChainInv, PublishTail
  PROVE  ChainInv'
<1>0. proc # "down" /\ proc' # "down"
  BY DEF PublishTail
<1>a. PICK m \in Nat : m = Len(tx_record)
  BY DEF NInv, ListTypeOK
<1>b. PICK b : b = cur_journal.blocks
  OBVIOUS
<1>c. PICK r : r = [tx |-> cur_journal.tx, start |-> tail_lpa, end |-> Advance(tail_lpa, b)]
  OBVIOUS
<1>1. /\ Polled \in Int /\ Polled <= Len(published)
      /\ Len(published) \in Nat /\ m \in Nat /\ Dist(head_lpa, tail_lpa) = Len(published) - Polled
      /\ Dist(head_lpa, ssd_head) + Live + cur_avail_lpa = total_avail_lpa
      /\ Dist(head_lpa, ssd_head) \in Nat /\ Live \in Nat /\ Len(applied) \in Nat
      /\ Len(published) = Len(applied) + Live
      /\ head_lpa \in Lpa /\ tail_lpa \in Lpa /\ total_avail_lpa \in Nat /\ cur_avail_lpa \in Nat
      /\ tx_record \in Seq(TxRecord)
  BY <1>0, <1>a, ChainTypes
<1>2. cur_journal \in Journal /\ b \in 1 .. total_avail_lpa /\ b <= cur_avail_lpa /\ b \in Nat
  BY <1>b, BlocksType, AreaAssumption
     DEF NInv, PublishHasSpace, PublishTail, total_avail_lpa, AreaSize
<1>3. /\ UNCHANGED <<head_lpa, ssd_head, applied>>
      /\ tx_record' = Append(tx_record, r)
      /\ published' = published \o BlocksOf(cur_journal)
  BY <1>b, <1>c DEF PublishTail
<1>4. Polled' = Polled
  BY <1>3 DEF Polled
<1>5. /\ BlocksOf(cur_journal) \in Seq(Block) /\ Len(BlocksOf(cur_journal)) = b
      /\ BlocksOf(cur_journal)[b] = BlockOf(cur_journal, b)
  BY <1>b, <1>2, BlocksOfType
<1>6. published \in Seq(Block)
  BY RingTypes
<1>7. /\ Len(published') = Len(published) + b
      /\ \A k \in 1 .. Len(published) : published'[k] = published[k]
      /\ published'[Len(published) + b] = BlockOf(cur_journal, b)
  <2>1. /\ Len(published') = Len(published) + b
        /\ \A k \in 1 .. Len(published) : published'[k] = published[k]
        /\ \A k \in Len(published) + 1 .. Len(published) + b :
             published'[k] = BlocksOf(cur_journal)[k - Len(published)]
    BY <1>3, <1>5, <1>6, ConcatParts
  <2>2. /\ Len(published) + b \in Len(published) + 1 .. Len(published) + b
        /\ Len(published) + b - Len(published) = b
    BY <1>1, <1>2
  <2> QED BY <2>1, <2>2, <1>5
<1>8. /\ Len(tx_record') = m + 1 /\ tx_record'[m + 1] = r
      /\ \A n \in 1 .. m : tx_record'[n] = tx_record[n]
  BY <1>a, <1>1, <1>3
<1>9. PICK E \in [1 .. m -> Nat] : Chain(E)
  BY <1>0, <1>a DEF ChainInv
<1>d. PICK F : F = [n \in 1 .. (m + 1) |-> IF n = m + 1 THEN Len(published) + b ELSE E[n]]
  OBVIOUS
<1>10. /\ F \in [1 .. (m + 1) -> Nat] /\ F[m + 1] = Len(published) + b
       /\ \A n \in 1 .. m : F[n] = E[n]
  BY <1>d, <1>1, <1>2
<1>11. Dist(tail_lpa, Advance(tail_lpa, b)) = b
  BY <1>1, <1>2, DistOfAdvance
<1>12. /\ RecordLength(m + 1)' = b
       /\ \A n \in 1 .. m : RecordLength(n)' = RecordLength(n)
  <2>1. r.start = tail_lpa /\ r.end = Advance(tail_lpa, b)
    BY <1>c
  <2>2. m + 1 \in Nat /\ RecordLength(m + 1)' = Dist(r.start, r.end)
    BY <1>8 DEF RecordLength, Dist
  <2> QED BY <1>8, <1>11, <2>1, <2>2 DEF RecordLength, Dist
<1>13. EndsAtTail(F)'
  BY <1>7, <1>8, <1>10 DEF EndsAtTail
<1>14. EndsTile(F)'
  <2> SUFFICES ASSUME NEW n \in 2 .. (m + 1) PROVE F[n] - RecordLength(n)' = F[n - 1]
    BY <1>8 DEF EndsTile
  <2>1. CASE n = m + 1
    <3>1. m \in 1 .. m /\ tx_record # <<>> /\ n - 1 = m
      BY <1>a, <1>1, <2>1
    <3>2. E[m] = Len(published)
      BY <3>1, <1>a, <1>9 DEF Chain, EndsAtTail
    <3> QED BY <1>1, <1>2, <1>10, <1>12, <2>1, <3>1, <3>2
  <2>2. CASE n \in 2 .. m
    <3>1. n \in 1 .. m /\ n - 1 \in 1 .. m
      BY <1>1, <2>2
    <3>2. E[n] - RecordLength(n) = E[n - 1]
      BY <1>a, <1>9, <2>2 DEF Chain, EndsTile
    <3> QED BY <1>10, <1>12, <3>1, <3>2
  <2> QED BY <1>1, <2>1, <2>2
<1>15. FrontAtHead(F)'
  <2>1. CASE tx_record = <<>>
    <3>1. Polled = Len(published) /\ m = 0
      BY <1>a, <1>0, <2>1 DEF ChainInv
    <3>2. F[1] = Len(published) + b /\ RecordLength(1)' = b
      BY <1>10, <1>12, <3>1
    <3> QED BY <1>1, <1>2, <1>4, <3>1, <3>2 DEF FrontAtHead
  <2>2. CASE tx_record # <<>>
    <3>1. 1 \in 1 .. m
      BY <1>a, <1>1, <2>2
    <3> QED BY <1>4, <1>9, <1>10, <1>12, <2>2, <3>1 DEF Chain, FrontAtHead
  <2> QED BY <2>1, <2>2
<1>16. EndsOfRecords(F)'
  <2> SUFFICES ASSUME NEW n \in 1 .. (m + 1) 
               PROVE  /\ F[n] \in 1 .. Len(published') /\ published'[F[n]].tx = tx_record'[n].tx
                      /\ IsLast(published'[F[n]])
    BY <1>8 DEF EndsOfRecords, EndsTx, IsLast
  <2>1. CASE n = m + 1
    <3>1. /\ BlockOf(cur_journal, b).tx = cur_journal.tx /\ IsLast(BlockOf(cur_journal, b))
          /\ r.tx = cur_journal.tx
      BY <1>b, <1>c DEF BlockOf, IsLast
    <3>2. Len(published) + b \in 1 .. Len(published')
      BY <1>1, <1>2, <1>7
    <3>3. published'[F[n]] = BlockOf(cur_journal, b) /\ tx_record'[n] = r /\ F[n] \in 1 .. Len(published')
      BY <1>7, <1>8, <1>10, <2>1, <3>2
    <3> QED BY <3>1, <3>3
  <2>2. CASE n \in 1 .. m
    <3>1. EndsTx(E[n], tx_record[n].tx) /\ F[n] = E[n] /\ tx_record'[n] = tx_record[n]
      BY <1>a, <1>8, <1>9, <1>10, <2>2 DEF Chain, EndsOfRecords
    <3>2. E[n] \in 1 .. Len(published)
      BY <3>1 DEF EndsTx
    <3>3. E[n] \in 1 .. Len(published')
      <4>1. Len(published') = Len(published) + b
        BY <1>7
      <4> QED BY <1>1, <1>2, <3>2, <4>1
    <3>4. published'[E[n]] = published[E[n]]
      BY <1>7, <3>2
    <3> QED BY <3>1, <3>3, <3>4 DEF EndsTx
  <2> QED BY <1>1, <2>1, <2>2
<1>17. EndsSeen(F)'
  <2> SUFFICES ASSUME NEW n \in 1 .. (m + 1), F[n] > Polled
               PROVE  Dist(head_lpa, tx_record'[n].end) = F[n] - Polled
    BY <1>3, <1>4, <1>8 DEF EndsSeen
  <2>1. CASE n = m + 1
    <3>1. Dist(head_lpa, tail_lpa) + b <= total_avail_lpa
      BY <1>1, <1>2 DEF Polled
    <3>2. Dist(head_lpa, Advance(tail_lpa, b)) = Dist(head_lpa, tail_lpa) + b
      BY <1>1, <1>2, <3>1, DistAdvanceFar
    <3>3. tx_record'[n].end = Advance(tail_lpa, b) /\ F[n] = Len(published) + b
      BY <1>c, <1>8, <1>10, <2>1
    <3> QED BY <1>1, <1>2, <3>2, <3>3
  <2>2. CASE n \in 1 .. m
    BY <1>a, <1>8, <1>9, <1>10, <2>2 DEF Chain, EndsSeen
  <2> QED BY <1>1, <2>1, <2>2
<1>18. tx_record' # <<>>
  BY <1>1, <1>8
<1> QED BY <1>8, <1>10, <1>13, <1>14, <1>15, <1>16, <1>17, <1>18 DEF ChainInv, Chain

\* If is_applied holds of the front record, the SSD has applied its last block.
LEMMA FrontIsApplied ==
  ASSUME NInv, RingInv, proc # "down", FrontApplied,
         NEW E \in [1 .. Len(tx_record) -> Nat], Chain(E)
  PROVE  E[1] <= Polled
<1>1. /\ Polled \in Int /\ head_lpa \in Lpa /\ tail_lpa \in Lpa /\ Len(tx_record) \in Nat
      /\ Dist(head_lpa, tail_lpa) = Len(published) - Polled /\ Len(published) \in Nat
      /\ tx_record \in Seq(TxRecord)
  BY ChainTypes
<1>2. /\ tx_record # <<>> /\ 1 \in 1 .. Len(tx_record) /\ Head(tx_record) = tx_record[1]
      /\ is_applied(tx_record[1], head_lpa, tail_lpa)
  BY <1>1 DEF FrontApplied
<1>3. /\ tx_record[1] \in TxRecord /\ RecordLength(1) \in Nat /\ E[1] \in Nat
  BY <1>2, RecordTypes
<1>4. E[1] <= Len(published) /\ E[1] - RecordLength(1) <= Polled
  BY <1>2, <1>1 DEF Chain, EndsOfRecords, EndsTx, FrontAtHead
<1>5. SUFFICES ASSUME E[1] > Polled PROVE FALSE
  BY <1>1, <1>3
<1>6. Dist(head_lpa, tx_record[1].end) = E[1] - Polled
  BY <1>2, <1>5 DEF Chain, EndsSeen
<1>7. /\ 1 <= Dist(head_lpa, tx_record[1].end)
      /\ Dist(head_lpa, tx_record[1].end) <= Dist(tx_record[1].start, tx_record[1].end)
      /\ Dist(head_lpa, tx_record[1].end) <= Dist(head_lpa, tail_lpa)
  <2>1. E[1] - Polled <= RecordLength(1) /\ E[1] - Polled <= Len(published) - Polled /\ 1 <= E[1] - Polled
    BY <1>1, <1>3, <1>4, <1>5
  <2> QED BY <1>1, <1>6, <2>1 DEF RecordLength
<1> QED BY <1>1, <1>2, <1>3, <1>7, NotYetApplied

\* process_tx_record drops the front record, which the polled head has passed.
LEMMA ChainNotify ==
  ASSUME NInv, RingInv, ChainInv, NotifyCplt
  PROVE  ChainInv'
<1>0. proc # "down" /\ FrontApplied
  BY DEF NotifyCplt
<1>1. /\ Polled \in Int /\ Polled <= Len(published) /\ Len(published) \in Nat
      /\ tx_record \in Seq(TxRecord) /\ tx_record # <<>>
  BY <1>0, ChainTypes DEF FrontApplied
<1>2. PICK m \in Nat : m + 1 = Len(tx_record)
  <2>1. Len(tx_record) \in Nat /\ Len(tx_record) >= 1
    BY <1>1
  <2>2. Len(tx_record) - 1 \in Nat /\ (Len(tx_record) - 1) + 1 = Len(tx_record)
    BY <2>1
  <2> QED BY <2>2
<1>3. /\ UNCHANGED <<head_lpa, ssd_head, applied, published>> /\ tx_record' = Tail(tx_record)
  BY DEF NotifyCplt, posVars, ssdVars
<1>4. Polled' = Polled
  BY <1>3 DEF Polled
<1>5. Len(tx_record') = m /\ \A n \in 1 .. m : tx_record'[n] = tx_record[n + 1]
  BY <1>1, <1>2, <1>3
<1>6. \A n \in 1 .. m : RecordLength(n)' = RecordLength(n + 1)
  BY <1>5 DEF RecordLength, Dist
<1>7. PICK E \in [1 .. (m + 1) -> Nat] : Chain(E)
  BY <1>0, <1>2 DEF ChainInv
<1>8. E[1] <= Polled
  BY <1>0, <1>2, <1>7, FrontIsApplied
<1>9. PICK F : F = [n \in 1 .. m |-> E[n + 1]]
  OBVIOUS
<1>10. F \in [1 .. m -> Nat] /\ \A n \in 1 .. m : F[n] = E[n + 1] /\ n + 1 \in 1 .. (m + 1)
  BY <1>7, <1>9
<1>11. E[m + 1] = Len(published)
  BY <1>1, <1>2, <1>7 DEF Chain, EndsAtTail
<1>12. EndsAtTail(F)'
  <2>1. tx_record' # <<>> => m \in 1 .. m
    BY <1>5
  <2> QED BY <1>3, <1>5, <1>10, <1>11, <2>1 DEF EndsAtTail
<1>13. EndsTile(F)'
  <2> SUFFICES ASSUME NEW n \in 2 .. m PROVE F[n] - RecordLength(n)' = F[n - 1]
    BY <1>5 DEF EndsTile
  <2>1. /\ n \in 1 .. m /\ n - 1 \in 1 .. m /\ n + 1 \in 2 .. (m + 1)
        /\ (n - 1) + 1 = n /\ (n + 1) - 1 = n
    BY <1>2
  <2>2. E[n + 1] - RecordLength(n + 1) = E[n]
    BY <1>2, <1>7, <2>1 DEF Chain, EndsTile
  <2>3. F[n] = E[n + 1] /\ F[n - 1] = E[n] /\ RecordLength(n)' = RecordLength(n + 1)
    BY <1>6, <1>10, <2>1
  <2> QED BY <2>2, <2>3
<1>14. FrontAtHead(F)'
  <2> SUFFICES ASSUME m >= 1 PROVE F[1] - RecordLength(1)' <= Polled
    BY <1>4, <1>5 DEF FrontAtHead
  <2>1. 1 \in 1 .. m /\ 2 \in 2 .. (m + 1) /\ 1 + 1 = 2 /\ 2 - 1 = 1
    OBVIOUS
  <2>2. E[2] - RecordLength(2) = E[1]
    BY <1>2, <1>7, <2>1 DEF Chain, EndsTile
  <2>3. F[1] = E[2] /\ RecordLength(1)' = RecordLength(2)
    BY <1>6, <1>10, <2>1
  <2> QED BY <1>8, <2>2, <2>3
<1>15. EndsOfRecords(F)'
  <2> SUFFICES ASSUME NEW n \in 1 .. m PROVE EndsTx(F[n], tx_record[n + 1].tx)
    BY <1>3, <1>5 DEF EndsOfRecords, EndsTx
  <2> QED BY <1>2, <1>7, <1>10 DEF Chain, EndsOfRecords
<1>16. EndsSeen(F)'
  <2> SUFFICES ASSUME NEW n \in 1 .. m, F[n] > Polled
               PROVE  Dist(head_lpa, tx_record[n + 1].end) = F[n] - Polled
    BY <1>3, <1>4, <1>5 DEF EndsSeen, Dist
  <2> QED BY <1>2, <1>7, <1>10 DEF Chain, EndsSeen
<1>17. tx_record' = <<>> => Polled' = Len(published')
  <2> SUFFICES ASSUME tx_record' = <<>> PROVE Polled = Len(published)
    BY <1>3, <1>4
  <2>1. m = 0
    BY <1>5
  <2> QED BY <1>1, <1>8, <1>11, <2>1
<1> QED BY <1>5, <1>10, <1>12, <1>13, <1>14, <1>15, <1>16, <1>17 DEF ChainInv, Chain

\* ssd_recovery starts with every published block applied and no record.
LEMMA ChainRecovery ==
  ASSUME NInv, RingInv, ssd_recovery, tx_record = <<>>
  PROVE  ChainInv'
<1>1. /\ head_lpa' = ssd_head /\ ssd_head = ssd_tail
      /\ UNCHANGED <<ssd_head, applied, published, tx_record>>
  BY DEF ssd_recovery, ssdVars, histVars, listVars
<1>2. ssd_head \in Lpa /\ Len(applied) \in Nat /\ Len(published) \in Nat
  BY RingTypes
<1>3. Live = 0 /\ Dist(ssd_head, ssd_head) = 0
  BY <1>1, <1>2, DistSelf DEF Live
<1>4. Polled' = Len(applied)
  BY <1>1, <1>2, <1>3 DEF Polled, Dist
<1>5. Len(published) = Len(applied)
  BY <1>2, <1>3 DEF RingInv, AllThere
<1>6. PICK E : E = [n \in 1 .. 0 |-> 0]
  OBVIOUS
<1>7. E \in [1 .. Len(tx_record') -> Nat] /\ Len(tx_record') = 0 /\ tx_record' = <<>>
  BY <1>1, <1>6
<1>8. Chain(E)'
  BY <1>7 DEF Chain, EndsAtTail, EndsTile, FrontAtHead, EndsOfRecords, EndsSeen
<1> QED BY <1>1, <1>4, <1>5, <1>7, <1>8 DEF ChainInv

\* While the host is down the thread has no records.
DownInv == proc = "down" => tx_record = <<>>

LEMMA DownStep == NInv /\ DownInv /\ [Next]_vars => DownInv'
<1> SUFFICES ASSUME DownInv, [Next]_vars PROVE DownInv'
  OBVIOUS
<1> USE DEF DownInv, envVars, listVars
<1>1. CASE \/ \E b \in Sizes : commit_journal(b)
           \/ stop_process_thread \/ CommitNotify \/ StopNotify \/ StopJoin
  BY <1>1 DEF commit_journal, stop_process_thread, CommitNotify, StopNotify, StopJoin,
       WakeProcessor
<1>2. CASE Processor \/ SpuriousWakeup
  BY <1>2 DEF Processor, FetchJournals, FetchNothing, FetchWait, FetchExit, SpuriousWakeup,
       PendingNothing, PendingNoSpace, WriteBlocks, PublishTail, enable_poll_timer,
       sync_with_SSD_journal_pos, NotifyCplt, RecordsDone
<1>3. CASE SSDApply \/ Crash \/ ssd_recovery
  BY <1>3 DEF SSDApply, Crash, ssd_recovery
<1>4. CASE Stopped \/ UNCHANGED vars
  BY <1>4 DEF Stopped, vars
<1> QED BY <1>1, <1>2, <1>3, <1>4 DEF Next, Caller

LEMMA ChainStep == NInv /\ RingInv /\ DownInv /\ ChainInv /\ [Next]_vars => ChainInv'
<1> SUFFICES ASSUME NInv, RingInv, DownInv, ChainInv, [Next]_vars PROVE ChainInv'
  OBVIOUS
<1> USE DEF envVars, listVars, posVars, ssdVars, histVars
<1>1. CASE UNCHANGED <<tx_record, head_lpa, ssd_head, applied, published>>
           /\ (proc' # "down" => proc # "down")
  BY <1>1, ChainFrame DEF Polled
<1>2. CASE \/ \E b \in Sizes : commit_journal(b)
           \/ stop_process_thread \/ CommitNotify \/ StopNotify \/ StopJoin
  BY <1>1, <1>2 DEF commit_journal, stop_process_thread, CommitNotify, StopNotify, StopJoin,
       WakeProcessor
<1>3. CASE FetchJournals \/ FetchNothing \/ FetchWait \/ FetchExit \/ SpuriousWakeup
           \/ PendingNothing \/ PendingNoSpace \/ WriteBlocks
  BY <1>1, <1>3 DEF FetchJournals, FetchNothing, FetchWait, FetchExit, SpuriousWakeup,
       PendingNothing, PendingNoSpace, WriteBlocks
<1>4. CASE PublishTail
  BY <1>4, ChainPublish
<1>5. CASE sync_with_SSD_journal_pos
  BY <1>5, ChainSync
<1>6. CASE NotifyCplt
  BY <1>6, ChainNotify
<1>7. CASE enable_poll_timer \/ RecordsDone
  BY <1>1, <1>7 DEF enable_poll_timer, RecordsDone
<1>8. CASE SSDApply
  BY <1>8, ChainApply
<1>9. CASE Crash
  BY <1>9 DEF Crash, ChainInv
<1>10. CASE ssd_recovery
  BY <1>10, ChainRecovery DEF DownInv, ssd_recovery
<1>11. CASE Stopped \/ UNCHANGED vars
  BY <1>1, <1>11 DEF Stopped, vars
<1> QED BY <1>2, <1>3, <1>4, <1>5, <1>6, <1>7, <1>8, <1>9, <1>10, <1>11 DEF Next, Caller, Processor

\* A transaction is notified when the front record's last block is applied.
LEMMA NotifyKeeps ==
  NInv /\ RingInv /\ ChainInv /\ NotifyOnlyApplied /\ [Next]_vars => NotifyOnlyApplied'
<1> SUFFICES ASSUME NInv, RingInv, ChainInv, NotifyOnlyApplied, [Next]_vars
             PROVE  NotifyOnlyApplied'
  OBVIOUS
<1>1. CASE NotifyCplt
  <2>0. proc # "down" /\ FrontApplied
    BY <1>1 DEF NotifyCplt
  <2>1. PICK E \in [1 .. Len(tx_record) -> Nat] : Chain(E)
    BY <2>0 DEF ChainInv
  <2>2. E[1] <= Polled
    BY <2>0, <2>1, FrontIsApplied
  <2>3. /\ Polled \in Int /\ Polled <= Len(applied) /\ Len(applied) \in Nat
        /\ tx_record \in Seq(TxRecord) /\ tx_record # <<>>
    BY <2>0, ChainTypes DEF FrontApplied
  <2>4. 1 \in 1 .. Len(tx_record) /\ Head(tx_record) = tx_record[1]
    BY <2>3
  <2>5. EndsTx(E[1], tx_record[1].tx)
    BY <2>1, <2>4 DEF Chain, EndsOfRecords
  <2>6. E[1] \in 1 .. Len(applied) /\ applied[E[1]] = published[E[1]]
    <3>1. E[1] \in 1 .. Len(applied)
      BY <2>2, <2>3, <2>5, RingTypes DEF EndsTx
    <3> QED BY <3>1 DEF RingInv, AppliedInOrder
  <2>7. applied[E[1]].tx = Head(tx_record).tx /\ IsLast(applied[E[1]])
    BY <2>4, <2>5, <2>6 DEF EndsTx
  <2>8. /\ applied' = applied /\ notified' = Append(notified, Head(tx_record).tx)
        /\ notified \in Seq(Nat \ {0})
    BY <1>1 DEF NotifyCplt, NInv, HistTypeOK
  <2>9. /\ Len(notified) \in Nat /\ Len(notified') = Len(notified) + 1
        /\ \A i \in 1 .. Len(notified) : notified'[i] = notified[i]
        /\ notified'[Len(notified) + 1] = Head(tx_record).tx
    BY <2>8
  <2> SUFFICES ASSUME NEW i \in 1 .. Len(notified')
               PROVE  \E k \in 1 .. Len(applied) : applied[k].tx = notified'[i] /\ IsLast(applied[k])
    BY <2>8 DEF NotifyOnlyApplied, IsLast
  <2>10. CASE i \in 1 .. Len(notified)
    BY <2>9, <2>10 DEF NotifyOnlyApplied
  <2>11. CASE i = Len(notified) + 1
    BY <2>6, <2>7, <2>9, <2>11
  <2> QED BY <2>9, <2>10, <2>11
<1>2. CASE SSDApply
  <2>1. notified' = notified
    BY <1>2 DEF SSDApply
  <2>2. /\ Len(applied) \in Nat /\ Len(applied') \in Nat /\ Len(applied) <= Len(applied')
        /\ \A j \in 1 .. Len(applied) : applied'[j] = applied[j]
    BY <1>2, AppliedGrows, RingTypes
  <2> SUFFICES ASSUME NEW i \in 1 .. Len(notified)
               PROVE  \E j \in 1 .. Len(applied') : applied'[j].tx = notified[i] /\ IsLast(applied'[j])
    BY <2>1 DEF NotifyOnlyApplied, IsLast
  <2>3. PICK j \in 1 .. Len(applied) : applied[j].tx = notified[i] /\ IsLast(applied[j])
    BY DEF NotifyOnlyApplied
  <2>4. j \in 1 .. Len(applied') /\ applied'[j] = applied[j]
    BY <2>2
  <2> QED BY <2>3, <2>4
<1>3. CASE UNCHANGED <<applied, notified>>
  BY <1>3 DEF NotifyOnlyApplied, IsLast
<1>4. CASE Next /\ ~NotifyCplt /\ ~SSDApply
  <2>1. UNCHANGED <<applied, notified>>
    BY <1>4 DEF Next, Caller, Processor, commit_journal, stop_process_thread, CommitNotify,
       StopNotify, StopJoin, FetchJournals, FetchNothing, FetchWait, FetchExit, SpuriousWakeup,
       PendingNothing, PendingNoSpace, WriteBlocks, PublishTail, enable_poll_timer,
       sync_with_SSD_journal_pos, RecordsDone, Crash, ssd_recovery, Stopped, vars, histVars
  <2> QED BY <1>3, <2>1
<1> QED BY <1>1, <1>2, <1>3, <1>4 DEF vars, histVars

LEMMA InitChain == Init => ChainInv /\ DownInv /\ NotifyOnlyApplied
<1> SUFFICES ASSUME Init PROVE ChainInv /\ DownInv /\ NotifyOnlyApplied
  OBVIOUS
<1>1. /\ Len(tx_record) = 0 /\ tx_record = <<>> /\ Len(applied) = 0 /\ Len(published) = 0
      /\ Len(notified) = 0
  BY DEF Init
<1>2. Polled = 0
  BY <1>1, DistSelf DEF Init, Polled
<1>3. PICK E : E = [n \in 1 .. 0 |-> 0]
  OBVIOUS
<1>4. E \in [1 .. Len(tx_record) -> Nat]
  BY <1>1, <1>3
<1>5. Chain(E)
  BY <1>1 DEF Chain, EndsAtTail, EndsTile, FrontAtHead, EndsOfRecords, EndsSeen
<1>6. ChainInv
  BY <1>1, <1>2, <1>4, <1>5 DEF ChainInv
<1>7. DownInv
  BY <1>1 DEF DownInv
<1>8. NotifyOnlyApplied
  BY <1>1 DEF NotifyOnlyApplied
<1> QED BY <1>6, <1>7, <1>8

LEMMA ChainInductive == Spec => [](NInv /\ RingInv /\ DownInv /\ ChainInv /\ NotifyOnlyApplied)
<1>1. Spec => []DownInv
  BY InitChain, DownStep, NInvAlways, PTL DEF Spec
<1>2. Spec => []ChainInv
  BY <1>1, InitChain, ChainStep, NInvAlways, RingInductive, PTL DEF Spec
<1>3. Spec => []NotifyOnlyApplied
  BY <1>2, InitChain, NotifyKeeps, NInvAlways, RingInductive, PTL DEF Spec
<1> QED BY <1>1, <1>2, <1>3, NInvAlways, RingInductive, PTL

\* process_tx_record reports a transaction to replace protection only when
\* the SSD has applied its last block, although is_tx_record_applied compares
\* positions of a ring that may have wrapped any number of times, with the
\* head inside a transaction.
THEOREM NotifyCorrect == Spec => []NotifyOnlyApplied
  BY ChainInductive, PTL
===============================================================================
