------------------------ MODULE JournalProcessorProofs ------------------------
(***************************************************************************)
(* For every journal area, every set of journal sizes and any number of    *)
(* transactions and crashes: the state keeps its shape, the thread's space *)
(* accounting agrees with the SSD's ring, and no journal block the SSD     *)
(* still has to apply is overwritten.                                      *)
(***************************************************************************)
EXTENDS JournalProcessor, TLAPS

-------------------------------------------------------------------------------
(* The ring: facts about Dist and Advance (journal_processor.cc 164-166,   *)
(* 228-229).                                                               *)

\* A distance round the ring is less than the ring's size.
LEMMA DistRange == \A a, b \in Lpa : Dist(a, b) \in 0 .. total_avail_lpa
  BY AreaAssumption DEF Lpa, Dist, total_avail_lpa, AreaSize

\* Moving forward by at most the unused part of the ring stays in the area.
LEMMA AdvanceType == \A a \in Lpa : \A k \in 0 .. total_avail_lpa : Advance(a, k) \in Lpa
  BY AreaAssumption DEF Lpa, Advance, total_avail_lpa, AreaSize

\* Moving the far end forward, without lapping the near end, adds to the distance.
LEMMA DistAdvanceFar ==
  \A a, b \in Lpa : \A k \in Nat :
     Dist(a, b) + k <= total_avail_lpa => Dist(a, Advance(b, k)) = Dist(a, b) + k
  BY AreaAssumption DEF Lpa, Dist, Advance, total_avail_lpa, AreaSize

\* Moving the near end forward, not past the far end, takes from the distance.
LEMMA DistAdvanceNear ==
  \A a, b \in Lpa : \A k \in 0 .. Dist(a, b) : Dist(Advance(a, k), b) = Dist(a, b) - k
  BY AreaAssumption DEF Lpa, Dist, Advance, total_avail_lpa, AreaSize

\* A position is at distance 0 from itself.
LEMMA DistSelf == \A a \in Lpa : Dist(a, a) = 0
  BY AreaAssumption DEF Lpa, Dist

-------------------------------------------------------------------------------
(* The inductive invariant.  TypeOK bounds cur_avail_lpa on both sides:    *)
(* the upper bound needs SpaceAccounting, the lower one that the thread,   *)
(* between writing blocks and publishing them, still has the space it      *)
(* tested for.                                                             *)
PublishHasSpace ==
    proc = "publish" => cur_journal \in Journal /\ cur_journal.blocks <= cur_avail_lpa

IInv == TypeOK /\ SpaceAccounting /\ PublishHasSpace

\* A journal is never the marker for "no journal".
LEMMA JournalNotNone == NoJournal \notin Journal
  BY DEF NoJournal, Journal

\* The candidate of process_pending_journal is a journal when there is one.
LEMMA CandidateType ==
  ASSUME TypeOK, Candidate # NoJournal
  PROVE  /\ Candidate \in Journal
         /\ cur_journal = NoJournal => pending_journal_list # <<>>
  BY JournalNotNone DEF TypeOK, ListTypeOK, Candidate

LEMMA BlocksType == \A j \in Journal : j.blocks \in 1 .. total_avail_lpa
  BY SizeAssumption DEF Journal, total_avail_lpa, AreaSize

\* The initial states satisfy the inductive invariant.
\* The blocks of a journal, as a sequence.
LEMMA BlocksOfType ==
  ASSUME NEW j \in Journal
  PROVE  /\ BlocksOf(j) \in Seq(Block) /\ Len(BlocksOf(j)) = j.blocks
         /\ j.blocks \in Nat
         /\ \A i \in 1 .. j.blocks : BlocksOf(j)[i] = BlockOf(j, i)
<1>1. j.blocks \in Nat /\ j.tx \in Nat
  BY BlocksType, AreaAssumption DEF Journal, total_avail_lpa, AreaSize
<1>2. \A i \in 1 .. j.blocks : BlockOf(j, i) \in Block
  BY <1>1 DEF BlockOf, Block
<1>3. BlocksOf(j) \in Seq(Block)
  BY <1>1, <1>2 DEF BlocksOf
<1>4. Len(BlocksOf(j)) = j.blocks
  BY <1>1 DEF BlocksOf
<1>5. QED
  BY <1>1, <1>3, <1>4 DEF BlocksOf

LEMMA InitIInv == Init => IInv
<1> SUFFICES ASSUME Init PROVE IInv
  OBVIOUS
<1> USE DEF Init
<1>1. head_lpa \in Lpa /\ total_avail_lpa \in Nat
  BY AreaAssumption DEF total_avail_lpa, AreaSize
<1>2. TypeOK
  <2>1. EnvTypeOK /\ ProcTypeOK
    BY DEF EnvTypeOK, ProcTypeOK
  <2>2. ListTypeOK
    BY DEF ListTypeOK
  <2>3. PosTypeOK
    BY <1>1 DEF PosTypeOK
  <2>4. SSDTypeOK
    BY <1>1 DEF SSDTypeOK, Block, Blank
  <2>5. HistTypeOK
    BY DEF HistTypeOK
  <2>6. FlagTypeOK
    BY Zenon DEF FlagTypeOK
  <2>7. QED
    BY <2>1, <2>2, <2>3, <2>4, <2>5, <2>6 DEF TypeOK
<1>3. SpaceAccounting
  BY <1>1, DistSelf DEF SpaceAccounting, Live
<1>4. QED
  BY <1>2, <1>3 DEF IInv, PublishHasSpace

-------------------------------------------------------------------------------
(* One step.  The flags are a group of their own: no other part of the     *)
(* invariant depends on them.                                              *)
LEMMA FlagStep == FlagTypeOK /\ [Next]_vars => FlagTypeOK'
<1> SUFFICES ASSUME FlagTypeOK, [Next]_vars PROVE FlagTypeOK'
  OBVIOUS
<1> USE DEF FlagTypeOK
<1>1. CASE UNCHANGED vars
  BY <1>1, Zenon DEF vars, envVars, timVars
<1>2. CASE \E b \in Sizes : commit_journal(b)
  BY <1>2, Zenon DEF commit_journal, timVars
<1>3. CASE stop_process_thread
  BY <1>3, Zenon DEF stop_process_thread, timVars
<1>4. CASE Caller
  BY <1>4, Zenon DEF Caller, CommitNotify, StopNotify, StopJoin, timVars
<1>5. CASE FetchJournals \/ FetchNothing \/ FetchWait \/ FetchExit \/ SpuriousWakeup
  BY <1>5, Zenon DEF FetchJournals, FetchNothing, FetchWait, FetchExit,
                     SpuriousWakeup, envVars, timVars
<1>6. CASE PendingNothing \/ PendingNoSpace \/ WriteBlocks \/ PublishTail
  BY <1>6, Zenon DEF PendingNothing, PendingNoSpace, WriteBlocks, PublishTail,
                     envVars, timVars
<1>7. CASE enable_poll_timer
  BY <1>7, Zenon DEF enable_poll_timer, envVars
<1>8. CASE sync_with_SSD_journal_pos \/ NotifyCplt \/ RecordsDone
  BY <1>8, Zenon DEF sync_with_SSD_journal_pos, NotifyCplt, RecordsDone,
                     envVars, timVars
<1>9. CASE SSDApply
  BY <1>9, Zenon DEF SSDApply, envVars, timVars
<1>10. CASE Crash \/ ssd_recovery
  BY <1>10, Zenon DEF Crash, ssd_recovery, envVars, timVars
<1>11. CASE Stopped
  BY <1>1, <1>11 DEF Stopped
<1>12. QED
  BY <1>1, <1>2, <1>3, <1>4, <1>5, <1>6, <1>7, <1>8, <1>9, <1>10, <1>11
     DEF Next, Processor

\* The invariant without the flags.
NInv == /\ EnvTypeOK /\ ProcTypeOK /\ ListTypeOK /\ PosTypeOK /\ SSDTypeOK /\ HistTypeOK
        /\ SpaceAccounting /\ PublishHasSpace

\* The caller's steps and those that only move the thread along touch
\* neither positions nor lists.
LEMMA ControlStep ==
  ASSUME NInv,
         \/ \E b \in Sizes : commit_journal(b)
         \/ stop_process_thread \/ Caller
         \/ FetchNothing \/ FetchWait \/ FetchExit \/ SpuriousWakeup
         \/ PendingNothing \/ enable_poll_timer \/ RecordsDone
  PROVE  NInv'
<1> USE DEF NInv
<1>1. UNCHANGED <<listVars, posVars, ssdVars, histVars>>
  BY DEF commit_journal, stop_process_thread, Caller, CommitNotify, StopNotify,
         StopJoin, FetchNothing, FetchWait, FetchExit, SpuriousWakeup,
         PendingNothing, enable_poll_timer, RecordsDone
<1>2. /\ ProcTypeOK'
      /\ proc' = "publish" => proc = "publish"
      /\ proc' # "down" => proc # "down"
  BY DEF ProcTypeOK, commit_journal, stop_process_thread, Caller, CommitNotify,
         StopNotify, StopJoin, FetchNothing, FetchWait, FetchExit, SpuriousWakeup,
         PendingNothing, enable_poll_timer, RecordsDone,
         WakeProcessor
<1>3. EnvTypeOK'
  <2>1. CASE \E b \in Sizes : commit_journal(b)
    <3>1. PICK b \in Sizes : commit_journal(b)
      BY <2>1
    <3>2. [tx |-> tx_id_to_alloc, blocks |-> b] \in Journal
      BY DEF EnvTypeOK, Journal
    <3>3. QED
      BY <3>1, <3>2 DEF commit_journal, EnvTypeOK
  <2>2. CASE stop_process_thread \/ Caller \/ FetchExit
    BY <2>2 DEF stop_process_thread, Caller, CommitNotify, StopNotify, StopJoin,
                FetchExit, EnvTypeOK
  <2>3. CASE \/ FetchNothing \/ FetchWait \/ SpuriousWakeup \/ PendingNothing
             \/ enable_poll_timer \/ RecordsDone
    BY <2>3 DEF FetchNothing, FetchWait, SpuriousWakeup, PendingNothing,
                enable_poll_timer, RecordsDone, envVars, EnvTypeOK
  <2>4. QED
    BY <2>1, <2>2, <2>3
<1>4. ListTypeOK' /\ PosTypeOK' /\ SSDTypeOK' /\ HistTypeOK'
  BY <1>1 DEF listVars, posVars, ssdVars, histVars, ListTypeOK, PosTypeOK,
              SSDTypeOK, HistTypeOK
<1>5. SpaceAccounting' /\ PublishHasSpace'
  BY <1>1, <1>2 DEF listVars, posVars, ssdVars, SpaceAccounting, PublishHasSpace, Live
<1>6. QED
  BY <1>2, <1>3, <1>4, <1>5

\* Fetching moves journals from one list to another.
LEMMA FetchStep == ASSUME NInv, FetchJournals PROVE NInv'
<1> USE DEF NInv, FetchJournals
<1>1. EnvTypeOK' /\ ProcTypeOK'
  BY DEF EnvTypeOK, ProcTypeOK
<1>2. ListTypeOK'
  BY DEF ListTypeOK, EnvTypeOK, Spliced
<1>3. PosTypeOK' /\ SSDTypeOK' /\ HistTypeOK'
  BY DEF posVars, ssdVars, histVars, PosTypeOK, SSDTypeOK, HistTypeOK
<1>4. SpaceAccounting' /\ PublishHasSpace'
  BY DEF posVars, ssdVars, SpaceAccounting, PublishHasSpace, Live
<1>5. QED
  BY <1>1, <1>2, <1>3, <1>4

\* Taking a candidate leaves a well-formed list and a journal in hand.
LEMMA TakeCandidateType ==
  ASSUME NInv, Candidate # NoJournal, TakeCandidate
  PROVE  /\ Candidate \in Journal /\ cur_journal' = Candidate
         /\ pending_journal_list' \in Seq(Journal)
  BY JournalNotNone DEF NInv, ListTypeOK, Candidate, TakeCandidate

LEMMA NoSpaceStep == ASSUME NInv, PendingNoSpace PROVE NInv'
<1> USE DEF NInv, PendingNoSpace
<1>1. EnvTypeOK' /\ ProcTypeOK'
  BY DEF EnvTypeOK, ProcTypeOK, envVars
<1>2. ListTypeOK'
  BY TakeCandidateType DEF ListTypeOK
<1>3. PosTypeOK' /\ SSDTypeOK' /\ HistTypeOK'
  BY DEF posVars, ssdVars, histVars, PosTypeOK, SSDTypeOK, HistTypeOK
<1>4. SpaceAccounting' /\ PublishHasSpace'
  BY DEF posVars, ssdVars, SpaceAccounting, PublishHasSpace, Live
<1>5. QED
  BY <1>1, <1>2, <1>3, <1>4

\* Writing blocks changes their contents and nothing the accounting reads.
LEMMA WriteStep == ASSUME NInv, WriteBlocks PROVE NInv'
<1> USE DEF NInv, WriteBlocks
<1>1. EnvTypeOK' /\ ProcTypeOK'
  BY DEF EnvTypeOK, ProcTypeOK, envVars
<1>2. ListTypeOK'
  BY TakeCandidateType DEF ListTypeOK
<1>3. SSDTypeOK'
  <2>1. ASSUME NEW l \in Lpa PROVE BlockOf(Candidate, Dist(tail_lpa, l) + 1) \in Block
    BY TakeCandidateType, DistRange, BlocksType, AreaAssumption
       DEF PosTypeOK, BlockOf, Block, Journal, total_avail_lpa, AreaSize
  <2>2. QED
    BY <2>1 DEF SSDTypeOK
<1>4. PosTypeOK' /\ HistTypeOK'
  BY DEF posVars, histVars, PosTypeOK, HistTypeOK
<1>5. SpaceAccounting' /\ PublishHasSpace'
  BY TakeCandidateType DEF posVars, SpaceAccounting, PublishHasSpace, Live, HasSpace
<1>6. QED
  BY <1>1, <1>2, <1>3, <1>4, <1>5

\* Publishing moves both tails over the journal and takes its blocks from
\* the free space.
LEMMA PublishStep == ASSUME NInv, PublishTail PROVE NInv'
<1> USE DEF NInv, PublishTail
<1> DEFINE b == cur_journal.blocks
           t == Advance(tail_lpa, b)
<1>1. /\ cur_journal \in Journal /\ b \in 1 .. total_avail_lpa /\ b <= cur_avail_lpa
      /\ total_avail_lpa \in Nat
  BY BlocksType, AreaAssumption DEF PublishHasSpace, total_avail_lpa, AreaSize
<1>2. t \in Lpa
  BY <1>1, AdvanceType DEF PosTypeOK
<1>3. /\ tail_lpa' = t /\ ssd_tail' = t /\ cur_avail_lpa' = cur_avail_lpa - b
      /\ head_lpa' = head_lpa /\ ssd_head' = ssd_head /\ flash' = flash
  OBVIOUS
<1>4. EnvTypeOK' /\ ProcTypeOK'
  BY DEF EnvTypeOK, ProcTypeOK, envVars
<1>5. ListTypeOK'
  <2>1. [tx |-> cur_journal.tx, start |-> tail_lpa, end |-> t] \in TxRecord
    BY <1>1, <1>2 DEF TxRecord, Journal, PosTypeOK
  <2>2. QED
    BY <2>1 DEF ListTypeOK
<1>6. PosTypeOK' /\ SSDTypeOK'
  BY <1>1, <1>2, <1>3 DEF PosTypeOK, SSDTypeOK
<1>7. HistTypeOK'
  <2>1. published' \in Seq(Block)
    BY <1>1, BlocksOfType DEF HistTypeOK
  <2>2. QED
    BY <2>1 DEF HistTypeOK
<1>8. SpaceAccounting'
  <2>1. /\ cur_avail_lpa + Dist(head_lpa, ssd_head) + Dist(ssd_head, tail_lpa) = total_avail_lpa
        /\ tail_lpa = ssd_tail
    BY DEF SpaceAccounting, Live
  <2>2. Dist(head_lpa, ssd_head) \in Nat /\ Dist(ssd_head, tail_lpa) \in Nat
    BY DistRange DEF PosTypeOK, SSDTypeOK
  <2>3. Dist(ssd_head, t) = Dist(ssd_head, tail_lpa) + b
    BY <1>1, <2>1, <2>2, DistAdvanceFar DEF PosTypeOK, SSDTypeOK
  <2>4. QED
    BY <1>1, <1>3, <2>1, <2>2, <2>3 DEF SpaceAccounting, Live, PosTypeOK
<1>9. QED
  BY <1>4, <1>5, <1>6, <1>7, <1>8 DEF PublishHasSpace

\* Polling moves the thread's head to the SSD's and frees what lies between.
LEMMA SyncStep == ASSUME NInv, sync_with_SSD_journal_pos PROVE NInv'
<1> USE DEF NInv, sync_with_SSD_journal_pos
<1>1. /\ Dist(head_lpa, ssd_head) \in Nat /\ Live \in Nat /\ Dist(ssd_head, ssd_head) = 0
      /\ total_avail_lpa \in Nat
  BY DistRange, DistSelf, AreaAssumption
     DEF PosTypeOK, SSDTypeOK, Live, total_avail_lpa, AreaSize
<1>2. /\ head_lpa' = ssd_head /\ ssd_head' = ssd_head /\ ssd_tail' = ssd_tail
      /\ flash' = flash /\ tail_lpa' = tail_lpa
      /\ cur_avail_lpa' = cur_avail_lpa + Dist(head_lpa, ssd_head)
      /\ proc' \in {"records", "fetch"} /\ proc # "down"
  BY DEF ssdVars
<1>3. cur_avail_lpa + Dist(head_lpa, ssd_head) + Live = total_avail_lpa
  BY DEF SpaceAccounting
<1>4. EnvTypeOK' /\ ProcTypeOK'
  BY <1>2 DEF EnvTypeOK, ProcTypeOK, envVars
<1>5. ListTypeOK' /\ HistTypeOK'
  BY DEF ListTypeOK, HistTypeOK, listVars, histVars
<1>6. PosTypeOK' /\ SSDTypeOK'
  BY <1>1, <1>2, <1>3 DEF PosTypeOK, SSDTypeOK
<1>7. SpaceAccounting' /\ PublishHasSpace'
  BY <1>1, <1>2, <1>3 DEF SpaceAccounting, PublishHasSpace, Live, PosTypeOK
<1>8. QED
  BY <1>4, <1>5, <1>6, <1>7

LEMMA NotifyStep == ASSUME NInv, NotifyCplt PROVE NInv'
<1> USE DEF NInv, NotifyCplt
<1>1. EnvTypeOK' /\ ProcTypeOK'
  BY DEF EnvTypeOK, ProcTypeOK, envVars
<1>2. ListTypeOK' /\ HistTypeOK'
  <2>1. tx_record \in Seq(TxRecord) /\ tx_record # <<>>
    BY DEF ListTypeOK, FrontApplied
  <2>2. Head(tx_record) \in TxRecord /\ Tail(tx_record) \in Seq(TxRecord)
    BY <2>1
  <2>3. Head(tx_record).tx \in Nat \ {0}
    BY <2>2 DEF TxRecord
  <2>4. QED
    BY <2>2, <2>3 DEF ListTypeOK, HistTypeOK
<1>3. PosTypeOK' /\ SSDTypeOK'
  BY DEF posVars, ssdVars, PosTypeOK, SSDTypeOK
<1>4. SpaceAccounting' /\ PublishHasSpace'
  BY DEF posVars, ssdVars, SpaceAccounting, PublishHasSpace, Live
<1>5. QED
  BY <1>1, <1>2, <1>3, <1>4

\* The SSD moves its head inside its live range.
LEMMA ApplyStep == ASSUME NInv, SSDApply PROVE NInv'
<1> USE DEF NInv
<1>1. /\ Live > 0
      /\ ssd_head' = Advance(ssd_head, 1)
      /\ applied' = Append(applied, LiveBlock(1))
      /\ UNCHANGED <<envVars, proc, listVars, posVars, timVars, flash, ssd_tail,
                     published, notified, lost, crashes>>
  BY DEF SSDApply
<1>2. /\ Live \in 0 .. total_avail_lpa /\ total_avail_lpa \in Nat /\ 1 \in 1 .. total_avail_lpa
      /\ 1 \in 0 .. Live /\ Dist(head_lpa, ssd_head) \in Nat
  BY <1>1, DistRange, AreaAssumption DEF PosTypeOK, SSDTypeOK, Live, total_avail_lpa, AreaSize
<1>3. SSDTypeOK'
  BY <1>1, <1>2, AdvanceType DEF SSDTypeOK
<1>4. HistTypeOK'
  <2>1. LiveBlock(1) \in Block
    BY <1>2, AdvanceType DEF LiveBlock, SSDTypeOK
  <2>2. QED
    BY <1>1, <2>1 DEF HistTypeOK
<1>5. SpaceAccounting'
  <2>1. Live' = Live - 1
    BY <1>1, <1>2, DistAdvanceNear DEF Live, SSDTypeOK
  <2>2. ASSUME proc # "down"
        PROVE  Dist(head_lpa, Advance(ssd_head, 1)) = Dist(head_lpa, ssd_head) + 1
    BY <1>2, <2>2, DistAdvanceFar DEF SpaceAccounting, PosTypeOK, SSDTypeOK
  <2>3. QED
    BY <1>1, <1>2, <2>1, <2>2 DEF SpaceAccounting, posVars, PosTypeOK
<1>6. EnvTypeOK' /\ ProcTypeOK' /\ ListTypeOK' /\ PosTypeOK' /\ PublishHasSpace'
  BY <1>1 DEF envVars, listVars, posVars, EnvTypeOK, ProcTypeOK, ListTypeOK,
              PosTypeOK, PublishHasSpace
<1>7. QED
  BY <1>3, <1>4, <1>5, <1>6

\* A crash leaves only the SSD; recovery starts with an empty ring.
LEMMA CrashStep == ASSUME NInv, Crash \/ ssd_recovery PROVE NInv'
<1> USE DEF NInv
<1>1. CASE Crash
  <2>1. EnvTypeOK' /\ ProcTypeOK' /\ ListTypeOK'
    BY <1>1 DEF Crash, EnvTypeOK, ProcTypeOK, ListTypeOK
  <2>2. PosTypeOK' /\ SSDTypeOK'
    BY <1>1 DEF Crash, posVars, ssdVars, PosTypeOK, SSDTypeOK
  <2>3. Unpublished \in SUBSET (Nat \ {0})
    <3>1. ASSUME NEW q \in Seq(Journal) PROVE TxOf(q) \in SUBSET (Nat \ {0})
      <4>1. \A i \in 1 .. Len(q) : q[i] \in Journal
        OBVIOUS
      <4>2. \A j \in Journal : j.tx \in Nat \ {0}
        BY DEF Journal
      <4>3. QED
        BY <4>1, <4>2 DEF TxOf
    <3>2. cur_journal # NoJournal => cur_journal.tx \in Nat \ {0}
      BY DEF ListTypeOK, Journal
    <3>3. QED
      BY <3>1, <3>2 DEF Unpublished, EnvTypeOK, ListTypeOK
  <2>4. HistTypeOK'
    BY <1>1, <2>3 DEF Crash, HistTypeOK
  <2>5. QED
    BY <1>1, <2>1, <2>2, <2>4 DEF Crash, SpaceAccounting, PublishHasSpace
<1>2. CASE ssd_recovery
  <2>1. ssd_head \in Lpa /\ total_avail_lpa \in Nat /\ Dist(ssd_head, ssd_head) = 0
    BY AreaAssumption, DistSelf DEF SSDTypeOK, total_avail_lpa, AreaSize
  <2>2. EnvTypeOK' /\ ProcTypeOK' /\ ListTypeOK' /\ HistTypeOK'
    BY <1>2 DEF ssd_recovery, envVars, listVars, histVars, EnvTypeOK, ProcTypeOK,
                ListTypeOK, HistTypeOK
  <2>3. PosTypeOK' /\ SSDTypeOK'
    BY <1>2, <2>1 DEF ssd_recovery, ssdVars, PosTypeOK, SSDTypeOK
  <2>4. SpaceAccounting' /\ PublishHasSpace'
    BY <1>2, <2>1 DEF ssd_recovery, ssdVars, SpaceAccounting, PublishHasSpace, Live
  <2>5. QED
    BY <2>2, <2>3, <2>4
<1>3. QED
  BY <1>1, <1>2

LEMMA NextIInv == IInv /\ [Next]_vars => IInv'
<1> SUFFICES ASSUME IInv, [Next]_vars PROVE IInv'
  OBVIOUS
<1>1. NInv /\ FlagTypeOK
  BY DEF IInv, TypeOK, NInv
<1>2. NInv'
  <2>1. CASE UNCHANGED vars
    <3>1. EnvTypeOK' /\ ProcTypeOK' /\ ListTypeOK'
      BY <1>1, <2>1 DEF NInv, vars, envVars, listVars, EnvTypeOK, ProcTypeOK, ListTypeOK
    <3>2. PosTypeOK' /\ SSDTypeOK' /\ HistTypeOK'
      BY <1>1, <2>1 DEF NInv, vars, posVars, ssdVars, histVars, PosTypeOK, SSDTypeOK,
                        HistTypeOK
    <3>3. SpaceAccounting' /\ PublishHasSpace'
      BY <1>1, <2>1 DEF NInv, vars, listVars, posVars, ssdVars, SpaceAccounting,
                        PublishHasSpace, Live
    <3>4. QED
      BY <3>1, <3>2, <3>3 DEF NInv
  <2>2. CASE Next
    BY <1>1, <2>1, <2>2, ControlStep, FetchStep, NoSpaceStep, WriteStep, PublishStep,
       SyncStep, NotifyStep, ApplyStep, CrashStep DEF Next, Processor, Stopped
  <2>3. QED
    BY <2>1, <2>2
<1>3. FlagTypeOK'
  BY <1>1, FlagStep
<1>4. QED
  BY <1>2, <1>3 DEF IInv, TypeOK, NInv

\* The inductive invariant holds in every reachable state.
THEOREM Inductive == Spec => []IInv
<1>1. QED
  BY InitIInv, NextIInv, PTL DEF Spec

\* Type correctness of the journal layer, for every area and every set of sizes.
THEOREM TypeCorrect == Spec => []TypeOK
<1>1. IInv => TypeOK
  BY DEF IInv
<1>2. QED
  BY Inductive, <1>1, PTL

\* The thread's free-space counter always agrees with the SSD's ring.
THEOREM SpaceCorrect == Spec => []SpaceAccounting
<1>1. IInv => SpaceAccounting
  BY DEF IInv
<1>2. QED
  BY Inductive, <1>1, PTL

\* write_to_SSD targets the free part of the ring only.
LEMMA TargetsAreFree ==
  ASSUME IInv, WriteBlocks, NEW l \in Lpa, flash'[l] # flash[l]
  PROVE  Dist(ssd_head, l) >= Live
<1>1. NInv
  BY DEF IInv, TypeOK, NInv
<1>2. Candidate \in Journal /\ Candidate.blocks \in 1 .. total_avail_lpa
  BY <1>1, TakeCandidateType, BlocksType DEF WriteBlocks
<1>3. PICK i \in 0 .. (Candidate.blocks - 1) : l = Advance(tail_lpa, i)
  BY DEF WriteBlocks, TargetLpas
<1>4. /\ tail_lpa = ssd_tail /\ Candidate.blocks <= cur_avail_lpa
      /\ cur_avail_lpa + Dist(head_lpa, ssd_head) + Live = total_avail_lpa
  BY <1>1 DEF NInv, SpaceAccounting, WriteBlocks, HasSpace
<1>5. /\ Live \in Nat /\ Dist(head_lpa, ssd_head) \in Nat /\ i \in Nat
      /\ total_avail_lpa \in Nat /\ cur_avail_lpa \in Nat
      /\ ssd_head \in Lpa /\ ssd_tail \in Lpa
  BY <1>1, <1>2, DistRange, AreaAssumption
     DEF NInv, PosTypeOK, SSDTypeOK, Live, total_avail_lpa, AreaSize
<1>6. Live + i <= total_avail_lpa
  BY <1>2, <1>3, <1>4, <1>5
<1>7. Dist(ssd_head, Advance(ssd_tail, i)) = Live + i
  BY <1>5, <1>6, DistAdvanceFar DEF Live
<1>8. QED
  BY <1>3, <1>4, <1>5, <1>7

\* No step of the journal layer or of the SSD overwrites a block that the
\* SSD has still to apply.
THEOREM NoOverwrite == Spec => WritesOnlyFreeBlocks
<1> DEFINE FreeOnly == \A l \in Lpa : flash'[l] # flash[l] => Dist(ssd_head, l) >= Live
<1>1. IInv /\ [Next]_vars => [FreeOnly]_vars
  <2> SUFFICES ASSUME IInv, Next PROVE FreeOnly
    OBVIOUS
  <2>1. CASE WriteBlocks
    BY <2>1, TargetsAreFree
  <2>2. CASE ~WriteBlocks
    <3>1. flash' = flash
      BY <2>2 DEF Next, Caller, Processor, commit_journal, stop_process_thread,
         CommitNotify, StopNotify, StopJoin, FetchJournals, FetchNothing, FetchWait,
         FetchExit, SpuriousWakeup, PendingNothing, PendingNoSpace, PublishTail,
         enable_poll_timer, sync_with_SSD_journal_pos, NotifyCplt,
         RecordsDone, SSDApply, Crash, ssd_recovery, Stopped, vars, ssdVars
    <3>2. QED
      BY <3>1
  <2>3. QED
    BY <2>1, <2>2
<1>2. QED
  BY <1>1, Inductive, PTL DEF Spec, WritesOnlyFreeBlocks

-------------------------------------------------------------------------------
(* Commit order.  Held is a concatenation; the inductive form numbers each *)
(* of its parts on its own, from the oldest transaction held.              *)
InHand == IF cur_journal = NoJournal THEN 0 ELSE 1
HeldNum == Len(tx_record) + InHand + Len(pending_journal_list) + Len(commit_queue)
Oldest == tx_id_to_alloc - 1 - HeldNum

RecordsNumbered == \A i \in 1 .. Len(tx_record) : tx_record[i].tx = Oldest + i
InHandNumbered == cur_journal # NoJournal => cur_journal.tx = Oldest + Len(tx_record) + 1
PendingNumbered ==
    \A i \in 1 .. Len(pending_journal_list) :
        pending_journal_list[i].tx = Oldest + Len(tx_record) + InHand + i
QueueNumbered ==
    \A i \in 1 .. Len(commit_queue) :
        commit_queue[i].tx = Oldest + Len(tx_record) + InHand + Len(pending_journal_list) + i

OrderInv == RecordsNumbered /\ InHandNumbered /\ PendingNumbered /\ QueueNumbered

\* The lengths of the parts are numbers.
LEMMA LenTypes ==
  ASSUME NInv
  PROVE  /\ Len(tx_record) \in Nat /\ Len(pending_journal_list) \in Nat
         /\ Len(commit_queue) \in Nat /\ InHand \in 0 .. 1
         /\ HeldNum \in Nat /\ Oldest \in Int /\ tx_id_to_alloc \in Nat
  BY DEF NInv, EnvTypeOK, ListTypeOK, InHand, HeldNum, Oldest

\* Steps that leave all the lists alone leave their numbering alone.
LEMMA OrderUnchanged ==
  ASSUME OrderInv, UNCHANGED <<commit_queue, tx_id_to_alloc, listVars>>
  PROVE  OrderInv'
  BY DEF OrderInv, RecordsNumbered, InHandNumbered, PendingNumbered, QueueNumbered,
         Oldest, HeldNum, InHand, listVars

\* A commit appends the next number to the queue.
LEMMA OrderCommit ==
  ASSUME NInv, OrderInv, NEW b \in Sizes, commit_journal(b)
  PROVE  OrderInv'
<1> USE DEF commit_journal, listVars
<1>0. /\ Len(tx_record) \in Nat /\ Len(pending_journal_list) \in Nat
      /\ Len(commit_queue) \in Nat /\ InHand \in 0 .. 1
      /\ HeldNum \in Nat /\ Oldest \in Int /\ tx_id_to_alloc \in Nat
  BY LenTypes
<1>1. /\ Len(commit_queue') = Len(commit_queue) + 1 /\ InHand' = InHand
      /\ Oldest' = Oldest /\ HeldNum' = HeldNum + 1
  <2>1. commit_queue \in Seq(Journal) /\ [tx |-> tx_id_to_alloc, blocks |-> b] \in Journal
    BY DEF NInv, EnvTypeOK, Journal
  <2>2. Len(commit_queue') = Len(commit_queue) + 1
    BY <2>1
  <2>3. InHand' = InHand
    BY DEF InHand
  <2>4. HeldNum' = HeldNum + 1
    <3>1. tx_record' = tx_record /\ pending_journal_list' = pending_journal_list
      OBVIOUS
    <3>2. QED
      BY <1>0, <2>2, <2>3, <3>1, SMT DEF HeldNum
  <2>5. QED
    BY <1>0, <2>2, <2>3, <2>4 DEF Oldest
<1>2. RecordsNumbered' /\ InHandNumbered' /\ PendingNumbered'
  BY <1>1 DEF OrderInv, RecordsNumbered, InHandNumbered, PendingNumbered
<1>3. QueueNumbered'
  <2> SUFFICES ASSUME NEW i \in 1 .. Len(commit_queue')
               PROVE  commit_queue'[i].tx = Oldest' + Len(tx_record') + InHand'
                                            + Len(pending_journal_list') + i
    BY DEF QueueNumbered
  <2>1. CASE i <= Len(commit_queue)
    BY <1>1, <2>1, <1>0 DEF OrderInv, QueueNumbered, NInv, EnvTypeOK
  <2>2. CASE i = Len(commit_queue) + 1
    <3>1. commit_queue'[i].tx = tx_id_to_alloc
      BY <2>2 DEF NInv, EnvTypeOK
    <3>2. QED
      BY <1>1, <2>2, <3>1, <1>0 DEF Oldest, HeldNum, NInv, EnvTypeOK
  <2>3. QED
    BY <1>1, <2>1, <2>2, <1>0
<1>4. QED
  BY <1>2, <1>3 DEF OrderInv

\* The splice appends the queue to the pending list and empties it.
LEMMA OrderFetch ==
  ASSUME NInv, OrderInv, FetchJournals
  PROVE  OrderInv'
<1> USE DEF FetchJournals, Spliced
<1>0. /\ Len(tx_record) \in Nat /\ Len(pending_journal_list) \in Nat
      /\ Len(commit_queue) \in Nat /\ InHand \in 0 .. 1
      /\ HeldNum \in Nat /\ Oldest \in Int /\ tx_id_to_alloc \in Nat
  BY LenTypes
<1>1. /\ Len(commit_queue') = 0 /\ InHand' = InHand
      /\ Len(pending_journal_list') = Len(pending_journal_list) + Len(commit_queue)
      /\ Oldest' = Oldest /\ HeldNum' = HeldNum
  <2>1. commit_queue \in Seq(Journal) /\ pending_journal_list \in Seq(Journal)
    BY DEF NInv, EnvTypeOK, ListTypeOK
  <2>2. /\ Len(pending_journal_list') = Len(pending_journal_list) + Len(commit_queue)
        /\ Len(commit_queue') = 0
    BY <2>1
  <2>3. InHand' = InHand
    BY DEF InHand
  <2>4. HeldNum' = HeldNum
    <3>1. tx_record' = tx_record
      OBVIOUS
    <3>2. QED
      BY <1>0, <2>2, <2>3, <3>1, SMT DEF HeldNum
  <2>5. QED
    BY <1>0, <2>2, <2>3, <2>4 DEF Oldest
<1>2. RecordsNumbered' /\ InHandNumbered' /\ QueueNumbered'
  BY <1>1 DEF OrderInv, RecordsNumbered, InHandNumbered, QueueNumbered
<1>3. PendingNumbered'
  <2> SUFFICES ASSUME NEW i \in 1 .. Len(pending_journal_list')
               PROVE  pending_journal_list'[i].tx = Oldest' + Len(tx_record') + InHand' + i
    BY DEF PendingNumbered
  <2>1. CASE i <= Len(pending_journal_list)
    BY <1>1, <2>1, <1>0 DEF OrderInv, PendingNumbered, NInv, EnvTypeOK, ListTypeOK
  <2>2. CASE i > Len(pending_journal_list)
    <3>1. pending_journal_list'[i] = commit_queue[i - Len(pending_journal_list)]
      BY <1>1, <2>2, <1>0 DEF NInv, EnvTypeOK, ListTypeOK
    <3>2. i - Len(pending_journal_list) \in 1 .. Len(commit_queue)
      BY <1>0, <1>1, <2>2
    <3>3. commit_queue[i - Len(pending_journal_list)].tx =
            Oldest + Len(tx_record) + InHand + Len(pending_journal_list)
            + (i - Len(pending_journal_list))
      BY <3>2 DEF OrderInv, QueueNumbered
    <3>4. tx_record' = tx_record
      OBVIOUS
    <3>5. QED
      <4> HIDE DEF FetchJournals, Spliced
      <4>1. i \in Int /\ InHand \in Int
        BY <1>0, <1>1
      <4>2. Oldest + Len(tx_record) + InHand + Len(pending_journal_list)
              + (i - Len(pending_journal_list)) = Oldest + Len(tx_record) + InHand + i
        BY <1>0, <4>1, SMT
      <4>3. QED
        BY <1>1, <3>1, <3>3, <3>4, <4>2, Zenon
  <2>3. QED
    BY <1>1, <2>1, <2>2, <1>0
<1>4. QED
  BY <1>2, <1>3 DEF OrderInv

\* Taking the candidate moves the front of the pending list into hand.
LEMMA OrderTake ==
  ASSUME NInv, OrderInv, Candidate # NoJournal, TakeCandidate,
         UNCHANGED <<commit_queue, tx_id_to_alloc, tx_record>>
  PROVE  OrderInv'
<1> USE DEF TakeCandidate
<1>0. /\ Len(tx_record) \in Nat /\ Len(pending_journal_list) \in Nat
      /\ Len(commit_queue) \in Nat /\ InHand \in 0 .. 1
      /\ HeldNum \in Nat /\ Oldest \in Int /\ tx_id_to_alloc \in Nat
  BY LenTypes
<1>1. CASE cur_journal # NoJournal
  BY <1>1, OrderUnchanged DEF Candidate, listVars
<1>2. CASE cur_journal = NoJournal
  <2>1. /\ pending_journal_list \in Seq(Journal) /\ pending_journal_list # <<>>
        /\ cur_journal' = Head(pending_journal_list) /\ cur_journal' # NoJournal
        /\ pending_journal_list' = Tail(pending_journal_list)
    BY <1>2, TakeCandidateType, JournalNotNone DEF Candidate, NInv, ListTypeOK
  <2>2. /\ Len(pending_journal_list') = Len(pending_journal_list) - 1
        /\ InHand = 0 /\ InHand' = 1 /\ HeldNum' = HeldNum /\ Oldest' = Oldest
        /\ Len(pending_journal_list) > 0
    BY <1>2, <2>1, <1>0 DEF InHand, HeldNum, Oldest
  <2>3. cur_journal'.tx = Oldest + Len(tx_record) + 1
    BY <2>1, <2>2, <1>0 DEF OrderInv, PendingNumbered
  <2>4. PendingNumbered'
    <3> SUFFICES ASSUME NEW i \in 1 .. Len(pending_journal_list')
                 PROVE  pending_journal_list'[i].tx = Oldest' + Len(tx_record') + InHand' + i
      BY DEF PendingNumbered
    <3>1. pending_journal_list'[i] = pending_journal_list[i + 1]
      BY <2>1, <2>2, <1>0
    <3>2. QED
      BY <2>2, <3>1, <1>0 DEF OrderInv, PendingNumbered
  <2>5. QueueNumbered'
    <3> SUFFICES ASSUME NEW i \in 1 .. Len(commit_queue)
                 PROVE  commit_queue[i].tx = Oldest' + Len(tx_record) + InHand'
                                             + Len(pending_journal_list') + i
      BY DEF QueueNumbered
    <3>1. commit_queue[i].tx =
            Oldest + Len(tx_record) + InHand + Len(pending_journal_list) + i
      BY DEF OrderInv, QueueNumbered
    <3>2. i \in Int /\ InHand \in Int
      BY <1>0
    <3>3. QED
      <4> HIDE DEF TakeCandidate
      <4>1. Oldest + Len(tx_record) + InHand + Len(pending_journal_list) + i
              = Oldest + Len(tx_record) + (InHand + 1) + (Len(pending_journal_list) - 1) + i
        BY <1>0, <3>2, SMT
      <4>2. InHand' = InHand + 1
        BY <2>2
      <4>3. QED
        BY <2>2, <3>1, <4>1, <4>2, Zenon
  <2>6. QED
    BY <2>2, <2>3, <2>4, <2>5 DEF OrderInv, RecordsNumbered, InHandNumbered
<1>3. QED
  BY <1>1, <1>2

\* Publishing moves the journal in hand to the end of the record table.
LEMMA OrderPublish ==
  ASSUME NInv, OrderInv, PublishTail
  PROVE  OrderInv'
<1> USE DEF PublishTail, envVars
<1>0. /\ Len(tx_record) \in Nat /\ Len(pending_journal_list) \in Nat
      /\ Len(commit_queue) \in Nat /\ InHand \in 0 .. 1
      /\ HeldNum \in Nat /\ Oldest \in Int /\ tx_id_to_alloc \in Nat
  BY LenTypes
<1>1. cur_journal # NoJournal /\ cur_journal' = NoJournal
  BY JournalNotNone DEF NInv, PublishHasSpace
<1>2. /\ Len(tx_record') = Len(tx_record) + 1 /\ InHand = 1 /\ InHand' = 0
      /\ HeldNum' = HeldNum /\ Oldest' = Oldest
  BY <1>1, <1>0 DEF NInv, ListTypeOK, InHand, HeldNum, Oldest
<1>3. RecordsNumbered'
  <2> SUFFICES ASSUME NEW i \in 1 .. Len(tx_record') PROVE tx_record'[i].tx = Oldest' + i
    BY DEF RecordsNumbered
  <2>1. CASE i <= Len(tx_record)
    BY <1>2, <2>1, <1>0 DEF OrderInv, RecordsNumbered, NInv, ListTypeOK
  <2>2. CASE i = Len(tx_record) + 1
    <3>1. tx_record'[i].tx = cur_journal.tx
      BY <2>2 DEF NInv, ListTypeOK
    <3>2. QED
      BY <1>1, <1>2, <2>2, <3>1, <1>0 DEF OrderInv, InHandNumbered
  <2>3. QED
    BY <1>2, <2>1, <2>2, <1>0
<1>4. InHandNumbered' /\ PendingNumbered' /\ QueueNumbered'
  BY <1>1, <1>2, <1>0 DEF OrderInv, InHandNumbered, PendingNumbered, QueueNumbered
<1>5. QED
  BY <1>3, <1>4 DEF OrderInv

\* A notification takes the oldest transaction out.
LEMMA OrderNotify ==
  ASSUME NInv, OrderInv, NotifyCplt
  PROVE  OrderInv'
<1> USE DEF NotifyCplt, envVars
<1>0. /\ Len(tx_record) \in Nat /\ Len(pending_journal_list) \in Nat
      /\ Len(commit_queue) \in Nat /\ InHand \in 0 .. 1
      /\ HeldNum \in Nat /\ Oldest \in Int /\ tx_id_to_alloc \in Nat
  BY LenTypes
<1>1. tx_record \in Seq(TxRecord) /\ tx_record # <<>>
  BY DEF NInv, ListTypeOK, FrontApplied
<1>2. /\ Len(tx_record') = Len(tx_record) - 1 /\ InHand' = InHand /\ Len(tx_record) > 0
      /\ HeldNum' = HeldNum - 1 /\ Oldest' = Oldest + 1
  BY <1>1, <1>0 DEF InHand, HeldNum, Oldest, NInv, EnvTypeOK
<1>3. RecordsNumbered'
  <2> SUFFICES ASSUME NEW i \in 1 .. Len(tx_record') PROVE tx_record'[i].tx = Oldest' + i
    BY DEF RecordsNumbered
  <2>1. tx_record'[i] = tx_record[i + 1]
    BY <1>1, <1>2, <1>0
  <2>2. i + 1 \in 1 .. Len(tx_record)
    BY <1>0, <1>2
  <2>3. tx_record[i + 1].tx = Oldest + (i + 1)
    BY <2>2 DEF OrderInv, RecordsNumbered
  <2>4. QED
    BY <1>0, <1>2, <2>1, <2>3, SMT
<1>4. InHandNumbered'
  <2>1. cur_journal' = cur_journal
    OBVIOUS
  <2>2. Oldest + Len(tx_record) + 1 = (Oldest + 1) + (Len(tx_record) - 1) + 1
    BY <1>0, SMT
  <2>3. QED
    BY <1>2, <2>1, <2>2, Zenon DEF OrderInv, InHandNumbered
<1>5. PendingNumbered'
  <2> SUFFICES ASSUME NEW i \in 1 .. Len(pending_journal_list)
               PROVE  pending_journal_list[i].tx = Oldest' + Len(tx_record') + InHand' + i
    BY DEF PendingNumbered
  <2>1. pending_journal_list[i].tx = Oldest + Len(tx_record) + InHand + i
    BY DEF OrderInv, PendingNumbered
  <2>2. Oldest + Len(tx_record) + InHand + i = (Oldest + 1) + (Len(tx_record) - 1) + InHand + i
    BY <1>0, SMT
  <2>3. QED
    BY <1>2, <2>1, <2>2, Zenon
<1>6. QueueNumbered'
  <2> SUFFICES ASSUME NEW i \in 1 .. Len(commit_queue)
               PROVE  commit_queue[i].tx = Oldest' + Len(tx_record') + InHand'
                                           + Len(pending_journal_list) + i
    BY DEF QueueNumbered
  <2>1. commit_queue[i].tx = Oldest + Len(tx_record) + InHand + Len(pending_journal_list) + i
    BY DEF OrderInv, QueueNumbered
  <2>2. Oldest + Len(tx_record) + InHand + Len(pending_journal_list) + i
          = (Oldest + 1) + (Len(tx_record) - 1) + InHand + Len(pending_journal_list) + i
    BY <1>0, SMT
  <2>3. QED
    BY <1>2, <2>1, <2>2, Zenon
<1>7. QED
  BY <1>3, <1>4, <1>5, <1>6 DEF OrderInv

\* A crash empties every list.
LEMMA OrderCrash == Crash => OrderInv'
  BY DEF Crash, OrderInv, RecordsNumbered, InHandNumbered, PendingNumbered, QueueNumbered

LEMMA NextOrder == NInv /\ OrderInv /\ [Next]_vars => OrderInv'
<1> SUFFICES ASSUME NInv, OrderInv, [Next]_vars PROVE OrderInv'
  OBVIOUS
<1>1. CASE \E b \in Sizes : commit_journal(b)
  BY <1>1, OrderCommit
<1>2. CASE FetchJournals
  BY <1>2, OrderFetch
<1>3. CASE PendingNoSpace \/ WriteBlocks
  BY <1>3, OrderTake DEF PendingNoSpace, WriteBlocks, envVars
<1>4. CASE PublishTail
  BY <1>4, OrderPublish
<1>5. CASE NotifyCplt
  BY <1>5, OrderNotify
<1>6. CASE Crash
  BY <1>6, OrderCrash
<1>7. CASE \/ stop_process_thread \/ Caller \/ FetchNothing \/ FetchWait \/ FetchExit
           \/ SpuriousWakeup \/ PendingNothing
           \/ enable_poll_timer \/ sync_with_SSD_journal_pos \/ RecordsDone
           \/ SSDApply \/ ssd_recovery \/ UNCHANGED vars
  <2>1. UNCHANGED <<commit_queue, tx_id_to_alloc, listVars>>
    BY <1>7 DEF stop_process_thread, Caller, CommitNotify, StopNotify, StopJoin,
       FetchNothing, FetchWait, FetchExit, SpuriousWakeup, PendingNothing,
       enable_poll_timer, sync_with_SSD_journal_pos, RecordsDone,
       SSDApply, ssd_recovery, vars, envVars
  <2>2. QED
    BY <2>1, OrderUnchanged
<1>8. QED
  BY <1>1, <1>2, <1>3, <1>4, <1>5, <1>6, <1>7 DEF Next, Processor, Stopped

\* Where the elements of a concatenation come from.
LEMMA ConcatParts ==
    ASSUME NEW T, NEW a \in Seq(T), NEW b \in Seq(T)
    PROVE  /\ a \o b \in Seq(T) /\ Len(a \o b) = Len(a) + Len(b)
           /\ \A k \in 1 .. Len(a) : (a \o b)[k] = a[k]
           /\ \A k \in Len(a) + 1 .. Len(a) + Len(b) : (a \o b)[k] = b[k - Len(a)]
  OBVIOUS

\* The numbering of the parts is the numbering of the whole.
LEMMA OrderInvIsCommitOrder == NInv /\ OrderInv => CommitOrder
<1> SUFFICES ASSUME NInv, OrderInv, NEW i \in 1 .. Len(Held)
             PROVE  Held[i].tx = tx_id_to_alloc - 1 - Len(Held) + i
  BY DEF CommitOrder
<1> DEFINE c == IF cur_journal = NoJournal THEN <<>> ELSE <<cur_journal>>
           S == Journal \cup TxRecord
<1>0. /\ Len(tx_record) \in Nat /\ Len(pending_journal_list) \in Nat
      /\ Len(commit_queue) \in Nat /\ InHand \in 0 .. 1
      /\ HeldNum \in Nat /\ Oldest \in Int /\ tx_id_to_alloc \in Nat
  BY LenTypes
<1>1. /\ tx_record \in Seq(S) /\ c \in Seq(S) /\ pending_journal_list \in Seq(S)
      /\ commit_queue \in Seq(S)
  <2>1. tx_record \in Seq(S) /\ pending_journal_list \in Seq(S) /\ commit_queue \in Seq(S)
    BY DEF NInv, EnvTypeOK, ListTypeOK
  <2>2. c \in Seq(S)
    <3>1. cur_journal # NoJournal => cur_journal \in S
      BY DEF NInv, ListTypeOK
    <3>2. CASE cur_journal = NoJournal
      <4>1. c = <<>>
        BY <3>2
      <4>2. <<>> \in Seq(S)
        OBVIOUS
      <4>3. QED
        BY <4>1, <4>2
    <3>3. CASE cur_journal # NoJournal
      <4>1. c = <<cur_journal>>
        BY <3>3
      <4> HIDE DEF c, S
      <4>2. <<cur_journal>> \in Seq(S)
        BY <3>1, <3>3
      <4>3. QED
        BY <4>1, <4>2
    <3>4. QED
      BY <3>2, <3>3
  <2>3. QED
    BY <2>1, <2>2
<1>2. Len(c) = InHand
  BY DEF InHand
<1>3. Held = tx_record \o c \o pending_journal_list \o commit_queue
  BY DEF Held
<1>4. Len(Held) = HeldNum
  BY <1>1, <1>2, <1>3 DEF HeldNum
<1>5. CASE i <= Len(tx_record)
  <2>1. Held[i] = tx_record[i]
    BY <1>0, <1>1, <1>3, <1>4, <1>5
  <2>2. tx_record[i].tx = Oldest + i
    BY <1>0, <1>4, <1>5 DEF OrderInv, RecordsNumbered
  <2>3. QED
    BY <1>0, <1>4, <2>1, <2>2 DEF Oldest
<1>6. CASE i > Len(tx_record) /\ i <= Len(tx_record) + InHand
  <2>1. InHand = 1 /\ cur_journal # NoJournal /\ i = Len(tx_record) + 1
    BY <1>6, <1>0 DEF InHand
  <2>2. Held[i] = cur_journal
    BY <1>1, <1>3, <1>4, <2>1, <1>0
  <2>3. QED
    BY <1>4, <2>1, <2>2, <1>0 DEF OrderInv, InHandNumbered, Oldest
<1>7. CASE /\ i > Len(tx_record) + InHand
           /\ i <= Len(tx_record) + InHand + Len(pending_journal_list)
  <2> DEFINE u == tx_record \o c
  <2> DEFINE v == u \o pending_journal_list
  <2>a. u \in Seq(S) /\ Len(u) = Len(tx_record) + InHand
    BY <1>1, <1>2
  <2> HIDE DEF c, S, u
  <2>b. /\ v \in Seq(S) /\ Len(v) = Len(u) + Len(pending_journal_list)
        /\ \A k \in Len(u) + 1 .. Len(u) + Len(pending_journal_list) :
              v[k] = pending_journal_list[k - Len(u)]
    BY <1>1, <2>a, ConcatParts, Zenon
  <2>c. v[i] = pending_journal_list[i - Len(u)]
    <3>1. i \in Len(u) + 1 .. Len(u) + Len(pending_journal_list)
      BY <1>0, <1>7, <2>a
    <3>2. QED
      BY <2>b, <3>1
  <2>d. Held = v \o commit_queue
    BY <1>3 DEF u
  <2> HIDE DEF v
  <2>e. Held[i] = v[i]
    <3>1. i \in 1 .. Len(v)
      BY <1>0, <1>7, <2>a, <2>b
    <3>2. QED
      BY <1>1, <2>b, <2>d, <3>1, ConcatParts
  <2>f. i - Len(u) = i - Len(tx_record) - InHand
    BY <1>0, <1>1, <2>a DEF InHand
  <2>1. Held[i] = pending_journal_list[i - Len(tx_record) - InHand]
    BY <2>c, <2>e, <2>f
  <2> DEFINE k == i - Len(tx_record) - InHand
  <2>2. k \in 1 .. Len(pending_journal_list)
    BY <1>0, <1>4, <1>7
  <2>3. pending_journal_list[k].tx = Oldest + Len(tx_record) + InHand + k
    BY <2>2 DEF OrderInv, PendingNumbered
  <2>4. Oldest + Len(tx_record) + InHand + k = Oldest + i
    BY <1>0, <1>4
  <2>5. QED
    BY <1>0, <1>4, <2>1, <2>3, <2>4 DEF Oldest
<1>8. CASE i > Len(tx_record) + InHand + Len(pending_journal_list)
  <2> DEFINE v == tx_record \o c \o pending_journal_list
  <2>a. v \in Seq(S) /\ Len(v) = Len(tx_record) + InHand + Len(pending_journal_list)
    BY <1>1, <1>2
  <2>b. Held = v \o commit_queue
    BY <1>3
  <2>c. i \in Len(v) + 1 .. Len(v) + Len(commit_queue)
    BY <1>0, <1>1, <1>4, <1>8, <2>a DEF HeldNum, InHand
  <2> HIDE DEF c, S, v
  <2>d. Held[i] = commit_queue[i - Len(v)]
    BY <1>1, <2>a, <2>b, <2>c
  <2>e. i - Len(v) = i - Len(tx_record) - InHand - Len(pending_journal_list)
    BY <1>0, <1>4, <2>a
  <2>1. Held[i] = commit_queue[i - Len(tx_record) - InHand - Len(pending_journal_list)]
    BY <2>d, <2>e
  <2> DEFINE k == i - Len(tx_record) - InHand - Len(pending_journal_list)
  <2>2. k \in 1 .. Len(commit_queue)
    BY <1>0, <2>a, <2>c
  <2>3. commit_queue[k].tx = Oldest + Len(tx_record) + InHand + Len(pending_journal_list) + k
    BY <2>2 DEF OrderInv, QueueNumbered
  <2>4. Oldest + Len(tx_record) + InHand + Len(pending_journal_list) + k = Oldest + i
    BY <1>0, <1>4
  <2>5. QED
    BY <1>0, <1>4, <2>1, <2>3, <2>4 DEF Oldest
<1>9. QED
  BY <1>4, <1>5, <1>6, <1>7, <1>8, <1>0

\* Between commit and notification no transaction is dropped, doubled or
\* overtaken.
THEOREM OrderCorrect == Spec => []CommitOrder
<1>1. Init => OrderInv
  BY DEF Init, OrderInv, RecordsNumbered, InHandNumbered, PendingNumbered, QueueNumbered
<1>2. IInv => NInv
  BY DEF IInv, TypeOK, NInv
<1>3. QED
  BY <1>1, <1>2, Inductive, NextOrder, OrderInvIsCommitOrder, PTL DEF Spec
===============================================================================
