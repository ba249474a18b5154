-------------------------- MODULE JournalServiceProofs --------------------------
(***************************************************************************)
(* That the journal layer implements TxService, step by step: every step   *)
(* of the queue, the thread, the ring and a crash is a step of the         *)
(* abstract service or leaves every transaction's status alone.            *)
(*                                                                         *)
(* The argument is about three numbers.  Transactions up to Oldest have    *)
(* left the layer (reported, lost or orphaned by a crash), those up to     *)
(* Newest are in the records of process_tx_record, those from there to     *)
(* tx_id_to_alloc are queued, pending or in hand.  Each action moves one   *)
(* of the numbers by one; a crash moves all of them to the last number.    *)
(***************************************************************************)
EXTENDS JournalRingProofs

Newest == Oldest + Len(tx_record)

\* The lists of the layer as intervals of transaction numbers.
Intervals ==
    /\ TxOf(tx_record) = (Oldest + 1) .. Newest
    /\ Unpublished = (Newest + 1) .. (tx_id_to_alloc - 1)

LEMMA NumberTypes ==
  NInv => /\ Oldest \in Int /\ Newest \in Int /\ tx_id_to_alloc \in Nat
          /\ Oldest <= Newest /\ Newest <= tx_id_to_alloc - 1
  BY LenTypes DEF Newest, Oldest, HeldNum, InHand

LEMMA ListsAreIntervals == NInv /\ OrderInv => Intervals
<1> SUFFICES ASSUME NInv, OrderInv PROVE Intervals
  OBVIOUS
<1>1. /\ Len(tx_record) \in Nat /\ Len(pending_journal_list) \in Nat
      /\ Len(commit_queue) \in Nat /\ InHand \in 0 .. 1
      /\ Oldest \in Int /\ tx_id_to_alloc \in Nat /\ Newest \in Int
  BY LenTypes, NumberTypes
<1>2. tx_id_to_alloc - 1
        = Newest + InHand + Len(pending_journal_list) + Len(commit_queue)
  BY <1>1 DEF Newest, Oldest, HeldNum
<1>3. TxOf(tx_record) = (Oldest + 1) .. Newest
  <2>1. ASSUME NEW t \in TxOf(tx_record) PROVE t \in (Oldest + 1) .. Newest
    BY <1>1, <2>1 DEF TxOf, OrderInv, RecordsNumbered, Newest
  <2>2. ASSUME NEW t \in (Oldest + 1) .. Newest PROVE t \in TxOf(tx_record)
    <3>1. t - Oldest \in 1 .. Len(tx_record) /\ Oldest + (t - Oldest) = t
      BY <1>1, <2>2 DEF Newest
    <3>2. tx_record[t - Oldest].tx = t
      BY <3>1 DEF OrderInv, RecordsNumbered
    <3> QED BY <3>1, <3>2 DEF TxOf
  <2> QED BY <2>1, <2>2
<1>4. ASSUME NEW t \in Unpublished PROVE t \in (Newest + 1) .. (tx_id_to_alloc - 1)
  <2>1. CASE t \in TxOf(commit_queue)
    BY <1>1, <1>2, <2>1 DEF TxOf, OrderInv, QueueNumbered, Newest
  <2>2. CASE t \in TxOf(pending_journal_list)
    BY <1>1, <1>2, <2>2 DEF TxOf, OrderInv, PendingNumbered, Newest
  <2>3. CASE cur_journal # NoJournal /\ t = cur_journal.tx
    BY <1>1, <1>2, <2>3 DEF OrderInv, InHandNumbered, InHand, Newest
  <2> QED BY <1>4, <2>1, <2>2, <2>3 DEF Unpublished
<1>5. ASSUME NEW t \in (Newest + 1) .. (tx_id_to_alloc - 1) PROVE t \in Unpublished
  <2>1. CASE t <= Newest + InHand
    <3>1. cur_journal # NoJournal /\ t = cur_journal.tx
      BY <1>1, <1>2, <1>5, <2>1 DEF OrderInv, InHandNumbered, InHand, Newest
    <3> QED BY <3>1 DEF Unpublished
  <2>2. CASE t > Newest + InHand /\ t <= Newest + InHand + Len(pending_journal_list)
    <3>1. PICK i : i = t - Newest - InHand
      OBVIOUS
    <3>2. i \in 1 .. Len(pending_journal_list) /\ t = Newest + InHand + i
      BY <1>1, <1>5, <2>2, <3>1
    <3>3. pending_journal_list[i].tx = t
      BY <3>2 DEF OrderInv, PendingNumbered, Newest
    <3> QED BY <3>2, <3>3 DEF Unpublished, TxOf
  <2>3. CASE t > Newest + InHand + Len(pending_journal_list)
    <3>1. PICK i : i = t - Newest - InHand - Len(pending_journal_list)
      OBVIOUS
    <3>2. i \in 1 .. Len(commit_queue) /\ commit_queue[i].tx = t
      BY <1>1, <1>2, <1>5, <2>3, <3>1 DEF OrderInv, QueueNumbered, Newest
    <3> QED BY <3>2 DEF Unpublished, TxOf
  <2> QED BY <1>1, <1>5, <2>1, <2>2, <2>3
<1> QED BY <1>3, <1>4, <1>5 DEF Intervals

LEMMA IntervalsNext == NInv' /\ OrderInv' => Intervals'
  BY ListsAreIntervals, PTL

\* How far each action moves the numbers.
Numbers == <<Oldest, Newest, tx_id_to_alloc>>

LEMMA NumbersOfCommit ==
  ASSUME NInv, NEW b \in Sizes, commit_journal(b)
  PROVE  Oldest' = Oldest /\ Newest' = Newest /\ tx_id_to_alloc' = tx_id_to_alloc + 1
<1>1. /\ Len(commit_queue') = Len(commit_queue) + 1 /\ tx_id_to_alloc' = tx_id_to_alloc + 1
      /\ UNCHANGED <<tx_record, cur_journal, pending_journal_list>>
  BY DEF commit_journal, NInv, EnvTypeOK, listVars
<1>2. InHand' = InHand
  BY <1>1 DEF InHand
<1>3. /\ Len(tx_record) \in Nat /\ Len(pending_journal_list) \in Nat /\ InHand \in Nat
      /\ Len(commit_queue) \in Nat /\ HeldNum \in Nat /\ tx_id_to_alloc \in Nat
  BY LenTypes
<1>4. HeldNum' = HeldNum + 1
  BY <1>1, <1>2, <1>3 DEF HeldNum
<1>5. Oldest' = Oldest
  BY <1>1, <1>3, <1>4 DEF Oldest
<1> QED BY <1>1, <1>5 DEF Newest

LEMMA NumbersOfFetch == ASSUME NInv, FetchJournals PROVE UNCHANGED Numbers
<1>1. /\ Len(pending_journal_list') = Len(pending_journal_list) + Len(commit_queue)
      /\ Len(commit_queue') = 0
      /\ UNCHANGED <<tx_record, cur_journal, tx_id_to_alloc>>
  BY DEF FetchJournals, Spliced, NInv, EnvTypeOK, ListTypeOK
<1>2. InHand' = InHand
  BY <1>1 DEF InHand
<1>3. HeldNum' = HeldNum
  BY <1>1, <1>2, LenTypes DEF HeldNum
<1> QED BY <1>1, <1>3 DEF Numbers, Newest, Oldest

LEMMA NumbersOfTake ==
  ASSUME NInv, PendingNoSpace \/ WriteBlocks
  PROVE  UNCHANGED Numbers
<1>1. TakeCandidate /\ Candidate # NoJournal
      /\ UNCHANGED <<tx_record, commit_queue, tx_id_to_alloc>>
  BY DEF PendingNoSpace, WriteBlocks, envVars
<1>2. CASE cur_journal # NoJournal
  BY <1>1, <1>2 DEF TakeCandidate, Candidate, Numbers, Newest, Oldest, HeldNum, InHand
<1>3. CASE cur_journal = NoJournal
  <2>1. pending_journal_list # <<>> /\ cur_journal' # NoJournal
        /\ pending_journal_list' = Tail(pending_journal_list)
    BY <1>1, <1>3 DEF TakeCandidate, Candidate
  <2>2. Len(pending_journal_list') = Len(pending_journal_list) - 1
    BY <2>1 DEF NInv, ListTypeOK
  <2> QED BY <1>1, <1>3, <2>1, <2>2, LenTypes DEF Numbers, Newest, Oldest, HeldNum, InHand
<1> QED BY <1>2, <1>3

LEMMA NumbersOfPublish ==
  ASSUME NInv, OrderInv, PublishTail
  PROVE  /\ Oldest' = Oldest /\ Newest' = Newest + 1 /\ UNCHANGED tx_id_to_alloc
         /\ cur_journal # NoJournal /\ cur_journal.tx = Newest + 1
         /\ Newest + 1 <= tx_id_to_alloc - 1
<1>1. cur_journal # NoJournal
  BY JournalNotNone DEF PublishTail, NInv, PublishHasSpace
<1>2. /\ Len(tx_record') = Len(tx_record) + 1 /\ cur_journal' = NoJournal
      /\ UNCHANGED <<pending_journal_list, commit_queue, tx_id_to_alloc>>
  BY DEF PublishTail, NInv, ListTypeOK, envVars
<1>3. cur_journal.tx = Newest + 1
  BY <1>1, LenTypes DEF OrderInv, InHandNumbered, Newest
<1> QED BY <1>1, <1>2, <1>3, LenTypes DEF Newest, Oldest, HeldNum, InHand

LEMMA NumbersOfNotify ==
  ASSUME NInv, OrderInv, NotifyCplt
  PROVE  /\ Oldest' = Oldest + 1 /\ Newest' = Newest /\ UNCHANGED tx_id_to_alloc
         /\ Oldest + 1 <= Newest /\ Head(tx_record).tx = Oldest + 1
<1>1. tx_record # <<>> /\ tx_record' = Tail(tx_record)
      /\ UNCHANGED <<pending_journal_list, cur_journal, commit_queue, tx_id_to_alloc>>
  BY DEF NotifyCplt, FrontApplied, envVars
<1>2. Len(tx_record') = Len(tx_record) - 1 /\ Len(tx_record) >= 1 /\ Head(tx_record) = tx_record[1]
  BY <1>1 DEF NInv, ListTypeOK
<1>3. tx_record[1].tx = Oldest + 1
  BY <1>2, LenTypes DEF OrderInv, RecordsNumbered
<1> QED BY <1>1, <1>2, <1>3, LenTypes DEF Newest, Oldest, HeldNum, InHand

LEMMA NumbersOfCrash ==
  ASSUME NInv, Crash
  PROVE  /\ Oldest' = tx_id_to_alloc - 1 /\ Newest' = tx_id_to_alloc - 1
         /\ UNCHANGED tx_id_to_alloc
  BY LenTypes DEF Crash, Newest, Oldest, HeldNum, InHand, NoJournal
\* Every other step leaves the lists alone, or the SSD applies a block.
LEMMA NumbersOfOthers ==
  ASSUME [Next]_vars,
         ~ \E b \in Sizes : commit_journal(b),
         ~FetchJournals, ~PendingNoSpace, ~WriteBlocks, ~PublishTail, ~NotifyCplt, ~Crash
  PROVE  /\ UNCHANGED Numbers
         /\ UNCHANGED <<commit_queue, tx_record, cur_journal, pending_journal_list>>
         /\ UNCHANGED <<published, notified, lost, tx_id_to_alloc>>
         /\ SSDApply \/ UNCHANGED applied
<1>1. /\ UNCHANGED <<commit_queue, tx_record, cur_journal, pending_journal_list>>
      /\ UNCHANGED <<published, notified, lost, tx_id_to_alloc>>
      /\ SSDApply \/ UNCHANGED applied
  <2>1. CASE stop_process_thread \/ Caller \/ SpuriousWakeup
    BY <2>1 DEF stop_process_thread, Caller, CommitNotify, StopNotify, StopJoin, SpuriousWakeup,
       envVars, listVars, histVars
  <2>2. CASE FetchNothing \/ FetchWait \/ FetchExit \/ PendingNothing
    BY <2>2 DEF FetchNothing, FetchWait, FetchExit, PendingNothing, envVars, listVars, histVars
  <2>3. CASE enable_poll_timer \/ sync_with_SSD_journal_pos \/ RecordsDone \/ ssd_recovery
    BY <2>3 DEF enable_poll_timer, sync_with_SSD_journal_pos, RecordsDone, ssd_recovery,
       envVars, listVars, histVars
  <2>4. CASE SSDApply
    BY <2>4 DEF SSDApply, envVars, listVars
  <2>5. CASE Stopped \/ UNCHANGED vars
    BY <2>5 DEF Stopped, vars, envVars, listVars, histVars
  <2> QED BY <2>1, <2>2, <2>3, <2>4, <2>5 DEF Next, Processor
<1> QED BY <1>1 DEF Numbers, Newest, Oldest, HeldNum, InHand

-------------------------------------------------------------------------------
(* What the histories hold, relative to the numbers.                       *)
NumbersBounded == tx_id_to_alloc <= MaxTx + 1
LostOld == \A t \in lost : t <= Oldest
ReportedOld == \A i \in 1 .. Len(notified) : notified[i] <= Oldest
PublishedKnown ==
    \A k \in 1 .. Len(published) :
        published[k].tx \in 1 .. Newest /\ published[k].tx \notin lost
PublishedInOrder ==
    \A k, l \in 1 .. Len(published) : k < l => published[k].tx <= published[l].tx
PublishedWhole ==
    \A t \in 1 .. Newest : t \in lost \/ \E k \in 1 .. Len(published) : EndsTx(k, t)

HistoryInv == /\ NumbersBounded /\ LostOld /\ ReportedOld
              /\ PublishedKnown /\ PublishedInOrder /\ PublishedWhole

LEMMA InitHistory == Init => HistoryInv
<1> SUFFICES ASSUME Init PROVE HistoryInv
  OBVIOUS
<1>1. /\ Len(tx_record) = 0 /\ Len(pending_journal_list) = 0 /\ Len(commit_queue) = 0
      /\ InHand = 0 /\ tx_id_to_alloc = 1 /\ lost = {} /\ Len(notified) = 0
      /\ Len(published) = 0
  BY DEF Init, InHand
<1>2. Oldest = 0 /\ Newest = 0
  BY <1>1 DEF Newest, Oldest, HeldNum
<1> QED BY <1>1, <1>2, AreaAssumption DEF HistoryInv, NumbersBounded, LostOld, ReportedOld, PublishedKnown,
           PublishedInOrder, PublishedWhole

LEMMA HistoryFrame ==
  ASSUME HistoryInv, UNCHANGED <<Oldest, Newest, published, notified, lost>>,
         NumbersBounded'
  PROVE  HistoryInv'
  BY DEF HistoryInv, LostOld, ReportedOld, PublishedKnown, PublishedInOrder,
         PublishedWhole, EndsTx, IsLast

LEMMA HistoryPublish ==
  ASSUME NInv, OrderInv, HistoryInv, PublishTail
  PROVE  HistoryInv'
<1>1. PICK j, p, o : j = cur_journal /\ p = Newest /\ o = Oldest
  OBVIOUS
<1>2. /\ Oldest' = o /\ Newest' = p + 1 /\ UNCHANGED <<tx_id_to_alloc, notified, lost>>
      /\ j \in Journal /\ j.tx = p + 1 /\ o \in Int /\ p \in Int /\ o <= p
      /\ published' = published \o BlocksOf(j)
  BY <1>1, NumbersOfPublish, NumberTypes DEF PublishTail, NInv, ListTypeOK
<1>3. /\ published \in Seq(Block) /\ BlocksOf(j) \in Seq(Block) /\ Len(BlocksOf(j)) = j.blocks
      /\ j.blocks \in 1 .. total_avail_lpa /\ j.tx \in Nat \ {0}
      /\ \A i \in 1 .. j.blocks : BlocksOf(j)[i] = [tx |-> j.tx, idx |-> i, of |-> j.blocks]
  BY <1>2, BlocksOfType, BlocksType DEF NInv, HistTypeOK, BlocksOf, BlockOf, Journal
<1>4. PICK m, n : m = Len(published) /\ n = j.blocks
  OBVIOUS
<1>5. /\ m \in Nat /\ n \in Nat /\ n >= 1 /\ Len(published') = m + n
      /\ \A k \in 1 .. m : published'[k] = published[k]
      /\ \A k \in (m + 1) .. (m + n) :
            published'[k] = [tx |-> p + 1, idx |-> k - m, of |-> n]
  <2>1. total_avail_lpa \in Nat
    BY AreaAssumption DEF total_avail_lpa, AreaSize
  <2>2. m \in Nat /\ n \in Nat /\ n >= 1
    BY <1>3, <1>4, <2>1
  <2>3. /\ Len(published') = m + n
        /\ \A k \in 1 .. m : published'[k] = published[k]
        /\ \A k \in (m + 1) .. (m + n) : published'[k] = BlocksOf(j)[k - m]
    <3>1. PICK b \in Seq(Block) : b = BlocksOf(j)
      BY <1>3
    <3>2. /\ Len(published \o b) = Len(published) + Len(b)
          /\ \A k \in 1 .. Len(published) : (published \o b)[k] = published[k]
          /\ \A k \in Len(published) + 1 .. Len(published) + Len(b) :
                (published \o b)[k] = b[k - Len(published)]
      BY <1>3, ConcatParts
    <3> QED BY <1>2, <1>3, <1>4, <3>1, <3>2
  <2>4. ASSUME NEW k \in (m + 1) .. (m + n)
        PROVE  published'[k] = [tx |-> p + 1, idx |-> k - m, of |-> n]
    <3>1. k - m \in 1 .. n
      BY <2>2
    <3> QED BY <1>2, <1>3, <1>4, <2>3, <3>1
  <2> QED BY <2>2, <2>3, <2>4
<1>6. NumbersBounded' /\ LostOld' /\ ReportedOld'
  BY <1>1, <1>2 DEF HistoryInv, NumbersBounded, LostOld, ReportedOld
<1>7. \A t \in lost : t \in Int /\ t <= p
  BY <1>1, <1>2 DEF HistoryInv, LostOld, NInv, HistTypeOK
<1>8. p + 1 \in Nat /\ p + 1 >= 1
  BY <1>2, <1>3
<1>9. \A k \in 1 .. m : published'[k].tx = published[k].tx /\ published[k].tx \in 1 .. p
  BY <1>1, <1>4, <1>5 DEF HistoryInv, PublishedKnown
<1>10. \A k \in 1 .. (m + n) : k > m => published'[k].tx = p + 1
  <2> SUFFICES ASSUME NEW k \in 1 .. (m + n), k > m PROVE published'[k].tx = p + 1
    OBVIOUS
  <2>1. k \in (m + 1) .. (m + n)
    BY <1>5
  <2>2. published'[k] = [tx |-> p + 1, idx |-> k - m, of |-> n]
    BY <1>5, <2>1
  <2> QED BY <2>2
<1>11. PublishedKnown'
  <2> SUFFICES ASSUME NEW k \in 1 .. (m + n)
               PROVE  published'[k].tx \in 1 .. (p + 1) /\ published'[k].tx \notin lost
    BY <1>2, <1>5 DEF PublishedKnown
  <2>1. CASE k <= m
    BY <1>1, <1>2, <1>4, <1>5, <2>1 DEF HistoryInv, PublishedKnown
  <2>2. CASE k > m
    <3>1. published'[k].tx = p + 1
      BY <1>10, <2>2
    <3> QED BY <1>2, <1>7, <1>8, <3>1
  <2> QED BY <1>5, <2>1, <2>2
<1>12. PublishedInOrder'
  <2> SUFFICES ASSUME NEW k \in 1 .. (m + n), NEW l \in 1 .. (m + n), k < l
               PROVE  published'[k].tx <= published'[l].tx
    BY <1>5 DEF PublishedInOrder
  <2>1. CASE l <= m
    <3>1. k \in 1 .. m /\ l \in 1 .. m
      BY <1>5, <2>1
    <3>2. published[k].tx <= published[l].tx
      BY <1>4, <3>1 DEF HistoryInv, PublishedInOrder
    <3>3. published'[k].tx = published[k].tx /\ published'[l].tx = published[l].tx
      BY <1>9, <3>1
    <3> QED BY <3>2, <3>3
  <2>2. CASE k <= m /\ l > m
    <3>1. published'[k].tx \in 1 .. p
      BY <1>5, <1>9, <2>2
    <3>2. published'[l].tx = p + 1
      BY <1>10, <2>2
    <3>3. p \in Int
      BY <1>2
    <3> QED BY <3>1, <3>2, <3>3
  <2>3. CASE k > m
    <3>1. published'[k].tx = p + 1 /\ published'[l].tx = p + 1
      BY <1>5, <1>10, <2>3
    <3> QED BY <1>2, <3>1
  <2> QED BY <1>5, <2>1, <2>2, <2>3
<1>13. PublishedWhole'
  <2> SUFFICES ASSUME NEW t \in 1 .. (p + 1), t \notin lost
               PROVE  \E k \in 1 .. (m + n) : published'[k].tx = t /\ IsLast(published'[k])
    BY <1>2, <1>5 DEF PublishedWhole, EndsTx, IsLast
  <2>1. CASE t <= p
    <3>1. PICK k \in 1 .. m : published[k].tx = t /\ IsLast(published[k])
      BY <1>1, <1>2, <1>4, <2>1 DEF HistoryInv, PublishedWhole, EndsTx
    <3> QED BY <1>5, <3>1
  <2>2. CASE t = p + 1
    <3>1. m + n \in (m + 1) .. (m + n) /\ m + n - m = n /\ m + n \in 1 .. (m + n)
      BY <1>5
    <3>2. published'[m + n] = [tx |-> p + 1, idx |-> n, of |-> n]
      BY <1>5, <3>1
    <3>3. published'[m + n].tx = t /\ IsLast(published'[m + n])
      BY <2>2, <3>2 DEF IsLast
    <3> QED BY <3>1, <3>3
  <2>3. t <= p \/ t = p + 1
    BY <1>2
  <2> QED BY <2>1, <2>2, <2>3
<1> QED BY <1>6, <1>11, <1>12, <1>13 DEF HistoryInv

LEMMA HistoryNotify ==
  ASSUME NInv, OrderInv, HistoryInv, NotifyCplt
  PROVE  HistoryInv'
<1>1. PICK o : o = Oldest
  OBVIOUS
<1>2. /\ Oldest' = o + 1 /\ Newest' = Newest /\ UNCHANGED <<tx_id_to_alloc, published, lost>>
      /\ o \in Int /\ notified' = Append(notified, o + 1)
  BY <1>1, NumbersOfNotify, NumberTypes DEF NotifyCplt
<1>3. NumbersBounded' /\ PublishedKnown' /\ PublishedInOrder' /\ PublishedWhole'
  BY <1>2 DEF HistoryInv, NumbersBounded, PublishedKnown, PublishedInOrder, PublishedWhole,
     EndsTx, IsLast
<1>4. LostOld'
  BY <1>1, <1>2 DEF HistoryInv, LostOld, NInv, HistTypeOK
<1>5. /\ notified \in Seq(Nat \ {0})
      /\ \A i \in 1 .. Len(notified) : notified[i] \in Nat /\ notified[i] <= o
  BY <1>1 DEF HistoryInv, ReportedOld, NInv, HistTypeOK
<1>6. ReportedOld'
  BY <1>2, <1>5 DEF ReportedOld
<1> QED BY <1>3, <1>4, <1>6 DEF HistoryInv

LEMMA HistoryCrash ==
  ASSUME NInv, OrderInv, HistoryInv, Crash
  PROVE  HistoryInv'
<1>1. PICK o, p, a : o = Oldest /\ p = Newest /\ a = tx_id_to_alloc
  OBVIOUS
<1>2. /\ Oldest' = a - 1 /\ Newest' = a - 1 /\ UNCHANGED <<tx_id_to_alloc, published, notified>>
      /\ lost' = lost \cup ((p + 1) .. (a - 1))
      /\ o \in Int /\ p \in Int /\ a \in Nat /\ o <= p /\ p <= a - 1
  BY <1>1, NumbersOfCrash, NumberTypes, ListsAreIntervals DEF Crash, Intervals
<1>3. NumbersBounded' /\ PublishedInOrder'
  BY <1>2 DEF HistoryInv, NumbersBounded, PublishedInOrder
<1>4. \A t \in lost : t \in Int /\ t <= o
  BY <1>1 DEF HistoryInv, LostOld, NInv, HistTypeOK
<1>5. LostOld'
  BY <1>2, <1>4 DEF LostOld
<1>6. \A i \in 1 .. Len(notified) : notified[i] \in Nat /\ notified[i] <= o
  BY <1>1 DEF HistoryInv, ReportedOld, NInv, HistTypeOK
<1>7. ReportedOld'
  BY <1>2, <1>6 DEF ReportedOld
<1>8. PublishedKnown'
  BY <1>1, <1>2 DEF HistoryInv, PublishedKnown
<1>9. PublishedWhole'
  <2> SUFFICES ASSUME NEW t \in 1 .. (a - 1), t \notin lost'
               PROVE  \E k \in 1 .. Len(published) : EndsTx(k, t)
    BY <1>2 DEF PublishedWhole, EndsTx, IsLast
  <2>1. t \in 1 .. p /\ t \notin lost
    BY <1>2
  <2> QED BY <1>1, <2>1 DEF HistoryInv, PublishedWhole
<1> QED BY <1>3, <1>5, <1>7, <1>8, <1>9 DEF HistoryInv

LEMMA HistoryStep == NInv /\ OrderInv /\ HistoryInv /\ [Next]_vars => HistoryInv'
<1> SUFFICES ASSUME NInv, OrderInv, HistoryInv, [Next]_vars PROVE HistoryInv'
  OBVIOUS
<1>1. ASSUME NEW b \in Sizes, commit_journal(b) PROVE HistoryInv'
  <2>1. UNCHANGED <<Oldest, Newest, published, notified, lost>>
    BY <1>1, NumbersOfCommit DEF commit_journal, histVars
  <2>2. NumbersBounded'
    BY <1>1, NumberTypes, AreaAssumption DEF commit_journal, NumbersBounded
  <2> QED BY <2>1, <2>2, HistoryFrame
<1>2. CASE FetchJournals \/ PendingNoSpace \/ WriteBlocks
  <2>1. UNCHANGED <<Oldest, Newest, tx_id_to_alloc>>
    BY <1>2, NumbersOfFetch, NumbersOfTake DEF Numbers
  <2>2. UNCHANGED <<published, notified, lost>>
    BY <1>2 DEF FetchJournals, PendingNoSpace, WriteBlocks, histVars
  <2> QED BY <2>1, <2>2, HistoryFrame DEF HistoryInv, NumbersBounded
<1>3. CASE PublishTail
  BY <1>3, HistoryPublish
<1>4. CASE NotifyCplt
  BY <1>4, HistoryNotify
<1>5. CASE Crash
  BY <1>5, HistoryCrash
<1>6. CASE /\ ~ \E b \in Sizes : commit_journal(b)
           /\ ~FetchJournals /\ ~PendingNoSpace /\ ~WriteBlocks /\ ~PublishTail
           /\ ~NotifyCplt /\ ~Crash
  BY <1>6, NumbersOfOthers, HistoryFrame DEF Numbers, HistoryInv, NumbersBounded
<1> QED BY <1>1, <1>2, <1>3, <1>4, <1>5, <1>6

-------------------------------------------------------------------------------
(* The status of a transaction as a function of the numbers and of three   *)
(* sets: the transactions lost, those reported and those applied in full.  *)
Reported == {notified[i] : i \in 1 .. Len(notified)}
Finished == {t \in 1 .. MaxTx : AppliedInFull(t)}

StatusBy(t, o, p, a, L, N, F) ==
    IF t >= a THEN "none"
    ELSE IF t \in L THEN "lost"
    ELSE IF t > p THEN "submitted"
    ELSE IF t \in N THEN "reported"
    ELSE IF t > o THEN (IF t \in F THEN "applied" ELSE "durable")
    ELSE IF t \in F THEN "recovered" ELSE "orphan"

StatusIsBy ==
    TxStatus = [t \in 1 .. MaxTx |->
                  StatusBy(t, Oldest, Newest, tx_id_to_alloc, lost, Reported, Finished)]

LEMMA StatusFromNumbers == NInv /\ OrderInv => StatusIsBy
<1> SUFFICES ASSUME NInv, OrderInv, NEW t \in 1 .. MaxTx
             PROVE  StatusOf(t) = StatusBy(t, Oldest, Newest, tx_id_to_alloc, lost,
                                           Reported, Finished)
  BY DEF StatusIsBy, TxStatus
<1>1. /\ Oldest \in Int /\ Newest \in Int /\ tx_id_to_alloc \in Int /\ t \in Int
      /\ Oldest <= Newest /\ Newest <= tx_id_to_alloc - 1
  BY NumberTypes
<1>2. /\ t < tx_id_to_alloc => (t \in Unpublished <=> t > Newest)
      /\ t <= Newest => (t \in TxOf(tx_record) <=> t > Oldest)
  BY <1>1, ListsAreIntervals DEF Intervals
<1>3. (\E i \in 1 .. Len(notified) : notified[i] = t) <=> t \in Reported
  BY DEF Reported
<1>4. AppliedInFull(t) <=> t \in Finished
  BY DEF Finished
<1>5. /\ t >= tx_id_to_alloc <=> ~(t < tx_id_to_alloc)
      /\ t > Newest <=> ~(t <= Newest)
  BY <1>1
<1> QED BY <1>2, <1>3, <1>4, <1>5 DEF StatusOf, StatusBy

LEMMA StatusFromNumbersNext == NInv' /\ OrderInv' => StatusIsBy'
  BY StatusFromNumbers, PTL

-------------------------------------------------------------------------------
(* The steps.  Each lemma names the values before the step, says what the  *)
(* step changes of them, and reads the abstract step off StatusBy.         *)
FullInv == NInv /\ OrderInv /\ HistoryInv

\* What the invariants say of the values StatusBy is given.
LEMMA ValuesBefore ==
  ASSUME FullInv, NEW o, NEW p, NEW a, o = Oldest, p = Newest, a = tx_id_to_alloc
  PROVE  /\ o \in Int /\ p \in Int /\ a \in Nat /\ o <= p /\ p <= a - 1 /\ a <= MaxTx + 1
         /\ \A t \in lost : t \in Int /\ t <= o
         /\ \A t \in Reported : t \in Int /\ t <= o
<1>1. /\ o \in Int /\ p \in Int /\ a \in Nat /\ o <= p /\ p <= a - 1 /\ a <= MaxTx + 1
  BY NumberTypes DEF FullInv, HistoryInv, NumbersBounded
<1>2. \A t \in lost : t \in Int /\ t <= o
  BY DEF FullInv, HistoryInv, LostOld, NInv, HistTypeOK
<1>3. \A t \in Reported : t \in Int /\ t <= o
  BY DEF FullInv, HistoryInv, ReportedOld, NInv, HistTypeOK, Reported
<1> QED BY <1>1, <1>2, <1>3

\* One entry of the status changes.
LEMMA StatusMove ==
  ASSUME NEW x \in 1 .. MaxTx, NEW to,
         \A t \in 1 .. MaxTx : TxStatus'[t] = IF t = x THEN to ELSE TxStatus[t]
  PROVE  TxStatus' = [TxStatus EXCEPT ![x] = to]
  BY DEF TxStatus

LEMMA StatusStays ==
  ASSUME \A t \in 1 .. MaxTx : TxStatus'[t] = TxStatus[t]
  PROVE  UNCHANGED TxStatus
  BY DEF TxStatus

LEMMA CommitIsSubmit ==
  ASSUME FullInv, StatusIsBy, StatusIsBy', NEW b \in Sizes, commit_journal(b)
  PROVE  Service!Next
<1>1. PICK o, p, a, L, N, F : /\ o = Oldest /\ p = Newest /\ a = tx_id_to_alloc
                             /\ L = lost /\ N = Reported /\ F = Finished
  OBVIOUS
<1>2. /\ o \in Int /\ p \in Int /\ a \in Nat /\ o <= p /\ p <= a - 1 /\ a <= MaxTx + 1
      /\ \A t \in L : t \in Int /\ t <= o
  BY <1>1, ValuesBefore
<1>3. /\ Oldest' = o /\ Newest' = p /\ tx_id_to_alloc' = a + 1
      /\ lost' = L /\ Reported' = N /\ Finished' = F
  BY <1>1, NumbersOfCommit DEF commit_journal, histVars, Reported, Finished, AppliedInFull, IsLast, FullInv
<1>4. \A t \in 1 .. MaxTx : /\ TxStatus[t] = StatusBy(t, o, p, a, L, N, F)
                            /\ TxStatus'[t] = StatusBy(t, o, p, a + 1, L, N, F)
  BY <1>1, <1>3 DEF StatusIsBy
<1>5. a \in 1 .. MaxTx
  BY <1>1, AreaAssumption DEF commit_journal, FullInv, NInv, EnvTypeOK
<1>6. TxStatus[a] = "none" /\ \A t \in 1 .. MaxTx : t < a => TxStatus[t] # "none"
  BY <1>2, <1>4, <1>5 DEF StatusBy
<1>7. \A t \in 1 .. MaxTx : TxStatus'[t] = IF t = a THEN "submitted" ELSE TxStatus[t]
  BY <1>2, <1>4 DEF StatusBy
<1>8. Service!Submit(a)
  BY <1>5, <1>6, <1>7, StatusMove DEF Service!Submit, Service!Move, Service!NoneBefore, Service!Tx
<1> QED BY <1>5, <1>8 DEF Service!Next, Service!Tx

LEMMA PublishIsPublish ==
  ASSUME FullInv, RingInv, StatusIsBy, StatusIsBy', PublishTail
  PROVE  Service!Next
<1>1. PICK o, p, a, L, N, F : /\ o = Oldest /\ p = Newest /\ a = tx_id_to_alloc
                             /\ L = lost /\ N = Reported /\ F = Finished
  OBVIOUS
<1>2. /\ o \in Int /\ p \in Int /\ a \in Nat /\ o <= p /\ p <= a - 1 /\ a <= MaxTx + 1
      /\ \A t \in L : t \in Int /\ t <= o
      /\ \A t \in N : t \in Int /\ t <= o
  BY <1>1, ValuesBefore
<1>3. /\ Oldest' = o /\ Newest' = p + 1 /\ tx_id_to_alloc' = a
      /\ lost' = L /\ Reported' = N /\ Finished' = F
      /\ p + 1 <= a - 1 /\ p + 1 >= 1
  <2>1. /\ Oldest' = o /\ Newest' = p + 1 /\ tx_id_to_alloc' = a /\ p + 1 <= a - 1
        /\ cur_journal # NoJournal /\ cur_journal.tx = p + 1
    BY <1>1, NumbersOfPublish DEF FullInv
  <2>2. p + 1 \in Nat \ {0}
    BY <2>1 DEF FullInv, NInv, ListTypeOK, Journal
  <2>3. lost' = L /\ Reported' = N /\ Finished' = F
    BY <1>1 DEF PublishTail, Reported, Finished, AppliedInFull, IsLast
  <2> QED BY <2>1, <2>2, <2>3
<1>4. \A t \in 1 .. MaxTx : /\ TxStatus[t] = StatusBy(t, o, p, a, L, N, F)
                            /\ TxStatus'[t] = StatusBy(t, o, p + 1, a, L, N, F)
  BY <1>1, <1>3 DEF StatusIsBy
<1>5. p + 1 \in 1 .. MaxTx
  BY <1>2, <1>3, AreaAssumption
<1>6. p + 1 \notin F
  <2> SUFFICES ASSUME NEW k \in 1 .. Len(applied), applied[k].tx = p + 1 PROVE FALSE
    BY <1>1 DEF Finished, AppliedInFull
  <2>1. k \in 1 .. Len(published) /\ published[k] = applied[k]
    BY RingTypes DEF RingInv, AppliedInOrder, AllThere, FullInv
  <2>2. published[k].tx \in 1 .. p
    BY <1>1, <2>1 DEF FullInv, HistoryInv, PublishedKnown
  <2> QED BY <1>2, <2>1, <2>2
<1>7. TxStatus[p + 1] = "submitted" /\ \A t \in 1 .. MaxTx : t < p + 1 => TxStatus[t] # "submitted"
  BY <1>2, <1>3, <1>4, <1>5 DEF StatusBy
<1>8. \A t \in 1 .. MaxTx : TxStatus'[t] = IF t = p + 1 THEN "durable" ELSE TxStatus[t]
  BY <1>2, <1>3, <1>4, <1>6 DEF StatusBy
<1>9. Service!Publish(p + 1)
  BY <1>5, <1>7, <1>8, StatusMove DEF Service!Publish, Service!Move, Service!NoneBefore, Service!Tx
<1> QED BY <1>5, <1>9 DEF Service!Next, Service!Tx

LEMMA CrashIsCrash ==
  ASSUME FullInv, StatusIsBy, StatusIsBy', Crash
  PROVE  Service!Next
<1>1. PICK o, p, a, L, N, F : /\ o = Oldest /\ p = Newest /\ a = tx_id_to_alloc
                             /\ L = lost /\ N = Reported /\ F = Finished
  OBVIOUS
<1>2. /\ o \in Int /\ p \in Int /\ a \in Nat /\ o <= p /\ p <= a - 1
      /\ \A t \in L : t \in Int /\ t <= o
  BY <1>1, ValuesBefore
<1>3. /\ Oldest' = a - 1 /\ Newest' = a - 1 /\ tx_id_to_alloc' = a
      /\ lost' = L \cup ((p + 1) .. (a - 1)) /\ Reported' = N /\ Finished' = F
  BY <1>1, NumbersOfCrash, ListsAreIntervals
     DEF Crash, Reported, Finished, AppliedInFull, IsLast, FullInv, Intervals
<1>4. PICK M : M = L \cup ((p + 1) .. (a - 1))
  OBVIOUS
<1>5. \A t \in 1 .. MaxTx : /\ TxStatus[t] = StatusBy(t, o, p, a, L, N, F)
                            /\ TxStatus'[t] = StatusBy(t, a - 1, a - 1, a, M, N, F)
  BY <1>1, <1>3, <1>4 DEF StatusIsBy
<1>6. \A t \in 1 .. MaxTx : t < a => (t \in M <=> (t \in L \/ t > p))
  BY <1>2, <1>4
<1>7. ASSUME NEW t \in 1 .. MaxTx PROVE TxStatus'[t] = Service!AfterCrash(TxStatus[t])
  BY <1>2, <1>5, <1>6 DEF StatusBy, Service!AfterCrash
<1>8. Service!Crash
  BY <1>7 DEF Service!Crash, Service!Tx, TxStatus
<1> QED BY <1>8 DEF Service!Next

LEMMA NotifyIsReport ==
  ASSUME FullInv, StatusIsBy, StatusIsBy', NotifyOnlyApplied', NotifyCplt
  PROVE  Service!Next
<1>1. PICK o, p, a, L, N, F : /\ o = Oldest /\ p = Newest /\ a = tx_id_to_alloc
                             /\ L = lost /\ N = Reported /\ F = Finished
  OBVIOUS
<1>2. /\ o \in Int /\ p \in Int /\ a \in Nat /\ o <= p /\ p <= a - 1 /\ a <= MaxTx + 1
      /\ \A t \in L : t \in Int /\ t <= o
      /\ \A t \in N : t \in Int /\ t <= o
  BY <1>1, ValuesBefore
<1>3. /\ Oldest' = o + 1 /\ Newest' = p /\ tx_id_to_alloc' = a /\ o + 1 <= p
      /\ Head(tx_record).tx = o + 1
  BY <1>1, NumbersOfNotify DEF FullInv
<1>4. o + 1 \in Nat \ {0}
  <2>1. tx_record \in Seq(TxRecord) /\ tx_record # <<>>
    BY DEF FullInv, NInv, ListTypeOK, NotifyCplt, FrontApplied
  <2>2. Head(tx_record) \in TxRecord
    BY <2>1
  <2> QED BY <1>3, <2>2 DEF TxRecord
<1>5. o + 1 \in 1 .. MaxTx
  BY <1>2, <1>3, <1>4, AreaAssumption
<1>6. lost' = L /\ Finished' = F /\ Reported' = N \cup {o + 1}
  <2>1. notified' = Append(notified, o + 1) /\ notified \in Seq(Nat \ {0})
        /\ UNCHANGED <<lost, applied>>
    BY <1>3 DEF NotifyCplt, FullInv, NInv, HistTypeOK
  <2>2. Reported' = Reported \cup {o + 1}
    BY <1>4, <2>1 DEF Reported
  <2> QED BY <1>1, <2>1, <2>2 DEF Finished, AppliedInFull, IsLast
<1>7. PICK M : M = N \cup {o + 1}
  OBVIOUS
<1>8. \A t \in 1 .. MaxTx : /\ TxStatus[t] = StatusBy(t, o, p, a, L, N, F)
                            /\ TxStatus'[t] = StatusBy(t, o + 1, p, a, L, M, F)
  BY <1>1, <1>3, <1>6, <1>7 DEF StatusIsBy
<1>9. o + 1 \in F
  <2>1. notified' = Append(notified, o + 1) /\ notified \in Seq(Nat \ {0})
        /\ UNCHANGED applied
    BY <1>3 DEF NotifyCplt, FullInv, NInv, HistTypeOK
  <2>2. PICK n : n = Len(notified) + 1
    OBVIOUS
  <2>3. n \in 1 .. Len(notified') /\ notified'[n] = o + 1
    BY <1>4, <2>1, <2>2
  <2>4. \E k \in 1 .. Len(applied) : applied[k].tx = o + 1 /\ IsLast(applied[k])
    BY <2>1, <2>3 DEF NotifyOnlyApplied, IsLast
  <2> QED BY <1>1, <1>5, <2>4 DEF Finished, AppliedInFull
<1>10. /\ TxStatus[o + 1] = "applied"
       /\ \A t \in 1 .. MaxTx : t < o + 1 => TxStatus[t] \notin {"durable", "applied"}
  BY <1>2, <1>3, <1>5, <1>8, <1>9 DEF StatusBy
<1>11. \A t \in 1 .. MaxTx : TxStatus'[t] = IF t = o + 1 THEN "reported" ELSE TxStatus[t]
  BY <1>2, <1>3, <1>7, <1>8, <1>9 DEF StatusBy
<1>12. Service!Report(o + 1)
  BY <1>5, <1>10, <1>11, StatusMove DEF Service!Report, Service!Move, Service!NoneBefore, Service!Tx
<1> QED BY <1>5, <1>12 DEF Service!Next, Service!Tx

\* The blocks a step of the SSD applies, by their index in what is published;
\* none but the last of them ends a transaction.
LEMMA BlocksApplied ==
  ASSUME FullInv, RingInv, RingInv', SSDApply
  PROVE  \E m, n \in Nat :
           /\ m = Len(applied) /\ n = Len(applied') /\ m < n /\ n <= Len(published)
           /\ \A j \in 1 .. m : applied[j] = published[j]
           /\ \A j \in 1 .. n : applied'[j] = published[j]
           /\ \A j \in 1 .. n : j > m /\ j < n => ~IsLast(published[j])
<1>1. PICK m : m = Len(applied)
  OBVIOUS
<1>2. m \in Nat /\ Live \in Nat /\ Len(published) \in Nat /\ Len(published) = m + Live
  BY <1>1, RingTypes DEF FullInv, RingInv, AllThere
<1>3. PICK k \in 1 .. Live :
           /\ Len(applied') = m + k
           /\ k = 1
  BY <1>1, AppliedGrows DEF FullInv
<1>4. PICK n : n = m + k
  OBVIOUS
<1>5. n \in Nat /\ m < n /\ n <= Len(published) /\ k \in Nat
  BY <1>2, <1>3, <1>4
<1>6. \A j \in 1 .. m : applied[j] = published[j]
  BY <1>1 DEF RingInv, AppliedInOrder
<1>7. \A j \in 1 .. n : applied'[j] = published[j]
  <2>1. UNCHANGED published
    BY DEF SSDApply
  <2> QED BY <1>3, <1>4, <2>1 DEF RingInv, AppliedInOrder
<1>8. ASSUME NEW j \in 1 .. n, j > m, j < n PROVE ~IsLast(published[j])
  BY <1>2, <1>3, <1>4, <1>8
<1> QED BY <1>1, <1>2, <1>3, <1>4, <1>5, <1>6, <1>7, <1>8

LEMMA ApplyIsApply ==
  ASSUME FullInv, RingInv, RingInv', NotifyOnlyApplied, StatusIsBy, StatusIsBy', SSDApply
  PROVE  Service!Next \/ UNCHANGED TxStatus
<1>1. PICK o, p, a, L, N, F : /\ o = Oldest /\ p = Newest /\ a = tx_id_to_alloc
                             /\ L = lost /\ N = Reported /\ F = Finished
  OBVIOUS
<1>2. /\ o \in Int /\ p \in Int /\ a \in Nat /\ o <= p /\ p <= a - 1 /\ a <= MaxTx + 1
  BY <1>1, ValuesBefore
<1>3. /\ Oldest' = o /\ Newest' = p /\ tx_id_to_alloc' = a /\ lost' = L /\ Reported' = N
  BY <1>1 DEF SSDApply, envVars, listVars, Newest, Oldest, HeldNum, InHand, Reported
<1>4. PICK G : G = Finished'
  OBVIOUS
<1>5. \A t \in 1 .. MaxTx : /\ TxStatus[t] = StatusBy(t, o, p, a, L, N, F)
                            /\ TxStatus'[t] = StatusBy(t, o, p, a, L, N, G)
  BY <1>1, <1>3, <1>4 DEF StatusIsBy
<1>6. PICK m, n \in Nat :
           /\ m = Len(applied) /\ n = Len(applied') /\ m < n /\ n <= Len(published)
           /\ \A j \in 1 .. m : applied[j] = published[j]
           /\ \A j \in 1 .. n : applied'[j] = published[j]
           /\ \A j \in 1 .. n : j > m /\ j < n => ~IsLast(published[j])
  BY BlocksApplied
<1>7. PICK x : x = published[n].tx
  OBVIOUS
<1>8. n \in 1 .. Len(published) /\ x \in 1 .. p /\ x \notin L /\ x \in 1 .. MaxTx
  <2>1. n \in 1 .. Len(published)
    BY <1>6, RingTypes DEF FullInv
  <2>2. x \in 1 .. p /\ x \notin L
    BY <1>1, <1>7, <2>1 DEF FullInv, HistoryInv, PublishedKnown
  <2> QED BY <1>2, <2>1, <2>2, AreaAssumption
<1>9. \A t \in 1 .. MaxTx :
        /\ t \in F <=> \E j \in 1 .. m : published[j].tx = t /\ IsLast(published[j])
        /\ t \in G <=> \E j \in 1 .. n : published[j].tx = t /\ IsLast(published[j])
  BY <1>1, <1>4, <1>6 DEF Finished, AppliedInFull, IsLast
<1>10. CASE x \in F \/ ~IsLast(published[n])
  <2>1. ASSUME NEW t \in 1 .. MaxTx PROVE t \in F <=> t \in G
    <3>1. ASSUME t \in F PROVE t \in G
      BY <1>6, <1>9, <3>1
    <3>2. ASSUME t \in G PROVE t \in F
      <4>1. PICK j \in 1 .. n : published[j].tx = t /\ IsLast(published[j])
        BY <1>9, <3>2
      <4>2. CASE j \in 1 .. m
        BY <1>9, <4>1, <4>2
      <4>3. CASE j > m /\ j < n
        BY <1>6, <4>1, <4>3
      <4>4. CASE j = n
        BY <1>7, <1>10, <4>1, <4>4
      <4> QED BY <1>6, <4>2, <4>3, <4>4
    <3> QED BY <3>1, <3>2
  <2>2. \A t \in 1 .. MaxTx : TxStatus'[t] = TxStatus[t]
    BY <1>5, <2>1 DEF StatusBy
  <2> QED BY <2>2, StatusStays
<1>11. CASE x \notin F /\ IsLast(published[n])
  <2>1. ASSUME NEW t \in 1 .. MaxTx PROVE t \in G <=> (t \in F \/ t = x)
    <3>1. ASSUME t \in F PROVE t \in G
      BY <1>6, <1>9, <3>1
    <3>2. ASSUME t = x PROVE t \in G
      <4>1. n \in 1 .. n
        BY <1>6
      <4> QED BY <1>7, <1>9, <1>11, <3>2, <4>1
    <3>3. ASSUME t \in G PROVE t \in F \/ t = x
      <4>1. PICK j \in 1 .. n : published[j].tx = t /\ IsLast(published[j])
        BY <1>9, <3>3
      <4>2. CASE j \in 1 .. m
        BY <1>9, <4>1, <4>2
      <4>3. CASE j > m /\ j < n
        BY <1>6, <4>1, <4>3
      <4>4. CASE j = n
        BY <1>7, <4>1, <4>4
      <4> QED BY <1>6, <4>2, <4>3, <4>4
    <3> QED BY <3>1, <3>2, <3>3
  <2>2. x \notin N
    <3> SUFFICES ASSUME x \in N PROVE FALSE
      OBVIOUS
    <3>1. PICK i \in 1 .. Len(notified) : notified[i] = x
      BY <1>1 DEF Reported
    <3>2. AppliedInFull(x)
      BY <3>1 DEF NotifyOnlyApplied, AppliedInFull
    <3> QED BY <1>1, <1>8, <1>11, <3>2 DEF Finished
  <2>3. /\ TxStatus[x] = IF x > o THEN "durable" ELSE "orphan"
        /\ TxStatus'[x] = IF x > o THEN "applied" ELSE "recovered"
    BY <1>2, <1>5, <1>8, <1>11, <2>1, <2>2 DEF StatusBy
  <2>4. \A t \in 1 .. MaxTx : t # x => TxStatus'[t] = TxStatus[t]
    BY <1>5, <2>1 DEF StatusBy
  <2>5. PICK to : to = IF TxStatus[x] = "durable" THEN "applied" ELSE "recovered"
    OBVIOUS
  <2>6. TxStatus' = [TxStatus EXCEPT ![x] = to]
    <3>1. \A t \in 1 .. MaxTx : TxStatus'[t] = IF t = x THEN to ELSE TxStatus[t]
      BY <2>3, <2>4, <2>5
    <3> QED BY <1>8, <3>1, StatusMove
  <2>7. ASSUME NEW t \in 1 .. MaxTx, t < x PROVE TxStatus[t] \notin {"durable", "orphan"}
    <3> SUFFICES ASSUME TxStatus[t] \in {"durable", "orphan"} PROVE FALSE
      OBVIOUS
    <3>1. t < a /\ t \notin L /\ t <= p /\ t \notin F
      BY <1>2, <1>5 DEF StatusBy
    <3>2. t \in 1 .. p
      BY <1>2, <3>1
    <3>3. PICK k \in 1 .. Len(published) : published[k].tx = t /\ IsLast(published[k])
      BY <1>1, <3>1, <3>2 DEF FullInv, HistoryInv, PublishedWhole, EndsTx
    <3>4. k < n
      <4>1. CASE k = n
        BY <1>2, <1>7, <1>8, <2>7, <3>3, <4>1
      <4>2. CASE n < k
        <5>1. published[n].tx <= published[k].tx
          BY <1>8, <4>2 DEF FullInv, HistoryInv, PublishedInOrder
        <5>2. x <= t
          BY <1>7, <3>3, <5>1
        <5> QED BY <1>2, <1>8, <2>7, <5>2
      <4>3. Len(published) \in Nat
        BY RingTypes DEF FullInv
      <4> QED BY <1>6, <4>1, <4>2, <4>3
    <3>5. CASE k <= m
      <4>1. k \in 1 .. m
        BY <1>6, <3>5
      <4> QED BY <1>9, <3>1, <3>3, <4>1
    <3>6. CASE k > m
      <4>1. k \in 1 .. n
        BY <1>6, <3>4
      <4> QED BY <1>6, <3>3, <3>4, <3>6, <4>1
    <3> QED BY <1>6, <3>5, <3>6
  <2>8. TxStatus[x] \in {"durable", "orphan"}
    BY <2>3
  <2>9. Service!Apply(x)
    BY <1>8, <2>5, <2>6, <2>7, <2>8 DEF Service!Apply, Service!NoneBefore, Service!Tx
  <2> QED BY <1>8, <2>9 DEF Service!Next, Service!Tx
<1> QED BY <1>10, <1>11

\* The steps that move journals between the lists, and those that leave the
\* lists alone.
LEMMA QuietStatus ==
  ASSUME StatusIsBy, StatusIsBy', UNCHANGED Numbers, UNCHANGED <<lost, notified, applied>>
  PROVE  UNCHANGED TxStatus
<1>1. Reported' = Reported /\ Finished' = Finished
  BY DEF Reported, Finished, AppliedInFull, IsLast
<1> QED BY <1>1 DEF StatusIsBy, Numbers

LEMMA ServiceStep ==
  /\ FullInv /\ RingInv /\ NotifyOnlyApplied
  /\ NInv' /\ OrderInv' /\ RingInv' /\ NotifyOnlyApplied'
  /\ [Next]_vars
  => [Service!Next]_TxStatus
<1> SUFFICES ASSUME FullInv, RingInv, NotifyOnlyApplied, NInv', OrderInv', RingInv',
                    NotifyOnlyApplied', [Next]_vars
             PROVE  Service!Next \/ UNCHANGED TxStatus
  OBVIOUS
<1>1. StatusIsBy /\ StatusIsBy'
  BY StatusFromNumbers, StatusFromNumbersNext DEF FullInv
<1>2. CASE \E b \in Sizes : commit_journal(b)
  BY <1>1, <1>2, CommitIsSubmit
<1>3. CASE FetchJournals \/ PendingNoSpace \/ WriteBlocks
  <2>1. UNCHANGED Numbers
    BY <1>3, NumbersOfFetch, NumbersOfTake DEF FullInv
  <2>2. UNCHANGED <<lost, notified, applied>>
    BY <1>3 DEF FetchJournals, PendingNoSpace, WriteBlocks, histVars
  <2> QED BY <1>1, <2>1, <2>2, QuietStatus
<1>4. CASE PublishTail
  BY <1>1, <1>4, PublishIsPublish
<1>5. CASE NotifyCplt
  BY <1>1, <1>5, NotifyIsReport
<1>6. CASE Crash
  BY <1>1, <1>6, CrashIsCrash
<1>7. CASE SSDApply
  BY <1>1, <1>7, ApplyIsApply
<1>8. CASE /\ ~ \E b \in Sizes : commit_journal(b)
           /\ ~FetchJournals /\ ~PendingNoSpace /\ ~WriteBlocks /\ ~PublishTail
           /\ ~NotifyCplt /\ ~Crash /\ ~SSDApply
  <2>1. UNCHANGED Numbers /\ UNCHANGED <<lost, notified, applied>>
    BY <1>8, NumbersOfOthers
  <2> QED BY <1>1, <2>1, QuietStatus
<1> QED BY <1>2, <1>3, <1>4, <1>5, <1>6, <1>7, <1>8

LEMMA ServiceInit == Init => Service!Init
  BY DEF Init, Service!Init, Service!Tx, TxStatus, StatusOf

LEMMA InitOrder == Init => OrderInv
  BY DEF Init, OrderInv, RecordsNumbered, InHandNumbered, PendingNumbered, QueueNumbered

LEMMA OrderAlways == Spec => []OrderInv
  BY NInvAlways, NextOrder, InitOrder, PTL DEF Spec

LEMMA HistoryAlways == Spec => []HistoryInv
  BY NInvAlways, OrderAlways, InitHistory, HistoryStep, PTL DEF Spec

\* Every step of the queue, the journal thread, the ring, the SSD and a crash
\* is a step of TxService or changes no transaction's status: a transaction
\* becomes durable as a whole, is applied and reported after all older ones,
\* is reported at most once, and is never lost once published.
THEOREM ServiceSafety == Spec => Service!SafeSpec
<1>1. Spec => [](FullInv /\ RingInv /\ NotifyOnlyApplied)
  BY NInvAlways, OrderAlways, HistoryAlways, RingInductive, NotifyCorrect, PTL DEF FullInv
<1>2. FullInv' => NInv' /\ OrderInv'
  BY DEF FullInv
<1> QED BY <1>1, <1>2, ServiceInit, ServiceStep, PTL DEF Spec, Service!SafeSpec

=================================================================================
