------------------------ MODULE ReplaceProtectProofs ------------------------
(***************************************************************************)
(* For every set of API threads and any number of transactions: a record   *)
(* of replace protection is always in exactly one place on its way from    *)
(* add_tx to the server thread's task, a path lookup or mapping search     *)
(* never meets a journal the SSD has not applied, and fini stops the       *)
(* server thread only when nothing is left to protect or to write back.    *)
(***************************************************************************)
EXTENDS ReplaceProtect, TLAPS

-------------------------------------------------------------------------------
(* The inductive invariant.  Transactions are numbered in commit order and *)
(* every stage of the pipeline is first in, first out, so each stage holds *)
(* an interval of numbers: trp_list the ones above Reported, then, going   *)
(* down, the journal thread's record, the task queue, the server's task.   *)

\* The states of a transaction when the host does not crash.
Live == {"none", "submitted", "durable", "applied", "reported"}

\* fs_meta_lock is held by the thread that is inside an operation, and fini
\* runs when no API thread is.
LockInv ==
    /\ \A a \in Api : api[a] # "idle" <=> fs_meta_lock = a
    /\ fs_meta_lock = "server" <=> server = "task"
    /\ fini # "off" => \A a \in Api : api[a] = "idle"

\* The transactions fini may still need, one for each of its write backs.
Spare == IF fini = "off" \/ (fini = "write_back" /\ fini_round = 1) THEN 2
         ELSE IF fini_round = 1 \/ fini = "write_back" THEN 1 ELSE 0

Allocated == tx_id_to_alloc - 1
BoundInv == Allocated + Spare <= MaxTx /\ (fini = "off" => fini_round = 1)

\* A thread is between add_tx and commit_journal.
Adding == fini = "added" \/ \E a \in Api : api[a] = "added"

\* The newest transaction notify_cplt_tx has taken off trp_list.
Reported == Allocated - Len(trp_list)

ListInv ==
    /\ Reported >= 0
    /\ \A i \in 1 .. Len(trp_list) : trp_list[i].tx = Reported + i
    /\ Adding => trp_list # <<>>

StatusInv ==
    /\ st \in [Journal!Tx -> Live]
    /\ \A t \in Journal!Tx : st[t] = "none" <=> (t > Allocated \/ (t = Allocated /\ Adding))
    /\ \A t \in Journal!Tx : st[t] = "reported" <=> t <= Reported
    /\ \A t, u \in Journal!Tx :
         u < t /\ st[u] = "submitted" => st[t] \in {"none", "submitted"}

\* One or no record with the journal thread, with the server thread, and
\* with the server thread before its protection is released.
Carried == IF jt \in {"notify", "post"} THEN 1 ELSE 0
Running == IF server \in {"lock", "task", "mark"} THEN 1 ELSE 0
Unreleased == IF server \in {"lock", "task"} THEN 1 ELSE 0

\* The newest transaction the server thread has taken off its queue.
Taken == Reported - Carried - Len(task_queue)

PipelineInv ==
    /\ Taken - Running >= 0
    /\ jt_record.tx = IF Carried = 1 THEN Reported ELSE 0
    /\ \A i \in 1 .. Len(task_queue) : task_queue[i].tx = Taken + i
    /\ cur_task.tx = IF Running = 1 THEN Taken ELSE 0
    /\ released = 1 .. (Taken - Unreleased)
    /\ protect_processing_tx = (Taken + 1 - Running) .. Reported

SearchInv == (\E a \in Api : api[a] = "search") => trp_list = <<>>

\* fini has passed its two waits, and has taken the nodes dirtied before it.
FiniInv ==
    /\ fini \in {"check_protect", "sleep_protect", "waited", "stop_notify", "join", "done"}
         => trp_list = <<>>
    /\ fini \in {"waited", "stop_notify", "join", "done"} => protect_processing_tx = {}
    /\ fini # "off" /\ ~(fini = "write_back" /\ fini_round = 1) => cur_journal # "nodes"
    /\ fini \in {"stop_notify", "join", "done"} => cur_journal = "empty"

\* In the second round no task can append to the journal any more.
Plain(r) == r.carries = FALSE
RoundInv ==
    fini_round = 2 =>
      /\ fini # "write_back" => cur_journal = "empty"
      /\ Plain(jt_record) /\ Plain(cur_task)
      /\ \A i \in 1 .. Len(trp_list) : Plain(trp_list[i])
      /\ \A i \in 1 .. Len(task_queue) : Plain(task_queue[i])

IInv == /\ TypeOK /\ LockInv /\ BoundInv /\ ListInv /\ StatusInv /\ PipelineInv
        /\ SearchInv /\ FiniInv /\ RoundInv

-------------------------------------------------------------------------------
(* Type correctness.                                                       *)

\* The numbers the invariant counts with are integers.
LEMMA Numbers ==
  ASSUME TypeOK
  PROVE  /\ MaxTx \in Nat /\ tx_id_to_alloc \in 1 .. (MaxTx + 1) /\ tx_id_to_alloc \in Int
         /\ Len(trp_list) \in Nat /\ Len(task_queue) \in Nat
         /\ Carried \in {0, 1} /\ Running \in {0, 1} /\ Unreleased \in {0, 1}
         /\ Allocated \in Int /\ Reported \in Int /\ Taken \in Int
<1>1. /\ MaxTx \in Nat /\ tx_id_to_alloc \in 1 .. (MaxTx + 1) /\ tx_id_to_alloc \in Int
      /\ Len(trp_list) \in Nat /\ Len(task_queue) \in Nat
  BY BoundAssumption DEF TypeOK
<1>2. Carried \in {0, 1} /\ Running \in {0, 1} /\ Unreleased \in {0, 1}
  BY DEF Carried, Running, Unreleased
<1>3. Allocated \in Int
  BY <1>1 DEF Allocated
<1>4. Reported \in Int
  BY <1>1, <1>3 DEF Reported
<1>5. Taken \in Int
  BY <1>1, <1>2, <1>4 DEF Taken
<1> QED BY <1>1, <1>2, <1>3, <1>4, <1>5

\* A record in the journal thread's or the server thread's hands is one.
LEMMA RecordsInHand ==
  ASSUME IInv
  PROVE  /\ jt \in {"notify", "post"} => jt_record \in Record
         /\ server \in {"lock", "task", "mark"} => cur_task \in Record
<1>1. /\ Len(task_queue) \in Nat /\ Carried \in {0, 1} /\ Running \in {0, 1}
      /\ Reported \in Int /\ Taken \in Int
  BY Numbers DEF IInv
<1>2. Taken - Running >= 0
  BY DEF IInv, PipelineInv
<1>3. Running = 1 => Taken >= 1
  BY <1>1, <1>2
<1>4. Carried = 1 => Reported >= 1
  BY <1>1, <1>2 DEF Taken
<1>5. NoRecord.tx = 0
  BY DEF NoRecord
<1>6. ASSUME jt \in {"notify", "post"} PROVE jt_record \in Record
  <2>1. jt_record.tx = Reported /\ Reported >= 1
    BY <1>4, <1>6 DEF IInv, PipelineInv, Carried
  <2>2. jt_record # NoRecord
    BY <2>1, <1>5
  <2> QED BY <2>2 DEF IInv, TypeOK
<1>7. ASSUME server \in {"lock", "task", "mark"} PROVE cur_task \in Record
  <2>1. cur_task.tx = Taken /\ Taken >= 1
    BY <1>3, <1>7 DEF IInv, PipelineInv, Running
  <2>2. cur_task # NoRecord
    BY <2>1, <1>5
  <2> QED BY <2>2 DEF IInv, TypeOK
<1> QED BY <1>6, <1>7

\* While a journal may still be taken, the bound leaves it a number.
LEMMA SpareTx ==
  ASSUME IInv, fini = "write_back" \/ (fini = "off" /\ tx_id_to_alloc <= MaxTx - 2)
  PROVE  tx_id_to_alloc \in 1 .. MaxTx /\ NewRecord \in Record
<1>1. tx_id_to_alloc \in 1 .. MaxTx
  BY BoundAssumption DEF IInv, TypeOK, BoundInv, Spare, Allocated
<1> QED BY <1>1 DEF NewRecord, Record

\* The transaction recorded and not yet committed has one of the numbers.
LEMMA AddedTx ==
  ASSUME IInv, Adding
  PROVE  tx_id_to_alloc - 1 \in Journal!Tx
<1>1. Allocated >= 1
  BY DEF IInv, ListInv, Reported, Allocated, TypeOK
<1> QED BY <1>1, Numbers DEF IInv, Allocated, Journal!Tx

\* Only fini or an API thread with fini not begun takes a journal.
LEMMA HolderBeforeFini ==
  ASSUME IInv, NEW a \in Api, api[a] # "idle"
  PROVE  /\ fini = "off" /\ fini_round = 1 /\ fs_meta_lock = a
         /\ \A b \in Api : b # a => api[b] = "idle"
  BY DEF IInv, LockInv, BoundInv, TypeOK

\* The journal layer's steps keep every transaction's status one of Live.
LEMMA StatusStep ==
  ASSUME st \in [Journal!Tx -> Live], NEW t \in Journal!Tx,
         Journal!Submit(t) \/ Journal!Publish(t) \/ Journal!Apply(t) \/ Journal!Report(t)
  PROVE  /\ st' \in [Journal!Tx -> Live]
         /\ \A u \in Journal!Tx : u # t => st'[u] = st[u]
  BY DEF Live, Journal!Submit, Journal!Publish, Journal!Apply, Journal!Report, Journal!Move

LEMMA LiveIsStatus == Live \subseteq Journal!Status
  BY DEF Live, Journal!Status

LEMMA InitType == Init => TypeOK
<1> SUFFICES ASSUME Init PROVE TypeOK OBVIOUS
<1>1. Journal!StatusOK
  BY DEF Init, Journal!Init, Journal!StatusOK, Journal!Status
<1>2. tx_id_to_alloc \in 1 .. (MaxTx + 1)
  BY BoundAssumption DEF Init
<1>3. trp_list \in Seq(Record) /\ task_queue \in Seq(Record)
  BY DEF Init
<1>4. api \in [Api -> {"idle", "locked", "added", "asleep", "woken", "search"}]
  BY DEF Init
<1>5. /\ protect_processing_tx \subseteq 1 .. MaxTx /\ released \subseteq 1 .. MaxTx
      /\ fini_round \in {1, 2} /\ exit_req \in BOOLEAN
  BY DEF Init
<1> QED BY <1>1, <1>2, <1>3, <1>4, <1>5 DEF Init, TypeOK

LEMMA ApiTypes ==
  ASSUME IInv, NEW a \in Api, ApiStep(a)
  PROVE  TypeOK'
<1> USE DEF IInv
<1>0. TypeOK OBVIOUS
<1>1. CASE Lock(a)
  BY <1>0, <1>1 DEF TypeOK, Lock, txVars, rpVars, jtVars, srvVars, finiVars, Journal!StatusOK
<1>2. CASE Unlock(a)
  BY <1>0, <1>2 DEF TypeOK, Unlock, txVars, rpVars, jtVars, srvVars, finiVars, Journal!StatusOK
<1>3. CASE Modify(a)
  BY <1>0, <1>3 DEF TypeOK, Modify, txVars, rpVars, jtVars, srvVars, finiVars, Journal!StatusOK
<1>4. CASE WriteBack(a)
  <2>1. tx_id_to_alloc \in 1 .. MaxTx /\ NewRecord \in Record
    BY <1>4, HolderBeforeFini, SpareTx DEF WriteBack
  <2>2. tx_id_to_alloc' \in 1 .. (MaxTx + 1)
    BY <1>4, <2>1, BoundAssumption DEF WriteBack, TakeJournal
  <2>3. trp_list' \in Seq(Record)
    BY <1>4, <2>1, <1>0 DEF WriteBack, TakeJournal, Recorded, TypeOK
  <2> QED BY <1>0, <1>4, <2>2, <2>3
       DEF TypeOK, WriteBack, TakeJournal, jtVars, srvVars, finiVars, Journal!StatusOK
<1>5. CASE Commit(a)
  <2>1. tx_id_to_alloc - 1 \in Journal!Tx
    BY <1>5, AddedTx DEF Commit, Adding
  <2>2. st' \in [Journal!Tx -> Live]
    BY <1>5, <2>1, StatusStep DEF Commit, CommitJournal, StatusInv
  <2>3. Journal!StatusOK'
    BY <2>2, LiveIsStatus DEF Journal!StatusOK
  <2> QED BY <1>0, <1>5, <2>3 DEF TypeOK, Commit, metaVars, rpVars, jtVars, srvVars, finiVars
<1>6. CASE wait_all_journal_applied_in_SSD(a)
  BY <1>0, <1>6 DEF TypeOK, wait_all_journal_applied_in_SSD, metaVars, txVars, rpVars, jtVars, srvVars, finiVars, Journal!StatusOK
<1>7. CASE SearchDone(a)
  BY <1>0, <1>7 DEF TypeOK, SearchDone, metaVars, txVars, rpVars, jtVars, srvVars, finiVars, Journal!StatusOK
<1> QED BY <1>1, <1>2, <1>3, <1>4, <1>5, <1>6, <1>7 DEF ApiStep

LEMMA JournalTypes ==
  ASSUME IInv, JournalStep \/ SSDApply \/ post_task
  PROVE  TypeOK'
<1>0. TypeOK /\ st \in [Journal!Tx -> Live]
  BY DEF IInv, StatusInv
<1>1. CASE JournalPublish
  <2>1. Journal!StatusOK'
    BY <1>0, <1>1, StatusStep, LiveIsStatus DEF JournalPublish, Journal!StatusOK
  <2> QED BY <1>0, <1>1, <2>1
       DEF TypeOK, JournalPublish, metaVars, rpVars, jtVars, srvVars, finiVars
<1>2. CASE SSDApply
  <2>1. Journal!StatusOK'
    BY <1>0, <1>2, StatusStep, LiveIsStatus DEF SSDApply, Journal!StatusOK
  <2> QED BY <1>0, <1>2, <2>1
       DEF TypeOK, SSDApply, metaVars, rpVars, jtVars, srvVars, finiVars
<1>3. CASE notify_cplt_tx
  <2>1. Journal!StatusOK'
    BY <1>0, <1>3, StatusStep, LiveIsStatus DEF notify_cplt_tx, Journal!StatusOK
  <2>2. trp_list \in Seq(Record) /\ trp_list # <<>>
    BY <1>0, <1>3 DEF TypeOK, notify_cplt_tx
  <2>3. Head(trp_list) \in Record /\ Tail(trp_list) \in Seq(Record)
    BY <2>2
  <2>4. Head(trp_list).tx \in 1 .. MaxTx
    BY <2>3 DEF Record
  <2>5. jt_record' \in Record \cup {NoRecord} /\ trp_list' \in Seq(Record)
    BY <1>3, <2>3 DEF notify_cplt_tx
  <2>6. protect_processing_tx' \subseteq 1 .. MaxTx
    BY <1>0, <1>3, <2>4 DEF notify_cplt_tx, TypeOK
  <2> QED BY <1>0, <1>3, <2>1, <2>5, <2>6
       DEF TypeOK, notify_cplt_tx, metaVars, srvVars, finiVars
<1>4. CASE NotifyTrpEmpty
  <2>1. api' \in [Api -> {"idle", "locked", "added", "asleep", "woken", "search"}]
    BY <1>0, <1>4 DEF NotifyTrpEmpty, TypeOK
  <2> QED BY <1>0, <1>4, <2>1
       DEF TypeOK, NotifyTrpEmpty, metaVars, txVars, rpVars, srvVars, Journal!StatusOK
<1>5. CASE PostWakeup
  BY <1>0, <1>5 DEF TypeOK, PostWakeup, WakeServer, metaVars, txVars, rpVars, finiVars,
                    Journal!StatusOK
<1>6. CASE post_task
  <2>1. jt_record \in Record
    BY <1>6, RecordsInHand DEF post_task
  <2>2. task_queue' \in Seq(Record)
    BY <1>0, <1>6, <2>1 DEF post_task, Enqueued, TypeOK
  <2> QED BY <1>0, <1>6, <2>2
       DEF TypeOK, post_task, metaVars, txVars, rpVars, finiVars, Journal!StatusOK
<1> QED BY <1>1, <1>2, <1>3, <1>4, <1>5, <1>6 DEF JournalStep, NotifyStep

LEMMA ServerTypes ==
  ASSUME IInv, ServerStep \/ ServerSpuriousWakeup \/ TaskLock
  PROVE  TypeOK'
<1>0. TypeOK
  BY DEF IInv
<1> USE DEF metaVars, txVars, rpVars, jtVars, finiVars, Journal!StatusOK
<1>1. CASE ServerWait
  BY <1>0, <1>1 DEF TypeOK, ServerWait
<1>2. CASE ServerExit
  BY <1>0, <1>2 DEF TypeOK, ServerExit
<1>3. CASE ServerTake
  <2>1. Head(task_queue) \in Record /\ Tail(task_queue) \in Seq(Record)
    BY <1>0, <1>3 DEF TypeOK, ServerTake
  <2> QED BY <1>0, <1>3, <2>1 DEF TypeOK, ServerTake
<1>4. CASE ServerSpuriousWakeup
  BY <1>0, <1>4 DEF TypeOK, ServerSpuriousWakeup
<1>5. CASE TaskLock
  BY <1>0, <1>5 DEF TypeOK, TaskLock
<1>6. CASE TaskBody
  <2>1. cur_task.tx \in 1 .. MaxTx
    BY <1>6, RecordsInHand DEF TaskBody, Record
  <2>2. released' \subseteq 1 .. MaxTx
    BY <1>0, <1>6, <2>1 DEF TypeOK, TaskBody
  <2>3. cur_journal' \in {"empty", "meta", "nodes"}
    BY <1>0, <1>6 DEF TypeOK, TaskBody
  <2> QED BY <1>0, <1>6, <2>2, <2>3 DEF TypeOK, TaskBody
<1>7. CASE mark_protect_process_cplt
  <2>1. protect_processing_tx' \subseteq 1 .. MaxTx
    BY <1>0, <1>7 DEF TypeOK, mark_protect_process_cplt
  <2>2. server' \in {"notify", "loop"} /\ cur_task' = NoRecord
    BY <1>7 DEF mark_protect_process_cplt
  <2> QED BY <1>0, <1>7, <2>1, <2>2 DEF TypeOK, mark_protect_process_cplt
<1>8. CASE NotifyProtectCplt
  BY <1>0, <1>8 DEF TypeOK, NotifyProtectCplt
<1> QED BY <1>1, <1>2, <1>3, <1>4, <1>5, <1>6, <1>7, <1>8 DEF ServerStep

LEMMA FiniTypes ==
  ASSUME IInv, FiniStart \/ FiniStep \/ FiniStop
  PROVE  TypeOK'
<1>0. TypeOK
  BY DEF IInv
<1> USE DEF metaVars, txVars, rpVars, jtVars, srvVars, Journal!StatusOK
<1>1. CASE FiniStart
  BY <1>0, <1>1 DEF TypeOK, FiniStart
<1>2. CASE FiniWriteBack
  <2>1. tx_id_to_alloc \in 1 .. MaxTx /\ NewRecord \in Record
    BY <1>2, SpareTx DEF FiniWriteBack
  <2>2. tx_id_to_alloc' \in 1 .. (MaxTx + 1)
    BY <1>2, <2>1, BoundAssumption DEF FiniWriteBack, TakeJournal
  <2>3. trp_list' \in Seq(Record)
    BY <1>2, <2>1, <1>0 DEF FiniWriteBack, TakeJournal, Recorded, TypeOK
  <2> QED BY <1>0, <1>2, <2>2, <2>3 DEF TypeOK, FiniWriteBack, TakeJournal
<1>3. CASE FiniNothingDirty
  BY <1>0, <1>3 DEF TypeOK, FiniNothingDirty
<1>4. CASE FiniCommit
  <2>1. tx_id_to_alloc - 1 \in Journal!Tx
    BY <1>4, AddedTx DEF FiniCommit, Adding
  <2>2. Journal!StatusOK'
    BY <1>4, <2>1, StatusStep, LiveIsStatus DEF FiniCommit, CommitJournal, IInv, StatusInv
  <2> QED BY <1>0, <1>4, <2>2 DEF TypeOK, FiniCommit
<1>5. CASE FiniWaitApplied
  BY <1>0, <1>5 DEF TypeOK, FiniWaitApplied
<1>6. CASE FiniWaitProtect
  BY <1>0, <1>6 DEF TypeOK, FiniWaitProtect
<1>7. CASE FiniSecondRound
  BY <1>0, <1>7 DEF TypeOK, FiniSecondRound
<1>8. CASE FiniStop
  BY <1>0, <1>8 DEF TypeOK, FiniStop
<1>9. CASE FiniStopNotify
  BY <1>0, <1>9 DEF TypeOK, FiniStopNotify, WakeServer
<1>10. CASE FiniJoin
  BY <1>0, <1>10 DEF TypeOK, FiniJoin
<1> QED BY <1>1, <1>2, <1>3, <1>4, <1>5, <1>6, <1>7, <1>8, <1>9, <1>10 DEF FiniStep

-------------------------------------------------------------------------------
(* fs_meta_lock and the numbers left to fini.                              *)

LEMMA ApiLock ==
  ASSUME IInv, NEW a \in Api, ApiStep(a)
  PROVE  LockInv'
<1>0. /\ LockInv /\ TypeOK /\ "server" \notin Api /\ "free" \notin Api
      /\ (api[a] # "idle" => fini = "off" /\ \A b \in Api : b # a => api[b] = "idle")
  BY HolderBeforeFini, ApiAssumption DEF IInv
<1> USE DEF srvVars, finiVars, metaVars
<1>1. CASE Lock(a)
  BY <1>0, <1>1 DEF LockInv, Lock, TypeOK
<1>2. CASE Unlock(a)
  BY <1>0, <1>2 DEF LockInv, Unlock, TypeOK
<1>3. CASE Modify(a)
  BY <1>0, <1>3 DEF LockInv, Modify
<1>4. CASE WriteBack(a)
  BY <1>0, <1>4 DEF LockInv, WriteBack, TypeOK
<1>5. CASE Commit(a)
  BY <1>0, <1>5 DEF LockInv, Commit, TypeOK
<1>6. CASE wait_all_journal_applied_in_SSD(a)
  BY <1>0, <1>6 DEF LockInv, wait_all_journal_applied_in_SSD, TypeOK
<1>7. CASE SearchDone(a)
  BY <1>0, <1>7 DEF LockInv, SearchDone, TypeOK
<1> QED BY <1>1, <1>2, <1>3, <1>4, <1>5, <1>6, <1>7 DEF ApiStep

LEMMA JournalLock ==
  ASSUME IInv, JournalStep \/ SSDApply \/ post_task
  PROVE  LockInv'
<1>0. LockInv /\ TypeOK
  BY DEF IInv
<1> USE DEF LockInv, srvVars, finiVars, metaVars
<1>1. CASE JournalPublish \/ SSDApply \/ notify_cplt_tx
  BY <1>0, <1>1 DEF JournalPublish, SSDApply, notify_cplt_tx
<1>2. CASE NotifyTrpEmpty
  BY <1>0, <1>2 DEF NotifyTrpEmpty, TypeOK
<1>3. CASE PostWakeup
  BY <1>0, <1>3 DEF PostWakeup, WakeServer
<1>4. CASE post_task
  BY <1>0, <1>4 DEF post_task
<1> QED BY <1>1, <1>2, <1>3, <1>4 DEF JournalStep, NotifyStep

LEMMA ServerLock ==
  ASSUME IInv, ServerStep \/ ServerSpuriousWakeup \/ TaskLock
  PROVE  LockInv'
<1>0. LockInv /\ TypeOK /\ "server" \notin Api /\ "free" \notin Api
  BY ApiAssumption DEF IInv
<1> USE DEF LockInv, finiVars, metaVars
<1>1. CASE ServerWait \/ ServerExit \/ ServerTake \/ ServerSpuriousWakeup
  BY <1>0, <1>1 DEF ServerWait, ServerExit, ServerTake, ServerSpuriousWakeup, AtTop
<1>2. CASE TaskLock
  BY <1>0, <1>2 DEF TaskLock
<1>3. CASE TaskBody
  BY <1>0, <1>3 DEF TaskBody
<1>4. CASE mark_protect_process_cplt
  BY <1>0, <1>4 DEF mark_protect_process_cplt
<1>5. CASE NotifyProtectCplt
  BY <1>0, <1>5 DEF NotifyProtectCplt
<1> QED BY <1>1, <1>2, <1>3, <1>4, <1>5 DEF ServerStep

LEMMA FiniLock ==
  ASSUME IInv, FiniStart \/ FiniStep \/ FiniStop
  PROVE  LockInv'
<1>0. LockInv
  BY DEF IInv
<1> USE DEF LockInv, srvVars, metaVars
<1>1. CASE FiniStart
  BY <1>0, <1>1 DEF FiniStart
<1>2. CASE FiniWriteBack \/ FiniNothingDirty \/ FiniCommit
  BY <1>0, <1>2 DEF FiniWriteBack, FiniNothingDirty, FiniCommit
<1>3. CASE FiniWaitApplied \/ FiniWaitProtect \/ FiniSecondRound
  BY <1>0, <1>3 DEF FiniWaitApplied, FiniWaitProtect, FiniSecondRound
<1>4. CASE FiniStop \/ FiniStopNotify \/ FiniJoin
  BY <1>0, <1>4 DEF FiniStop, FiniStopNotify, FiniJoin, WakeServer
<1> QED BY <1>1, <1>2, <1>3, <1>4 DEF FiniStep

\* What the bound's invariant says of tx_id_to_alloc and fini in one step.
LEMMA BoundFrame ==
  ASSUME BoundInv, TypeOK, UNCHANGED <<tx_id_to_alloc, fini_round>>,
         fini' = fini \/ (fini # "off" /\ fini' \notin {"off", "write_back"})
  PROVE  BoundInv'
  BY Numbers DEF TypeOK, BoundInv, Spare, Allocated

LEMMA BoundStep ==
  ASSUME IInv, Next
  PROVE  BoundInv'
<1>0. /\ BoundInv /\ TypeOK /\ MaxTx \in Nat /\ tx_id_to_alloc \in Int
      /\ fini_round \in {1, 2}
  BY Numbers DEF IInv, TypeOK
<1> USE DEF metaVars, txVars, finiVars
<1>1. ASSUME NEW a \in Api, ApiStep(a) PROVE BoundInv'
  <2>1. CASE WriteBack(a)
    <3>1. fini = "off" /\ fini_round = 1
      BY <2>1, HolderBeforeFini DEF WriteBack
    <3> QED BY <1>0, <2>1, <3>1 DEF WriteBack, TakeJournal, BoundInv, Spare, Allocated
  <2>2. CASE ~WriteBack(a)
    BY <1>0, <1>1, <2>2, BoundFrame DEF ApiStep, Lock, Unlock, Modify, Commit,
         wait_all_journal_applied_in_SSD, SearchDone
  <2> QED BY <2>1, <2>2
<1>2. CASE JournalStep \/ SSDApply \/ post_task
  BY <1>0, <1>2, BoundFrame DEF JournalStep, NotifyStep, JournalPublish, SSDApply,
       notify_cplt_tx, NotifyTrpEmpty, PostWakeup, post_task
<1>3. CASE ServerStep \/ ServerSpuriousWakeup \/ TaskLock
  BY <1>0, <1>3, BoundFrame DEF ServerStep, ServerSpuriousWakeup, TaskLock, ServerWait,
       ServerExit, ServerTake, TaskBody, mark_protect_process_cplt, NotifyProtectCplt
<1>4. CASE FiniStart
  BY <1>0, <1>4 DEF FiniStart, BoundInv, Spare, Allocated
<1>5. CASE FiniWriteBack
  BY <1>0, <1>5 DEF FiniWriteBack, TakeJournal, BoundInv, Spare, Allocated
<1>6. CASE FiniSecondRound
  BY <1>0, <1>6 DEF FiniSecondRound, FiniAgain, BoundInv, Spare, Allocated
<1>7. CASE FiniNothingDirty \/ FiniCommit \/ FiniWaitApplied \/ FiniWaitProtect
           \/ FiniStop \/ FiniStopNotify \/ FiniJoin
  BY <1>0, <1>7 DEF BoundInv, Spare, Allocated, FiniNothingDirty, FiniCommit, FiniWaitApplied, FiniWaitProtect,
       FiniStop, FiniStopNotify, FiniJoin
<1>8. CASE Finished
  BY <1>0, <1>8, BoundFrame DEF Finished, vars
<1> QED BY <1>1, <1>2, <1>3, <1>4, <1>5, <1>6, <1>7, <1>8 DEF Next, FiniStep

-------------------------------------------------------------------------------
(* trp_list and the journal layer's view of each transaction.              *)

ListVars == <<tx_id_to_alloc, trp_list, st>>

LEMMA ListFrame ==
  ASSUME ListInv, StatusInv, UNCHANGED ListVars, Adding' <=> Adding
  PROVE  ListInv' /\ StatusInv'
  BY DEF ListInv, StatusInv, ListVars, Reported, Allocated

\* An API thread's step that neither begins nor ends a commit.
LEMMA AddingFrame ==
  ASSUME TypeOK, NEW a \in Api, NEW x, api' = [api EXCEPT ![a] = x],
         api[a] # "added", x # "added", fini' = fini
  PROVE  Adding' <=> Adding
  BY DEF TypeOK, Adding

\* At most one thread is between add_tx and commit_journal: the lock's
\* holder, or fini.
LEMMA OnlyOneAdds ==
  ASSUME IInv
  PROVE  /\ fini # "off" => \A a \in Api : api[a] = "idle"
         /\ \A a \in Api : api[a] # "idle" =>
              fini = "off" /\ \A b \in Api : b # a => api[b] = "idle"
  BY HolderBeforeFini DEF IInv, LockInv

\* add_tx: the record is the newest of the list.
LEMMA AddTx ==
  ASSUME IInv, TakeJournal, st' = st, ~Adding, Adding', tx_id_to_alloc \in 1 .. MaxTx
  PROVE  ListInv' /\ StatusInv' /\ Reported' = Reported
<1>1. /\ trp_list \in Seq(Record) /\ Len(trp_list) \in Nat /\ tx_id_to_alloc \in Int
      /\ MaxTx \in Nat /\ Reported \in Int
  BY Numbers DEF IInv, TypeOK
<1>2. /\ trp_list' = Append(trp_list, NewRecord) /\ tx_id_to_alloc' = tx_id_to_alloc + 1
      /\ NewRecord.tx = tx_id_to_alloc
  BY DEF TakeJournal, Recorded, NewRecord
<1>3. /\ Len(trp_list') = Len(trp_list) + 1
      /\ \A i \in 1 .. Len(trp_list) : trp_list'[i] = trp_list[i]
      /\ trp_list'[Len(trp_list) + 1] = NewRecord
  BY <1>1, <1>2
<1>4. Reported' = Reported /\ Allocated' = Allocated + 1
  BY <1>1, <1>2, <1>3 DEF Reported, Allocated
<1>5. \A i \in 1 .. Len(trp_list') : trp_list'[i].tx = Reported + i
  <2> TAKE i \in 1 .. Len(trp_list')
  <2>1. CASE i \in 1 .. Len(trp_list)
    BY <2>1, <1>3 DEF IInv, ListInv
  <2>2. CASE i = Len(trp_list) + 1
    BY <2>2, <1>1, <1>2, <1>3 DEF Reported, Allocated
  <2> QED BY <2>1, <2>2, <1>1, <1>3
<1>6. ListInv'
  BY <1>1, <1>3, <1>4, <1>5 DEF IInv, ListInv
<1>7. \A t \in Journal!Tx : st[t] = "none" <=> t > Allocated
  BY DEF IInv, StatusInv
<1>8. Journal!Tx' = Journal!Tx /\ Journal!Tx \subseteq Int /\ Allocated \in Int
  BY Numbers DEF Journal!Tx, IInv
<1>9. \A t \in Journal!Tx : st[t] = "none" <=> (t > Allocated + 1 \/ t = Allocated + 1)
  BY <1>7, <1>8
<1>10. StatusInv'
  BY <1>4, <1>8, <1>9 DEF IInv, StatusInv
<1> QED BY <1>4, <1>6, <1>10

\* commit_journal: the newest record's transaction is submitted.
LEMMA CommitTx ==
  ASSUME IInv, Adding, CommitJournal, UNCHANGED <<tx_id_to_alloc, trp_list>>, ~Adding'
  PROVE  ListInv' /\ StatusInv'
<1>1. /\ Allocated \in Journal!Tx /\ Journal!Tx \subseteq Int /\ Reported \in Int
  BY AddedTx, Numbers DEF Allocated, IInv, Journal!Tx
<1>2. st[Allocated] = "none" /\ st' = [st EXCEPT ![Allocated] = "submitted"]
  BY DEF CommitJournal, Journal!Submit, Journal!Move, Allocated
<1>3. Allocated' = Allocated /\ Reported' = Reported
  BY DEF Allocated, Reported
<1>4. ListInv'
  BY <1>3 DEF IInv, ListInv
<1>5. /\ st \in [Journal!Tx -> Live] /\ st' \in [Journal!Tx -> Live]
      /\ st'[Allocated] = "submitted" /\ \A t \in Journal!Tx : t # Allocated => st'[t] = st[t]
  BY <1>1, <1>2 DEF IInv, StatusInv, Live
<1>6. \A t \in Journal!Tx : st'[t] = "none" <=> t > Allocated
  BY <1>1, <1>5 DEF IInv, StatusInv
<1>7. \A t \in Journal!Tx : st'[t] = "reported" <=> t <= Reported
  BY <1>1, <1>2, <1>5 DEF IInv, StatusInv
<1>8. \A t, u \in Journal!Tx :
         u < t /\ st'[u] = "submitted" => st'[t] \in {"none", "submitted"}
  BY <1>1, <1>5, <1>6 DEF IInv, StatusInv
<1>9. StatusInv'
  BY <1>1, <1>3, <1>5, <1>6, <1>7, <1>8 DEF StatusInv, Journal!Tx
<1> QED BY <1>4, <1>9

\* The journal thread's and the SSD's steps below notify_cplt_tx.
LEMMA JournalTx ==
  ASSUME IInv, NEW t \in Journal!Tx, Journal!Publish(t) \/ Journal!Apply(t),
         UNCHANGED <<tx_id_to_alloc, trp_list>>, Adding' <=> Adding
  PROVE  ListInv' /\ StatusInv'
<1>1. Allocated' = Allocated /\ Reported' = Reported
  BY DEF Allocated, Reported
<1>2. ListInv'
  BY <1>1 DEF IInv, ListInv
<1>3. /\ st \in [Journal!Tx -> Live] /\ st' \in [Journal!Tx -> Live]
      /\ \A u \in Journal!Tx : u # t => st'[u] = st[u]
  BY StatusStep DEF IInv, StatusInv
<1>4. st[t] \in {"submitted", "durable"} /\ st'[t] \in {"durable", "applied"}
  BY <1>3 DEF Journal!Publish, Journal!Apply, Journal!Move, Live
<1>5. \A u \in Journal!Tx : u < t => st[u] # "submitted"
  <2>1. CASE Journal!Publish(t)
    BY <2>1 DEF Journal!Publish, Journal!NoneBefore
  <2>2. CASE Journal!Apply(t)
    BY <2>2 DEF Journal!Apply, IInv, StatusInv
  <2> QED BY <2>1, <2>2
<1>6. \A u \in Journal!Tx : (st'[u] = "none" <=> st[u] = "none")
                          /\ (st'[u] = "reported" <=> st[u] = "reported")
  BY <1>3, <1>4
<1>7. \A v, u \in Journal!Tx :
         u < v /\ st'[u] = "submitted" => st'[v] \in {"none", "submitted"}
  BY <1>3, <1>4, <1>5 DEF IInv, StatusInv
<1>8. StatusInv'
  BY <1>1, <1>3, <1>6, <1>7 DEF IInv, StatusInv, Journal!Tx
<1> QED BY <1>2, <1>8

\* The journal layer reports the transaction at the front of trp_list: the
\* second assertion of notify_cplt_tx.
LEMMA ReportedIsFront ==
  ASSUME IInv, trp_list # <<>>, NEW t \in Journal!Tx, Journal!Report(t)
  PROVE  t = Reported + 1 /\ Head(trp_list).tx = t /\ ~(Adding /\ Tail(trp_list) = <<>>)
<1>1. /\ trp_list \in Seq(Record) /\ Len(trp_list) \in Nat /\ Len(trp_list) >= 1
      /\ tx_id_to_alloc \in 1 .. (MaxTx + 1) /\ MaxTx \in Nat
      /\ Allocated \in Int /\ Reported \in Int /\ Reported >= 0
  BY Numbers DEF IInv, TypeOK, ListInv
<1>2. st[t] = "applied" /\ \A u \in Journal!Tx : u < t => st[u] \notin {"durable", "applied"}
  BY DEF Journal!Report, Journal!Move, Journal!NoneBefore
<1>3. t > Reported /\ t <= Allocated /\ (t = Allocated => ~Adding)
  BY <1>1, <1>2 DEF IInv, StatusInv, Journal!Tx
<1>4. Reported + 1 \in Journal!Tx
  BY <1>1, <1>3 DEF Journal!Tx, Allocated
<1>5. t = Reported + 1
  <2>0. t \in Int
    BY <1>1 DEF Journal!Tx
  <2> SUFFICES ASSUME Reported + 1 < t PROVE FALSE
    BY <2>0, <1>1, <1>3
  <2> DEFINE u == Reported + 1
  <2>1. st[u] # "reported" /\ st[u] # "none"
    <3>1. u \in Journal!Tx /\ ~(u <= Reported) /\ ~(u > Allocated) /\ u # Allocated
      BY <2>0, <1>1, <1>3, <1>4
    <3> HIDE DEF u
    <3> QED BY <3>1 DEF IInv, StatusInv
  <2>2. st[u] = "submitted"
    BY <2>1, <1>2, <1>4 DEF IInv, StatusInv, Live
  <2> QED BY <2>2, <1>2, <1>4 DEF IInv, StatusInv
<1>6. Head(trp_list).tx = t
  <2>1. trp_list[1].tx = Reported + 1
    BY <1>1 DEF IInv, ListInv
  <2> QED BY <2>1, <1>1, <1>5
<1>7. Tail(trp_list) = <<>> => t = Allocated
  BY <1>1, <1>5 DEF Reported
<1> QED BY <1>3, <1>5, <1>6, <1>7

LEMMA ReportTx ==
  ASSUME IInv, notify_cplt_tx
  PROVE  ListInv' /\ StatusInv' /\ Reported' = Reported + 1 /\ Head(trp_list).tx = Reported + 1
<1>1. PICK t \in Journal!Tx : Journal!Report(t)
  BY DEF notify_cplt_tx
<1>2. /\ trp_list # <<>> /\ trp_list' = Tail(trp_list) /\ tx_id_to_alloc' = tx_id_to_alloc
      /\ (Adding' <=> Adding)
  BY DEF notify_cplt_tx, Adding, finiVars
<1>3. t = Reported + 1 /\ Head(trp_list).tx = t /\ ~(Adding /\ Tail(trp_list) = <<>>)
  BY <1>1, <1>2, ReportedIsFront
<1>4. /\ trp_list \in Seq(Record) /\ Len(trp_list) \in Nat
      /\ Allocated \in Int /\ Reported \in Int /\ Reported >= 0
  BY Numbers DEF IInv, TypeOK, ListInv
<1>5. /\ Len(trp_list') = Len(trp_list) - 1
      /\ \A i \in 1 .. Len(trp_list') : trp_list'[i] = trp_list[i + 1]
  BY <1>2, <1>4
<1>6. Allocated' = Allocated /\ Reported' = Reported + 1
  BY <1>2, <1>4, <1>5 DEF Allocated, Reported
<1>7. \A i \in 1 .. Len(trp_list') : trp_list'[i].tx = Reported + 1 + i
  <2> TAKE i \in 1 .. Len(trp_list')
  <2>1. i + 1 \in 1 .. Len(trp_list) /\ i \in Int
    BY <1>4, <1>5
  <2>2. trp_list[i + 1].tx = Reported + (i + 1)
    BY <2>1 DEF IInv, ListInv
  <2> QED BY <2>1, <2>2, <1>4, <1>5
<1>8. ListInv'
  BY <1>2, <1>3, <1>4, <1>6, <1>7 DEF ListInv
<1>9. /\ st \in [Journal!Tx -> Live] /\ st' \in [Journal!Tx -> Live]
      /\ \A u \in Journal!Tx : u # t => st'[u] = st[u]
  BY <1>1, StatusStep DEF IInv, StatusInv
<1>10. st[t] = "applied" /\ st'[t] = "reported"
  BY <1>1, <1>9 DEF Journal!Report, Journal!Move
<1>11. \A u \in Journal!Tx : st'[u] = "none" <=> st[u] = "none"
  BY <1>9, <1>10
<1>12. \A u \in Journal!Tx : st'[u] = "reported" <=> u <= Reported + 1
  BY <1>3, <1>4, <1>9, <1>10 DEF IInv, StatusInv, Journal!Tx
<1>13. \A v, u \in Journal!Tx :
         u < v /\ st'[u] = "submitted" => st'[v] \in {"none", "submitted"}
  BY <1>9, <1>10 DEF IInv, StatusInv
<1>14. StatusInv'
  BY <1>2, <1>6, <1>9, <1>11, <1>12, <1>13 DEF IInv, StatusInv, Journal!Tx
<1> QED BY <1>3, <1>6, <1>8, <1>14

LEMMA ListStep ==
  ASSUME IInv, Next
  PROVE  ListInv' /\ StatusInv'
<1>0. ListInv /\ StatusInv /\ TypeOK
  BY DEF IInv
<1> USE DEF metaVars, txVars, rpVars, finiVars, ListVars
<1>1. ASSUME NEW a \in Api, ApiStep(a) PROVE ListInv' /\ StatusInv'
  <2>1. CASE Lock(a)
    BY <1>0, <2>1, ListFrame, AddingFrame DEF Lock
  <2>2. CASE Unlock(a)
    BY <1>0, <2>2, ListFrame, AddingFrame DEF Unlock
  <2>3. CASE Modify(a)
    BY <1>0, <2>3, ListFrame DEF Modify, Adding
  <2>4. CASE WriteBack(a)
    <3>1. ~Adding
      BY <2>4, OnlyOneAdds DEF WriteBack, Adding
    <3>2. Adding'
      BY <1>0, <2>4 DEF WriteBack, Adding, TypeOK
    <3>3. tx_id_to_alloc \in 1 .. MaxTx
      BY <2>4, HolderBeforeFini, SpareTx DEF WriteBack
    <3> QED BY <2>4, <3>1, <3>2, <3>3, AddTx DEF WriteBack
  <2>5. CASE Commit(a)
    <3>1. Adding
      BY <2>5 DEF Commit, Adding
    <3>2. ~Adding'
      BY <1>0, <2>5, OnlyOneAdds DEF Commit, Adding, TypeOK
    <3> QED BY <2>5, <3>1, <3>2, CommitTx DEF Commit
  <2>6. CASE wait_all_journal_applied_in_SSD(a)
    BY <1>0, <2>6, ListFrame, AddingFrame DEF wait_all_journal_applied_in_SSD
  <2>7. CASE SearchDone(a)
    BY <1>0, <2>7, ListFrame, AddingFrame DEF SearchDone
  <2> QED BY <1>1, <2>1, <2>2, <2>3, <2>4, <2>5, <2>6, <2>7 DEF ApiStep
<1>2. CASE JournalPublish \/ SSDApply
  <2>1. (Adding' <=> Adding) /\ UNCHANGED <<tx_id_to_alloc, trp_list>>
    BY <1>2 DEF JournalPublish, SSDApply, Adding
  <2> QED BY <1>2, <2>1, JournalTx DEF JournalPublish, SSDApply
<1>3. CASE notify_cplt_tx
  BY <1>3, ReportTx
<1>4. CASE NotifyTrpEmpty
  <2>1. Adding' <=> Adding
    BY <1>0, <1>4 DEF NotifyTrpEmpty, Adding, TypeOK
  <2> QED BY <1>0, <1>4, <2>1, ListFrame DEF NotifyTrpEmpty
<1>5. CASE PostWakeup \/ post_task
  BY <1>0, <1>5, ListFrame DEF PostWakeup, post_task, Adding
<1>6. CASE ServerStep \/ ServerSpuriousWakeup \/ TaskLock
  <2>1. (Adding' <=> Adding) /\ UNCHANGED ListVars
    BY <1>6 DEF ServerStep, ServerSpuriousWakeup, TaskLock, ServerWait, ServerExit, ServerTake,
         TaskBody, mark_protect_process_cplt, NotifyProtectCplt, Adding
  <2> QED BY <1>0, <2>1, ListFrame
<1>7. CASE FiniWriteBack
  <2>1. ~Adding /\ Adding'
    BY <1>7, OnlyOneAdds DEF FiniWriteBack, Adding
  <2>2. tx_id_to_alloc \in 1 .. MaxTx
    BY <1>7, SpareTx DEF FiniWriteBack
  <2> QED BY <1>7, <2>1, <2>2, AddTx DEF FiniWriteBack
<1>8. CASE FiniCommit
  <2>1. Adding /\ ~Adding'
    BY <1>8, OnlyOneAdds DEF FiniCommit, Adding
  <2> QED BY <1>8, <2>1, CommitTx DEF FiniCommit
<1>9. CASE \/ FiniStart \/ FiniNothingDirty \/ FiniWaitApplied \/ FiniWaitProtect
           \/ FiniSecondRound \/ FiniStop \/ FiniStopNotify \/ FiniJoin
  <2>1. (Adding' <=> Adding) /\ UNCHANGED ListVars
    BY <1>9 DEF FiniStart, FiniNothingDirty, FiniWaitApplied, FiniWaitProtect,
         FiniSecondRound, FiniStop, FiniStopNotify, FiniJoin, Adding
  <2> QED BY <1>0, <2>1, ListFrame
<1>10. CASE Finished
  BY <1>0, <1>10, ListFrame DEF Finished, vars, Adding
<1> QED BY <1>1, <1>2, <1>3, <1>4, <1>5, <1>6, <1>7, <1>8, <1>9, <1>10
     DEF Next, FiniStep, JournalStep, NotifyStep

-------------------------------------------------------------------------------
(* The pipeline from notify_cplt_tx to the server thread's task.           *)

LEMMA PipelineFrame ==
  ASSUME PipelineInv, Reported' = Reported, Carried' = Carried, Running' = Running,
         Unreleased' = Unreleased,
         UNCHANGED <<jt_record, task_queue, cur_task, released, protect_processing_tx>>
  PROVE  PipelineInv'
  BY DEF PipelineInv, Taken

\* Taking the journal adds to trp_list what it allocates.
LEMMA TakeKeepsReported ==
  ASSUME TypeOK, TakeJournal
  PROVE  Reported' = Reported
<1>1. Len(Append(trp_list, NewRecord)) = Len(trp_list) + 1
  BY DEF TypeOK
<1> QED BY <1>1, Numbers DEF TakeJournal, Recorded, Reported, Allocated

\* notify_cplt_tx hands the journal thread the next record.
LEMMA PipelineNotify ==
  ASSUME IInv, notify_cplt_tx
  PROVE  PipelineInv'
<1>1. Reported' = Reported + 1 /\ Head(trp_list).tx = Reported + 1
  BY ReportTx
<1>2. /\ Taken \in Int /\ Reported \in Int /\ Running \in {0, 1} /\ Carried \in {0, 1}
      /\ Len(task_queue) \in Nat
  BY Numbers DEF IInv
<1>3. Carried = 0 /\ Carried' = 1 /\ Running' = Running /\ Unreleased' = Unreleased
  BY DEF notify_cplt_tx, Carried, Running, Unreleased, srvVars
<1>4. UNCHANGED <<task_queue, cur_task, released>> /\ jt_record' = Head(trp_list)
  BY DEF notify_cplt_tx, srvVars
<1>5. Taken' = Taken
  BY <1>1, <1>2, <1>3, <1>4 DEF Taken
<1>6. protect_processing_tx = (Taken + 1 - Running) .. Reported /\ Taken <= Reported
  BY <1>2, <1>3 DEF IInv, PipelineInv, Taken
<1>7. protect_processing_tx' = (Taken + 1 - Running) .. (Reported + 1)
  BY <1>1, <1>2, <1>6 DEF notify_cplt_tx
<1> QED BY <1>1, <1>3, <1>4, <1>5, <1>7 DEF IInv, PipelineInv

\* post_task moves it to the end of the task queue.
LEMMA PipelinePost ==
  ASSUME IInv, post_task
  PROVE  PipelineInv'
<1>1. /\ Taken \in Int /\ Reported \in Int /\ Running \in {0, 1} /\ Carried \in {0, 1}
      /\ Len(task_queue) \in Nat /\ task_queue \in Seq(Record) /\ jt_record \in Record
  BY Numbers, RecordsInHand DEF IInv, TypeOK, post_task
<1>2. /\ Carried = 1 /\ Carried' = 0 /\ Running' = Running /\ Unreleased' = Unreleased
      /\ Reported' = Reported
  BY DEF post_task, Carried, Running, Unreleased, Reported, Allocated, txVars, rpVars
<1>3. UNCHANGED <<cur_task, released, protect_processing_tx>> /\ jt_record' = NoRecord
  BY DEF post_task, rpVars
<1>4. /\ Len(task_queue') = Len(task_queue) + 1
      /\ \A i \in 1 .. Len(task_queue) : task_queue'[i] = task_queue[i]
      /\ task_queue'[Len(task_queue) + 1] = jt_record
  BY <1>1 DEF post_task, Enqueued
<1>5. Taken' = Taken /\ Taken + Len(task_queue) + 1 = Reported
  BY <1>1, <1>2, <1>4 DEF Taken
<1>6. jt_record.tx = Reported
  BY <1>2 DEF IInv, PipelineInv
<1>7. \A i \in 1 .. Len(task_queue') : task_queue'[i].tx = Taken + i
  <2> TAKE i \in 1 .. Len(task_queue')
  <2>1. CASE i \in 1 .. Len(task_queue)
    BY <2>1, <1>4 DEF IInv, PipelineInv
  <2>2. CASE i = Len(task_queue) + 1
    BY <2>2, <1>1, <1>4, <1>5, <1>6
  <2> QED BY <2>1, <2>2, <1>1, <1>4
<1>8. jt_record'.tx = 0
  BY <1>3 DEF NoRecord
<1> QED BY <1>2, <1>3, <1>5, <1>7, <1>8 DEF IInv, PipelineInv

\* The server thread takes the oldest task.
LEMMA PipelineTake ==
  ASSUME IInv, ServerTake
  PROVE  PipelineInv'
<1>1. /\ Taken \in Int /\ Reported \in Int /\ Carried \in {0, 1}
      /\ Len(task_queue) \in Nat /\ task_queue \in Seq(Record)
  BY Numbers DEF IInv, TypeOK
<1>2. /\ Running = 0 /\ Running' = 1 /\ Unreleased = 0 /\ Unreleased' = 1
      /\ Carried' = Carried /\ Reported' = Reported
  BY DEF ServerTake, AtTop, Carried, Running, Unreleased, Reported, Allocated, txVars, rpVars,
         jtVars
<1>3. UNCHANGED <<jt_record, released, protect_processing_tx>> /\ cur_task' = Head(task_queue)
  BY DEF ServerTake, rpVars, jtVars
<1>4. /\ Len(task_queue) >= 1 /\ Len(task_queue') = Len(task_queue) - 1
      /\ \A i \in 1 .. Len(task_queue') : task_queue'[i] = task_queue[i + 1]
      /\ Head(task_queue) = task_queue[1]
  BY <1>1 DEF ServerTake
<1>5. Taken' = Taken + 1
  BY <1>1, <1>2, <1>4 DEF Taken
<1>6. \A i \in 1 .. Len(task_queue) : task_queue[i].tx = Taken + i
  BY DEF IInv, PipelineInv
<1>7. cur_task'.tx = Taken + 1
  BY <1>1, <1>3, <1>4, <1>6
<1>8. \A i \in 1 .. Len(task_queue') : task_queue'[i].tx = Taken + 1 + i
  <2> TAKE i \in 1 .. Len(task_queue')
  <2>1. i + 1 \in 1 .. Len(task_queue) /\ i \in Int
    BY <1>1, <1>4
  <2>2. task_queue[i + 1].tx = Taken + (i + 1)
    BY <2>1, <1>6
  <2> QED BY <2>1, <2>2, <1>1, <1>4
<1>9. /\ Taken >= 0 /\ released = 1 .. Taken
      /\ protect_processing_tx = (Taken + 1) .. Reported
  BY <1>1, <1>2 DEF IInv, PipelineInv
<1>10. /\ Taken + 1 - 1 = Taken /\ Taken + 1 + 1 - 1 = Taken + 1
  BY <1>1
<1>11. jt_record'.tx = IF Carried' = 1 THEN Reported' ELSE 0
  BY <1>2, <1>3 DEF IInv, PipelineInv
<1>12. /\ (Taken - Running >= 0)'
       /\ released' = 1 .. (Taken - Unreleased)'
       /\ protect_processing_tx' = ((Taken + 1 - Running) .. Reported)'
  BY <1>1, <1>2, <1>3, <1>5, <1>9, <1>10
<1>13. (cur_task.tx = IF Running = 1 THEN Taken ELSE 0)'
  BY <1>2, <1>5, <1>7
<1>14. (\A i \in 1 .. Len(task_queue) : task_queue[i].tx = Taken + i)'
  BY <1>5, <1>8
<1> QED BY <1>11, <1>12, <1>13, <1>14 DEF PipelineInv

\* Its body releases the task's transaction.
LEMMA PipelineBody ==
  ASSUME IInv, TaskBody
  PROVE  PipelineInv'
<1>1. Taken \in Int /\ Reported \in Int
  BY Numbers DEF IInv
<1>2. /\ Running = 1 /\ Running' = 1 /\ Unreleased = 1 /\ Unreleased' = 0
      /\ Carried' = Carried /\ Reported' = Reported /\ Taken' = Taken
  BY DEF TaskBody, Carried, Running, Unreleased, Reported, Allocated, txVars, rpVars, jtVars, Taken
<1>3. UNCHANGED <<jt_record, task_queue, cur_task, protect_processing_tx>>
  BY DEF TaskBody, rpVars, jtVars
<1>4. Taken >= 1 /\ released = 1 .. (Taken - 1) /\ cur_task.tx = Taken
  BY <1>1, <1>2 DEF IInv, PipelineInv
<1>5. released' = 1 .. Taken
  BY <1>1, <1>4 DEF TaskBody
<1>6. released' = 1 .. (Taken - Unreleased)'
  BY <1>1, <1>2, <1>5
<1>7. /\ Taken - Running >= 0
      /\ jt_record.tx = IF Carried = 1 THEN Reported ELSE 0
      /\ \A i \in 1 .. Len(task_queue) : task_queue[i].tx = Taken + i
      /\ cur_task.tx = IF Running = 1 THEN Taken ELSE 0
      /\ protect_processing_tx = (Taken + 1 - Running) .. Reported
  BY DEF IInv, PipelineInv
<1>8. Running' = Running
  BY <1>2
<1> QED BY <1>2, <1>3, <1>6, <1>7, <1>8 DEF PipelineInv

\* mark_protect_process_cplt takes it out of protect_processing_tx.
LEMMA PipelineMark ==
  ASSUME IInv, mark_protect_process_cplt
  PROVE  PipelineInv'
<1>1. Taken \in Int /\ Reported \in Int
  BY Numbers DEF IInv
<1>2. /\ Running = 1 /\ Running' = 0 /\ Unreleased = 0 /\ Unreleased' = 0
      /\ Carried' = Carried /\ Reported' = Reported /\ Taken' = Taken
  BY DEF mark_protect_process_cplt, Carried, Running, Unreleased, Reported, Allocated, txVars,
         jtVars, Taken
<1>3. UNCHANGED <<jt_record, task_queue, released>> /\ cur_task'.tx = 0
  BY DEF mark_protect_process_cplt, jtVars, NoRecord
<1>4. Taken >= 1 /\ protect_processing_tx = (Taken + 1 - 1) .. Reported /\ cur_task.tx = Taken
  BY <1>1, <1>2 DEF IInv, PipelineInv
<1>5. protect_processing_tx' = ((Taken + 1 - Running) .. Reported)'
  BY <1>1, <1>2, <1>4 DEF mark_protect_process_cplt
<1>6. (Taken - Running >= 0)' /\ (cur_task.tx = IF Running = 1 THEN Taken ELSE 0)'
  BY <1>1, <1>2, <1>3, <1>4
<1>7. /\ jt_record.tx = IF Carried = 1 THEN Reported ELSE 0
      /\ \A i \in 1 .. Len(task_queue) : task_queue[i].tx = Taken + i
      /\ released = 1 .. (Taken - Unreleased)
  BY DEF IInv, PipelineInv
<1>8. Unreleased' = Unreleased
  BY <1>2
<1> QED BY <1>2, <1>3, <1>5, <1>6, <1>7, <1>8 DEF PipelineInv

LEMMA PipelineStep ==
  ASSUME IInv, Next
  PROVE  PipelineInv'
<1>0. PipelineInv /\ TypeOK
  BY DEF IInv
<1> USE DEF metaVars, txVars, rpVars, jtVars, srvVars, finiVars
<1>1. CASE TakeJournal /\ UNCHANGED <<protect_processing_tx, jtVars, srvVars, released>>
  BY <1>0, <1>1, TakeKeepsReported, PipelineFrame DEF Carried, Running, Unreleased
<1>2. CASE UNCHANGED <<tx_id_to_alloc, rpVars, jtVars, srvVars, released>>
  BY <1>0, <1>2, PipelineFrame DEF Carried, Running, Unreleased, Reported, Allocated
<1>3. ASSUME NEW a \in Api, ApiStep(a) PROVE PipelineInv'
  BY <1>1, <1>2, <1>3 DEF ApiStep, Lock, Unlock, Modify, WriteBack, Commit,
       wait_all_journal_applied_in_SSD, SearchDone
<1>4. CASE JournalPublish \/ SSDApply
  BY <1>2, <1>4 DEF JournalPublish, SSDApply
<1>5. CASE notify_cplt_tx
  BY <1>5, PipelineNotify
<1>6. CASE NotifyTrpEmpty \/ PostWakeup
  <2>1. Carried' = Carried /\ Running' = Running /\ Unreleased' = Unreleased
    BY <1>6 DEF NotifyTrpEmpty, PostWakeup, WakeServer, Carried, Running, Unreleased
  <2>2. UNCHANGED <<tx_id_to_alloc, rpVars, jt_record, task_queue, cur_task, released>>
    BY <1>6 DEF NotifyTrpEmpty, PostWakeup
  <2>3. Reported' = Reported
    BY <2>2 DEF Reported, Allocated
  <2> QED BY <1>0, <2>1, <2>2, <2>3, PipelineFrame
<1>7. CASE post_task
  BY <1>7, PipelinePost
<1>8. CASE ServerTake
  BY <1>8, PipelineTake
<1>9. CASE TaskBody
  BY <1>9, PipelineBody
<1>10. CASE mark_protect_process_cplt
  BY <1>10, PipelineMark
<1>11. CASE ServerWait \/ ServerExit \/ ServerSpuriousWakeup \/ TaskLock \/ NotifyProtectCplt
            \/ FiniStopNotify
  <2>1. Carried' = Carried /\ Running' = Running /\ Unreleased' = Unreleased
    BY <1>11 DEF ServerWait, ServerExit, ServerSpuriousWakeup, TaskLock, NotifyProtectCplt,
         FiniStopNotify, WakeServer, AtTop, Carried, Running, Unreleased
  <2>2. UNCHANGED <<tx_id_to_alloc, rpVars, jt_record, task_queue, cur_task, released>>
    BY <1>11 DEF ServerWait, ServerExit, ServerSpuriousWakeup, TaskLock, NotifyProtectCplt,
         FiniStopNotify
  <2>3. Reported' = Reported
    BY <2>2 DEF Reported, Allocated
  <2> QED BY <1>0, <2>1, <2>2, <2>3, PipelineFrame
<1>12. CASE FiniWriteBack
  BY <1>1, <1>12 DEF FiniWriteBack
<1>13. CASE FiniStart \/ FiniNothingDirty \/ FiniCommit \/ FiniWaitApplied \/ FiniWaitProtect
            \/ FiniSecondRound \/ FiniJoin
  BY <1>2, <1>13 DEF FiniStart, FiniNothingDirty, FiniCommit, FiniWaitApplied, FiniWaitProtect,
       FiniSecondRound, FiniJoin
<1>14. CASE FiniStop
  BY <1>0, <1>14, PipelineFrame DEF FiniStop, Carried, Running, Unreleased, Reported, Allocated
<1>15. CASE Finished
  BY <1>2, <1>15 DEF Finished, vars
<1> QED BY <1>3, <1>4, <1>5, <1>6, <1>7, <1>8, <1>9, <1>10, <1>11, <1>12, <1>13, <1>14, <1>15
     DEF Next, FiniStep, JournalStep, NotifyStep, ServerStep

-------------------------------------------------------------------------------
(* The SSD's searches, and the rounds of fini.                             *)

LEMMA SearchStep ==
  ASSUME IInv, Next
  PROVE  SearchInv'
<1>0. SearchInv /\ TypeOK
  BY DEF IInv
<1> USE DEF metaVars, txVars, rpVars, srvVars
<1>1. ASSUME NEW a \in Api, ApiStep(a) PROVE SearchInv'
  <2>1. CASE WriteBack(a)
    BY <1>0, <2>1, OnlyOneAdds DEF WriteBack, TypeOK, SearchInv
  <2>2. CASE wait_all_journal_applied_in_SSD(a)
    BY <1>0, <2>2, OnlyOneAdds DEF wait_all_journal_applied_in_SSD, AllApplied, TypeOK, SearchInv
  <2>3. CASE Lock(a) \/ Unlock(a) \/ Modify(a) \/ Commit(a) \/ SearchDone(a)
    BY <1>0, <2>3 DEF Lock, Unlock, Modify, Commit, SearchDone, TypeOK, SearchInv
  <2> QED BY <1>1, <2>1, <2>2, <2>3 DEF ApiStep
<1>2. CASE UNCHANGED <<api, trp_list>>
  BY <1>0, <1>2 DEF SearchInv
<1>3. CASE JournalPublish \/ SSDApply \/ PostWakeup \/ post_task
  BY <1>2, <1>3 DEF JournalPublish, SSDApply, PostWakeup, post_task
<1>4. CASE notify_cplt_tx
  BY <1>0, <1>4 DEF notify_cplt_tx, SearchInv
<1>5. CASE NotifyTrpEmpty
  BY <1>0, <1>5 DEF NotifyTrpEmpty, TypeOK, SearchInv
<1>6. CASE ServerStep \/ ServerSpuriousWakeup \/ TaskLock
  BY <1>2, <1>6 DEF ServerStep, ServerSpuriousWakeup, TaskLock, ServerWait, ServerExit,
       ServerTake, TaskBody, mark_protect_process_cplt, NotifyProtectCplt
<1>7. CASE FiniWriteBack
  BY <1>0, <1>7, OnlyOneAdds DEF FiniWriteBack, SearchInv
<1>8. CASE FiniStart \/ FiniNothingDirty \/ FiniCommit \/ FiniWaitApplied \/ FiniWaitProtect
           \/ FiniSecondRound \/ FiniStop \/ FiniStopNotify \/ FiniJoin
  BY <1>2, <1>8 DEF FiniStart, FiniNothingDirty, FiniCommit, FiniWaitApplied, FiniWaitProtect,
       FiniSecondRound, FiniStop, FiniStopNotify, FiniJoin
<1>9. CASE Finished
  BY <1>2, <1>9 DEF Finished, vars
<1> QED BY <1>1, <1>3, <1>4, <1>5, <1>6, <1>7, <1>8, <1>9
     DEF Next, FiniStep, JournalStep, NotifyStep

\* With nothing protected the pipeline is empty.
LEMMA PipelineEmpty ==
  ASSUME IInv, protect_processing_tx = {}
  PROVE  /\ Carried = 0 /\ Running = 0 /\ Len(task_queue) = 0 /\ Taken = Reported
         /\ jt_record = NoRecord /\ cur_task = NoRecord
<1>1. /\ Taken \in Int /\ Reported \in Int /\ Running \in {0, 1} /\ Carried \in {0, 1}
      /\ Len(task_queue) \in Nat /\ MaxTx \in Nat
  BY Numbers DEF IInv
<1>2. (Taken + 1 - Running) .. Reported = {}
  BY DEF IInv, PipelineInv
<1>3. Taken + 1 - Running > Reported
  <2> SUFFICES ASSUME Taken + 1 - Running <= Reported PROVE FALSE
    BY <1>1
  <2>1. Reported \in (Taken + 1 - Running) .. Reported
    BY <1>1
  <2> QED BY <2>1, <1>2
<1>4. Taken = Reported - Carried - Len(task_queue)
  BY DEF Taken
<1>5. Carried = 0 /\ Running = 0 /\ Len(task_queue) = 0 /\ Taken = Reported
  BY <1>1, <1>3, <1>4
<1>6. jt_record.tx = 0 /\ cur_task.tx = 0
  BY <1>5 DEF IInv, PipelineInv
<1>7. \A r \in Record : r.tx # 0
  BY <1>1 DEF Record
<1>8. jt_record = NoRecord /\ cur_task = NoRecord
  BY <1>6, <1>7 DEF IInv, TypeOK
<1> QED BY <1>5, <1>8

LEMMA FiniFrame ==
  ASSUME FiniInv, UNCHANGED <<cur_journal, trp_list, protect_processing_tx, fini, fini_round>>
  PROVE  FiniInv'
  BY DEF FiniInv

LEMMA FiniInvStep ==
  ASSUME IInv, Next
  PROVE  FiniInv'
<1>0. FiniInv /\ TypeOK
  BY DEF IInv
<1> USE DEF metaVars, txVars, rpVars, srvVars, finiVars
<1>1. ASSUME NEW a \in Api, ApiStep(a) PROVE FiniInv'
  <2>1. CASE Modify(a) \/ WriteBack(a)
    <3>1. fini' = "off"
      BY <2>1, HolderBeforeFini DEF Modify, WriteBack
    <3> QED BY <3>1 DEF FiniInv
  <2>2. CASE Lock(a) \/ Unlock(a) \/ Commit(a) \/ wait_all_journal_applied_in_SSD(a) \/ SearchDone(a)
    BY <1>0, <2>2, FiniFrame DEF Lock, Unlock, Commit, wait_all_journal_applied_in_SSD, SearchDone
  <2> QED BY <1>1, <2>1, <2>2 DEF ApiStep
<1>2. CASE JournalPublish \/ SSDApply \/ PostWakeup \/ post_task
  BY <1>0, <1>2, FiniFrame DEF JournalPublish, SSDApply, PostWakeup, post_task
<1>3. CASE notify_cplt_tx
  BY <1>0, <1>3 DEF notify_cplt_tx, FiniInv
<1>4. CASE NotifyTrpEmpty
  BY <1>0, <1>4 DEF NotifyTrpEmpty, FiniInv
<1>5. CASE ServerWait \/ ServerExit \/ ServerTake \/ ServerSpuriousWakeup \/ TaskLock
  BY <1>0, <1>5, FiniFrame DEF ServerWait, ServerExit, ServerTake, ServerSpuriousWakeup, TaskLock
<1>6. CASE TaskBody
  <2>1. fini \notin {"waited", "stop_notify", "join", "done"}
    <3>1. Running = 1
      BY <1>6 DEF TaskBody, Running
    <3>2. protect_processing_tx # {}
      BY <3>1, PipelineEmpty
    <3> QED BY <3>2, <1>0 DEF FiniInv
  <2> QED BY <1>0, <1>6, <2>1 DEF TaskBody, FiniInv
<1>7. CASE mark_protect_process_cplt
  BY <1>0, <1>7 DEF mark_protect_process_cplt, FiniInv
<1>8. CASE NotifyProtectCplt
  BY <1>0, <1>8 DEF NotifyProtectCplt, FiniInv
<1>9. CASE FiniStart
  BY <1>0, <1>9 DEF FiniStart, FiniInv, IInv, BoundInv
<1>10. CASE FiniWriteBack
  BY <1>0, <1>10 DEF FiniWriteBack, TakeJournal, FiniInv
<1>11. CASE FiniNothingDirty \/ FiniCommit
  BY <1>0, <1>11 DEF FiniNothingDirty, FiniCommit, FiniInv
<1>12. CASE FiniWaitApplied
  BY <1>0, <1>12 DEF FiniWaitApplied, FiniInv
<1>13. CASE FiniWaitProtect
  BY <1>0, <1>13 DEF FiniWaitProtect, ProtectDone, FiniInv
<1>14. CASE FiniSecondRound
  BY <1>0, <1>14 DEF FiniSecondRound, FiniInv
<1>15. CASE FiniStop
  <2>1. cur_journal = "empty"
    BY <1>0, <1>15 DEF FiniStop, FiniAgain, IInv, RoundInv, TypeOK
  <2> QED BY <1>0, <1>15, <2>1 DEF FiniStop, FiniInv
<1>16. CASE FiniStopNotify \/ FiniJoin
  BY <1>0, <1>16 DEF FiniStopNotify, FiniJoin, FiniInv
<1>17. CASE Finished
  BY <1>0, <1>17, FiniFrame DEF Finished, vars
<1> QED BY <1>1, <1>2, <1>3, <1>4, <1>5, <1>6, <1>7, <1>8, <1>9, <1>10, <1>11, <1>12, <1>13,
           <1>14, <1>15, <1>16, <1>17
     DEF Next, FiniStep, JournalStep, NotifyStep, ServerStep

RoundVars == <<cur_journal, jt_record, cur_task, trp_list, task_queue, fini_round>>

\* A step of fini that stays in its round, past the write back.
LEMMA RoundFrame ==
  ASSUME RoundInv, UNCHANGED RoundVars, fini' # "write_back" => fini # "write_back"
  PROVE  RoundInv'
  BY DEF RoundInv, RoundVars, Plain

LEMMA RoundStep ==
  ASSUME IInv, Next
  PROVE  RoundInv'
<1>0. RoundInv /\ TypeOK
  BY DEF IInv
<1> USE DEF metaVars, txVars, rpVars, jtVars, srvVars, finiVars, RoundVars
<1>1. ASSUME NEW a \in Api, ApiStep(a) PROVE RoundInv'
  <2>1. CASE Modify(a) \/ WriteBack(a)
    <3>1. fini_round' = 1
      BY <2>1, HolderBeforeFini DEF Modify, WriteBack
    <3> QED BY <3>1 DEF RoundInv
  <2>2. CASE Lock(a) \/ Unlock(a) \/ Commit(a) \/ wait_all_journal_applied_in_SSD(a) \/ SearchDone(a)
    BY <1>0, <2>2, RoundFrame DEF Lock, Unlock, Commit, wait_all_journal_applied_in_SSD, SearchDone
  <2> QED BY <1>1, <2>1, <2>2 DEF ApiStep
<1>2. CASE JournalPublish \/ SSDApply \/ NotifyTrpEmpty \/ PostWakeup
  BY <1>0, <1>2, RoundFrame DEF JournalPublish, SSDApply, NotifyTrpEmpty, PostWakeup
<1>3. CASE notify_cplt_tx
  <2>1. trp_list \in Seq(Record) /\ trp_list # <<>> /\ trp_list' = Tail(trp_list)
    BY <1>0, <1>3 DEF notify_cplt_tx, TypeOK
  <2>2. /\ Len(trp_list) \in Nat /\ Len(trp_list) >= 1 /\ Head(trp_list) = trp_list[1]
        /\ Len(trp_list') = Len(trp_list) - 1
        /\ \A i \in 1 .. Len(trp_list') : trp_list'[i] = trp_list[i + 1]
    BY <2>1
  <2>3. fini_round = 2 => /\ Plain(Head(trp_list))
                          /\ \A i \in 1 .. Len(trp_list') : Plain(trp_list'[i])
    BY <1>0, <2>2 DEF RoundInv, Plain
  <2> QED BY <1>0, <1>3, <2>3 DEF notify_cplt_tx, RoundInv
<1>4. CASE post_task
  <2>1. task_queue \in Seq(Record) /\ jt_record \in Record
    BY <1>0, <1>4, RecordsInHand DEF post_task, TypeOK
  <2>2. /\ Len(task_queue) \in Nat /\ Len(task_queue') = Len(task_queue) + 1
        /\ \A i \in 1 .. Len(task_queue) : task_queue'[i] = task_queue[i]
        /\ task_queue'[Len(task_queue) + 1] = jt_record
    BY <1>4, <2>1 DEF post_task, Enqueued
  <2>3. ASSUME fini_round = 2, NEW i \in 1 .. Len(task_queue')
        PROVE  Plain(task_queue'[i])
    <3>1. CASE i \in 1 .. Len(task_queue)
      BY <1>0, <2>2, <2>3, <3>1 DEF RoundInv
    <3>2. CASE i = Len(task_queue) + 1
      BY <1>0, <2>2, <2>3, <3>2 DEF RoundInv
    <3> QED BY <2>2, <3>1, <3>2
  <2>4. Plain(jt_record')
    BY <1>4 DEF post_task, NoRecord, Plain
  <2> QED BY <1>0, <1>4, <2>3, <2>4 DEF post_task, RoundInv
<1>5. CASE ServerTake
  <2>1. task_queue \in Seq(Record) /\ task_queue # <<>> /\ task_queue' = Tail(task_queue)
    BY <1>0, <1>5 DEF ServerTake, TypeOK
  <2>2. /\ Len(task_queue) \in Nat /\ Len(task_queue) >= 1 /\ Head(task_queue) = task_queue[1]
        /\ Len(task_queue') = Len(task_queue) - 1
        /\ \A i \in 1 .. Len(task_queue') : task_queue'[i] = task_queue[i + 1]
    BY <2>1
  <2>3. fini_round = 2 => /\ Plain(Head(task_queue))
                          /\ \A i \in 1 .. Len(task_queue') : Plain(task_queue'[i])
    BY <1>0, <2>2 DEF RoundInv, Plain
  <2> QED BY <1>0, <1>5, <2>3 DEF ServerTake, RoundInv
<1>6. CASE TaskBody
  <2>1. fini_round = 2 => cur_journal' = cur_journal
    BY <1>0, <1>6 DEF TaskBody, RoundInv, Plain
  <2> QED BY <1>0, <1>6, <2>1 DEF TaskBody, RoundInv
<1>7. CASE mark_protect_process_cplt
  <2>1. Plain(cur_task')
    BY <1>7 DEF mark_protect_process_cplt, NoRecord, Plain
  <2> QED BY <1>0, <1>7, <2>1 DEF mark_protect_process_cplt, RoundInv
<1>8. CASE ServerWait \/ ServerExit \/ ServerSpuriousWakeup \/ TaskLock \/ NotifyProtectCplt
  BY <1>0, <1>8, RoundFrame DEF ServerWait, ServerExit, ServerSpuriousWakeup, TaskLock,
       NotifyProtectCplt
<1>9. CASE FiniWriteBack
  <2>1. trp_list \in Seq(Record) /\ trp_list' = Append(trp_list, NewRecord)
    BY <1>0, <1>9 DEF FiniWriteBack, TakeJournal, Recorded, TypeOK
  <2>2. /\ Len(trp_list) \in Nat /\ Len(trp_list') = Len(trp_list) + 1
        /\ \A i \in 1 .. Len(trp_list) : trp_list'[i] = trp_list[i]
        /\ trp_list'[Len(trp_list) + 1] = NewRecord
    BY <2>1
  <2>3. ASSUME fini_round = 2 PROVE Plain(NewRecord)
    <3>1. cur_journal # "nodes"
      BY <1>9, <2>3 DEF FiniWriteBack, IInv, FiniInv
    <3> QED BY <3>1 DEF NewRecord, Plain
  <2>4. ASSUME fini_round = 2, NEW i \in 1 .. Len(trp_list')
        PROVE  Plain(trp_list'[i])
    <3>1. CASE i \in 1 .. Len(trp_list)
      BY <1>0, <2>2, <2>4, <3>1 DEF RoundInv
    <3>2. CASE i = Len(trp_list) + 1
      BY <2>2, <2>3, <2>4, <3>2
    <3> QED BY <2>2, <3>1, <3>2
  <2> QED BY <1>0, <1>9, <2>4 DEF FiniWriteBack, TakeJournal, RoundInv
<1>10. CASE FiniNothingDirty
  BY <1>0, <1>10 DEF FiniNothingDirty, RoundInv
<1>11. CASE FiniSecondRound
  <2>1. trp_list = <<>> /\ protect_processing_tx = {}
    BY <1>11 DEF FiniSecondRound, IInv, FiniInv
  <2>2. Len(task_queue) = 0 /\ jt_record = NoRecord /\ cur_task = NoRecord
    BY <2>1, PipelineEmpty
  <2>3. Plain(jt_record') /\ Plain(cur_task')
    BY <1>11, <2>2 DEF FiniSecondRound, NoRecord, Plain
  <2>4. Len(trp_list') = 0 /\ Len(task_queue') = 0
    BY <1>11, <2>1, <2>2 DEF FiniSecondRound
  <2> QED BY <1>11, <2>3, <2>4 DEF FiniSecondRound, RoundInv
<1>12. CASE FiniStart
  BY <1>12 DEF FiniStart, IInv, BoundInv, RoundInv
<1>13. CASE FiniCommit \/ FiniWaitApplied \/ FiniWaitProtect \/ FiniStop \/ FiniStopNotify \/ FiniJoin
  BY <1>0, <1>13, RoundFrame DEF FiniCommit, FiniWaitApplied, FiniWaitProtect, FiniStop,
       FiniStopNotify, FiniJoin
<1>14. CASE Finished
  BY <1>0, <1>14, RoundFrame DEF Finished, vars
<1> QED BY <1>1, <1>2, <1>3, <1>4, <1>5, <1>6, <1>7, <1>8, <1>9, <1>10, <1>11, <1>12, <1>13, <1>14
     DEF Next, FiniStep, JournalStep, NotifyStep, ServerStep

-------------------------------------------------------------------------------
(* The theorems.                                                           *)

LEMMA InitIInv == Init => IInv
<1> SUFFICES ASSUME Init PROVE IInv
  OBVIOUS
<1>1. TypeOK
  BY InitType
<1>2. LockInv /\ SearchInv /\ FiniInv
  BY ApiAssumption DEF Init, LockInv, SearchInv, FiniInv
<1>3. BoundInv /\ RoundInv
  BY BoundAssumption DEF Init, BoundInv, Spare, Allocated, RoundInv
<1>4. Len(trp_list) = 0 /\ Len(task_queue) = 0 /\ Allocated = 0 /\ ~Adding
  BY DEF Init, Allocated, Adding
<1>5. Reported = 0 /\ ListInv
  BY <1>4 DEF Reported, ListInv
<1>6. StatusInv
  <2>1. \A t \in Journal!Tx : t > 0 /\ ~(t <= 0)
    BY BoundAssumption DEF Journal!Tx
  <2>2. st \in [Journal!Tx -> Live] /\ \A t \in Journal!Tx : st[t] = "none"
    BY DEF Init, Journal!Init, Live
  <2> QED BY <2>1, <2>2, <1>4, <1>5 DEF StatusInv
<1>7. Carried = 0 /\ Running = 0 /\ Unreleased = 0 /\ Taken = 0
  <2>1. Carried = 0 /\ Running = 0 /\ Unreleased = 0
    BY DEF Init, Carried, Running, Unreleased
  <2> QED BY <2>1, <1>4, <1>5 DEF Taken
<1>8. PipelineInv
  BY <1>4, <1>5, <1>7 DEF Init, PipelineInv, NoRecord
<1> QED BY <1>1, <1>2, <1>3, <1>5, <1>6, <1>8 DEF IInv

LEMMA NextIInv == IInv /\ [Next]_vars => IInv'
<1> SUFFICES ASSUME IInv, [Next]_vars PROVE IInv'
  OBVIOUS
<1>1. CASE Next
  <2>1. TypeOK' /\ LockInv'
    <3>1. CASE UNCHANGED vars
      BY <3>1 DEF IInv, TypeOK, LockInv, vars, metaVars, txVars, rpVars, jtVars, srvVars, finiVars,
           Journal!StatusOK
    <3> QED BY <1>1, <3>1, ApiTypes, JournalTypes, ServerTypes, FiniTypes,
                ApiLock, JournalLock, ServerLock, FiniLock DEF Next, Finished
  <2> QED BY <1>1, <2>1, BoundStep, ListStep, PipelineStep, SearchStep, FiniInvStep, RoundStep
       DEF IInv
<1>2. CASE UNCHANGED vars
  <2> USE <1>2 DEF vars, metaVars, txVars, rpVars, jtVars, srvVars, finiVars
  <2>1. TypeOK' /\ LockInv' /\ SearchInv' /\ FiniInv'
    BY DEF IInv, TypeOK, LockInv, SearchInv, FiniInv, Journal!StatusOK
  <2>2. BoundInv'
    BY DEF IInv, BoundInv, Spare, Allocated
  <2>3. ListInv' /\ StatusInv'
    BY ListFrame DEF IInv, ListVars, Adding
  <2>4. PipelineInv'
    BY PipelineFrame DEF IInv, Carried, Running, Unreleased, Reported, Allocated
  <2>5. RoundInv'
    BY RoundFrame DEF IInv, RoundVars
  <2> QED BY <2>1, <2>2, <2>3, <2>4, <2>5 DEF IInv
<1> QED BY <1>1, <1>2

LEMMA Inductive == Spec => []IInv
  BY InitIInv, NextIInv, PTL DEF Spec

\* The state of replace protection, of the threads that share it and of
\* fini keeps its shape: a transaction number is never used up before fini
\* has had its two write backs.
THEOREM TypeCorrect == Spec => []TypeOK
<1>1. IInv => TypeOK
  BY DEF IInv
<1> QED BY Inductive, <1>1, PTL

\* trp_list holds, in commit order, exactly the transactions add_tx recorded
\* and notify_cplt_tx has not been told of, so the two assertions of
\* notify_cplt_tx hold whenever it runs.
THEOREM ListMatchesJournal == Spec => []TrpListMatchesJournal
<1>1. IInv => TrpListMatchesJournal
  <2> SUFFICES ASSUME IInv PROVE TrpListMatchesJournal
    OBVIOUS
  <2>1. /\ Allocated \in Int /\ Reported \in Int /\ Len(trp_list) \in Nat
        /\ tx_id_to_alloc \in Int /\ MaxTx \in Nat
    BY Numbers DEF IInv
  <2>2. Reported = tx_id_to_alloc - 1 - Len(trp_list) /\ Allocated = tx_id_to_alloc - 1
    BY DEF Reported, Allocated
  <2>3. \A i \in 1 .. Len(trp_list) : trp_list[i].tx = tx_id_to_alloc - 1 - Len(trp_list) + i
    BY <2>2 DEF IInv, ListInv
  <2>4. ASSUME NEW t \in Journal!Tx
        PROVE  /\ st[t] \in {"submitted", "durable", "applied"} => t >= tx_id_to_alloc - Len(trp_list)
               /\ st[t] = "none" => t >= tx_id_to_alloc - 1
               /\ t < tx_id_to_alloc - Len(trp_list) => st[t] = "reported"
    <3>1. t \in Int
      BY <2>1 DEF Journal!Tx
    <3>2. /\ st[t] = "none" <=> (t > Allocated \/ (t = Allocated /\ Adding))
          /\ st[t] = "reported" <=> t <= Reported
      BY DEF IInv, StatusInv
    <3> QED BY <2>1, <2>2, <3>1, <3>2
  <2> QED BY <2>3, <2>4 DEF TrpListMatchesJournal
<1> QED BY Inductive, <1>1, PTL

\* Every transaction reported applied is on its way to the server thread's
\* task, in one place and in protect_processing_tx, or has been released by
\* that task, never both: no protection is lost or dropped twice.
THEOREM ProtectionIsAccounted == Spec => []ProtectionAccounted
<1>1. IInv => ProtectionAccounted
  <2> SUFFICES ASSUME IInv, NEW t \in Journal!Tx, st[t] = "reported"
               PROVE  /\ (t \in InFlight) # (t \in released)
                      /\ t \in InFlight => t \in protect_processing_tx
    BY DEF ProtectionAccounted
  <2>1. /\ Taken \in Int /\ Reported \in Int /\ Len(task_queue) \in Nat /\ t \in Int /\ t >= 1
        /\ Carried \in {0, 1} /\ Running \in {0, 1} /\ Unreleased \in {0, 1}
    BY Numbers, BoundAssumption DEF IInv, Journal!Tx
  <2>2. t <= Reported /\ Taken - Running >= 0 /\ Taken = Reported - Carried - Len(task_queue)
    BY DEF IInv, StatusInv, PipelineInv, Taken
  <2>3. /\ jt_record.tx = IF Carried = 1 THEN Reported ELSE 0
        /\ \A i \in 1 .. Len(task_queue) : task_queue[i].tx = Taken + i
        /\ cur_task.tx = IF Running = 1 THEN Taken ELSE 0
        /\ released = 1 .. (Taken - Unreleased)
        /\ protect_processing_tx = (Taken + 1 - Running) .. Reported
    BY DEF IInv, PipelineInv
  <2>4. (Unreleased = 1 <=> server \in {"lock", "task"}) /\ (Unreleased = 1 => Running = 1)
    BY DEF Unreleased, Running
  <2>5. t \in {task_queue[i].tx : i \in 1 .. Len(task_queue)} <=> (t > Taken /\ t <= Reported - Carried)
    <3>1. ASSUME t > Taken, t <= Reported - Carried
          PROVE  t \in {task_queue[i].tx : i \in 1 .. Len(task_queue)}
      <4>1. t - Taken \in 1 .. Len(task_queue) /\ Taken + (t - Taken) = t
        BY <2>1, <2>2, <3>1
      <4> QED BY <4>1, <2>3
    <3>2. ASSUME t \in {task_queue[i].tx : i \in 1 .. Len(task_queue)}
          PROVE  t > Taken /\ t <= Reported - Carried
      <4>1. PICK i \in 1 .. Len(task_queue) : t = task_queue[i].tx
        BY <3>2
      <4>2. t = Taken + i
        BY <4>1, <2>3
      <4> QED BY <4>2, <2>1, <2>2
    <3> QED BY <3>1, <3>2
  <2>6. t = jt_record.tx <=> (Carried = 1 /\ t = Reported)
    BY <2>1, <2>3
  <2>7. t \in (IF server \in {"lock", "task"} THEN {cur_task.tx} ELSE {})
          <=> (Unreleased = 1 /\ t = Taken)
    BY <2>3, <2>4
  <2>8. t \in InFlight <=> t > Taken - Unreleased
    <3>1. t \in InFlight <=> \/ t = jt_record.tx
                             \/ t \in {task_queue[i].tx : i \in 1 .. Len(task_queue)}
                             \/ t \in (IF server \in {"lock", "task"} THEN {cur_task.tx} ELSE {})
      BY Zenon DEF InFlight
    <3>2. t \in InFlight <=> \/ Carried = 1 /\ t = Reported
                             \/ t > Taken /\ t <= Reported - Carried
                             \/ Unreleased = 1 /\ t = Taken
      BY <2>5, <2>6, <2>7, <3>1, Zenon
    <3>3. \/ Carried = 1 /\ t = Reported
          \/ t > Taken /\ t <= Reported - Carried
          \/ Unreleased = 1 /\ t = Taken
          <=> t > Taken - Unreleased
      <4>1. CASE Carried = 0 /\ Unreleased = 0
        BY <4>1, <2>1, <2>2
      <4>2. CASE Carried = 0 /\ Unreleased = 1
        BY <4>2, <2>1, <2>2
      <4>3. CASE Carried = 1 /\ Unreleased = 0
        BY <4>3, <2>1, <2>2
      <4>4. CASE Carried = 1 /\ Unreleased = 1
        BY <4>4, <2>1, <2>2
      <4> QED BY <4>1, <4>2, <4>3, <4>4, <2>1
    <3> QED BY <3>2, <3>3
  <2>9. t \in released <=> t <= Taken - Unreleased
    BY <2>1, <2>3
  <2>10. t \in InFlight => t \in protect_processing_tx
    BY <2>1, <2>2, <2>3, <2>4, <2>8
  <2>11. t \in InFlight <=> ~(t \in released)
    BY <2>1, <2>8, <2>9
  <2> QED BY <2>10, <2>11
<1> QED BY Inductive, <1>1, PTL

\* A path lookup or mapping search handed to the SSD after
\* wait_all_journal_applied_in_SSD never runs while the SSD still has a
\* committed transaction to apply, until the caller gives fs_meta_lock back.
THEOREM SearchIsConsistent == Spec => []SearchSeesAppliedJournals
<1>1. IInv => SearchSeesAppliedJournals
  <2> SUFFICES ASSUME IInv, NEW a \in Api, api[a] = "search", NEW t \in Journal!Tx
               PROVE  st[t] \notin {"submitted", "durable"}
    BY DEF SearchSeesAppliedJournals
  <2>1. trp_list = <<>>
    BY DEF IInv, SearchInv
  <2>2. Allocated \in Int /\ t \in Int /\ Reported = Allocated
    BY <2>1, Numbers, BoundAssumption DEF IInv, Journal!Tx, Reported
  <2>3. t > Allocated \/ t <= Reported
    BY <2>2
  <2> QED BY <2>3 DEF IInv, StatusInv
<1> QED BY Inductive, <1>1, PTL

\* When fini stops the server thread, and ever after, the journal is empty,
\* every transaction has been reported and every protection released.
THEOREM FiniIsComplete == Spec => []FiniLeavesNothing
<1>1. IInv => FiniLeavesNothing
  <2> SUFFICES ASSUME IInv, fini \in {"stop_notify", "join", "done"}
               PROVE  /\ cur_journal = "empty" /\ trp_list = <<>> /\ protect_processing_tx = {}
                      /\ \A t \in 1 .. (tx_id_to_alloc - 1) : st[t] = "reported" /\ t \in released
    BY DEF FiniLeavesNothing
  <2>1. cur_journal = "empty" /\ trp_list = <<>> /\ protect_processing_tx = {}
    BY DEF IInv, FiniInv
  <2>2. /\ Allocated \in Int /\ tx_id_to_alloc \in 1 .. (MaxTx + 1) /\ MaxTx \in Nat
        /\ Reported = tx_id_to_alloc - 1
    BY <2>1, Numbers DEF IInv, Reported, Allocated
  <2>3. Running = 0 /\ Taken = Reported
    BY <2>1, PipelineEmpty
  <2>4. released = 1 .. Reported
    <3>1. Unreleased = 0
      BY <2>3 DEF Running, Unreleased
    <3>2. Taken - Unreleased = Reported
      BY <2>2, <2>3, <3>1
    <3> QED BY <3>2 DEF IInv, PipelineInv
  <2>5. ASSUME NEW t \in 1 .. (tx_id_to_alloc - 1)
        PROVE  st[t] = "reported" /\ t \in released
    <3>1. t \in Journal!Tx /\ t <= Reported /\ t \in 1 .. Reported
      BY <2>2 DEF Journal!Tx
    <3> QED BY <3>1, <2>4 DEF IInv, StatusInv
  <2> QED BY <2>1, <2>5
<1> QED BY Inductive, <1>1, PTL
===============================================================================
