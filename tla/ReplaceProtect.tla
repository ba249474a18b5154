---------------------------- MODULE ReplaceProtect ----------------------------
(***************************************************************************)
(* Replace protection, end to end: API threads change metadata and commit  *)
(* transactions under fs_meta_lock; replace_protect_manager keeps a record *)
(* of every committed transaction until the SSD has applied it; the        *)
(* journal thread's notify_cplt_tx moves the record to a task that         *)
(* server_thread runs, again under fs_meta_lock; fini writes everything    *)
(* back and stops the server thread.                                       *)
(*                                                                         *)
(* The journal layer below is TxService, which JournalProcessor is shown   *)
(* to implement.  Steps under replace_protect_manager::lock or under       *)
(* server_thread::mtx that cannot block are atomic; notifications happen   *)
(* after the unlock and are steps of their own.                            *)
(***************************************************************************)
EXTENDS Integers, Sequences, FiniteSets

CONSTANTS
    Api,            \* threads calling the file-system API
    MaxTx,          \* bound: transactions, the last two left to fini
    MaxOutstanding  \* bound: transactions committed by API threads whose
                    \* replace protection is not finished

\* Two transactions at least: fini may commit one in each of its write backs.
ASSUME BoundAssumption == MaxTx \in Nat /\ MaxTx >= 2 /\ MaxOutstanding \in Nat

\* The two values of fs_meta_lock that name no API thread.
ASSUME ApiAssumption == "server" \notin Api /\ "free" \notin Api

VARIABLES
    fs_meta_lock,           \* its holder, or "free"
    cur_journal,            \* "empty"; "meta": entries only; "nodes": dirty nodes too
    tx_id_to_alloc,
    st,                     \* the journal service's state of each transaction
    trp_list,               \* records of transactions not yet reported applied
    protect_processing_tx,  \* transactions whose task has not finished
    api,                    \* where each API thread stands
    jt, jt_record,          \* journal thread inside notify_cplt_tx
    server, task_queue, cur_task, exit_req,     \* server_thread
    fini, fini_round,       \* file_system_manager::fini
    released                \* history: transactions whose protection was released

metaVars == <<fs_meta_lock, cur_journal>>
txVars   == <<tx_id_to_alloc, st>>
rpVars   == <<trp_list, protect_processing_tx>>
jtVars   == <<jt, jt_record>>
srvVars  == <<server, task_queue, cur_task, exit_req>>
finiVars == <<fini, fini_round>>
vars == <<metaVars, txVars, rpVars, api, jtVars, srvVars, finiVars, released>>

Journal == INSTANCE TxService

\* A replace-protection record: carries is TRUE when the transaction wrote
\* nodes, so that its task may add segments to a list or free deleted nodes.
Record == [tx : 1 .. MaxTx, carries : BOOLEAN]
NoRecord == [tx |-> 0, carries |-> FALSE]

Init ==
    /\ fs_meta_lock = "free" /\ cur_journal = "empty"
    /\ tx_id_to_alloc = 1 /\ Journal!Init
    /\ trp_list = <<>> /\ protect_processing_tx = {}
    /\ api = [a \in Api |-> "idle"]
    /\ jt = "idle" /\ jt_record = NoRecord
    /\ server = "woken" /\ task_queue = <<>> /\ cur_task = NoRecord /\ exit_req = FALSE
    /\ fini = "off" /\ fini_round = 1
    /\ released = {}

-------------------------------------------------------------------------------
(* API threads.  Every path to these operations holds fs_meta_lock.        *)

Lock(a) ==
    /\ api[a] = "idle" /\ fini = "off" /\ fs_meta_lock = "free"
    /\ fs_meta_lock' = a /\ api' = [api EXCEPT ![a] = "locked"]
    /\ UNCHANGED <<cur_journal, txVars, rpVars, jtVars, srvVars, finiVars, released>>

Unlock(a) ==
    /\ api[a] = "locked"
    /\ fs_meta_lock' = "free" /\ api' = [api EXCEPT ![a] = "idle"]
    /\ UNCHANGED <<cur_journal, txVars, rpVars, jtVars, srvVars, finiVars, released>>

\* An operation that dirties node blocks (mkdir, unlink, file write back...).
Modify(a) ==
    /\ api[a] = "locked" /\ cur_journal # "nodes" /\ cur_journal' = "nodes"
    /\ UNCHANGED <<fs_meta_lock, txVars, rpVars, api, jtVars, srvVars, finiVars, released>>

\* The record write_meta_back_sync builds for the journal it takes.
NewRecord == [tx |-> tx_id_to_alloc, carries |-> cur_journal = "nodes"]

\* add_tx's list push.
Recorded == Append(trp_list, NewRecord)

\* write_meta_back_sync on a non-empty journal, up to and with add_tx.
TakeJournal ==
    /\ cur_journal # "empty" /\ cur_journal' = "empty"
    /\ tx_id_to_alloc' = tx_id_to_alloc + 1
    /\ trp_list' = Recorded

\* Its last step, commit_journal of the transaction just recorded.
CommitJournal == Journal!Submit(tx_id_to_alloc - 1)

Outstanding == Len(trp_list) + Cardinality(protect_processing_tx)

WriteBack(a) ==
    /\ api[a] = "locked" /\ TakeJournal
    /\ tx_id_to_alloc <= MaxTx - 2 /\ Outstanding < MaxOutstanding
    /\ api' = [api EXCEPT ![a] = "added"]
    /\ UNCHANGED <<fs_meta_lock, st, protect_processing_tx, jtVars, srvVars,
                   finiVars, released>>

Commit(a) ==
    /\ api[a] = "added" /\ CommitJournal
    /\ api' = [api EXCEPT ![a] = "locked"]
    /\ UNCHANGED <<metaVars, tx_id_to_alloc, rpVars, jtVars, srvVars, finiVars, released>>

\* wait_all_journal_applied_in_SSD, before a path lookup or a file mapping
\* search is handed to the SSD; fs_meta_lock stays with the caller.
AllApplied_Skipped == TRUE
AllApplied == trp_list = <<>>

wait_all_journal_applied_in_SSD(a) ==
    /\ api[a] \in {"locked", "woken"}
    /\ api' = [api EXCEPT ![a] = IF AllApplied THEN "search" ELSE "asleep"]
    /\ UNCHANGED <<metaVars, txVars, rpVars, jtVars, srvVars, finiVars, released>>

SearchDone(a) ==
    /\ api[a] = "search" /\ api' = [api EXCEPT ![a] = "locked"]
    /\ UNCHANGED <<metaVars, txVars, rpVars, jtVars, srvVars, finiVars, released>>

-------------------------------------------------------------------------------
(* The journal layer, through the journal thread, and the SSD.             *)

\* The journal thread publishes only while it is not inside notify_cplt_tx.
JournalPublish ==
    /\ jt = "idle" /\ \E t \in Journal!Tx : Journal!Publish(t)
    /\ UNCHANGED <<metaVars, tx_id_to_alloc, rpVars, api, jtVars, srvVars,
                   finiVars, released>>

SSDApply ==
    /\ \E t \in Journal!Tx : Journal!Apply(t)
    /\ UNCHANGED <<metaVars, tx_id_to_alloc, rpVars, api, jtVars, srvVars,
                   finiVars, released>>

\* notify_cplt_tx up to the release of the manager's lock.
notify_cplt_tx ==
    /\ jt = "idle" /\ trp_list # <<>>
    /\ \E t \in Journal!Tx : Journal!Report(t)
    /\ jt_record' = Head(trp_list) /\ trp_list' = Tail(trp_list)
    /\ protect_processing_tx' = protect_processing_tx \cup {Head(trp_list).tx}
    /\ jt' = IF Tail(trp_list) = <<>> THEN "notify" ELSE "post"
    /\ UNCHANGED <<metaVars, tx_id_to_alloc, api, srvVars, finiVars, released>>

\* notify_all on trp_list_empty_cond.
NotifyTrpEmpty_WakesNobody ==
    /\ jt = "notify" /\ jt' = "post"
    /\ UNCHANGED <<metaVars, txVars, rpVars, api, jt_record, srvVars, finiVars, released>>
NotifyTrpEmpty ==
    /\ jt = "notify" /\ jt' = "post"
    /\ api' = [a \in Api |-> IF api[a] = "asleep" THEN "woken" ELSE api[a]]
    /\ fini' = IF fini = "sleep_trp" THEN "check_trp" ELSE fini
    /\ UNCHANGED <<metaVars, txVars, rpVars, jt_record, srvVars, fini_round, released>>

\* thread_main holds mtx everywhere but inside cond.wait: while a task runs too.
MtxFree == server \in {"wait", "woken", "exited"}

\* Only a post onto an empty queue wakes the server.
NeedWakeup_Never == FALSE
NeedWakeup == task_queue = <<>>

Enqueued_Alone == <<jt_record>>
Enqueued == Append(task_queue, jt_record)

post_task ==
    /\ jt = "post" /\ MtxFree
    /\ task_queue' = Enqueued /\ jt_record' = NoRecord
    /\ jt' = IF NeedWakeup THEN "wake" ELSE "idle"
    /\ UNCHANGED <<metaVars, txVars, rpVars, api, server, cur_task, exit_req,
                   finiVars, released>>

\* notify_all on the server's condition variable.
WakeServer == server' = IF server = "wait" THEN "woken" ELSE server

PostWakeup ==
    /\ jt = "wake" /\ jt' = "idle" /\ WakeServer
    /\ UNCHANGED <<metaVars, txVars, rpVars, api, jt_record, task_queue, cur_task,
                   exit_req, finiVars, released>>

-------------------------------------------------------------------------------
(* server_thread::thread_main and the task it runs.                        *)

\* The top of the loop, with mtx held or just reacquired after a wait.
AtTop == server \in {"woken", "loop"}

ServerWait ==
    /\ AtTop /\ task_queue = <<>> /\ ~exit_req /\ server' = "wait"
    /\ UNCHANGED <<metaVars, txVars, rpVars, api, jtVars, task_queue, cur_task,
                   exit_req, finiVars, released>>

ServerExit ==
    /\ AtTop /\ task_queue = <<>> /\ exit_req /\ server' = "exited"
    /\ UNCHANGED <<metaVars, txVars, rpVars, api, jtVars, task_queue, cur_task,
                   exit_req, finiVars, released>>

ServerTake ==
    /\ AtTop /\ task_queue # <<>>
    /\ cur_task' = Head(task_queue) /\ task_queue' = Tail(task_queue)
    /\ server' = "lock"
    /\ UNCHANGED <<metaVars, txVars, rpVars, api, jtVars, exit_req, finiVars, released>>

ServerSpuriousWakeup ==
    /\ server = "wait" /\ server' = "woken"
    /\ UNCHANGED <<metaVars, txVars, rpVars, api, jtVars, task_queue, cur_task,
                   exit_req, finiVars, released>>

\* replace_protect_task::operator() takes fs_meta_lock, with mtx still held.
TaskLock ==
    /\ server = "lock" /\ fs_meta_lock = "free"
    /\ fs_meta_lock' = "server" /\ server' = "task"
    /\ UNCHANGED <<cur_journal, txVars, rpVars, api, jtVars, task_queue, cur_task,
                   exit_req, finiVars, released>>

\* Its body: the SSD versions of the transaction's cache entries go up, its
\* full segments join the segment lists and its handles are dropped, which
\* may free deleted nodes; the last two append to the current journal.
TaskBody ==
    /\ server = "task" /\ server' = "mark"
    /\ fs_meta_lock' = "free"
    /\ cur_journal' \in {cur_journal} \cup
          (IF cur_task.carries /\ cur_journal = "empty" THEN {"meta"} ELSE {})
    /\ released' = released \cup {cur_task.tx}
    /\ UNCHANGED <<txVars, rpVars, api, jtVars, task_queue, cur_task, exit_req, finiVars>>

\* mark_protect_process_cplt, then its notification if nothing is left.
mark_protect_process_cplt ==
    LET rest == protect_processing_tx \ {cur_task.tx} IN
    /\ server = "mark"
    /\ protect_processing_tx' = rest /\ cur_task' = NoRecord
    /\ server' = IF rest = {} THEN "notify" ELSE "loop"
    /\ UNCHANGED <<metaVars, txVars, trp_list, api, jtVars, task_queue, exit_req,
                   finiVars, released>>

NotifyProtectCplt ==
    /\ server = "notify" /\ server' = "loop"
    /\ fini' = IF fini = "sleep_protect" THEN "check_protect" ELSE fini
    /\ UNCHANGED <<metaVars, txVars, rpVars, api, jtVars, task_queue, cur_task,
                   exit_req, fini_round, released>>

-------------------------------------------------------------------------------
(* fini, which holds fs_freeze_lock exclusively and not fs_meta_lock.      *)

FiniStart ==
    /\ fini = "off" /\ \A a \in Api : api[a] = "idle"
    /\ fini' = "write_back"
    /\ UNCHANGED <<metaVars, txVars, rpVars, api, jtVars, srvVars, fini_round, released>>

FiniWriteBack ==
    /\ fini = "write_back" /\ TakeJournal /\ fini' = "added"
    /\ UNCHANGED <<fs_meta_lock, st, protect_processing_tx, api, jtVars, srvVars,
                   fini_round, released>>

FiniNothingDirty ==
    /\ fini = "write_back" /\ cur_journal = "empty" /\ fini' = "check_trp"
    /\ UNCHANGED <<metaVars, txVars, rpVars, api, jtVars, srvVars, fini_round, released>>

FiniCommit ==
    /\ fini = "added" /\ CommitJournal /\ fini' = "check_trp"
    /\ UNCHANGED <<metaVars, tx_id_to_alloc, rpVars, api, jtVars, srvVars,
                   fini_round, released>>

\* wait_all_protect_task_cplt: first for the list, then for the tasks.
FiniWaitApplied ==
    /\ fini = "check_trp"
    /\ fini' = IF trp_list = <<>> THEN "check_protect" ELSE "sleep_trp"
    /\ UNCHANGED <<metaVars, txVars, rpVars, api, jtVars, srvVars, fini_round, released>>

ProtectDone == protect_processing_tx = {}

FiniWaitProtect ==
    /\ fini = "check_protect"
    /\ fini' = IF ProtectDone THEN "waited" ELSE "sleep_protect"
    /\ UNCHANGED <<metaVars, txVars, rpVars, api, jtVars, srvVars, fini_round, released>>

\* What the tasks appended to the journal needs a second write back, once.
FiniAgain_Never == FALSE
FiniAgain == fini_round = 1 /\ cur_journal # "empty"

FiniSecondRound ==
    /\ fini = "waited" /\ FiniAgain
    /\ fini' = "write_back" /\ fini_round' = 2
    /\ UNCHANGED <<metaVars, txVars, rpVars, api, jtVars, srvVars, released>>

FiniStop ==
    /\ fini = "waited" /\ ~FiniAgain /\ MtxFree
    /\ exit_req' = TRUE /\ fini' = "stop_notify"
    /\ UNCHANGED <<metaVars, txVars, rpVars, api, jtVars, server, task_queue,
                   cur_task, fini_round, released>>

FiniStopNotify ==
    /\ fini = "stop_notify" /\ fini' = "join" /\ WakeServer
    /\ UNCHANGED <<metaVars, txVars, rpVars, api, jtVars, task_queue, cur_task,
                   exit_req, fini_round, released>>

FiniJoin ==
    /\ fini = "join" /\ server = "exited" /\ fini' = "done"
    /\ UNCHANGED <<metaVars, txVars, rpVars, api, jtVars, srvVars, fini_round, released>>

-------------------------------------------------------------------------------
ApiStep(a) == \/ Lock(a) \/ Unlock(a) \/ Modify(a) \/ WriteBack(a) \/ Commit(a)
              \/ wait_all_journal_applied_in_SSD(a) \/ SearchDone(a)
NotifyStep == NotifyTrpEmpty \/ PostWakeup
JournalStep == JournalPublish \/ notify_cplt_tx \/ NotifyStep
ServerStep == \/ ServerWait \/ ServerExit \/ ServerTake \/ TaskBody
              \/ mark_protect_process_cplt \/ NotifyProtectCplt
FiniStep == \/ FiniWriteBack \/ FiniNothingDirty \/ FiniCommit \/ FiniWaitApplied
            \/ FiniWaitProtect \/ FiniSecondRound \/ FiniStopNotify \/ FiniJoin

\* After fini the process goes on without the file system.
Finished == fini = "done" /\ UNCHANGED vars

Next == \/ \E a \in Api : ApiStep(a)
        \/ JournalStep \/ SSDApply \/ post_task
        \/ ServerStep \/ ServerSpuriousWakeup \/ TaskLock
        \/ FiniStart \/ FiniStep \/ FiniStop \/ Finished

\* Every thread runs; what an API thread does with the lock is up to its
\* caller, but it finishes what it began and gives the lock back.  A thread
\* blocked on a mutex that keeps being released gets it in the end (SF).
Fairness ==
    /\ WF_vars(JournalStep) /\ WF_vars(SSDApply) /\ WF_vars(ServerStep)
    /\ WF_vars(FiniStep)
    /\ SF_vars(TaskLock) /\ SF_vars(post_task) /\ SF_vars(FiniStop)
    /\ \A a \in Api : WF_vars(Commit(a) \/ SearchDone(a)) /\ SF_vars(Unlock(a))
                      /\ WF_vars(api[a] = "woken" /\ wait_all_journal_applied_in_SSD(a))

Spec == Init /\ [][Next]_vars /\ Fairness

-------------------------------------------------------------------------------
TypeOK ==
    /\ fs_meta_lock \in Api \cup {"server", "free"}
    /\ cur_journal \in {"empty", "meta", "nodes"}
    /\ tx_id_to_alloc \in 1 .. (MaxTx + 1) /\ Journal!StatusOK
    /\ trp_list \in Seq(Record) /\ protect_processing_tx \subseteq 1 .. MaxTx
    /\ api \in [Api -> {"idle", "locked", "added", "asleep", "woken", "search"}]
    /\ jt \in {"idle", "notify", "post", "wake"} /\ jt_record \in Record \cup {NoRecord}
    /\ server \in {"wait", "woken", "loop", "lock", "task", "mark", "notify", "exited"}
    /\ task_queue \in Seq(Record) /\ cur_task \in Record \cup {NoRecord}
    /\ exit_req \in BOOLEAN
    /\ fini \in {"off", "write_back", "added", "check_trp", "sleep_trp", "check_protect",
                 "sleep_protect", "waited", "stop_notify", "join", "done"}
    /\ fini_round \in {1, 2} /\ released \subseteq 1 .. MaxTx

\* The transactions recorded in trp_list are those the journal layer has yet
\* to report, in commit order, with at most the newest recorded and not yet
\* committed: notify_cplt_tx finds its list non-empty and its front the
\* reported transaction (the two assertions in it), and no transaction the
\* SSD has not applied is without protection.
TrpListMatchesJournal ==
    /\ \A i \in 1 .. Len(trp_list) : trp_list[i].tx = tx_id_to_alloc - 1 - Len(trp_list) + i
    /\ \A t \in Journal!Tx :
         /\ st[t] \in {"submitted", "durable", "applied"} => t >= tx_id_to_alloc - Len(trp_list)
         /\ st[t] = "none" => t >= tx_id_to_alloc - 1
         /\ t < tx_id_to_alloc - Len(trp_list) => st[t] = "reported"

\* A transaction reported applied is in protect_processing_tx until its task
\* has released its protection, and its record is in exactly one place on the
\* way: with the journal thread, in the task queue or with the server thread.
InFlight == {jt_record.tx} \cup {task_queue[i].tx : i \in 1 .. Len(task_queue)}
            \cup (IF server \in {"lock", "task"} THEN {cur_task.tx} ELSE {})
ProtectionAccounted ==
    \A t \in Journal!Tx : st[t] = "reported" =>
        (t \in InFlight) # (t \in released) /\ (t \in InFlight => t \in protect_processing_tx)

\* While the SSD searches for an API thread, it has applied every committed
\* transaction ("the SSD must not use inconsistent data").
SearchSeesAppliedJournals ==
    (\E a \in Api : api[a] = "search") => \A t \in Journal!Tx : st[t] \notin {"submitted", "durable"}

\* When fini stops the server thread, nothing is dirty, in the journal or
\* still protected (the assertion that ends write_back_all_dirty_sync).
FiniLeavesNothing ==
    fini \in {"stop_notify", "join", "done"} =>
        /\ cur_journal = "empty" /\ trp_list = <<>> /\ protect_processing_tx = {}
        /\ \A t \in 1 .. (tx_id_to_alloc - 1) : st[t] = "reported" /\ t \in released

\* An API thread that waits for the SSD to apply the committed journals gets
\* its answer, although it holds fs_meta_lock all the while.
WaitReturns == \A a \in Api : (api[a] = "asleep") ~> (api[a] = "search")

\* fini returns, whatever was outstanding when it was called.
FiniReturns == (fini = "write_back") ~> (fini = "done")
===============================================================================
