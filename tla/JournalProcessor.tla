--------------------------- MODULE JournalProcessor ---------------------------
(***************************************************************************)
(* The journal layer: journal_process_env (the commit queue shared with    *)
(* the committing thread) and journal_processor (the journal process       *)
(* thread, which writes each transaction's journal into the SSD's ring of  *)
(* journal blocks and polls the ring's head to learn which transactions    *)
(* the SSD has applied), with the SSD's side of the ring as environment.   *)
(*                                                                         *)
(* A journal is its transaction number and the number of blocks that       *)
(* journal_writer packs it into.  write_meta_back_sync allocates the       *)
(* number and commits under fs_meta_lock, so there is one committer at a   *)
(* time and numbers enter the queue in increasing order.  They start at 1  *)
(* here and at 0 in the code, so that 0 can stand for no journal, and go   *)
(* on after a crash, where the code starts again, so that the histories    *)
(* tell the transactions of different runs of the program apart.           *)
(***************************************************************************)
EXTENDS Integers, Sequences, FiniteSets

CONSTANTS
    StartLpa, EndLpa,   \* the journal area is the lpa range [StartLpa, EndLpa)
    Sizes,              \* numbers of blocks a journal may take
    MaxTx,              \* bound: transactions committed
    MaxCrash            \* bound: host crashes

ASSUME AreaAssumption ==
    /\ StartLpa \in Nat /\ EndLpa \in Nat /\ StartLpa + 1 < EndLpa
    /\ MaxTx \in Nat /\ MaxCrash \in Nat

\* A journal larger than the ring would never be written: the thread waits
\* for space that cannot come.  The code has no check; it is assumed away.
ASSUME SizeAssumption == Sizes \subseteq 1 .. (EndLpa - StartLpa - 1)

VARIABLES
    \* journal_process_env
    commit_queue, exit_req, tx_id_to_alloc,
    env,                    \* where the thread calling into the env stands
    \* journal_processor
    proc,                   \* where the journal thread stands
    pending_journal_list, cur_journal, tx_record,
    head_lpa, tail_lpa, cur_avail_lpa,
    is_poll_timer_enabled,
    \* the SSD (external)
    flash, ssd_head, ssd_tail,
    \* history
    published,              \* blocks of the journals whose tail update the SSD has seen
    applied,                \* blocks the SSD has applied, as it found them
    notified,               \* transactions passed to notify_cplt_tx
    lost,                   \* transactions a crash caught before they were published
    crashes

envVars  == <<commit_queue, exit_req, tx_id_to_alloc, env>>
listVars == <<pending_journal_list, cur_journal, tx_record>>
posVars  == <<head_lpa, tail_lpa, cur_avail_lpa>>
timVars  == <<is_poll_timer_enabled>>
ssdVars  == <<flash, ssd_head, ssd_tail>>
histVars == <<published, applied, notified, lost, crashes>>
vars == <<envVars, proc, listVars, posVars, timVars, ssdVars, histVars>>

-------------------------------------------------------------------------------
Lpa == StartLpa .. (EndLpa - 1)
AreaSize == EndLpa - StartLpa

\* head = tail means empty, so one block of the ring is never used.
total_avail_lpa_UsesWholeRing == AreaSize
total_avail_lpa == AreaSize - 1

\* Blocks from a forward to b round the ring.
Dist(a, b) == IF b >= a THEN b - a ELSE b + EndLpa - StartLpa - a

\* The lpa k blocks after a, k at most the size of the ring.
Advance(a, k) == IF a + k >= EndLpa THEN a + k - EndLpa + StartLpa ELSE a + k

Journal == [tx : Nat \ {0}, blocks : Sizes]
NoJournal == [tx |-> 0, blocks |-> 0]
Block == [tx : Nat, idx : Nat, of : Nat]        \* block idx of the tx's "of" blocks
Blank == [tx |-> 0, idx |-> 0, of |-> 1]
IsLast(b) == b.idx = b.of
TxRecord == [tx : Nat \ {0}, start : Lpa, end : Lpa]

\* The i-th block journal_writer packs journal j into, and all of them.
BlockOf(j, i) == [tx |-> j.tx, idx |-> i, of |-> j.blocks]
BlocksOf(j) == [i \in 1 .. j.blocks |-> BlockOf(j, i)]

Init ==
    /\ commit_queue = <<>> /\ exit_req = FALSE /\ tx_id_to_alloc = 1
    /\ env = "run"
    /\ proc = "fetch"
    /\ pending_journal_list = <<>> /\ cur_journal = NoJournal /\ tx_record = <<>>
    /\ head_lpa \in Lpa         \* journal_fifo_pos, wherever recovery left it
    /\ tail_lpa = head_lpa /\ cur_avail_lpa = total_avail_lpa
    /\ is_poll_timer_enabled = FALSE
    /\ flash = [l \in Lpa |-> Blank] /\ ssd_head = head_lpa /\ ssd_tail = head_lpa
    /\ published = <<>> /\ applied = <<>> /\ notified = <<>> /\ lost = {}
    /\ crashes = 0

-------------------------------------------------------------------------------
(* journal_process_env: the thread holding fs_meta_lock, and fini's.       *)

\* notify_all on the env's condition variable.
WakeProcessor == proc' = IF proc = "sleep" THEN "fetch" ELSE proc

\* Only a push onto an empty queue wakes the journal thread.
NeedNotify_Never(q) == FALSE
NeedNotify(q) == q = <<>>

\* The queue push, under the env's mutex; the notification comes after unlock.
commit_journal(b) ==
    /\ env = "run" /\ proc # "down" /\ tx_id_to_alloc <= MaxTx
    /\ commit_queue' = Append(commit_queue, [tx |-> tx_id_to_alloc, blocks |-> b])
    /\ tx_id_to_alloc' = tx_id_to_alloc + 1
    /\ env' = IF NeedNotify(commit_queue) THEN "notify" ELSE "run"
    /\ UNCHANGED <<exit_req, proc, listVars, posVars, timVars, ssdVars, histVars>>

CommitNotify ==
    /\ env = "notify" /\ env' = "run" /\ WakeProcessor
    /\ UNCHANGED <<commit_queue, exit_req, tx_id_to_alloc, listVars, posVars,
                   timVars, ssdVars, histVars>>

\* Called by fini, after which nothing is committed.
stop_process_thread ==
    /\ env = "run" /\ proc # "down"
    /\ exit_req' = TRUE /\ env' = "stop_notify"
    /\ UNCHANGED <<commit_queue, tx_id_to_alloc, proc, listVars, posVars,
                   timVars, ssdVars, histVars>>

StopNotify_NoWakeup ==
    /\ env = "stop_notify" /\ env' = "join"
    /\ UNCHANGED <<commit_queue, exit_req, tx_id_to_alloc, proc, listVars,
                   posVars, timVars, ssdVars, histVars>>
StopNotify ==
    /\ env = "stop_notify" /\ env' = "join" /\ WakeProcessor
    /\ UNCHANGED <<commit_queue, exit_req, tx_id_to_alloc, listVars, posVars,
                   timVars, ssdVars, histVars>>

StopJoin ==
    /\ env = "join" /\ proc = "exited" /\ env' = "stopped"
    /\ UNCHANGED <<commit_queue, exit_req, tx_id_to_alloc, proc, listVars,
                   posVars, timVars, ssdVars, histVars>>

-------------------------------------------------------------------------------
(* journal_processor: the loop of process_journal.                         *)

is_working == ~ /\ cur_avail_lpa = total_avail_lpa
                /\ pending_journal_list = <<>>
                /\ cur_journal = NoJournal

\* The splice of the commit queue onto the list of pending journals.
Spliced_InFront == commit_queue \o pending_journal_list
Spliced == pending_journal_list \o commit_queue

\* fetch_new_journal runs under the env's mutex: one step for each way out.
FetchJournals ==
    /\ proc = "fetch" /\ commit_queue # <<>>
    /\ pending_journal_list' = Spliced
    /\ commit_queue' = <<>> /\ proc' = "pending"
    /\ UNCHANGED <<exit_req, tx_id_to_alloc, env, cur_journal, tx_record,
                   posVars, timVars, ssdVars, histVars>>

FetchNothing ==
    /\ proc = "fetch" /\ commit_queue = <<>> /\ is_working
    /\ proc' = "pending"
    /\ UNCHANGED <<envVars, listVars, posVars, timVars, ssdVars, histVars>>

FetchWait ==
    /\ proc = "fetch" /\ commit_queue = <<>> /\ ~is_working /\ ~exit_req
    /\ proc' = "sleep"
    /\ UNCHANGED <<envVars, listVars, posVars, timVars, ssdVars, histVars>>

SpuriousWakeup ==
    /\ proc = "sleep" /\ proc' = "fetch"
    /\ UNCHANGED <<envVars, listVars, posVars, timVars, ssdVars, histVars>>

FetchExit ==
    /\ proc = "fetch" /\ commit_queue = <<>> /\ ~is_working /\ exit_req
    /\ exit_req' = FALSE /\ proc' = "exited"
    /\ UNCHANGED <<commit_queue, tx_id_to_alloc, env, listVars, posVars,
                   timVars, ssdVars, histVars>>

\* The journal process_pending_journal works on: the one left over from an
\* earlier round for lack of space, else the oldest pending one.
Candidate == IF cur_journal # NoJournal THEN cur_journal
             ELSE IF pending_journal_list # <<>> THEN Head(pending_journal_list)
             ELSE NoJournal

TakeCandidate ==
    /\ cur_journal' = Candidate
    /\ pending_journal_list' = IF cur_journal = NoJournal
                               THEN Tail(pending_journal_list)
                               ELSE pending_journal_list

HasSpace_OneMore(j) == j.blocks <= cur_avail_lpa + 1
HasSpace_Unchecked(j) == TRUE
HasSpace(j) == j.blocks <= cur_avail_lpa

PendingNothing ==
    /\ proc = "pending" /\ Candidate = NoJournal /\ proc' = "cplt"
    /\ UNCHANGED <<envVars, listVars, posVars, timVars, ssdVars, histVars>>

PendingNoSpace ==
    /\ proc = "pending" /\ Candidate # NoJournal
    /\ ~HasSpace(Candidate)
    /\ TakeCandidate /\ proc' = "cplt"
    /\ UNCHANGED <<envVars, tx_record, posVars, timVars, ssdVars, histVars>>

\* The lpas write_to_SSD fills with journal j when the tail is t.
TargetLpas(t, j) == {Advance(t, i) : i \in 0 .. (j.blocks - 1)}

\* write_to_SSD: the blocks go to the ring from the tail on, round its end,
\* and the thread waits for the I/O.
WriteBlocks ==
    /\ proc = "pending" /\ Candidate # NoJournal
    /\ HasSpace(Candidate)
    /\ TakeCandidate
    /\ flash' = [l \in Lpa |-> IF l \in TargetLpas(tail_lpa, Candidate)
                               THEN BlockOf(Candidate, Dist(tail_lpa, l) + 1)
                               ELSE flash[l]]
    /\ proc' = "publish"
    /\ UNCHANGED <<envVars, tx_record, posVars, timVars, ssd_head, ssd_tail, histVars>>

\* The tail update that publishes the blocks, then the thread's own state.
PublishTail ==
    LET t == Advance(tail_lpa, cur_journal.blocks) IN
    /\ proc = "publish"
    /\ ssd_tail' = t /\ tail_lpa' = t
    /\ cur_avail_lpa' = cur_avail_lpa - cur_journal.blocks
    /\ tx_record' = Append(tx_record,
                        [tx |-> cur_journal.tx, start |-> tail_lpa, end |-> t])
    /\ cur_journal' = NoJournal
    /\ published' = published \o BlocksOf(cur_journal)
    /\ proc' = "cplt"
    /\ UNCHANGED <<envVars, pending_journal_list, head_lpa, timVars, flash,
                   ssd_head, applied, notified, lost, crashes>>

\* process_cplt_journal.  Its first branch, which stops the timer when nothing
\* is outstanding, is never taken: with the whole ring free fetch_new_journal
\* returns only with a journal, which fits.  So the timer is never stopped.
enable_poll_timer ==
    /\ proc = "cplt" /\ cur_avail_lpa # total_avail_lpa
    /\ is_poll_timer_enabled' = TRUE
    /\ proc' = "poll"
    /\ UNCHANGED <<envVars, listVars, posVars, ssdVars, histVars>>

\* wait_poll_timer blocks for ever on a timer that was not started.
sync_with_SSD_journal_pos ==
    LET freed == Dist(head_lpa, ssd_head) IN
    /\ proc = "poll" /\ is_poll_timer_enabled
    /\ head_lpa' = ssd_head
    /\ cur_avail_lpa' = cur_avail_lpa + freed
    /\ proc' = IF freed # 0 THEN "records" ELSE "fetch"
    /\ UNCHANGED <<envVars, listVars, tail_lpa, timVars, ssdVars, histVars>>

\* Whether the SSD is past record r, judged from the polled head and the tail.
is_applied_IgnoresWrap(r, h, t) ==
    IF r.start < r.end THEN h >= r.end \/ t < r.start ELSE h <= t /\ h >= r.end
is_applied(r, h, t) ==
    IF r.start < r.end
    THEN IF h <= t THEN h >= r.end \/ t < r.start ELSE h >= r.end
    ELSE h <= t /\ h >= r.end

FrontApplied == tx_record # <<>> /\ is_applied(Head(tx_record), head_lpa, tail_lpa)

\* One round of process_tx_record; notify_cplt_tx is its only effect outside.
NotifyCplt ==
    /\ proc = "records" /\ FrontApplied
    /\ notified' = Append(notified, Head(tx_record).tx)
    /\ tx_record' = Tail(tx_record)
    /\ UNCHANGED <<envVars, proc, pending_journal_list, cur_journal, posVars,
                   timVars, ssdVars, published, applied, lost, crashes>>

RecordsDone ==
    /\ proc = "records" /\ ~FrontApplied /\ proc' = "fetch"
    /\ UNCHANGED <<envVars, listVars, posVars, timVars, ssdVars, histVars>>

-------------------------------------------------------------------------------
(* The SSD, from how the code uses it: it applies the blocks between its   *)
(* head and its tail in order and reports the head it has reached, which   *)
(* may lie inside a transaction.                                           *)

Live == Dist(ssd_head, ssd_tail)

LiveBlock(i) == flash[Advance(ssd_head, i - 1)]

SSDApply ==
    /\ Live > 0
    /\ ssd_head' = Advance(ssd_head, 1)
    /\ applied' = Append(applied, LiveBlock(1))
    /\ UNCHANGED <<envVars, proc, listVars, posVars, timVars, flash, ssd_tail,
                   published, notified, lost, crashes>>

-------------------------------------------------------------------------------
(* A host crash loses everything but the SSD.  ssd_recovery, run before    *)
(* the journal layer starts, polls until the SSD's head meets its tail.    *)

TxOf(seq) == {seq[i].tx : i \in 1 .. Len(seq)}
Unpublished == TxOf(commit_queue) \cup TxOf(pending_journal_list)
               \cup (IF cur_journal = NoJournal THEN {} ELSE {cur_journal.tx})

Crash ==
    /\ crashes < MaxCrash /\ proc # "down" /\ env # "stopped"
    /\ crashes' = crashes + 1 /\ proc' = "down" /\ env' = "run"
    /\ lost' = lost \cup Unpublished
    /\ commit_queue' = <<>> /\ exit_req' = FALSE
    /\ pending_journal_list' = <<>> /\ cur_journal' = NoJournal /\ tx_record' = <<>>
    /\ is_poll_timer_enabled' = FALSE
    /\ UNCHANGED <<tx_id_to_alloc, posVars, ssdVars, published, applied, notified>>

ssd_recovery ==
    /\ proc = "down" /\ ssd_head = ssd_tail
    /\ proc' = "fetch"
    /\ head_lpa' = ssd_head /\ tail_lpa' = ssd_head /\ cur_avail_lpa' = total_avail_lpa
    /\ UNCHANGED <<envVars, listVars, timVars, ssdVars, histVars>>

\* After stop_process_thread has returned nothing happens any more.
Stopped == env = "stopped" /\ UNCHANGED vars

-------------------------------------------------------------------------------
Processor ==
    \/ FetchJournals \/ FetchNothing \/ FetchWait \/ FetchExit
    \/ PendingNothing \/ PendingNoSpace \/ WriteBlocks \/ PublishTail
    \/ enable_poll_timer \/ sync_with_SSD_journal_pos
    \/ NotifyCplt \/ RecordsDone

Caller == CommitNotify \/ StopNotify \/ StopJoin

Next ==
    \/ \E b \in Sizes : commit_journal(b)
    \/ stop_process_thread
    \/ Caller \/ Processor \/ SpuriousWakeup
    \/ SSDApply
    \/ Crash \/ ssd_recovery
    \/ Stopped

\* The threads are scheduled, the timer fires and the SSD works through its
\* ring; nobody has to commit, to stop, to crash or to wake spuriously.
Fairness == /\ WF_vars(Processor) /\ WF_vars(Caller)
            /\ WF_vars(SSDApply) /\ WF_vars(ssd_recovery)

Spec == Init /\ [][Next]_vars /\ Fairness

-------------------------------------------------------------------------------
(* Properties *)

EnvTypeOK ==
    /\ commit_queue \in Seq(Journal) /\ tx_id_to_alloc \in Nat \ {0}
    /\ env \in {"run", "notify", "stop_notify", "join", "stopped"}
ProcTypeOK ==
    proc \in {"fetch", "sleep", "pending", "publish", "cplt", "poll",
              "records", "exited", "down"}
FlagTypeOK ==
    exit_req \in BOOLEAN /\ is_poll_timer_enabled \in BOOLEAN
ListTypeOK ==
    /\ pending_journal_list \in Seq(Journal)
    /\ cur_journal \in Journal \cup {NoJournal}
    /\ tx_record \in Seq(TxRecord)
PosTypeOK ==
    /\ head_lpa \in Lpa /\ tail_lpa \in Lpa
    /\ cur_avail_lpa \in 0 .. total_avail_lpa
SSDTypeOK ==
    flash \in [Lpa -> Block] /\ ssd_head \in Lpa /\ ssd_tail \in Lpa
HistTypeOK ==
    /\ published \in Seq(Block) /\ applied \in Seq(Block)
    /\ notified \in Seq(Nat \ {0}) /\ lost \in SUBSET (Nat \ {0})
    /\ crashes \in Nat

\* The shape of the state: every list holds what the code stores in it and
\* every position is an lpa of the journal area (journal_processor.hh 68-98).
TypeOK ==
    /\ EnvTypeOK /\ ProcTypeOK /\ FlagTypeOK /\ ListTypeOK /\ PosTypeOK /\ SSDTypeOK /\ HistTypeOK

\* While the host is up, the space the thread believes free, what the SSD has
\* applied since the last poll and what it still has to apply make up the
\* ring exactly: cur_avail_lpa never counts a block the SSD still needs.
SpaceAccounting ==
    proc # "down" =>
        /\ tail_lpa = ssd_tail
        /\ cur_avail_lpa + Dist(head_lpa, ssd_head) + Live = total_avail_lpa

\* A step that writes the ring writes only blocks outside the SSD's live
\* range [head, tail): no journal the SSD has yet to apply is overwritten.
WritesOnlyFreeBlocks ==
    [][\A l \in Lpa : flash'[l] # flash[l] => Dist(ssd_head, l) >= Live]_vars

\* What the SSD has applied, followed by what its live range holds, is every
\* published journal, block for block and in order: the ring never shows the
\* SSD a stale, torn or overwritten block, across wrap-around and crashes.
RingHoldsJournals == applied \o [i \in 1 .. Live |-> LiveBlock(i)] = published

\* notify_cplt_tx is called only for transactions the SSD has applied to
\* their last block, although the thread sees only two ring positions.
NotifyOnlyApplied ==
    \A i \in 1 .. Len(notified) : \E k \in 1 .. Len(applied) :
        applied[k].tx = notified[i] /\ IsLast(applied[k])

\* The transactions the journal layer holds, oldest first: written to the
\* ring, being written, pending, queued.
Held == tx_record \o (IF cur_journal = NoJournal THEN <<>> ELSE <<cur_journal>>)
                  \o pending_journal_list \o commit_queue

\* From commit to notification no transaction is dropped, doubled or
\* overtaken: those held are the newest ones, in commit order.  This is what
\* assert(first_record.tx_id == cplt_tx_id) of notify_cplt_tx relies on.
CommitOrder ==
    \A i \in 1 .. Len(Held) : Held[i].tx = tx_id_to_alloc - 1 - Len(Held) + i

\* A stop request is answered: stop_process_thread returns unless the host
\* crashes first.  (A signal sent before the thread sleeps must not be lost.)
StopReturns == env = "stop_notify" ~> (env = "stopped" \/ proc = "down")

\* How far transaction t has come, read off the state of the layer.
AppliedInFull(t) == \E k \in 1 .. Len(applied) : applied[k].tx = t /\ IsLast(applied[k])
StatusOf(t) ==
    IF t >= tx_id_to_alloc THEN "none"
    ELSE IF t \in lost THEN "lost"
    ELSE IF t \in Unpublished THEN "submitted"
    ELSE IF \E i \in 1 .. Len(notified) : notified[i] = t THEN "reported"
    ELSE IF t \in TxOf(tx_record)
         THEN IF AppliedInFull(t) THEN "applied" ELSE "durable"
    ELSE IF AppliedInFull(t) THEN "recovered" ELSE "orphan"

TxStatus == [t \in 1 .. MaxTx |-> StatusOf(t)]

Service == INSTANCE TxService WITH st <- TxStatus

\* No poll finds the head strictly inside a journal on record.
HeadBetween ==
    \A i \in 1 .. Len(tx_record) :
        LET r == tx_record[i] IN Dist(r.start, head_lpa) \notin 1 .. (Dist(r.start, r.end) - 1)

\* The tail does not come back into the blocks of a journal on record.  The
\* comment on is_applied takes this for granted, because space is freed when a
\* record goes; but space is freed by sync_with_SSD_journal_pos, block by block.
TailStaysOut ==
    \A i \in 1 .. Len(tx_record) :
        LET r == tx_record[i] IN Dist(r.start, tail_lpa) >= Dist(r.start, r.end)

\* The queue, the thread, the ring and the polling together give the
\* file-system layer the service of TxService: every committed transaction
\* becomes durable as a whole, is applied and is reported, in order, for ever.
\* That each step is one of the service's holds whatever head the SSD reports;
\* that the service goes on needs heads between journals, or the comment on
\* is_applied to be true.
ImplementsService ==
    /\ Service!SafeSpec
    /\ []HeadBetween \/ []TailStaysOut => Service!Owed

\* When the thread sleeps or has ended, every journal it wrote is applied and
\* reported: the comment on is_working, that with the whole ring free there is
\* nothing left to poll for (violated: once the tail is back in the blocks of a
\* journal that was applied in part, is_applied denies it for ever, and
\* is_working does not look at tx_record).
IdleMeansReported == proc \in {"sleep", "exited"} => tx_record = <<>>
===============================================================================
