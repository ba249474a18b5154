---------------------------- MODULE CommSession ----------------------------
(***************************************************************************)
(* The communication layer: threads that send commands to the SSD          *)
(* (comm_api.c) over a pool of channels (channel.c), and the polling       *)
(* thread that collects completions, follows long commands by their task   *)
(* ids, calls back or wakes up the senders, and ends on an error or on     *)
(* request (session.c).  The NVMe driver and the SSD are external.         *)
(*                                                                         *)
(* A command stands for one call: Sync says whether its caller waits, Io   *)
(* whether it goes to a channel's queue pair or to the admin queue, Long   *)
(* whether its result is fetched by a second command once the SSD reports  *)
(* its task id.  A command's task id is the command itself.  Query is the  *)
(* polling thread's own command that asks for finished task ids.           *)
(*                                                                         *)
(* Left out: failures of malloc and of the pthread calls; bytes of         *)
(* commands and buffers.  has_ownership of a synchronous command overlaps  *)
(* its condition variable and reads 0 as long as nobody was signalled.  A  *)
(* freed context that a queue still holds is taken to keep its contents.   *)
(***************************************************************************)
EXTENDS Integers, Sequences, FiniteSets

CONSTANTS
    Cmds, Sync, Io, Long,
    Query,
    ChannelNum,
    PerPoll,            \* task ids one query returns (CPLT_TID_PER_POLL)
    CqeErrors,          \* pairs <<context, operation>> the SSD may refuse
    Faults              \* pairs <<context, call>>: driver calls that may fail

ASSUME CommandAssumption == /\ Sync \subseteq Cmds /\ Io \subseteq Cmds
                            /\ Long \subseteq Cmds \ Io /\ Query \notin Cmds

ASSUME DeviceAssumption == /\ ChannelNum \in Nat \ {0} /\ PerPoll \in Nat \ {0}
                           /\ CqeErrors \subseteq (Cmds \cup {Query}) \X {"cmd", "result"}
                           /\ Faults \subseteq (Cmds \cup {Query}) \X {"send", "poll"}

VARIABLES
    caller,     \* caller[c]: where the thread that issues c stands
    ctx,        \* ctx[x]: the session context of x
    use_cnt,    \* channel_use_cnt
    env,        \* comm_session_env: command queue and exit request
    fini,       \* where comm_session_env_fini stands
    th,         \* the polling thread and its polling_thread_env
    answers,    \* history: results given to each command's caller
    io,         \* io[x]: the NVMe command outstanding for x, and its CQE
    posted,     \* history: completions the SSD posted for each command
    task,       \* the SSD's side of a long command
    tids        \* cplt_tid_buffer, as the SSD wrote it

ssdVars == <<io, posted, task, tids>>
vars == <<caller, ctx, use_cnt, env, fini, th, answers, io, posted, task, tids>>

Channels == 1..ChannelNum
Ctxs == Cmds \cup {Query}
Admin == Ctxs \ Io

CallerStates == {"idle", "send", "sending", "submit", "unlock", "unlock_notify",
                 "notify", "lock", "check", "asleep", "returned", "failed"}
CmdStates == {"need_polling", "received", "wait_query", "can_query", "cplt_query"}
CmdResults == {"none", "success", "cqe_error", "tid_query_error"}

Context == [st : CmdStates, result : CmdResults, cplt : BOOLEAN,
            live : BOOLEAN, chan : 0..ChannelNum]

NewContext(ch) == [st |-> "need_polling", result |-> "none", cplt |-> FALSE,
                   live |-> TRUE, chan |-> ch]
NoContext == [NewContext(0) EXCEPT !.live = FALSE]

NoIo == [op |-> "none", cqe |-> "none"]
Sent(op) == [op |-> op, cqe |-> "none"]

Elems(q) == {q[i] : i \in DOMAIN q}

\* TAILQ_REMOVE, TAILQ_FIRST and TAILQ_NEXT; a cursor is empty at the end of the queue.
Place(q, x) == CHOOSE i \in DOMAIN q : q[i] = x
Without(q, x) == [i \in 1 .. (Len(q) - 1) |-> IF i < Place(q, x) THEN q[i] ELSE q[i + 1]]
First(q) == {q[i] : i \in DOMAIN q \cap {1}}
After(q, x) == {q[i] : i \in {j \in 2..Len(q) : q[j - 1] = x}}

-----------------------------------------------------------------------------
(* channel.c: the pool of channels *)

\* comm_channel_controller_get_channel: the first of the least used.
LeastUsed == CHOOSE i \in Channels : \A j \in Channels :
                use_cnt[i] < use_cnt[j] \/ (use_cnt[i] = use_cnt[j] /\ i <= j)

\* comm_channel_release for each context in S.
Released(S) == [ch \in Channels |->
                  use_cnt[ch] - Cardinality({x \in S : ctx[x].chan = ch})]

ChannelLocked(ch) == \E c \in Cmds : caller[c] = "sending" /\ ctx[c].chan = ch

QueueLocked == \E c \in Cmds : caller[c] \in {"unlock", "unlock_notify"}

WaitMtxLocked(c) == caller[c] = "check"

-----------------------------------------------------------------------------
(* The polling thread starts with a channel of its own for Query *)

Init ==
    /\ caller = [c \in Cmds |-> "idle"]
    /\ ctx = [x \in Ctxs |-> IF x = Query THEN NewContext(1) ELSE NoContext]
    /\ use_cnt = [ch \in Channels |-> IF ch = 1 THEN 1 ELSE 0]
    /\ env = [queue |-> <<>>, exit_req |-> FALSE]
    /\ fini = "none"
    /\ th = [pc |-> "fetch", cur |-> {}, bcast |-> {}, cq |-> <<>>, tid |-> <<>>,
             err |-> <<>>, cplt_tids |-> {}, query |-> "disable", timer |-> "off",
             need_exit |-> FALSE]
    /\ answers = [c \in Cmds |-> <<>>]
    /\ io = [x \in Ctxs |-> NoIo]
    /\ posted = [c \in Cmds |-> <<>>]
    /\ task = [c \in Cmds |-> "none"]
    /\ tids = {}

-----------------------------------------------------------------------------
(* comm_api.c: the callers *)

Goto(c, s) == caller' = [caller EXCEPT ![c] = s]

\* A call takes a channel and constructs its context.
Start(c) ==
    /\ caller[c] = "idle" /\ fini = "none"
    /\ ctx' = [ctx EXCEPT ![c] = NewContext(LeastUsed)]
    /\ use_cnt' = [use_cnt EXCEPT ![LeastUsed] = @ + 1]
    /\ Goto(c, "send")
    /\ UNCHANGED <<env, fini, th, answers, ssdVars>>

\* comm_channel_send_read_cmd and _write_cmd: the command goes to the channel's
\* queue pair with the channel locked.
SendIo(c) ==
    /\ caller[c] = "send" /\ c \in Io /\ ~ChannelLocked(ctx[c].chan)
    /\ io' = [io EXCEPT ![c] = Sent("cmd")]
    /\ Goto(c, "sending")
    /\ UNCHANGED <<ctx, use_cnt, env, fini, th, answers, posted, task, tids>>

UnlockChannel(c) ==
    /\ caller[c] = "sending"
    /\ Goto(c, "submit")
    /\ UNCHANGED <<ctx, use_cnt, env, fini, th, answers, ssdVars>>

\* comm_send_raw_cmd: the admin queue has no lock of its own here.
SendAdmin(c) ==
    /\ caller[c] = "send" /\ c \in Admin
    /\ io' = [io EXCEPT ![c] = Sent("cmd")]
    /\ Goto(c, "submit")
    /\ UNCHANGED <<ctx, use_cnt, env, fini, th, answers, posted, task, tids>>

\* Mutant: the error path forgets the channel.
SendFails_KeepsChannel(c) ==
    /\ caller[c] = "send" /\ <<c, "send">> \in Faults
    /\ c \in Io => ~ChannelLocked(ctx[c].chan)
    /\ ctx' = [ctx EXCEPT ![c].live = FALSE]
    /\ Goto(c, "failed")
    /\ UNCHANGED <<use_cnt, env, fini, th, answers, ssdVars>>

\* The driver refuses the command: the context and the channel are given back.
SendFails(c) ==
    /\ caller[c] = "send" /\ <<c, "send">> \in Faults
    /\ c \in Io => ~ChannelLocked(ctx[c].chan)
    /\ ctx' = [ctx EXCEPT ![c].live = FALSE]
    /\ use_cnt' = Released({c})
    /\ Goto(c, "failed")
    /\ UNCHANGED <<env, fini, th, answers, ssdVars>>

\* Mutant: nobody wakes the polling thread.
NeedWakeupPolling_Never == FALSE

NeedWakeupPolling == env.queue = <<>>

\* comm_session_submit_cmd_ctx up to the unlock.
Submit(c) ==
    /\ caller[c] = "submit" /\ ~QueueLocked
    /\ env' = [env EXCEPT !.queue = Append(@, c)]
    /\ Goto(c, IF NeedWakeupPolling THEN "unlock_notify" ELSE "unlock")
    /\ UNCHANGED <<ctx, use_cnt, fini, th, answers, ssdVars>>

AfterSubmit(c) == IF c \in Sync THEN "lock" ELSE "returned"

UnlockQueue(c) ==
    /\ caller[c] \in {"unlock", "unlock_notify"}
    /\ Goto(c, IF caller[c] = "unlock" THEN AfterSubmit(c) ELSE "notify")
    /\ UNCHANGED <<ctx, use_cnt, env, fini, th, answers, ssdVars>>

WakePolling == th' = [th EXCEPT !.pc = IF @ = "sleep" THEN "fetch" ELSE @]

Notify(c) ==
    /\ caller[c] = "notify"
    /\ WakePolling
    /\ Goto(c, AfterSubmit(c))
    /\ UNCHANGED <<ctx, use_cnt, env, fini, answers, ssdVars>>

LockWaitMtx(c) ==
    /\ caller[c] = "lock"
    /\ Goto(c, "check")
    /\ UNCHANGED <<ctx, use_cnt, env, fini, th, answers, ssdVars>>

SleepUntilCplt(c) ==
    /\ caller[c] = "check" /\ ~ctx[c].cplt
    /\ Goto(c, "asleep")
    /\ UNCHANGED <<ctx, use_cnt, env, fini, th, answers, ssdVars>>

Outcome(x) == IF ctx[x].result = "success" THEN "ok" ELSE "error"

\* The caller sees its command completed, destroys the context and returns.
SyncReturn(c) ==
    /\ caller[c] = "check" /\ ctx[c].cplt
    /\ answers' = [answers EXCEPT ![c] = Append(@, Outcome(c))]
    /\ ctx' = [ctx EXCEPT ![c].live = FALSE]
    /\ use_cnt' = Released({c})
    /\ Goto(c, "returned")
    /\ UNCHANGED <<env, fini, th, ssdVars>>

\* The steps of a caller once it has started.
Caller(c) == \/ SendIo(c) \/ UnlockChannel(c) \/ SendAdmin(c) \/ SendFails(c)
             \/ Submit(c) \/ UnlockQueue(c) \/ Notify(c)
             \/ LockWaitMtx(c) \/ SleepUntilCplt(c) \/ SyncReturn(c)

-----------------------------------------------------------------------------
(* session.c: the polling thread.  A pending broadcast comes first. *)

At(pc) == th.pc = pc /\ th.bcast = {}

is_working == th.cq # <<>> \/ th.tid # <<>>

EnterCq(cq) == [th EXCEPT !.pc = "cq", !.cq = cq, !.cur = First(cq)]

\* polling_thread_fetch_cmd_from_session takes everything the queue holds.
Fetch ==
    /\ At("fetch") /\ ~QueueLocked
    /\ is_working \/ env.queue # <<>> \/ env.exit_req
    /\ th' = [EnterCq(th.cq \o env.queue) EXCEPT !.need_exit = @ \/ env.exit_req]
    /\ env' = [env EXCEPT !.queue = <<>>]
    /\ UNCHANGED <<caller, ctx, use_cnt, fini, answers, ssdVars>>

\* A working thread does not wait for the queue's mutex.
FetchBusy ==
    /\ At("fetch") /\ is_working /\ QueueLocked
    /\ th' = EnterCq(th.cq)
    /\ UNCHANGED <<caller, ctx, use_cnt, env, fini, answers, ssdVars>>

FetchWait ==
    /\ At("fetch") /\ ~is_working /\ ~QueueLocked
    /\ env.queue = <<>> /\ ~env.exit_req
    /\ th' = [th EXCEPT !.pc = "sleep"]
    /\ UNCHANGED <<caller, ctx, use_cnt, env, fini, answers, ssdVars>>

(* polling_thread_process_cplt_cmd for x, from contexts c and thread t;    *)
(* busy is the thread when the waiter holds its mutex (EBUSY).             *)

CompleteQuery(x, c, t) ==
    /\ x = Query
    /\ th' = [t EXCEPT !.query = IF c[x].result = "success" THEN "finished" ELSE "error"]
    /\ ctx' = c
    /\ UNCHANGED <<use_cnt, answers>>

CompleteAsync(x, c, t) ==
    /\ x \in Cmds \ Sync
    /\ answers' = [answers EXCEPT ![x] = Append(@, Outcome(x))]
    /\ ctx' = [c EXCEPT ![x].live = FALSE]
    /\ use_cnt' = Released({x})
    /\ th' = t

CompleteSync(x, c, t) ==
    /\ x \in Sync /\ ~WaitMtxLocked(x)
    /\ ctx' = [c EXCEPT ![x].cplt = TRUE]
    /\ th' = [t EXCEPT !.bcast = {x}]
    /\ UNCHANGED <<use_cnt, answers>>

CompleteBusy(x, c, busy) ==
    /\ x \in Sync /\ WaitMtxLocked(x)
    /\ ctx' = c
    /\ th' = busy
    /\ UNCHANGED <<use_cnt, answers>>

process_cplt_cmd(x, c, t, busy) == \/ CompleteQuery(x, c, t) \/ CompleteAsync(x, c, t)
                                   \/ CompleteSync(x, c, t) \/ CompleteBusy(x, c, busy)

\* The waiter is woken after its mutex is released.
Broadcast ==
    /\ th.bcast # {}
    /\ caller' = [c \in Cmds |-> IF c \in th.bcast /\ caller[c] = "asleep"
                                 THEN "lock" ELSE caller[c]]
    /\ th' = [th EXCEPT !.bcast = {}]
    /\ UNCHANGED <<ctx, use_cnt, env, fini, answers, ssdVars>>

(* polling_thread_process_cq_queue: one element at a time, the next one    *)
(* remembered before the current one is moved.                             *)

NextCq(x) == [th EXCEPT !.pc = "cq", !.cur = After(th.cq, x)]

\* Mutant: an error of the result query is not noticed.
CallbackResult_IgnoresQueryError(x) ==
    IF io[x].cqe = "error" /\ io[x].op = "cmd" THEN "cqe_error" ELSE "success"

\* comm_session_polling_thread_callback and polling_thread_query_result_callback
\* for the contexts in S.
CallbackResult(x) == IF io[x].cqe = "ok" THEN "success"
                     ELSE IF io[x].op = "cmd" THEN "cqe_error" ELSE "tid_query_error"
CallbackState(x) == IF io[x].op = "cmd" THEN "received" ELSE "cplt_query"

Deliver(S) ==
    /\ ctx' = [x \in Ctxs |-> IF x \in S
                 THEN [ctx[x] EXCEPT !.result = CallbackResult(x), !.st = CallbackState(x)]
                 ELSE ctx[x]]
    /\ io' = [x \in Ctxs |-> IF x \in S THEN NoIo ELSE io[x]]

Completed == {x \in Ctxs : io[x].cqe # "none"}

\* All of the admin queue is polled, or all of one channel.
PollSet(x) == IF x \in Admin THEN Completed \cap Admin
              ELSE {y \in Completed \cap Io : ctx[y].chan = ctx[x].chan}

Pollable(x) == x \in Io => ~ChannelLocked(ctx[x].chan)

PollCq ==
    /\ At("cq")
    /\ \E x \in th.cur : /\ ctx[x].st = "need_polling" /\ Pollable(x)
                         /\ Deliver(PollSet(x))
    /\ th' = [th EXCEPT !.pc = "polled"]
    /\ UNCHANGED <<caller, use_cnt, env, fini, answers, posted, task, tids>>

\* comm_channel_trylock returns EBUSY: next time.
PollBusy ==
    /\ At("cq")
    /\ \E x \in th.cur : /\ ctx[x].st = "need_polling" /\ ~Pollable(x)
                         /\ th' = NextCq(x)
    /\ UNCHANGED <<caller, ctx, use_cnt, env, fini, answers, ssdVars>>

\* The driver reports a transport error: the command is given up.
PollFails ==
    /\ At("cq")
    /\ \E x \in th.cur :
          /\ ctx[x].st = "need_polling" /\ Pollable(x) /\ <<x, "poll">> \in Faults
          /\ th' = [NextCq(x) EXCEPT !.cq = Without(@, x), !.err = Append(@, x)]
    /\ UNCHANGED <<caller, ctx, use_cnt, env, fini, answers, ssdVars>>

NotReceived ==
    /\ \E x \in th.cur : /\ \/ At("polled") /\ ctx[x].st \notin {"received", "cplt_query"}
                            \/ At("cq") /\ ctx[x].st \in {"wait_query", "can_query"}
                         /\ th' = NextCq(x)
    /\ UNCHANGED <<caller, ctx, use_cnt, env, fini, answers, ssdVars>>

\* x has received its CQE; t is the thread after x has left cq_queue.
Received(x) == (At("cq") \/ At("polled")) /\ ctx[x].st \in {"received", "cplt_query"}
\* Mutant: the context stays on cq_queue.
Taken_StaysQueued(x) == NextCq(x)
Taken(x) == [NextCq(x) EXCEPT !.cq = Without(@, x)]

ReceivedShort ==
    /\ \E x \in th.cur \ Long :
          /\ Received(x)
          /\ process_cplt_cmd(x, ctx, Taken(x), [Taken(x) EXCEPT !.cq = Append(@, x)])
    /\ UNCHANGED <<caller, env, fini, ssdVars>>

\* What becomes of a long command's context and the thread's queues: it waits for
\* its task id, or brings back the result of the query for it.
ToTidQueue(x) == [Taken(x) EXCEPT !.tid = Append(@, x)]
AwaitingTid(x) == [ctx EXCEPT ![x].st = IF @ = "received" THEN "wait_query" ELSE @]

ReceivedLong ==
    /\ \E x \in th.cur \cap Long :
          /\ Received(x) /\ ctx[x].result # "cqe_error"
          /\ ctx' = AwaitingTid(x)
          /\ th' = ToTidQueue(x)
    /\ UNCHANGED <<caller, use_cnt, env, fini, answers, ssdVars>>

\* A long command that was refused is completed, and enters tid_queue all the same.
ReceivedLongError ==
    /\ \E x \in th.cur \cap Long :
          /\ Received(x) /\ ctx[x].result = "cqe_error"
          /\ process_cplt_cmd(x, AwaitingTid(x), ToTidQueue(x),
                              [ToTidQueue(x) EXCEPT !.err = Append(@, x)])
    /\ UNCHANGED <<caller, env, fini, ssdVars>>

(* polling_thread_process_tid_queue: first the finished task ids are       *)
(* matched, then the queue is gone through.                                *)

Matched == {x \in Elems(th.tid) \cap th.cplt_tids : ctx[x].st = "wait_query"}

MatchTids ==
    /\ At("cq") /\ th.cur = {}
    /\ ctx' = [x \in Ctxs |-> IF x \in Matched THEN [ctx[x] EXCEPT !.st = "can_query"]
                              ELSE ctx[x]]
    /\ th' = [th EXCEPT !.pc = "tid", !.cur = First(th.tid), !.cplt_tids = @ \ Matched]
    /\ UNCHANGED <<caller, use_cnt, env, fini, answers, ssdVars>>

NextTid(x) == [th EXCEPT !.cur = After(th.tid, x)]

\* Mutant: the state says at once that the result is there.
QueryResult_MarkedDone ==
    /\ At("tid")
    /\ \E x \in th.cur :
          /\ ctx[x].st = "can_query"
          /\ io' = [io EXCEPT ![x] = Sent("result")]
          /\ ctx' = [ctx EXCEPT ![x].st = "cplt_query"]
          /\ th' = [NextTid(x) EXCEPT !.tid = Without(@, x), !.cq = Append(@, x)]
    /\ UNCHANGED <<caller, use_cnt, env, fini, answers, posted, task, tids>>

\* polling_thread_send_query_result_cmd
QueryResult ==
    /\ At("tid")
    /\ \E x \in th.cur :
          /\ ctx[x].st = "can_query"
          /\ io' = [io EXCEPT ![x] = Sent("result")]
          /\ ctx' = [ctx EXCEPT ![x].st = "need_polling"]
          /\ th' = [NextTid(x) EXCEPT !.tid = Without(@, x), !.cq = Append(@, x)]
    /\ UNCHANGED <<caller, use_cnt, env, fini, answers, posted, task, tids>>

QueryResultFails ==
    /\ At("tid")
    /\ \E x \in th.cur :
          /\ ctx[x].st = "can_query" /\ <<x, "send">> \in Faults
          /\ th' = [NextTid(x) EXCEPT !.tid = Without(@, x), !.err = Append(@, x)]
    /\ UNCHANGED <<caller, ctx, use_cnt, env, fini, answers, ssdVars>>

LongDone ==
    /\ At("tid")
    /\ \E x \in th.cur :
          LET t == [NextTid(x) EXCEPT !.tid = Without(@, x)]
          IN  /\ ctx[x].st = "cplt_query"
              /\ process_cplt_cmd(x, ctx, t, [t EXCEPT !.tid = Append(@, x)])
    /\ UNCHANGED <<caller, env, fini, ssdVars>>

StillRunning ==
    /\ At("tid")
    /\ \E x \in th.cur : ctx[x].st = "wait_query" /\ th' = NextTid(x)
    /\ UNCHANGED <<caller, ctx, use_cnt, env, fini, answers, ssdVars>>

(* polling_thread_process_cplt_tid_query, once tid_queue has been gone     *)
(* through: the task that asks the SSD for finished task ids.              *)

TidPassDone == At("tid") /\ th.cur = {}

StartTimer ==
    /\ TidPassDone /\ th.query = "disable" /\ th.tid # <<>>
    /\ th' = [th EXCEPT !.pc = "end", !.query = "wait", !.timer = "running"]
    /\ UNCHANGED <<caller, ctx, use_cnt, env, fini, answers, ssdVars>>

\* Mutant: the query task is not marked as running.
SendQuery_StaysWaiting ==
    /\ TidPassDone /\ th.query = "wait" /\ th.timer = "expired"
    /\ ctx' = [ctx EXCEPT ![Query] = NewContext(@.chan)]
    /\ io' = [io EXCEPT ![Query] = Sent("cmd")]
    /\ th' = [th EXCEPT !.pc = "end", !.timer = "off", !.cq = Append(@, Query)]
    /\ UNCHANGED <<caller, use_cnt, env, fini, answers, posted, task, tids>>

SendQuery ==
    /\ TidPassDone /\ th.query = "wait" /\ th.timer = "expired"
    /\ ctx' = [ctx EXCEPT ![Query] = NewContext(@.chan)]
    /\ io' = [io EXCEPT ![Query] = Sent("cmd")]
    /\ th' = [th EXCEPT !.pc = "end", !.query = "running", !.timer = "off",
                        !.cq = Append(@, Query)]
    /\ UNCHANGED <<caller, use_cnt, env, fini, answers, posted, task, tids>>

SendQueryFails ==
    /\ <<Query, "send">> \in Faults
    /\ TidPassDone /\ th.query = "wait" /\ th.timer = "expired"
    /\ ctx' = [ctx EXCEPT ![Query] = NewContext(@.chan)]
    /\ th' = [th EXCEPT !.pc = "end", !.query = "error", !.timer = "off"]
    /\ UNCHANGED <<caller, use_cnt, env, fini, answers, ssdVars>>

TakeTids ==
    /\ TidPassDone /\ th.query = "finished"
    /\ th' = [th EXCEPT !.pc = "end", !.query = "disable", !.cplt_tids = @ \cup tids]
    /\ UNCHANGED <<caller, ctx, use_cnt, env, fini, answers, ssdVars>>

NoQueryWork ==
    /\ TidPassDone
    /\ \/ th.query \in {"running", "error"}
       \/ th.query = "disable" /\ th.tid = <<>>
       \/ th.query = "wait" /\ th.timer # "expired"
    /\ th' = [th EXCEPT !.pc = "end"]
    /\ UNCHANGED <<caller, ctx, use_cnt, env, fini, answers, ssdVars>>

is_error == th.err # <<>> \/ th.query = "error"

Again ==
    /\ At("end") /\ ~is_error /\ ~th.need_exit
    /\ th' = [th EXCEPT !.pc = "fetch"]
    /\ UNCHANGED <<caller, ctx, use_cnt, env, fini, answers, ssdVars>>

\* session_clear_queue frees the contexts the session owns and their channels.
Owned(q) == Elems(q) \ (Sync \cup {Query})
Freed(S) == [x \in Ctxs |-> IF x \in S THEN [ctx[x] EXCEPT !.live = FALSE] ELSE ctx[x]]

\* polling_thread_env_destructor, on an error or a request to exit.
ExitPolling ==
    /\ At("end") /\ (is_error \/ th.need_exit)
    /\ LET S == Owned(th.cq \o th.tid \o th.err) \cup {Query}
       IN  ctx' = Freed(S) /\ use_cnt' = Released(S)
    /\ th' = [th EXCEPT !.pc = "exited", !.cq = <<>>, !.tid = <<>>, !.err = <<>>,
                        !.cplt_tids = {}, !.timer = "off"]
    /\ UNCHANGED <<caller, env, fini, answers, ssdVars>>

Polling ==
    \/ Fetch \/ FetchBusy \/ FetchWait \/ Broadcast
    \/ PollCq \/ PollBusy \/ PollFails \/ NotReceived
    \/ ReceivedShort \/ ReceivedLong \/ ReceivedLongError
    \/ MatchTids \/ QueryResult \/ QueryResultFails \/ LongDone \/ StillRunning
    \/ StartTimer \/ SendQuery \/ SendQueryFails \/ TakeTids \/ NoQueryWork
    \/ Again \/ ExitPolling

-----------------------------------------------------------------------------
(* comm_session_env_fini.  The file system is down by then: every call     *)
(* has returned and every asynchronous command has been waited for.        *)

AllAnswered == \A c \in Cmds : \/ caller[c] \in {"idle", "failed"}
                               \/ caller[c] = "returned" /\ answers[c] # <<>>

FiniRequest ==
    /\ fini = "none" /\ AllAnswered /\ ~QueueLocked
    /\ env' = [env EXCEPT !.exit_req = TRUE]
    /\ fini' = "notify"
    /\ UNCHANGED <<caller, ctx, use_cnt, th, answers, ssdVars>>

\* Mutant: the polling thread is not woken up.
FiniNotify_WakesNobody ==
    /\ fini = "notify"
    /\ fini' = "join"
    /\ UNCHANGED <<caller, ctx, use_cnt, env, th, answers, ssdVars>>

FiniNotify ==
    /\ fini = "notify"
    /\ WakePolling
    /\ fini' = "join"
    /\ UNCHANGED <<caller, ctx, use_cnt, env, answers, ssdVars>>

FiniJoin ==
    /\ fini = "join" /\ th.pc = "exited"
    /\ ctx' = Freed(Owned(env.queue)) /\ use_cnt' = Released(Owned(env.queue))
    /\ env' = [env EXCEPT !.queue = <<>>]
    /\ fini' = "done"
    /\ UNCHANGED <<caller, th, answers, ssdVars>>

Fini == FiniRequest \/ FiniNotify \/ FiniJoin

-----------------------------------------------------------------------------
(* The SSD and the timer (external) *)

\* A query returns finished task ids not returned before, PerPoll at the most.
Reports == {S \in SUBSET {c \in Cmds : task[c] = "finished"} :
              Cardinality(S) = PerPoll \/
              (Cardinality(S) < PerPoll /\ S = {c \in Cmds : task[c] = "finished"})}

\* The SSD completes the command outstanding for x with outcome r.
Post(x, r) ==
    /\ io[x].op # "none" /\ io[x].cqe = "none"
    /\ r = "error" => <<x, io[x].op>> \in CqeErrors
    /\ io' = [io EXCEPT ![x].cqe = r]
    /\ posted' = [c \in Cmds |-> IF c = x THEN Append(posted[c], r) ELSE posted[c]]
    /\ \/ /\ x \in Cmds
          /\ task' = [c \in Cmds |-> IF c = x /\ c \in Long /\ io[c].op = "cmd" /\ r = "ok"
                                     THEN "running" ELSE task[c]]
          /\ UNCHANGED tids
       \/ /\ x = Query /\ r = "ok"
          /\ \E S \in Reports : /\ tids' = S
                                /\ task' = [c \in Cmds |-> IF c \in S THEN "reported" ELSE task[c]]
       \/ x = Query /\ r = "error" /\ UNCHANGED <<tids, task>>
    /\ UNCHANGED <<caller, ctx, use_cnt, env, fini, th, answers>>

TaskFinishes(c) ==
    /\ task[c] = "running"
    /\ task' = [task EXCEPT ![c] = "finished"]
    /\ UNCHANGED <<caller, ctx, use_cnt, env, fini, th, answers, io, posted, tids>>

TimerExpires ==
    /\ th.timer = "running"
    /\ th' = [th EXCEPT !.timer = "expired"]
    /\ UNCHANGED <<caller, ctx, use_cnt, env, fini, answers, ssdVars>>

SSDStep(x) == \E r \in {"ok", "error"} : Post(x, r)

-----------------------------------------------------------------------------
Next ==
    \/ \E c \in Cmds : Start(c) \/ Caller(c) \/ TaskFinishes(c)
    \/ \E x \in Ctxs : SSDStep(x)
    \/ Polling \/ Fini \/ TimerExpires

(* Threads that can run do so, the timer expires, the SSD answers.  No one *)
(* has to start a command or call fini.                                    *)
Fairness ==
    /\ \A c \in Cmds : WF_vars(Caller(c)) /\ WF_vars(TaskFinishes(c))
    /\ \A x \in Ctxs : WF_vars(SSDStep(x))
    /\ WF_vars(Polling) /\ WF_vars(FiniNotify \/ FiniJoin) /\ WF_vars(TimerExpires)

Spec == Init /\ [][Next]_vars /\ Fairness

-----------------------------------------------------------------------------
ThreadType ==
    [pc : {"fetch", "sleep", "cq", "polled", "tid", "end", "exited"},
     cur : SUBSET Ctxs, bcast : SUBSET Sync, cq : Seq(Ctxs), tid : Seq(Ctxs), err : Seq(Ctxs),
     cplt_tids : SUBSET Cmds, query : {"disable", "wait", "running", "finished", "error"},
     timer : {"off", "running", "expired"}, need_exit : BOOLEAN]

\* Every variable keeps its type; the uses of a channel never fall below zero and
\* never exceed the number of contexts.
TypeOK ==
    /\ caller \in [Cmds -> CallerStates]
    /\ ctx \in [Ctxs -> Context]
    /\ use_cnt \in [Channels -> Nat]
    /\ env \in [queue : Seq(Cmds), exit_req : BOOLEAN]
    /\ fini \in {"none", "notify", "join", "done"}
    /\ th \in ThreadType
    /\ answers \in [Cmds -> Seq({"ok", "error"})]
    /\ io \in [Ctxs -> [op : {"none", "cmd", "result"}, cqe : {"none", "ok", "error"}]]
    /\ posted \in [Cmds -> Seq({"ok", "error"})]
    /\ task \in [Cmds -> {"none", "running", "finished", "reported"}]
    /\ tids \in SUBSET Cmds

AllQueues == env.queue \o th.cq \o th.tid \o th.err

\* A long command the SSD refused to start.
Refused(c) == c \in Long /\ posted[c] = <<"error">>

\* session.c's queues share one link field and nobody counts references: a context
\* is on at most one queue, once, and is alive as long as it is there.  (Refused long
\* commands apart: see RefusedLongLeaves.)
QueuesHoldLiveContexts ==
    \A i \in 1 .. Len(AllQueues) :
        LET x == AllQueues[i]
        IN  x = Query \/ ~Refused(x) =>
                ctx[x].live /\ \A j \in 1 .. Len(AllQueues) : AllQueues[j] = x => j = i

\* session.c:461 "the CQE of the submission is an error, no need to query the result":
\* once such a command is completed no queue holds its context.
RefusedLongLeaves ==
    \A c \in Long : Refused(c) /\ (ctx[c].cplt \/ ~ctx[c].live) => c \notin Elems(AllQueues)

\* comm_channel_controller's counters: the uses counted for a channel are the live
\* contexts on it, whichever thread returned or freed the others, on every path.
ChannelsBalanced ==
    \A ch \in Channels :
        use_cnt[ch] = Cardinality({x \in Ctxs : ctx[x].live /\ ctx[x].chan = ch})

\* The SSD holds a pointer to a command's buffer until it has completed it: the call
\* that owns the buffer is not answered before that, whichever of its two commands
\* (comm_send_raw_cmd by the caller, then by the polling thread) is outstanding.
NoAnswerInFlight == \A c \in Cmds : io[c].op # "none" => answers[c] = <<>>

\* The query for finished tasks is one shared context: it is outstanding exactly
\* while the query task runs, and is never queued or sent a second time.
QueryOutstandingOnce ==
    th.pc # "exited" => (Query \in Elems(th.cq) \cup Elems(th.err) <=> th.query = "running")

\* comm_session_env_fini returns: the polling thread sees the request, asleep or not.
SessionFiniReturns == fini # "none" ~> fini = "done"

-----------------------------------------------------------------------------
(* The layer implements CommandService: every command that is sent is      *)
(* executed and its caller told the true outcome, exactly once, unless the *)
(* polling thread goes down.                                               *)

Final(c) == posted[c] # <<>> /\
            (c \in Long => posted[c][1] = "error" \/ Len(posted[c]) = 2)

Status(c) ==
    IF caller[c] = "failed" THEN "rejected"
    ELSE IF Len(answers[c]) = 1 THEN answers[c][1]
    ELSE IF Len(answers[c]) > 1 THEN "answered twice"
    ELSE IF Final(c) THEN IF posted[c][Len(posted[c])] = "ok" THEN "executed" ELSE "refused"
    ELSE IF caller[c] \in {"idle", "send"} THEN "none"
    ELSE "open"

CmdStatus == [c \in Cmds |-> Status(c)]
Gone == th.pc = "exited"

Service == INSTANCE CommandService WITH status <- CmdStatus, down <- Gone

ImplementsCommandService == Service!Spec
=============================================================================
