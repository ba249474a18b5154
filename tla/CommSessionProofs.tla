------------------------- MODULE CommSessionProofs -------------------------
(***************************************************************************)
(* Proofs about the communication layer, for any number of callers,        *)
(* commands and channels and for every driver call and completion that may *)
(* fail.                                                                   *)
(***************************************************************************)
EXTENDS CommQueueProofs, FiniteSetTheorems

-----------------------------------------------------------------------------
(* The invariant.  A command goes through seven phases, told by what is    *)
(* outstanding for it, what the SSD has posted and the state of its        *)
(* context; only in the third and the last can it be answered.             *)

Done(c) == answers[c] # <<>> \/ ctx[c].cplt
Results == {"ok", "error"}
Open(c) == ctx[c].st = "need_polling" /\ answers[c] = <<>> /\ ~ctx[c].cplt

NotSent(c) == io[c] = NoIo /\ posted[c] = <<>> /\ Open(c)
CmdOut(c) == io[c] = Sent("cmd") /\ posted[c] = <<>> /\ Open(c)
CmdBack(c) == /\ io[c].op = "cmd" /\ io[c].cqe \in Results /\ posted[c] = <<io[c].cqe>>
              /\ Open(c)
CmdSeen(c) ==
    /\ io[c] = NoIo
    /\ \/ posted[c] = <<"ok">> /\ ctx[c].result = "success"
       \/ posted[c] = <<"error">> /\ ctx[c].result = "cqe_error"
    /\ \/ ctx[c].st = "received"
       \/ c \in Long /\ ctx[c].st = "wait_query"
       \/ c \in Long /\ ctx[c].st = "can_query" /\ posted[c] = <<"ok">>
    /\ Done(c) => (c \in Long => posted[c] = <<"error">>)
ResultOut(c) == c \in Long /\ io[c] = Sent("result") /\ posted[c] = <<"ok">> /\ Open(c)
ResultBack(c) == /\ c \in Long /\ io[c].op = "result" /\ io[c].cqe \in Results
                 /\ posted[c] = <<"ok", io[c].cqe>> /\ Open(c)
ResultSeen(c) == /\ c \in Long /\ io[c] = NoIo /\ ctx[c].st = "cplt_query"
                 /\ \/ posted[c] = <<"ok", "ok">> /\ ctx[c].result = "success"
                    \/ posted[c] = <<"ok", "error">> /\ ctx[c].result = "tid_query_error"

Unsent == {"idle", "send", "failed"}
Phase(c) ==
    IF caller[c] \in Unsent THEN NotSent(c)
    ELSE \/ CmdOut(c) \/ CmdBack(c) \/ CmdSeen(c) \/ ResultOut(c) \/ ResultBack(c) \/ ResultSeen(c)

\* Only a task that was started is finished and reported; only what may be refused is.
TaskOK(c) ==
    /\ c \in tids \cup th.cplt_tids => task[c] = "reported"
    /\ task[c] # "none" => posted[c] # <<>> /\ posted[c][1] = "ok"
    /\ posted[c] # <<>> => (posted[c][1] = "error" => <<c, "cmd">> \in CqeErrors)

\* The caller has been told the last outcome, once.
AnswerOK(c) ==
    /\ answers[c] # <<>> => Final(c) /\ answers[c] = <<posted[c][Len(posted[c])]>>
    /\ c \in Sync /\ caller[c] # "returned" => answers[c] = <<>>
    /\ ctx[c].cplt => c \in Sync

InOpen(c) == c \in Elems(env.queue) \cup Elems(th.cq)
InLate(c) == c \in Elems(th.tid) \cup Elems(th.err)

\* A context on a queue is alive and not completed, unless it was refused.
PlaceOK(c) ==
    /\ InOpen(c) \/ InLate(c) => caller[c] \notin {"idle", "send", "sending", "submit", "failed"}
    /\ InOpen(c) \/ (InLate(c) /\ ~Refused(c)) \/ caller[c] \in {"send", "sending", "submit"}
          => ctx[c].live /\ answers[c] = <<>> /\ ~ctx[c].cplt
    /\ c \in Sync /\ caller[c] \notin {"idle", "returned", "failed"} => ctx[c].live
    /\ caller[c] = "idle" => ~ctx[c].live

CmdInv(c) == Phase(c) /\ TaskOK(c) /\ AnswerOK(c) /\ PlaceOK(c)

QueryInv == th.pc # "exited" =>
    ctx[Query].live /\ (Query \in Elems(th.cq) \cup Elems(th.err) <=> th.query = "running")

IoType == [op : {"none", "cmd", "result"}, cqe : {"none", "ok", "error"}]

\* TypeOK, but for the counters, which may fall below zero.
Types ==
    /\ caller \in [Cmds -> CallerStates] /\ ctx \in [Ctxs -> Context]
    /\ use_cnt \in [Channels -> Int] /\ EnvType /\ fini \in {"none", "notify", "join", "done"}
    /\ th \in ThreadType /\ answers \in [Cmds -> Seq(Results)] /\ io \in [Ctxs -> IoType]
    /\ posted \in [Cmds -> Seq(Results)]
    /\ task \in [Cmds -> {"none", "running", "finished", "reported"}] /\ tids \subseteq Cmds

Inv == Types /\ QueueInv /\ QueryInv /\ \A c \in Cmds : CmdInv(c)

LEMMA Tuples ==
  /\ \A r : Append(<<>>, r) = <<r>> /\ Len(<<r>>) = 1 /\ <<r>> # <<>> /\ <<r>>[1] = r
  /\ \A r, s : /\ Append(<<r>>, s) = <<r, s>> /\ Len(<<r, s>>) = 2 /\ <<r, s>> # <<>>
               /\ <<r, s>>[1] = r /\ <<r, s>>[2] = s /\ \A q : <<r, s>> # <<q>>
<1>1. ASSUME NEW r PROVE Append(<<>>, r) = <<r>> /\ Len(<<r>>) = 1 /\ <<r>> # <<>> /\ <<r>>[1] = r
  OBVIOUS
<1>2. ASSUME NEW r, NEW s PROVE Append(<<r>>, s) = <<r, s>>
  <2>1. PICK T, p, q : T = {r, s} /\ p = Append(<<r>>, s) /\ q = <<r, s>>
    OBVIOUS
  <2>2. p \in Seq(T) /\ Len(p) = 2 /\ p[1] = r /\ p[2] = s
    BY <2>1
  <2>3. q \in Seq(T) /\ Len(q) = 2 /\ q[1] = r /\ q[2] = s
    BY <2>1
  <2>4. p = [i \in 1 .. 2 |-> p[i]] /\ q = [i \in 1 .. 2 |-> q[i]]
    BY <2>2, <2>3
  <2>5. \A i \in 1 .. 2 : p[i] = q[i]
    BY <2>2, <2>3
  <2>6. p = q
    BY <2>4, <2>5
  <2> QED BY <2>1, <2>6
<1>3. ASSUME NEW r, NEW s
      PROVE  /\ Len(<<r, s>>) = 2 /\ <<r, s>> # <<>> /\ <<r, s>>[1] = r /\ <<r, s>>[2] = s
             /\ \A q : <<r, s>> # <<q>>
  OBVIOUS
<1> QED BY <1>1, <1>2, <1>3

LEMMA CmdsAreContexts ==
  /\ Query \in Ctxs /\ Query \notin Cmds /\ Query \notin Long /\ Query \notin Sync
  /\ \A c \in Cmds : c \in Ctxs /\ c # Query
  BY CommandAssumption DEF Ctxs

-----------------------------------------------------------------------------
(* Steps that leave a command, or the query, alone. *)

SameCmd(c) ==
    /\ caller'[c] = caller[c] /\ ctx'[c] = ctx[c] /\ io'[c] = io[c] /\ posted'[c] = posted[c]
    /\ answers'[c] = answers[c] /\ task'[c] = task[c]
    /\ c \in tids' \cup th'.cplt_tids => c \in tids \cup th.cplt_tids
    /\ InOpen(c)' => InOpen(c)
    /\ InLate(c)' => InOpen(c) \/ InLate(c)

SameQuery ==
    /\ ctx'[Query].live = ctx[Query].live
    /\ Query \in Elems(th'.cq) \cup Elems(th'.err) <=> Query \in Elems(th.cq) \cup Elems(th.err)
    /\ th'.query = "running" <=> th.query = "running"
    /\ th'.pc = "exited" <=> th.pc = "exited"

LEMMA FrameCmd ==
  ASSUME NEW c \in Cmds, CmdInv(c), SameCmd(c)
  PROVE  CmdInv(c)'
<1>1. Phase(c)'
  BY DEF CmdInv, Phase, SameCmd, NotSent, CmdOut, CmdBack, CmdSeen, ResultOut, ResultBack,
         ResultSeen, Open, Done
<1>2. TaskOK(c)'
  BY DEF CmdInv, TaskOK, SameCmd
<1>3. AnswerOK(c)'
  BY DEF CmdInv, AnswerOK, SameCmd, Final
<1>4. PlaceOK(c)'
  <2>1. Refused(c)' <=> Refused(c)
    BY DEF SameCmd, Refused
  <2> QED BY <2>1 DEF CmdInv, PlaceOK, SameCmd
<1> QED BY <1>1, <1>2, <1>3, <1>4 DEF CmdInv

LEMMA FrameQuery == QueryInv /\ SameQuery => QueryInv'
  BY DEF QueryInv, SameQuery

LEMMA FrameQueues ==
  ASSUME QueueInv, posted' = posted, UNCHANGED <<env, th>> \/ QuietThread
  PROVE  QueueInv'
<1>1. RefusedCmds' = RefusedCmds
  BY DEF RefusedCmds, Refused
<1> QED BY <1>1 DEF QueueInv, QuietThread

\* The set of what a step arranged is the invariant of the next state.
LEMMA ArrangedQueues ==
  ASSUME posted' = posted, NEW cqs, NEW longs, NEW errs, NEW query,
         QueuesNow(cqs, longs, errs, query)
  PROVE  QueueInv' /\ th' \in ThreadType
<1>1. RefusedCmds' = RefusedCmds
  BY DEF RefusedCmds, Refused
<1> QED BY <1>1 DEF QueueInv, QueuesNow

\* One command takes a step.
LEMMA OneCmdStep ==
  ASSUME Inv, NEW c \in Cmds, \A d \in Cmds \ {c} : SameCmd(d), CmdInv(c)', Types', QueueInv',
         SameQuery
  PROVE  Inv'
<1>1. ASSUME NEW d \in Cmds PROVE CmdInv(d)'
  BY FrameCmd DEF Inv
<1>2. QueryInv'
  BY FrameQuery DEF Inv
<1> QED BY <1>1, <1>2 DEF Inv

-----------------------------------------------------------------------------
LEMMA InvInit == Init => Inv
<1> SUFFICES ASSUME Init PROVE Inv
  OBVIOUS
<1>1. /\ <<>> \in Seq(Cmds) /\ <<>> \in Seq(Ctxs) /\ <<>> \in Seq(Long) /\ <<>> \in Seq(Results)
      /\ Elems(<<>>) = {} /\ Injective(<<>>)
  BY EmptyQueue
<1>2. ChannelNum \in Nat \ {0} /\ 1 \in Channels
  BY DeviceAssumption DEF Channels
<1>3. Types
  <2>1. NewContext(1) \in Context /\ NoContext \in Context
    <3>1. 1 \in 0 .. ChannelNum /\ 0 \in 0 .. ChannelNum
      BY <1>2
    <3> QED BY <3>1 DEF NewContext, NoContext, Context, CmdStates, CmdResults
  <2>2. th \in ThreadType
    BY <1>1 DEF Init, ThreadType
  <2>3. EnvType
    BY <1>1 DEF Init, EnvType
  <2>4. ctx \in [Ctxs -> Context] /\ caller \in [Cmds -> CallerStates]
    BY <2>1 DEF Init, CallerStates
  <2>5. use_cnt \in [Channels -> Int]
    BY DEF Init
  <2>6. io \in [Ctxs -> IoType]
    BY DEF Init, IoType, NoIo
  <2>7. answers \in [Cmds -> Seq(Results)] /\ posted \in [Cmds -> Seq(Results)]
    BY <1>1 DEF Init
  <2>8. task \in [Cmds -> {"none", "running", "finished", "reported"}] /\ tids \subseteq Cmds
    BY DEF Init
  <2>9. fini \in {"none", "notify", "join", "done"}
    BY DEF Init
  <2> QED BY <2>2, <2>3, <2>4, <2>5, <2>6, <2>7, <2>8, <2>9 DEF Types
<1>4. /\ env.queue = <<>> /\ th.cq = <<>> /\ th.tid = <<>> /\ th.err = <<>>
      /\ th.pc = "fetch" /\ th.query = "disable" /\ th.cplt_tids = {} /\ tids = {}
  BY DEF Init
<1>5. QueueInv
  BY <1>1, <1>4 DEF QueueInv, Queues, CursorOK
<1>6. QueryInv
  <2>1. ctx[Query].live
    BY CmdsAreContexts DEF Init, NewContext
  <2> QED BY <1>1, <1>4, <2>1 DEF QueryInv
<1>7. ASSUME NEW c \in Cmds PROVE CmdInv(c)
  <2>1. /\ caller[c] = "idle" /\ ctx[c] = NoContext /\ io[c] = NoIo /\ posted[c] = <<>>
        /\ answers[c] = <<>> /\ task[c] = "none"
    BY CmdsAreContexts DEF Init
  <2>2. ctx[c].st = "need_polling" /\ ~ctx[c].cplt /\ ~ctx[c].live
    BY <2>1 DEF NoContext, NewContext
  <2>3. ~InOpen(c) /\ ~InLate(c)
    BY <1>1, <1>4 DEF InOpen, InLate
  <2>4. Phase(c)
    BY <2>1, <2>2 DEF Phase, Unsent, NotSent, Open
  <2>5. TaskOK(c)
    BY <1>4, <2>1 DEF TaskOK
  <2>6. AnswerOK(c)
    BY <2>1, <2>2 DEF AnswerOK
  <2>7. PlaceOK(c)
    BY <2>1, <2>2, <2>3 DEF PlaceOK
  <2> QED BY <2>4, <2>5, <2>6, <2>7 DEF CmdInv
<1> QED BY <1>3, <1>5, <1>6, <1>7 DEF Inv

-----------------------------------------------------------------------------
(* The callers. *)

\* What a step of a caller leaves alone.
LEMMA CallerFrame ==
  ASSUME Types, NEW c \in Cmds, NEW a, caller' = [caller EXCEPT ![c] = a],
         UNCHANGED <<posted, task, tids>>,
         \A d \in Ctxs \ {c} : ctx'[d] = ctx[d] /\ io'[d] = io[d],
         \A d \in Cmds \ {c} : answers'[d] = answers[d],
         th'.cplt_tids = th.cplt_tids, th'.cq = th.cq, th'.tid = th.tid, th'.err = th.err,
         th'.query = th.query, th'.pc = "exited" <=> th.pc = "exited",
         Elems(env'.queue) \subseteq Elems(env.queue) \cup {c}
  PROVE  /\ \A d \in Cmds \ {c} : SameCmd(d)
         /\ SameQuery
<1>1. ASSUME NEW d \in Cmds \ {c} PROVE SameCmd(d)
  <2>1. caller'[d] = caller[d] /\ d \in Ctxs
    BY <1>1, CmdsAreContexts DEF Types
  <2>2. InOpen(d)' => InOpen(d)
    BY <1>1 DEF InOpen
  <2>3. InLate(d)' => InLate(d)
    BY DEF InLate
  <2> QED BY <1>1, <2>1, <2>2, <2>3 DEF SameCmd
<1>2. SameQuery
  BY CmdsAreContexts DEF SameQuery
<1> QED BY <1>1, <1>2

LEMMA StepStart ==
  ASSUME Inv, NEW c \in Cmds, Start(c)
  PROVE  Inv'
<1>1. LeastUsed \in Channels
  BY ChannelFound DEF Inv, Types
<1>2. PICK n : n = NewContext(LeastUsed)
  OBVIOUS
<1>3. n \in Context /\ n.st = "need_polling" /\ ~n.cplt /\ n.live
  BY <1>1, <1>2, DeviceAssumption DEF NewContext, Context, CmdStates, CmdResults, Channels
<1>4. /\ caller[c] = "idle" /\ caller' = [caller EXCEPT ![c] = "send"]
      /\ ctx' = [ctx EXCEPT ![c] = n]
      /\ UNCHANGED <<env, fini, th, answers, io, posted, task, tids>>
  BY <1>2 DEF Start, Goto, ssdVars
<1>5. Types'
  <2>1. use_cnt' \in [Channels -> Int]
    BY <1>1 DEF Start, Inv, Types
  <2>2. ctx' \in [Ctxs -> Context] /\ caller' \in [Cmds -> CallerStates]
    BY <1>3, <1>4 DEF Inv, Types, CallerStates
  <2> QED BY <1>4, <2>1, <2>2 DEF Inv, Types, EnvType
<1>6. /\ ctx'[c] = n /\ caller'[c] = "send" /\ \A d \in Ctxs \ {c} : ctx'[d] = ctx[d]
  BY <1>4, CmdsAreContexts DEF Inv, Types
<1>7. (\A d \in Cmds \ {c} : SameCmd(d)) /\ SameQuery
  <2>1. Types
    BY DEF Inv
  <2> QED BY <1>4, <1>6, <2>1, CallerFrame
<1>8. QueueInv'
  BY <1>4, FrameQueues DEF Inv
<1>9. CmdInv(c)'
  <2>1. CmdInv(c) /\ NotSent(c)
    BY <1>4 DEF Inv, CmdInv, Phase, Unsent
  <2>2. Phase(c)'
    BY <1>3, <1>4, <1>6, <2>1 DEF Phase, Unsent, NotSent, Open
  <2>3. TaskOK(c)'
    BY <1>4, <2>1 DEF CmdInv, TaskOK
  <2>4. AnswerOK(c)'
    BY <1>3, <1>4, <1>6, <2>1 DEF AnswerOK, NotSent, Open
  <2>5. ~InOpen(c)' /\ ~InLate(c)'
    BY <1>4, <2>1 DEF CmdInv, PlaceOK, InOpen, InLate
  <2>6. PlaceOK(c)'
    BY <1>3, <1>4, <1>6, <2>1, <2>5 DEF PlaceOK, NotSent, Open
  <2> QED BY <2>2, <2>3, <2>4, <2>6 DEF CmdInv
<1> QED BY <1>5, <1>7, <1>8, <1>9, OneCmdStep

\* A caller that goes on from a to b and does nothing else the invariant speaks of.
LEMMA CallerMoves ==
  ASSUME Inv, NEW c \in Cmds, NEW b \in CallerStates \ Unsent, caller' = [caller EXCEPT ![c] = b],
         UNCHANGED <<ctx, use_cnt, env, fini, answers, io, posted, task, tids>>,
         caller[c] \notin Unsent, caller[c] # "returned",
         b \in {"send", "sending", "submit"} => caller[c] \in {"send", "sending", "submit"},
         c \in Sync => b # "returned",
         UNCHANGED th \/ (QuietThread /\ th'.cplt_tids = th.cplt_tids /\ th'.query = th.query)
  PROVE  Inv'
<1>1. /\ th' \in ThreadType /\ th'.cplt_tids = th.cplt_tids /\ th'.query = th.query
      /\ th'.cq = th.cq /\ th'.tid = th.tid /\ th'.err = th.err
      /\ th'.pc = "exited" <=> th.pc = "exited"
  BY DEF QuietThread, Inv, Types
<1>2. QueueInv'
  BY FrameQueues DEF Inv
<1>3. Types'
  BY <1>1 DEF Inv, Types, EnvType
<1>4. (\A d \in Cmds \ {c} : SameCmd(d)) /\ SameQuery
  <2>1. Types
    BY DEF Inv
  <2> QED BY <1>1, <2>1, CallerFrame
<1>5. CmdInv(c)'
  <2>1. CmdInv(c) /\ caller'[c] = b
    BY DEF Inv, Types
  <2>2. Phase(c)'
    BY <2>1 DEF CmdInv, Phase, Unsent, CmdOut, CmdBack, CmdSeen, ResultOut, ResultBack, ResultSeen,
                Open, Done
  <2>3. TaskOK(c)'
    BY <1>1, <2>1 DEF CmdInv, TaskOK
  <2>4. AnswerOK(c)'
    BY <2>1 DEF CmdInv, AnswerOK, Final
  <2>5. (InOpen(c)' <=> InOpen(c)) /\ (InLate(c)' <=> InLate(c)) /\ (Refused(c)' <=> Refused(c))
    BY <1>1 DEF InOpen, InLate, Refused
  <2>6. PlaceOK(c)'
    BY <2>1, <2>5 DEF CmdInv, PlaceOK, Unsent
  <2> QED BY <2>2, <2>3, <2>4, <2>6 DEF CmdInv
<1> QED BY <1>2, <1>3, <1>4, <1>5, OneCmdStep

LEMMA StepMoves ==
  ASSUME Inv, NEW c \in Cmds,
         UnlockChannel(c) \/ UnlockQueue(c) \/ Notify(c) \/ LockWaitMtx(c) \/ SleepUntilCplt(c)
  PROVE  Inv'
<1>1. CASE UnlockChannel(c)
  BY <1>1, CallerMoves DEF UnlockChannel, Goto, ssdVars, CallerStates, Unsent
<1>2. AfterSubmit(c) \in {"lock", "returned"} /\ (c \in Sync => AfterSubmit(c) = "lock")
  BY DEF AfterSubmit
<1>3. CASE UnlockQueue(c)
  <2>1. PICK b : b = IF caller[c] = "unlock" THEN AfterSubmit(c) ELSE "notify"
    OBVIOUS
  <2>2. /\ caller' = [caller EXCEPT ![c] = b] /\ caller[c] \in {"unlock", "unlock_notify"}
        /\ UNCHANGED <<ctx, use_cnt, env, fini, th, answers, io, posted, task, tids>>
    BY <1>3, <2>1 DEF UnlockQueue, Goto, ssdVars
  <2>3. b \in {"lock", "returned", "notify"} /\ (c \in Sync => b # "returned")
    BY <1>2, <2>1
  <2> QED BY <2>2, <2>3, CallerMoves DEF CallerStates, Unsent
<1>4. CASE Notify(c)
  <2>1. QuietThread
    BY <1>4, QuietEnd DEF Inv, Types
  <2>2. th'.cplt_tids = th.cplt_tids /\ th'.query = th.query
    BY <1>4 DEF Notify, WakePolling, Inv, Types, ThreadType
  <2>3. PICK b : b = AfterSubmit(c)
    OBVIOUS
  <2>4. /\ caller' = [caller EXCEPT ![c] = b] /\ caller[c] = "notify"
        /\ UNCHANGED <<ctx, use_cnt, env, fini, answers, io, posted, task, tids>>
    BY <1>4, <2>3 DEF Notify, Goto, ssdVars
  <2> QED BY <1>2, <2>1, <2>2, <2>3, <2>4, CallerMoves DEF CallerStates, Unsent
<1>5. CASE LockWaitMtx(c)
  BY <1>5, CallerMoves DEF LockWaitMtx, Goto, ssdVars, CallerStates, Unsent
<1>6. CASE SleepUntilCplt(c)
  BY <1>6, CallerMoves DEF SleepUntilCplt, Goto, ssdVars, CallerStates, Unsent
<1> QED BY <1>1, <1>3, <1>4, <1>5, <1>6

LEMMA StepSend ==
  ASSUME Inv, NEW c \in Cmds, SendIo(c) \/ SendAdmin(c)
  PROVE  Inv'
<1>1. PICK b \in {"sending", "submit"} : caller' = [caller EXCEPT ![c] = b]
  BY DEF SendIo, SendAdmin, Goto
<1>2. /\ caller[c] = "send" /\ io' = [io EXCEPT ![c] = Sent("cmd")]
      /\ UNCHANGED <<ctx, use_cnt, env, fini, th, answers, posted, task, tids>>
  BY DEF SendIo, SendAdmin
<1>3. QueueInv'
  BY <1>2, FrameQueues DEF Inv
<1>4. Types'
  BY <1>1, <1>2 DEF Inv, Types, EnvType, CallerStates, IoType, Sent
<1>5. io'[c] = Sent("cmd") /\ caller'[c] = b /\ \A d \in Ctxs \ {c} : io'[d] = io[d]
  BY <1>1, <1>2, CmdsAreContexts DEF Inv, Types
<1>6. (\A d \in Cmds \ {c} : SameCmd(d)) /\ SameQuery
  <2>1. Types
    BY DEF Inv
  <2> QED BY <1>1, <1>2, <1>5, <2>1, CallerFrame
<1>7. CmdInv(c)'
  <2>1. CmdInv(c) /\ NotSent(c)
    BY <1>2 DEF Inv, CmdInv, Phase, Unsent
  <2>2. CmdOut(c)'
    BY <1>2, <1>5, <2>1 DEF NotSent, CmdOut, Open, Sent
  <2>3. Phase(c)'
    BY <1>1, <1>5, <2>2 DEF Phase, Unsent
  <2>4. TaskOK(c)'
    BY <1>2, <2>1 DEF CmdInv, TaskOK
  <2>5. AnswerOK(c)'
    BY <1>2, <2>1 DEF AnswerOK, CmdInv, NotSent, Open
  <2>6. ~InOpen(c)' /\ ~InLate(c)'
    BY <1>2, <2>1 DEF CmdInv, PlaceOK, InOpen, InLate
  <2>7. PlaceOK(c)'
    BY <1>1, <1>2, <1>5, <2>1, <2>6 DEF CmdInv, PlaceOK
  <2> QED BY <2>3, <2>4, <2>5, <2>7 DEF CmdInv
<1> QED BY <1>3, <1>4, <1>6, <1>7, OneCmdStep

LEMMA QueueFinite ==
  ASSUME NEW T, NEW q \in Seq(T)
  PROVE  IsFiniteSet(Elems(q))
<1>1. q \in Surjection(1 .. Len(q), Elems(q))
  BY ElemsOf DEF Surjection
<1>2. Len(q) \in Nat /\ IsFiniteSet(1 .. Len(q))
  BY FS_Interval
<1> QED BY <1>1, <1>2, FS_Surjection

LEMMA ReleasedType ==
  ASSUME use_cnt \in [Channels -> Int], NEW S, IsFiniteSet(S)
  PROVE  Released(S) \in [Channels -> Int]
<1>1. ASSUME NEW ch \in Channels PROVE Cardinality({x \in S : ctx[x].chan = ch}) \in Int
  <2>1. IsFiniteSet({x \in S : ctx[x].chan = ch})
    BY FS_Subset
  <2> QED BY <2>1, FS_CardinalityType
<1> QED BY <1>1 DEF Released

LEMMA StepSendFails ==
  ASSUME Inv, NEW c \in Cmds, SendFails(c)
  PROVE  Inv'
<1>1. /\ caller[c] = "send" /\ caller' = [caller EXCEPT ![c] = "failed"]
      /\ ctx' = [ctx EXCEPT ![c].live = FALSE] /\ use_cnt' = Released({c})
      /\ UNCHANGED <<env, fini, th, answers, io, posted, task, tids>>
  BY DEF SendFails, Goto, ssdVars
<1>2. Types /\ c \in Ctxs
  BY CmdsAreContexts DEF Inv
<1>3. /\ ctx' \in [Ctxs -> Context] /\ ctx'[c] = [ctx[c] EXCEPT !.live = FALSE]
      /\ \A d \in Ctxs \ {c} : ctx'[d] = ctx[d]
  BY <1>1, <1>2 DEF Types, Context
<1>4. Types'
  <2>1. use_cnt' \in [Channels -> Int]
    BY <1>1, <1>2, ReleasedType, FS_Singleton DEF Types
  <2> QED BY <1>1, <1>2, <1>3, <2>1 DEF Types, EnvType, CallerStates
<1>5. QueueInv'
  BY <1>1, FrameQueues DEF Inv
<1>6. (\A d \in Cmds \ {c} : SameCmd(d)) /\ SameQuery
  BY <1>1, <1>2, <1>3, CallerFrame
<1>7. CmdInv(c)'
  <2>1. CmdInv(c) /\ NotSent(c)
    BY <1>1 DEF Inv, CmdInv, Phase, Unsent
  <2>2. /\ ctx'[c].st = ctx[c].st /\ ctx'[c].cplt = ctx[c].cplt /\ ~ctx'[c].live
        /\ caller'[c] = "failed"
    BY <1>1, <1>2, <1>3 DEF Types, Context
  <2>3. Phase(c)'
    BY <1>1, <2>1, <2>2 DEF Phase, Unsent, NotSent, Open
  <2>4. TaskOK(c)'
    BY <1>1, <2>1 DEF CmdInv, TaskOK
  <2>5. AnswerOK(c)'
    BY <1>1, <2>1, <2>2 DEF AnswerOK, NotSent, Open
  <2>6. ~InOpen(c)' /\ ~InLate(c)'
    BY <1>1, <2>1 DEF CmdInv, PlaceOK, InOpen, InLate
  <2>7. PlaceOK(c)'
    BY <2>2, <2>6 DEF PlaceOK
  <2> QED BY <2>3, <2>4, <2>5, <2>7 DEF CmdInv
<1> QED BY <1>4, <1>5, <1>6, <1>7, OneCmdStep

LEMMA StepSubmit ==
  ASSUME Inv, NEW c \in Cmds, Submit(c)
  PROVE  Inv'
<1>1. PICK b \in {"unlock_notify", "unlock"} : caller' = [caller EXCEPT ![c] = b]
  BY DEF Submit, Goto
<1>2. /\ caller[c] = "submit" /\ env' = [env EXCEPT !.queue = Append(@, c)]
      /\ UNCHANGED <<ctx, use_cnt, fini, th, answers, io, posted, task, tids>>
  BY DEF Submit, ssdVars
<1>3. CmdInv(c) /\ Types /\ QueueInv
  BY DEF Inv
<1>4. c \notin Elems(env.queue) \cup Elems(th.cq) \cup Elems(th.tid) \cup Elems(th.err)
  BY <1>2, <1>3 DEF CmdInv, PlaceOK, InOpen, InLate
<1>5. QueueInv' /\ EnvType' /\ Elems(env'.queue) = Elems(env.queue) \cup {c}
  BY <1>2, <1>3, <1>4, EffectSubmit DEF Types
<1>6. Types'
  BY <1>1, <1>2, <1>3, <1>5 DEF Types, CallerStates
<1>7. (\A d \in Cmds \ {c} : SameCmd(d)) /\ SameQuery
  BY <1>1, <1>2, <1>3, <1>5, CallerFrame
<1>8. CmdInv(c)'
  <2>1. caller'[c] = b
    BY <1>1, <1>3 DEF Types
  <2>2. Phase(c)'
    BY <1>1, <1>2, <1>3, <2>1 DEF CmdInv, Phase, Unsent, CmdOut, CmdBack, CmdSeen, ResultOut,
                                  ResultBack, ResultSeen, Open, Done
  <2>3. TaskOK(c)'
    BY <1>2, <1>3 DEF CmdInv, TaskOK
  <2>4. AnswerOK(c)'
    BY <1>1, <1>2, <1>3, <2>1 DEF CmdInv, AnswerOK, Final
  <2>5. PlaceOK(c)'
    BY <1>1, <1>2, <1>3, <2>1 DEF CmdInv, PlaceOK
  <2> QED BY <2>2, <2>3, <2>4, <2>5 DEF CmdInv
<1> QED BY <1>5, <1>6, <1>7, <1>8, OneCmdStep

\* What is told is what was posted last.
LEMMA OutcomeTrue ==
  ASSUME NEW c \in Cmds, CmdSeen(c) \/ ResultSeen(c), c \in Long => Final(c)
  PROVE  Outcome(c) = posted[c][Len(posted[c])] /\ Final(c) /\ Outcome(c) \in Results
<1>1. ASSUME NEW r, posted[c] = <<r>> PROVE posted[c][Len(posted[c])] = r /\ posted[c] # <<>>
  BY <1>1, Tuples
<1>2. ASSUME NEW r, NEW s, posted[c] = <<r, s>>
      PROVE  posted[c][Len(posted[c])] = s /\ posted[c] # <<>>
  BY <1>2, Tuples
<1>3. CASE CmdSeen(c)
  BY <1>1, <1>3 DEF CmdSeen, Outcome, Final, Results
<1>4. CASE ResultSeen(c)
  BY <1>2, <1>4 DEF ResultSeen, Outcome, Final, Results
<1> QED BY <1>3, <1>4

\* A completed command has been answered by the SSD for good.
LEMMA SeenDone ==
  ASSUME NEW c \in Cmds, CmdInv(c), ctx[c].cplt
  PROVE  /\ CmdSeen(c) \/ ResultSeen(c)
         /\ c \in Long => Final(c)
<1>1. CmdSeen(c) \/ ResultSeen(c)
  BY DEF CmdInv, Phase, NotSent, CmdOut, CmdBack, ResultOut, ResultBack, Open
<1>2. CASE CmdSeen(c)
  <2>1. c \in Long => posted[c] = <<"error">>
    BY <1>2 DEF CmdSeen, Done
  <2>2. posted[c] = <<"error">> => posted[c] # <<>> /\ posted[c][1] = "error"
    BY Tuples
  <2> QED BY <1>1, <2>1, <2>2 DEF Final
<1>3. CASE ResultSeen(c)
  <2>1. PICK r, s : posted[c] = <<r, s>>
    BY <1>3 DEF ResultSeen
  <2>2. posted[c] # <<>> /\ Len(posted[c]) = 2
    BY <2>1, Tuples
  <2> QED BY <1>1, <2>2 DEF Final
<1> QED BY <1>1, <1>2, <1>3

LEMMA StepSyncReturn ==
  ASSUME Inv, NEW c \in Cmds, SyncReturn(c)
  PROVE  Inv'
<1>1. /\ caller[c] = "check" /\ ctx[c].cplt /\ caller' = [caller EXCEPT ![c] = "returned"]
      /\ ctx' = [ctx EXCEPT ![c].live = FALSE] /\ use_cnt' = Released({c})
      /\ answers' = [answers EXCEPT ![c] = Append(@, Outcome(c))]
      /\ UNCHANGED <<env, fini, th, io, posted, task, tids>>
  BY DEF SyncReturn, Goto, ssdVars
<1>2. Types /\ c \in Ctxs /\ CmdInv(c)
  BY CmdsAreContexts DEF Inv
<1>3. /\ ctx' \in [Ctxs -> Context] /\ ctx'[c] = [ctx[c] EXCEPT !.live = FALSE]
      /\ \A d \in Ctxs \ {c} : ctx'[d] = ctx[d]
  BY <1>1, <1>2 DEF Types, Context
<1>4. /\ Outcome(c) = posted[c][Len(posted[c])] /\ Final(c) /\ Outcome(c) \in Results
      /\ CmdSeen(c) \/ ResultSeen(c)
  BY <1>1, <1>2, SeenDone, OutcomeTrue
<1>5. c \in Sync /\ answers[c] = <<>>
  BY <1>1, <1>2 DEF CmdInv, AnswerOK
<1>6. /\ answers'[c] = <<Outcome(c)>> /\ answers' \in [Cmds -> Seq(Results)]
      /\ \A d \in Cmds \ {c} : answers'[d] = answers[d]
  BY <1>1, <1>2, <1>4, <1>5, Tuples DEF Types
<1>7. Types'
  <2>1. use_cnt' \in [Channels -> Int]
    BY <1>1, <1>2, ReleasedType, FS_Singleton DEF Types
  <2> QED BY <1>1, <1>2, <1>3, <1>6, <2>1 DEF Types, EnvType, CallerStates
<1>8. QueueInv'
  BY <1>1, FrameQueues DEF Inv
<1>9. (\A d \in Cmds \ {c} : SameCmd(d)) /\ SameQuery
  BY <1>1, <1>2, <1>3, <1>6, CallerFrame
<1>10. CmdInv(c)'
  <2>1. /\ ctx'[c].st = ctx[c].st /\ ctx'[c].cplt = ctx[c].cplt /\ ~ctx'[c].live
        /\ ctx'[c].result = ctx[c].result /\ caller'[c] = "returned"
    BY <1>1, <1>2, <1>3 DEF Types, Context
  <2>2. Phase(c)'
    <3>1. CASE CmdSeen(c)
      <4>1. CmdSeen(c)'
        BY <1>1, <2>1, <3>1 DEF CmdSeen, Done
      <4> QED BY <2>1, <4>1 DEF Phase, Unsent
    <3>2. CASE ResultSeen(c)
      <4>1. ResultSeen(c)'
        BY <1>1, <2>1, <3>2 DEF ResultSeen
      <4> QED BY <2>1, <4>1 DEF Phase, Unsent
    <3> QED BY <1>4, <3>1, <3>2
  <2>3. TaskOK(c)'
    BY <1>1, <1>2 DEF CmdInv, TaskOK
  <2>4. AnswerOK(c)'
    <3>1. Final(c)' /\ answers'[c] = <<posted'[c][Len(posted'[c])]>>
      BY <1>1, <1>4, <1>6 DEF Final
    <3> QED BY <1>5, <2>1, <3>1 DEF AnswerOK
  <2>5. ~InOpen(c) /\ (InLate(c) => Refused(c))
    BY <1>1, <1>2 DEF CmdInv, PlaceOK
  <2>6. ~InOpen(c)' /\ (InLate(c)' => Refused(c)')
    BY <1>1, <2>5 DEF InOpen, InLate, Refused
  <2>7. PlaceOK(c)'
    BY <2>1, <2>6 DEF PlaceOK
  <2> QED BY <2>2, <2>3, <2>4, <2>7 DEF CmdInv
<1> QED BY <1>7, <1>8, <1>9, <1>10, OneCmdStep

LEMMA StepCaller == ASSUME Inv, NEW c \in Cmds, Start(c) \/ Caller(c) PROVE Inv'
  BY StepStart, StepMoves, StepSend, StepSendFails, StepSubmit, StepSyncReturn DEF Caller

-----------------------------------------------------------------------------
(* Steps of the polling thread that leave every queue as it is. *)

LEMMA QuietMembers ==
  ASSUME QuietThread
  PROVE  /\ \A c : (InOpen(c)' <=> InOpen(c)) /\ (InLate(c)' <=> InLate(c))
         /\ \A c : c \in tids \cup th'.cplt_tids => c \in tids \cup th.cplt_tids
         /\ Query \in Elems(th'.cq) \cup Elems(th'.err) <=> Query \in Elems(th.cq) \cup Elems(th.err)
<1>1. /\ env' = env /\ th'.cq = th.cq /\ th'.tid = th.tid /\ th'.err = th.err
      /\ th'.cplt_tids \subseteq th.cplt_tids \cup tids
  BY DEF QuietThread
<1> QED BY <1>1 DEF InOpen, InLate

LEMMA QuietFrame ==
  ASSUME Inv, QuietThread, fini' \in {"none", "notify", "join", "done"},
         UNCHANGED <<caller, ctx, use_cnt, answers, io, posted, task, tids>>
  PROVE  Inv'
<1>1. Types'
  BY DEF Inv, Types, EnvType, QuietThread
<1>2. QueueInv'
  BY FrameQueues DEF Inv
<1>3. QueryInv'
  <2>1. SameQuery
    BY QuietMembers DEF SameQuery, QuietThread
  <2> QED BY <2>1, FrameQuery DEF Inv
<1>4. ASSUME NEW c \in Cmds PROVE CmdInv(c)'
  <2>1. SameCmd(c)
    BY QuietMembers DEF SameCmd
  <2> QED BY <2>1, FrameCmd DEF Inv
<1> QED BY <1>1, <1>2, <1>3, <1>4 DEF Inv

LEMMA StepQuiet ==
  ASSUME Inv,
         \/ FetchBusy \/ FetchWait \/ PollBusy \/ NotReceived \/ StillRunning \/ StartTimer
         \/ TakeTids \/ NoQueryWork \/ Again \/ TimerExpires \/ FiniNotify
  PROVE  Inv'
<1>1. th \in ThreadType /\ QueueInv /\ tids \subseteq Cmds
  BY DEF Inv, Types
<1>2. QuietThread
  BY <1>1, QuietFetch, QuietCq, QuietTid, QuietEnd
<1>3. UNCHANGED <<caller, ctx, use_cnt, answers, io, posted, task, tids>>
  BY DEF FetchBusy, FetchWait, PollBusy, NotReceived, StillRunning, StartTimer, TakeTids,
         NoQueryWork, Again, TimerExpires, FiniNotify, ssdVars
<1>4. fini' \in {"none", "notify", "join", "done"}
  BY DEF FetchBusy, FetchWait, PollBusy, NotReceived, StillRunning, StartTimer, TakeTids,
         NoQueryWork, Again, TimerExpires, FiniNotify, Inv, Types
<1> QED BY <1>2, <1>3, <1>4, QuietFrame

LEMMA StepFiniRequest == ASSUME Inv, FiniRequest PROVE Inv'
<1>1. /\ env'.queue = env.queue /\ EnvType' /\ fini' = "notify"
      /\ UNCHANGED <<caller, ctx, use_cnt, th, answers, io, posted, task, tids>>
  BY DEF FiniRequest, Inv, Types, EnvType, ssdVars
<1>2. Types'
  BY <1>1 DEF Inv, Types
<1>3. QueueInv'
  <2>1. RefusedCmds' = RefusedCmds
    BY <1>1 DEF RefusedCmds, Refused
  <2> QED BY <1>1, <2>1 DEF Inv, QueueInv
<1>4. QueryInv'
  BY <1>1 DEF Inv, QueryInv
<1>5. ASSUME NEW c \in Cmds PROVE CmdInv(c)'
  <2>1. SameCmd(c)
    BY <1>1 DEF SameCmd, InOpen, InLate
  <2> QED BY <2>1, FrameCmd DEF Inv
<1> QED BY <1>2, <1>3, <1>4, <1>5 DEF Inv

LEMMA StepBroadcast == ASSUME Inv, Broadcast PROVE Inv'
<1>1. QuietThread /\ th'.query = th.query /\ Types
  BY QuietFetch DEF Inv, Types, Broadcast, ThreadType
<1>2. /\ UNCHANGED <<ctx, use_cnt, env, fini, answers, io, posted, task, tids>>
      /\ caller' \in [Cmds -> CallerStates]
      /\ \A c \in Cmds : caller'[c] = caller[c] \/ (caller[c] = "asleep" /\ caller'[c] = "lock")
  BY DEF Broadcast, ssdVars, Inv, Types, CallerStates
<1>3. Types'
  BY <1>1, <1>2 DEF Types, EnvType, QuietThread
<1>4. QueueInv'
  BY <1>1, <1>2, FrameQueues DEF Inv
<1>5. QueryInv'
  <2>1. SameQuery
    BY <1>1, <1>2, QuietMembers DEF SameQuery, QuietThread
  <2> QED BY <2>1, FrameQuery DEF Inv
<1>6. ASSUME NEW c \in Cmds PROVE CmdInv(c)'
  <2>1. CASE caller'[c] = caller[c]
    <3>1. SameCmd(c)
      BY <1>1, <1>2, <2>1, QuietMembers DEF SameCmd
    <3> QED BY <3>1, FrameCmd DEF Inv
  <2>2. CASE caller[c] = "asleep" /\ caller'[c] = "lock"
    <3>1. CmdInv(c)
      BY DEF Inv
    <3>2. Phase(c)'
      BY <1>2, <2>2, <3>1 DEF CmdInv, Phase, Unsent, CmdOut, CmdBack, CmdSeen, ResultOut,
                              ResultBack, ResultSeen, Open, Done
    <3>3. TaskOK(c)'
      BY <1>1, <1>2, <3>1, QuietMembers DEF CmdInv, TaskOK
    <3>4. AnswerOK(c)'
      BY <1>2, <2>2, <3>1 DEF CmdInv, AnswerOK, Final
    <3>5. (InOpen(c)' <=> InOpen(c)) /\ (InLate(c)' <=> InLate(c)) /\ (Refused(c)' <=> Refused(c))
      BY <1>1, <1>2, QuietMembers DEF Refused
    <3>6. PlaceOK(c)'
      BY <1>2, <2>2, <3>1, <3>5 DEF CmdInv, PlaceOK
    <3> QED BY <3>2, <3>3, <3>4, <3>6 DEF CmdInv
  <2> QED BY <1>2, <2>1, <2>2
<1> QED BY <1>3, <1>4, <1>5, <1>6 DEF Inv

\* Contexts change under a quiet thread: what is asked of each command.
LEMMA ContextStep ==
  ASSUME Inv, QuietThread, UNCHANGED <<caller, use_cnt, fini, answers, posted, task, tids>>,
         ctx' \in [Ctxs -> Context], io' \in [Ctxs -> IoType],
         th.pc # "exited" => ctx'[Query].live,
         \A c \in Cmds : ctx'[c].live = ctx[c].live /\ ctx'[c].cplt = ctx[c].cplt,
         \A c \in Cmds : (ctx'[c] = ctx[c] /\ io'[c] = io[c]) \/ Phase(c)'
  PROVE  Inv'
<1>1. Types'
  BY DEF Inv, Types, EnvType, QuietThread
<1>2. QueueInv'
  BY FrameQueues DEF Inv
<1>3. QueryInv'
  BY QuietMembers DEF Inv, QueryInv, QuietThread
<1>4. ASSUME NEW c \in Cmds PROVE CmdInv(c)'
  <2>1. CASE ctx'[c] = ctx[c] /\ io'[c] = io[c]
    <3>1. SameCmd(c)
      BY <2>1, QuietMembers DEF SameCmd
    <3> QED BY <3>1, FrameCmd DEF Inv
  <2>2. CASE Phase(c)'
    <3>1. CmdInv(c)
      BY DEF Inv
    <3>2. TaskOK(c)'
      BY <3>1, QuietMembers DEF CmdInv, TaskOK
    <3>3. AnswerOK(c)'
      BY <3>1 DEF CmdInv, AnswerOK, Final
    <3>4. (InOpen(c)' <=> InOpen(c)) /\ (InLate(c)' <=> InLate(c)) /\ (Refused(c)' <=> Refused(c))
      BY QuietMembers DEF Refused
    <3>5. PlaceOK(c)'
      BY <3>1, <3>4 DEF CmdInv, PlaceOK
    <3> QED BY <2>2, <3>2, <3>3, <3>5 DEF CmdInv
  <2> QED BY <2>1, <2>2
<1> QED BY <1>1, <1>2, <1>3, <1>4 DEF Inv

LEMMA StepSendQueryFails == ASSUME Inv, SendQueryFails PROVE Inv'
<1>1. QuietThread
  BY QuietEnd DEF Inv, Types
<1>2. /\ UNCHANGED <<caller, use_cnt, fini, answers, io, posted, task, tids>>
      /\ ctx' = [ctx EXCEPT ![Query] = NewContext(@.chan)]
  BY DEF SendQueryFails, ssdVars
<1>3. ctx[Query].chan \in 0 .. ChannelNum
  BY CmdsAreContexts DEF Inv, Types, Context
<1>4. NewContext(ctx[Query].chan) \in Context /\ NewContext(ctx[Query].chan).live
  BY <1>3 DEF NewContext, Context, CmdStates, CmdResults
<1>5. /\ ctx' \in [Ctxs -> Context] /\ ctx'[Query].live
      /\ \A c \in Cmds : ctx'[c] = ctx[c]
  BY <1>2, <1>4, CmdsAreContexts DEF Inv, Types
<1>6. io' \in [Ctxs -> IoType]
  BY <1>2 DEF Inv, Types
<1> QED BY <1>1, <1>2, <1>5, <1>6, ContextStep

LEMMA StepPollCq == ASSUME Inv, PollCq PROVE Inv'
<1>1. QuietThread
  BY QuietCq DEF Inv, Types
<1>2. PICK x \in th.cur : Deliver(PollSet(x))
  BY DEF PollCq
<1>3. PICK S : S = PollSet(x)
  OBVIOUS
<1>4. /\ UNCHANGED <<caller, use_cnt, fini, answers, posted, task, tids>>
      /\ ctx' = [y \in Ctxs |-> IF y \in S
                   THEN [ctx[y] EXCEPT !.result = CallbackResult(y), !.st = CallbackState(y)]
                   ELSE ctx[y]]
      /\ io' = [y \in Ctxs |-> IF y \in S THEN NoIo ELSE io[y]]
  BY <1>2, <1>3 DEF PollCq, Deliver
<1>5. \A y : CallbackResult(y) \in CmdResults /\ CallbackState(y) \in CmdStates
  BY DEF CallbackResult, CallbackState, CmdResults, CmdStates
<1>6. ASSUME NEW y \in Ctxs
      PROVE  /\ ctx'[y] \in Context /\ ctx'[y].live = ctx[y].live /\ ctx'[y].cplt = ctx[y].cplt
             /\ y \notin S => ctx'[y] = ctx[y] /\ io'[y] = io[y]
             /\ y \in S => /\ ctx'[y].result = CallbackResult(y)
                           /\ ctx'[y].st = CallbackState(y) /\ io'[y] = NoIo
             /\ io'[y] \in IoType
  <2>1. ctx[y] \in Context /\ io[y] \in IoType /\ NoIo \in IoType
    BY DEF Inv, Types, IoType, NoIo
  <2>2. CASE y \notin S
    BY <1>4, <2>1, <2>2
  <2>3. CASE y \in S
    <3>1. /\ ctx'[y] = [ctx[y] EXCEPT !.result = CallbackResult(y), !.st = CallbackState(y)]
          /\ io'[y] = NoIo
      BY <1>4, <2>3
    <3>2. CallbackResult(y) \in CmdResults /\ CallbackState(y) \in CmdStates
      BY <1>5
    <3>3. /\ ctx'[y] \in Context /\ ctx'[y].live = ctx[y].live /\ ctx'[y].cplt = ctx[y].cplt
          /\ ctx'[y].result = CallbackResult(y) /\ ctx'[y].st = CallbackState(y)
      BY <2>1, <3>1, <3>2 DEF Context
    <3> QED BY <2>1, <2>3, <3>1, <3>3
  <2> QED BY <2>2, <2>3
<1>7. ctx' \in [Ctxs -> Context] /\ io' \in [Ctxs -> IoType]
  BY <1>4, <1>6
<1>8. th.pc # "exited" => ctx'[Query].live
  BY <1>6, CmdsAreContexts DEF Inv, QueryInv
<1>9. ASSUME NEW c \in Cmds, c \in S PROVE Phase(c)'
  <2>1. io[c].cqe # "none"
    BY <1>3, <1>9 DEF PollSet, Completed
  <2>2. c \in Ctxs /\ CmdInv(c)
    BY CmdsAreContexts DEF Inv
  <2>3. caller[c] \notin Unsent /\ (CmdBack(c) \/ ResultBack(c))
    BY <2>1, <2>2 DEF CmdInv, Phase, NotSent, CmdOut, CmdSeen, ResultOut, ResultSeen, NoIo, Sent
  <2>4. /\ ctx'[c].result = CallbackResult(c) /\ ctx'[c].st = CallbackState(c) /\ io'[c] = NoIo
        /\ ctx'[c].cplt = ctx[c].cplt
    BY <1>6, <1>9, <2>2
  <2>5. CASE CmdBack(c)
    <3>1. ctx'[c].st = "received" /\ ~Done(c)'
      BY <1>4, <2>4, <2>5 DEF CmdBack, Open, CallbackState, Done
    <3>2. \/ posted'[c] = <<"ok">> /\ ctx'[c].result = "success"
          \/ posted'[c] = <<"error">> /\ ctx'[c].result = "cqe_error"
      BY <1>4, <2>4, <2>5 DEF CmdBack, CallbackResult, Results
    <3>3. CmdSeen(c)'
      BY <2>4, <3>1, <3>2 DEF CmdSeen, NoIo
    <3> QED BY <1>4, <2>3, <3>3 DEF Phase
  <2>6. CASE ResultBack(c)
    <3>1. ctx'[c].st = "cplt_query"
      BY <2>4, <2>6 DEF ResultBack, CallbackState
    <3>2. \/ posted'[c] = <<"ok", "ok">> /\ ctx'[c].result = "success"
          \/ posted'[c] = <<"ok", "error">> /\ ctx'[c].result = "tid_query_error"
      BY <1>4, <2>4, <2>6 DEF ResultBack, CallbackResult, Results
    <3>3. ResultSeen(c)'
      BY <2>4, <2>6, <3>1, <3>2 DEF ResultSeen, ResultBack, NoIo
    <3> QED BY <1>4, <2>3, <3>3 DEF Phase
  <2> QED BY <2>3, <2>5, <2>6
<1>10. \A c \in Cmds : ctx'[c].live = ctx[c].live /\ ctx'[c].cplt = ctx[c].cplt
  BY <1>6, CmdsAreContexts
<1>11. \A c \in Cmds : (ctx'[c] = ctx[c] /\ io'[c] = io[c]) \/ Phase(c)'
  BY <1>6, <1>9, CmdsAreContexts
<1> QED BY <1>1, <1>4, <1>7, <1>8, <1>10, <1>11, ContextStep

LEMMA StepMatchTids == ASSUME Inv, MatchTids PROVE Inv'
<1>1. QuietThread
  BY QuietTid DEF Inv, Types
<1>2. PICK S : S = Matched
  OBVIOUS
<1>3. /\ UNCHANGED <<caller, use_cnt, fini, answers, io, posted, task, tids>>
      /\ ctx' = [x \in Ctxs |-> IF x \in S THEN [ctx[x] EXCEPT !.st = "can_query"] ELSE ctx[x]]
  BY <1>2 DEF MatchTids, ssdVars
<1>4. ASSUME NEW y \in Ctxs
      PROVE  /\ ctx'[y] \in Context /\ ctx'[y].live = ctx[y].live /\ ctx'[y].cplt = ctx[y].cplt
             /\ y \notin S => ctx'[y] = ctx[y]
             /\ y \in S => ctx'[y].result = ctx[y].result /\ ctx'[y].st = "can_query"
  <2>1. ctx[y] \in Context
    BY DEF Inv, Types
  <2>2. CASE y \notin S
    BY <1>3, <2>1, <2>2
  <2>3. CASE y \in S
    <3>1. ctx'[y] = [ctx[y] EXCEPT !.st = "can_query"]
      BY <1>3, <2>3
    <3> QED BY <2>1, <2>3, <3>1 DEF Context, CmdStates
  <2> QED BY <2>2, <2>3
<1>5. ctx' \in [Ctxs -> Context] /\ io' \in [Ctxs -> IoType]
  BY <1>3, <1>4 DEF Inv, Types
<1>6. th.pc # "exited" => ctx'[Query].live
  BY <1>4, CmdsAreContexts DEF Inv, QueryInv
<1>7. ASSUME NEW c \in Cmds, c \in S PROVE Phase(c)'
  <2>1. c \in th.cplt_tids /\ ctx[c].st = "wait_query"
    BY <1>2, <1>7 DEF Matched
  <2>2. c \in Ctxs /\ CmdInv(c)
    BY CmdsAreContexts DEF Inv
  <2>3. caller[c] \notin Unsent /\ CmdSeen(c) /\ c \in Long
    BY <2>1, <2>2 DEF CmdInv, Phase, NotSent, CmdOut, CmdBack, ResultOut, ResultBack, ResultSeen,
                      CmdSeen, Open
  <2>4. posted[c] = <<"ok">>
    <3>1. posted[c] # <<>> /\ posted[c][1] = "ok"
      BY <2>1, <2>2 DEF CmdInv, TaskOK
    <3>2. <<"error">>[1] = "error"
      BY Tuples
    <3> QED BY <2>3, <3>1, <3>2 DEF CmdSeen
  <2>5. /\ ctx'[c].result = ctx[c].result /\ ctx'[c].st = "can_query" /\ ctx'[c].cplt = ctx[c].cplt
    BY <1>4, <1>7, <2>2
  <2>6. CmdSeen(c)'
    BY <1>3, <2>3, <2>4, <2>5 DEF CmdSeen, Done
  <2> QED BY <1>3, <2>3, <2>6 DEF Phase
<1>8. \A c \in Cmds : ctx'[c].live = ctx[c].live /\ ctx'[c].cplt = ctx[c].cplt
  BY <1>4, CmdsAreContexts
<1>9. \A c \in Cmds : (ctx'[c] = ctx[c] /\ io'[c] = io[c]) \/ Phase(c)'
  BY <1>3, <1>4, <1>7, CmdsAreContexts
<1> QED BY <1>1, <1>3, <1>5, <1>6, <1>8, <1>9, ContextStep

-----------------------------------------------------------------------------
(* Steps of the polling thread that move a context x between its queues. *)

\* No command but x enters a queue, and no other context changes.
QueueMove(x, cqs, longs, errs, query) ==
    /\ x \in Ctxs /\ QueuesNow(cqs, longs, errs, query)
    /\ UNCHANGED <<caller, env, fini, posted, task, tids>>
    /\ cqs \subseteq Elems(th.cq) \cup {x} /\ longs \subseteq Elems(th.tid) \cup {x}
    /\ errs \subseteq Elems(th.err) \cup {x}
    /\ \A d \in Ctxs \ {x} : ctx'[d] = ctx[d] /\ io'[d] = io[d]
    /\ \A d \in Cmds \ {x} : answers'[d] = answers[d]

MoveTypes == /\ ctx' \in [Ctxs -> Context] /\ io' \in [Ctxs -> IoType]
             /\ answers' \in [Cmds -> Seq(Results)] /\ use_cnt' \in [Channels -> Int]

LEMMA QueueStep ==
  ASSUME Inv, NEW x, NEW cqs, NEW longs, NEW errs, NEW query,
         QueueMove(x, cqs, longs, errs, query), MoveTypes,
         x \in Cmds => CmdInv(x)',
         \/ QueryInv'
         \/ /\ x \in Cmds /\ query = th.query /\ th.pc # "exited"
            /\ Elems(th.cq) \ {x} \subseteq cqs /\ Elems(th.err) \ {x} \subseteq errs
  PROVE  Inv'
<1>1. QueueInv' /\ th' \in ThreadType
  BY ArrangedQueues DEF QueueMove
<1>2. Types'
  BY <1>1 DEF Inv, Types, MoveTypes, EnvType, QueueMove
<1>3. /\ Elems(th'.cq) = cqs /\ Elems(th'.tid) = longs /\ Elems(th'.err) = errs
      /\ th'.cplt_tids = th.cplt_tids /\ th'.query = query /\ th'.pc # "exited"
  BY DEF QueueMove, QueuesNow
<1>4. QueryInv'
  <2>1. CASE x \in Cmds /\ query = th.query /\ th.pc # "exited"
             /\ Elems(th.cq) \ {x} \subseteq cqs /\ Elems(th.err) \ {x} \subseteq errs
    <3>1. Query # x /\ ctx'[Query] = ctx[Query]
      BY <2>1, CmdsAreContexts DEF QueueMove
    <3>2. Query \in cqs \cup errs <=> Query \in Elems(th.cq) \cup Elems(th.err)
      BY <2>1, <3>1 DEF QueueMove
    <3> QED BY <1>3, <2>1, <3>1, <3>2 DEF Inv, QueryInv
  <2> QED BY <2>1
<1>5. ASSUME NEW d \in Cmds PROVE CmdInv(d)'
  <2>1. CASE d = x
    BY <2>1
  <2>2. CASE d # x
    <3>1. d \in Ctxs
      BY CmdsAreContexts
    <3>2. (InOpen(d)' => InOpen(d)) /\ (InLate(d)' => InLate(d))
      BY <1>3, <2>2 DEF InOpen, InLate, QueueMove
    <3>3. SameCmd(d)
      BY <1>3, <2>2, <3>1, <3>2 DEF SameCmd, QueueMove
    <3> QED BY <3>3, FrameCmd DEF Inv
  <2> QED BY <2>1, <2>2
<1> QED BY <1>1, <1>2, <1>4, <1>5 DEF Inv

\* A context that only changes its queue.
LEMMA MovedOnly ==
  ASSUME Inv, NEW x, NEW cqs, NEW longs, NEW errs,
         QueueMove(x, cqs, longs, errs, th.query), th.pc # "exited",
         UNCHANGED <<ctx, io, answers, use_cnt>>,
         x \in cqs => InOpen(x), x \in longs \cup errs => InOpen(x) \/ InLate(x),
         Elems(th.cq) \cup Elems(th.err) \subseteq cqs \cup errs \/ x # Query,
         Elems(th.cq) \ {x} \subseteq cqs, Elems(th.err) \ {x} \subseteq errs,
         Query \in cqs \cup errs => Query \in Elems(th.cq) \cup Elems(th.err)
  PROVE  Inv'
<1>1. MoveTypes
  BY DEF MoveTypes, Inv, Types
<1>2. /\ Elems(th'.cq) = cqs /\ Elems(th'.tid) = longs /\ Elems(th'.err) = errs /\ env' = env
      /\ th'.cplt_tids = th.cplt_tids /\ th'.query = th.query /\ th'.pc # "exited"
  BY DEF QueueMove, QueuesNow
<1>3. x \in Cmds => CmdInv(x)'
  <2> SUFFICES ASSUME x \in Cmds PROVE CmdInv(x)'
    OBVIOUS
  <2>1. (InOpen(x)' => InOpen(x)) /\ (InLate(x)' => InOpen(x) \/ InLate(x))
    BY <1>2 DEF InOpen, InLate
  <2>2. SameCmd(x)
    BY <1>2, <2>1 DEF SameCmd, QueueMove
  <2> QED BY <2>2, FrameCmd DEF Inv
<1>4. QueryInv'
  <2>1. Query \in cqs \cup errs <=> Query \in Elems(th.cq) \cup Elems(th.err)
    OBVIOUS
  <2> QED BY <1>2, <2>1 DEF Inv, QueryInv
<1> QED BY <1>1, <1>3, <1>4, QueueStep

LEMMA StepFetch == ASSUME Inv, Fetch PROVE Inv'
<1>1. /\ QueuesNow(Elems(th.cq) \cup Elems(env.queue), Elems(th.tid), Elems(th.err), th.query)
      /\ env'.queue = <<>> /\ EnvType'
  BY EffectFetch DEF Inv, Types
<1>2. /\ UNCHANGED <<caller, ctx, use_cnt, fini, answers, io, posted, task, tids>>
      /\ th.pc # "exited"
  BY DEF Fetch, At, ssdVars
<1>3. QueueInv' /\ th' \in ThreadType
  BY <1>1, <1>2, ArrangedQueues
<1>4. Types'
  BY <1>1, <1>2, <1>3 DEF Inv, Types
<1>5. /\ Elems(th'.cq) = Elems(th.cq) \cup Elems(env.queue) /\ Elems(th'.tid) = Elems(th.tid)
      /\ Elems(th'.err) = Elems(th.err) /\ th'.cplt_tids = th.cplt_tids /\ th'.query = th.query
      /\ th'.pc # "exited" /\ Elems(env'.queue) = {}
  BY <1>1, EmptyQueue DEF QueuesNow
<1>6. QueryInv'
  <2>1. Query \notin Elems(env.queue)
    BY ElemsOf, CmdsAreContexts DEF Inv, QueueInv, Queues
  <2>2. SameQuery
    BY <1>2, <1>5, <2>1 DEF SameQuery
  <2> QED BY <2>2, FrameQuery DEF Inv
<1>7. ASSUME NEW c \in Cmds PROVE CmdInv(c)'
  <2>1. (InOpen(c)' => InOpen(c)) /\ (InLate(c)' => InLate(c))
    BY <1>5 DEF InOpen, InLate
  <2>2. SameCmd(c)
    BY <1>2, <1>5, <2>1 DEF SameCmd
  <2> QED BY <2>2, FrameCmd DEF Inv
<1> QED BY <1>3, <1>4, <1>6, <1>7 DEF Inv

LEMMA StepPollFails == ASSUME Inv, PollFails PROVE Inv'
<1>1. PICK x \in th.cur : th' = GivenUp(x)
  BY DEF PollFails, GivenUp
<1>2. th.pc = "cq" /\ UNCHANGED <<caller, ctx, use_cnt, env, fini, answers, io, posted, task, tids>>
  BY DEF PollFails, At, ssdVars
<1>3. /\ OnCq(x)
      /\ QueuesNow(Elems(th.cq) \ {x}, Elems(th.tid), Elems(th.err) \cup {x}, th.query)
  BY <1>1, <1>2, EffectPollFails DEF Inv, Types
<1>4. QueueMove(x, Elems(th.cq) \ {x}, Elems(th.tid), Elems(th.err) \cup {x}, th.query)
  BY <1>2, <1>3 DEF QueueMove, OnCq
<1>5. InOpen(x) /\ x \in Elems(th.cq)
  BY <1>3 DEF InOpen, OnCq
<1> QED BY <1>2, <1>4, <1>5, MovedOnly

\* A long command's context with that state has been executed, not refused.
LEMMA NotRefused ==
  ASSUME NEW x \in Cmds, CmdInv(x), ctx[x].st \in {"can_query", "cplt_query"}
  PROVE  /\ caller[x] \notin Unsent /\ io[x] = NoIo
         /\ ctx[x].st = "can_query" => CmdSeen(x) /\ posted[x] = <<"ok">>
         /\ ctx[x].st = "cplt_query" => ResultSeen(x) /\ Final(x)
         /\ x \notin RefusedCmds /\ ~Refused(x)
<1>1. /\ caller[x] \notin Unsent
      /\ ctx[x].st = "can_query" => CmdSeen(x) /\ posted[x] = <<"ok">>
      /\ ctx[x].st = "cplt_query" => ResultSeen(x)
  BY DEF CmdInv, Phase, NotSent, CmdOut, CmdBack, CmdSeen, ResultOut, ResultBack, ResultSeen, Open
<1>2. ASSUME ctx[x].st = "cplt_query" PROVE Final(x) /\ posted[x] # <<"error">>
  <2>1. PICK r, s : posted[x] = <<r, s>>
    BY <1>1, <1>2 DEF ResultSeen
  <2>2. posted[x] # <<>> /\ Len(posted[x]) = 2 /\ posted[x] # <<"error">>
    BY <2>1, Tuples
  <2> QED BY <2>2 DEF Final
<1>3. io[x] = NoIo
  BY <1>1 DEF CmdSeen, ResultSeen
<1>4. <<"ok">> # <<"error">>
  OBVIOUS
<1>5. ~Refused(x)
  BY <1>1, <1>2, <1>4 DEF Refused
<1> QED BY <1>1, <1>2, <1>3, <1>5 DEF RefusedCmds

LEMMA StepQueryResultFails == ASSUME Inv, QueryResultFails PROVE Inv'
<1>1. PICK x \in th.cur : ctx[x].st = "can_query" /\ th' = ToErrQueue(x)
  BY DEF QueryResultFails, ToErrQueue
<1>2. th.pc = "tid" /\ UNCHANGED <<caller, ctx, use_cnt, env, fini, answers, io, posted, task, tids>>
  BY DEF QueryResultFails, At, ssdVars
<1>3. OnTid(x)
  BY <1>2, TakenFromTid DEF Inv, Types
<1>4. x \in Cmds
  BY <1>3, CommandAssumption DEF OnTid
<1>5. x \notin RefusedCmds
  BY <1>1, <1>4, NotRefused DEF Inv
<1>6. QueuesNow(Elems(th.cq), Elems(th.tid) \ {x}, Elems(th.err) \cup {x}, th.query)
  BY <1>1, <1>2, <1>5, EffectQueryResult DEF Inv, Types
<1>7. QueueMove(x, Elems(th.cq), Elems(th.tid) \ {x}, Elems(th.err) \cup {x}, th.query)
  BY <1>2, <1>3, <1>6 DEF QueueMove, OnTid
<1>8. InLate(x) /\ x \notin Elems(th.cq) /\ x # Query
  BY <1>3, <1>4, CmdsAreContexts DEF InLate, OnTid
<1> QED BY <1>2, <1>7, <1>8, MovedOnly

LEMMA StepQueryResult == ASSUME Inv, QueryResult PROVE Inv'
<1>1. PICK x \in th.cur : /\ ctx[x].st = "can_query" /\ io' = [io EXCEPT ![x] = Sent("result")]
                          /\ ctx' = [ctx EXCEPT ![x].st = "need_polling"] /\ th' = ToCqQueue(x)
  BY DEF QueryResult, ToCqQueue
<1>2. th.pc = "tid" /\ UNCHANGED <<caller, use_cnt, env, fini, answers, posted, task, tids>>
  BY DEF QueryResult, At
<1>3. OnTid(x)
  BY <1>2, TakenFromTid DEF Inv, Types
<1>4. x \in Cmds /\ x \in Ctxs /\ x \in Long
  BY <1>3, CommandAssumption DEF OnTid
<1>5. /\ CmdInv(x) /\ caller[x] \notin Unsent /\ CmdSeen(x) /\ posted[x] = <<"ok">>
      /\ x \notin RefusedCmds /\ ~Refused(x)
  BY <1>1, <1>4, NotRefused DEF Inv
<1>6. QueuesNow(Elems(th.cq) \cup {x}, Elems(th.tid) \ {x}, Elems(th.err), th.query)
  BY <1>1, <1>2, <1>5, EffectQueryResult DEF Inv, Types
<1>7. /\ ctx' \in [Ctxs -> Context] /\ io' \in [Ctxs -> IoType] /\ io'[x] = Sent("result")
      /\ ctx'[x].st = "need_polling" /\ ctx'[x].cplt = ctx[x].cplt /\ ctx'[x].live = ctx[x].live
      /\ \A d \in Ctxs \ {x} : ctx'[d] = ctx[d] /\ io'[d] = io[d]
  <2>1. ctx \in [Ctxs -> Context] /\ io \in [Ctxs -> IoType] /\ ctx[x] \in Context
    BY <1>4 DEF Inv, Types
  <2>2. ctx'[x] = [ctx[x] EXCEPT !.st = "need_polling"]
    BY <1>1, <1>4, <2>1
  <2>3. /\ ctx'[x].st = "need_polling" /\ ctx'[x].cplt = ctx[x].cplt /\ ctx'[x].live = ctx[x].live
        /\ ctx'[x] \in Context
    BY <2>1, <2>2 DEF Context, CmdStates
  <2>4. Sent("result") \in IoType
    BY DEF Sent, IoType
  <2> QED BY <1>1, <1>4, <2>1, <2>3, <2>4
<1>8. MoveTypes
  BY <1>2, <1>7 DEF MoveTypes, Inv, Types
<1>9. QueueMove(x, Elems(th.cq) \cup {x}, Elems(th.tid) \ {x}, Elems(th.err), th.query)
  BY <1>2, <1>4, <1>6, <1>7 DEF QueueMove
<1>10. CmdInv(x)'
  <2>1. InLate(x) /\ ctx[x].live /\ answers[x] = <<>> /\ ~ctx[x].cplt
    BY <1>3, <1>5 DEF OnTid, InLate, CmdInv, PlaceOK
  <2>2. ResultOut(x)'
    BY <1>2, <1>4, <1>5, <1>7, <2>1 DEF ResultOut, Open
  <2>3. Phase(x)'
    BY <1>2, <1>5, <2>2 DEF Phase
  <2>4. TaskOK(x)'
    <3>1. th'.cplt_tids = th.cplt_tids
      BY <1>6 DEF QueuesNow
    <3> QED BY <1>2, <1>5, <3>1 DEF CmdInv, TaskOK
  <2>5. AnswerOK(x)'
    BY <1>2, <1>5, <1>7, <2>1 DEF CmdInv, AnswerOK
  <2>6. PlaceOK(x)'
    BY <1>2, <1>5, <1>7, <2>1 DEF CmdInv, PlaceOK
  <2> QED BY <2>3, <2>4, <2>5, <2>6 DEF CmdInv
<1> QED BY <1>2, <1>4, <1>8, <1>9, <1>10, QueueStep

LEMMA StepReceivedLong == ASSUME Inv, ReceivedLong PROVE Inv'
<1>1. PICK x \in th.cur \cap Long : /\ Received(x) /\ ctx[x].result # "cqe_error"
                                    /\ ctx' = AwaitingTid(x) /\ th' = ToTidQueue(x)
  BY DEF ReceivedLong
<1>2. /\ th.pc \in {"cq", "polled"} /\ ctx[x].st \in {"received", "cplt_query"}
      /\ UNCHANGED <<caller, use_cnt, env, fini, answers, io, posted, task, tids>>
  BY <1>1 DEF ReceivedLong, Received, At, ssdVars
<1>3. /\ OnCq(x)
      /\ QueuesNow(Elems(th.cq) \ {x}, Elems(th.tid) \cup {x}, Elems(th.err), th.query)
  BY <1>1, <1>2, EffectLong DEF Inv, Types
<1>4. x \in Cmds /\ x \in Ctxs /\ x \in Long
  BY <1>1, CmdsAreContexts, CommandAssumption
<1>5. CmdInv(x) /\ InOpen(x) /\ ctx[x].live /\ answers[x] = <<>> /\ ~ctx[x].cplt
  BY <1>3, <1>4 DEF Inv, OnCq, InOpen, CmdInv, PlaceOK
<1>6. caller[x] \notin Unsent /\ (CmdSeen(x) \/ ResultSeen(x))
  BY <1>2, <1>5 DEF CmdInv, Phase, NotSent, CmdOut, CmdBack, ResultOut, ResultBack, Open
<1>7. /\ ctx' \in [Ctxs -> Context] /\ \A d \in Ctxs \ {x} : ctx'[d] = ctx[d]
      /\ ctx'[x].st = (IF ctx[x].st = "received" THEN "wait_query" ELSE ctx[x].st)
      /\ ctx'[x].cplt = ctx[x].cplt /\ ctx'[x].live = ctx[x].live /\ ctx'[x].result = ctx[x].result
  <2>1. ctx \in [Ctxs -> Context] /\ ctx[x] \in Context
    BY <1>4 DEF Inv, Types
  <2>2. PICK s : s = IF ctx[x].st = "received" THEN "wait_query" ELSE ctx[x].st
    OBVIOUS
  <2>3. s \in CmdStates
    BY <2>1, <2>2 DEF Context, CmdStates
  <2>4. ctx' = [ctx EXCEPT ![x] = [ctx[x] EXCEPT !.st = s]]
    BY <1>1, <1>4, <2>1, <2>2 DEF AwaitingTid
  <2>5. PICK n : n = [ctx[x] EXCEPT !.st = s]
    OBVIOUS
  <2>6. /\ n \in Context /\ n.st = s /\ n.cplt = ctx[x].cplt /\ n.live = ctx[x].live
        /\ n.result = ctx[x].result
    BY <2>1, <2>3, <2>5 DEF Context
  <2> QED BY <1>4, <2>1, <2>2, <2>4, <2>5, <2>6
<1>8. MoveTypes
  BY <1>2, <1>7 DEF MoveTypes, Inv, Types
<1>9. QueueMove(x, Elems(th.cq) \ {x}, Elems(th.tid) \cup {x}, Elems(th.err), th.query)
  BY <1>2, <1>3, <1>4, <1>7 DEF QueueMove
<1>10. CmdInv(x)'
  <2>1. Phase(x)'
    <3>1. CASE CmdSeen(x)
      <4>1. CmdSeen(x)'
        BY <1>2, <1>4, <1>5, <1>7, <3>1 DEF CmdSeen, Done
      <4> QED BY <1>2, <1>6, <4>1 DEF Phase
    <3>2. CASE ResultSeen(x)
      <4>1. ResultSeen(x)'
        BY <1>2, <1>7, <3>2 DEF ResultSeen
      <4> QED BY <1>2, <1>6, <4>1 DEF Phase
    <3> QED BY <1>6, <3>1, <3>2
  <2>2. TaskOK(x)'
    <3>1. th'.cplt_tids = th.cplt_tids
      BY <1>3 DEF QueuesNow
    <3> QED BY <1>2, <1>5, <3>1 DEF CmdInv, TaskOK
  <2>3. AnswerOK(x)'
    BY <1>2, <1>5, <1>7 DEF CmdInv, AnswerOK
  <2>4. PlaceOK(x)'
    BY <1>2, <1>5, <1>7 DEF CmdInv, PlaceOK
  <2> QED BY <2>1, <2>2, <2>3, <2>4 DEF CmdInv
<1>11. th.pc # "exited" /\ Elems(th.cq) \ {x} \subseteq Elems(th.cq) \ {x}
  BY <1>2
<1> QED BY <1>4, <1>8, <1>9, <1>10, <1>11, QueueStep

LEMMA StepSendQuery == ASSUME Inv, SendQuery PROVE Inv'
<1>1. /\ th.pc = "tid" /\ th.query = "wait"
      /\ UNCHANGED <<caller, use_cnt, env, fini, answers, posted, task, tids>>
      /\ ctx' = [ctx EXCEPT ![Query] = NewContext(@.chan)]
      /\ io' = [io EXCEPT ![Query] = Sent("cmd")]
  BY DEF SendQuery, TidPassDone, At
<1>2. Query \notin Elems(th.cq) \cup Elems(th.err)
  BY <1>1 DEF Inv, QueryInv
<1>3. QueuesNow(Elems(th.cq) \cup {Query}, Elems(th.tid), Elems(th.err), "running")
  BY <1>1, <1>2, EffectSendQuery DEF SendQuery, Inv, Types
<1>4. NewContext(ctx[Query].chan) \in Context /\ NewContext(ctx[Query].chan).live
  <2>1. ctx[Query].chan \in 0 .. ChannelNum
    BY CmdsAreContexts DEF Inv, Types, Context
  <2> QED BY <2>1 DEF NewContext, Context, CmdStates, CmdResults
<1>5. /\ ctx' \in [Ctxs -> Context] /\ ctx'[Query].live /\ io' \in [Ctxs -> IoType]
      /\ \A d \in Ctxs \ {Query} : ctx'[d] = ctx[d] /\ io'[d] = io[d]
  BY <1>1, <1>4, CmdsAreContexts DEF Inv, Types, IoType, Sent
<1>6. MoveTypes
  BY <1>1, <1>5 DEF MoveTypes, Inv, Types
<1>7. QueueMove(Query, Elems(th.cq) \cup {Query}, Elems(th.tid), Elems(th.err), "running")
  BY <1>1, <1>3, <1>5, CmdsAreContexts DEF QueueMove
<1>8. QueryInv'
  BY <1>3, <1>5 DEF QueuesNow, QueryInv
<1> QED BY <1>6, <1>7, <1>8, CmdsAreContexts, QueueStep

-----------------------------------------------------------------------------
(* A command is completed.  Its context takes the state st; an asynchronous *)
(* command is answered and freed, a synchronous one marked, a busy one kept. *)

Completing(x) ==
    \/ /\ x \notin Sync /\ answers'[x] = <<Outcome(x)>> /\ ~ctx'[x].live /\ ~ctx'[x].cplt
       /\ ~InOpen(x)' /\ (InLate(x)' => Refused(x))
    \/ /\ x \in Sync /\ answers'[x] = answers[x] /\ ctx'[x].live /\ ctx'[x].cplt
       /\ ~InOpen(x)' /\ (InLate(x)' => Refused(x))
    \/ answers'[x] = answers[x] /\ ctx'[x].live /\ ~ctx'[x].cplt

LEMMA CompletedCmd ==
  ASSUME NEW x \in Cmds, CmdInv(x), CmdSeen(x) \/ ResultSeen(x), x \in Long => Final(x),
         answers[x] = <<>>, ~ctx[x].cplt,
         caller[x] \notin {"idle", "send", "sending", "submit", "failed"},
         UNCHANGED <<caller, posted, task, tids>>, io'[x] = io[x], th'.cplt_tids = th.cplt_tids,
         ctx'[x].result = ctx[x].result,
         \/ ctx'[x].st = ctx[x].st
         \/ x \in Long /\ ctx[x].st = "received" /\ ctx'[x].st = "wait_query",
         Completing(x)
  PROVE  CmdInv(x)'
<1>1. Outcome(x) = posted[x][Len(posted[x])] /\ Final(x)
  BY OutcomeTrue
<1>2. Phase(x)'
  <2>1. CASE CmdSeen(x)
    <3>1. x \in Long => posted[x] = <<"error">>
      <4>1. ASSUME NEW r, posted[x] = <<r>> PROVE posted[x][1] = r /\ Len(posted[x]) = 1
        BY <4>1, Tuples
      <4>2. posted[x] = <<"ok">> => posted[x][1] = "ok" /\ Len(posted[x]) = 1
        BY <4>1
      <4>3. ASSUME x \in Long, posted[x] = <<"ok">> PROVE FALSE
        <5>1. posted[x][1] = "error" \/ Len(posted[x]) = 2
          BY <1>1, <4>3 DEF Final
        <5>2. posted[x][1] = "ok" /\ Len(posted[x]) = 1
          BY <4>2, <4>3
        <5> HIDE <4>3
        <5> QED BY <5>1, <5>2
      <4> QED BY <2>1, <4>3 DEF CmdSeen
    <3>2. CmdSeen(x)'
      BY <2>1, <3>1 DEF CmdSeen
    <3> QED BY <3>2 DEF Phase, Unsent
  <2>2. CASE ResultSeen(x)
    <3>1. ResultSeen(x)'
      BY <2>2 DEF ResultSeen
    <3> QED BY <3>1 DEF Phase, Unsent
  <2> QED BY <2>1, <2>2
<1>3. TaskOK(x)'
  BY DEF CmdInv, TaskOK
<1>4. Final(x)' /\ Refused(x)' = Refused(x)
  BY <1>1 DEF Final, Refused
<1>5. AnswerOK(x)'
  BY <1>1, <1>4 DEF CmdInv, AnswerOK, Completing
<1>6. PlaceOK(x)'
  BY <1>4 DEF CmdInv, PlaceOK, Completing
<1> QED BY <1>2, <1>3, <1>5, <1>6 DEF CmdInv

\* The contexts and answers when x completes from contexts n (n[x] a context of x).
LEMMA CompleteEffect ==
  ASSUME Types, NEW x \in Cmds, NEW n \in [Ctxs -> Context], \A d \in Ctxs \ {x} : n[d] = ctx[d],
         n[x].result = ctx[x].result, n[x].live, ~n[x].cplt, answers[x] = <<>>,
         Outcome(x) \in Results, NEW t, UNCHANGED io,
         \/ CompleteAsync(x, n, t)
         \/ CompleteSync(x, n, t)
         \/ ctx' = n /\ answers' = answers /\ use_cnt' = use_cnt
  PROVE  /\ MoveTypes /\ \A d \in Ctxs \ {x} : ctx'[d] = ctx[d] /\ io'[d] = io[d]
         /\ \A d \in Cmds \ {x} : answers'[d] = answers[d]
         /\ ctx'[x].result = ctx[x].result /\ ctx'[x].st = n[x].st
         /\ CompleteAsync(x, n, t) =>
              x \notin Sync /\ answers'[x] = <<Outcome(x)>> /\ ~ctx'[x].live /\ ~ctx'[x].cplt
         /\ CompleteSync(x, n, t) =>
              x \in Sync /\ answers'[x] = answers[x] /\ ctx'[x].live /\ ctx'[x].cplt
         /\ ctx' = n /\ answers' = answers =>
              answers'[x] = answers[x] /\ ctx'[x].live /\ ~ctx'[x].cplt
<1>1. x \in Ctxs /\ n[x] \in Context
  BY CmdsAreContexts
<1>2. io' \in [Ctxs -> IoType] /\ use_cnt \in [Channels -> Int] /\ answers \in [Cmds -> Seq(Results)]
  BY DEF Types
<1>3. CASE CompleteAsync(x, n, t)
  <2>1. /\ x \notin Sync /\ answers' = [answers EXCEPT ![x] = Append(@, Outcome(x))]
        /\ ctx' = [n EXCEPT ![x].live = FALSE] /\ use_cnt' = Released({x})
    BY <1>3 DEF CompleteAsync
  <2>2. PICK m : m = [n[x] EXCEPT !.live = FALSE]
    OBVIOUS
  <2>3. m \in Context /\ m.result = n[x].result /\ m.st = n[x].st /\ ~m.live /\ m.cplt = n[x].cplt
    BY <1>1, <2>2 DEF Context
  <2>4. ctx' = [n EXCEPT ![x] = m]
    BY <1>1, <2>1, <2>2
  <2>5. ctx' \in [Ctxs -> Context] /\ ctx'[x] = m /\ \A d \in Ctxs \ {x} : ctx'[d] = ctx[d]
    BY <1>1, <2>3, <2>4
  <2>6. /\ answers' \in [Cmds -> Seq(Results)] /\ answers'[x] = <<Outcome(x)>>
        /\ \A d \in Cmds \ {x} : answers'[d] = answers[d]
    BY <1>2, <2>1, Tuples
  <2>7. use_cnt' \in [Channels -> Int]
    BY <1>2, <2>1, ReleasedType, FS_Singleton
  <2>8. ~CompleteSync(x, n, t) /\ ctx' # n
    <3>1. ctx'[x] # n[x]
      BY <2>3, <2>5
    <3> QED BY <2>1, <3>1 DEF CompleteSync
  <2> QED BY <1>2, <2>1, <2>3, <2>5, <2>6, <2>7, <2>8 DEF MoveTypes
<1>4. CASE CompleteSync(x, n, t)
  <2>1. /\ x \in Sync /\ UNCHANGED <<answers, use_cnt>> /\ ctx' = [n EXCEPT ![x].cplt = TRUE]
    BY <1>4 DEF CompleteSync
  <2>2. PICK m : m = [n[x] EXCEPT !.cplt = TRUE]
    OBVIOUS
  <2>3. m \in Context /\ m.result = n[x].result /\ m.st = n[x].st /\ m.live = n[x].live /\ m.cplt
    BY <1>1, <2>2 DEF Context
  <2>4. ctx' = [n EXCEPT ![x] = m]
    BY <1>1, <2>1, <2>2
  <2>5. ctx' \in [Ctxs -> Context] /\ ctx'[x] = m /\ \A d \in Ctxs \ {x} : ctx'[d] = ctx[d]
    BY <1>1, <2>3, <2>4
  <2>6. ~CompleteAsync(x, n, t) /\ ctx' # n
    <3>1. ctx'[x] # n[x]
      BY <2>3, <2>5
    <3> QED BY <2>1, <3>1 DEF CompleteAsync
  <2> QED BY <1>2, <2>1, <2>3, <2>5, <2>6 DEF MoveTypes
<1>5. CASE /\ ctx' = n /\ answers' = answers /\ use_cnt' = use_cnt
           /\ ~CompleteAsync(x, n, t) /\ ~CompleteSync(x, n, t)
  BY <1>2, <1>5 DEF MoveTypes
<1> QED BY <1>3, <1>4, <1>5

LEMMA StepReceivedShort == ASSUME Inv, ReceivedShort PROVE Inv'
<1>1. PICK x \in th.cur \ Long :
         /\ Received(x)
         /\ process_cplt_cmd(x, ctx, Taken(x), [Taken(x) EXCEPT !.cq = Append(@, x)])
  BY DEF ReceivedShort
<1>2. /\ th.pc \in {"cq", "polled"} /\ ctx[x].st \in {"received", "cplt_query"}
      /\ UNCHANGED <<caller, env, fini, io, posted, task, tids>>
  BY <1>1 DEF ReceivedShort, Received, At, ssdVars
<1>3. Types /\ th \in ThreadType /\ QueueInv /\ x \in th.cur
  BY <1>1 DEF Inv, Types
<1>4. /\ OnCq(x)
      /\ \/ /\ CompleteQuery(x, ctx, Taken(x))
            /\ \E q \in {"finished", "error"} :
                 QueuesNow(Elems(th.cq) \ {x}, Elems(th.tid), Elems(th.err), q)
         \/ /\ CompleteAsync(x, ctx, Taken(x)) \/ CompleteSync(x, ctx, Taken(x))
            /\ QueuesNow(Elems(th.cq) \ {x}, Elems(th.tid), Elems(th.err), th.query)
         \/ /\ x \in Sync /\ ctx' = ctx /\ answers' = answers /\ use_cnt' = use_cnt
            /\ QueuesNow(Elems(th.cq), Elems(th.tid), Elems(th.err), th.query)
  BY <1>1, <1>2, <1>3, EffectShort
<1>5. CASE x = Query
  <2>1. ~CompleteAsync(x, ctx, Taken(x)) /\ ~CompleteSync(x, ctx, Taken(x)) /\ x \notin Sync
    BY <1>5, CmdsAreContexts DEF CompleteAsync, CompleteSync
  <2>2. PICK q \in {"finished", "error"} :
           QueuesNow(Elems(th.cq) \ {x}, Elems(th.tid), Elems(th.err), q)
    BY <1>4, <2>1
  <2>3. UNCHANGED <<ctx, answers, use_cnt>>
    BY <1>4, <2>1 DEF CompleteQuery
  <2>4. MoveTypes
    BY <1>2, <1>3, <2>3 DEF MoveTypes, Types
  <2>5. QueueMove(x, Elems(th.cq) \ {x}, Elems(th.tid), Elems(th.err), q)
    BY <1>2, <1>4, <2>2, <2>3 DEF QueueMove, OnCq
  <2>6. QueryInv'
    <3>1. Query \notin Elems(th.err)
      BY <1>4, <1>5 DEF OnCq
    <3>2. ctx'[Query].live
      BY <1>2, <2>3 DEF Inv, QueryInv
    <3> QED BY <1>5, <2>2, <3>1, <3>2 DEF QueuesNow, QueryInv
  <2> QED BY <1>5, <2>4, <2>5, <2>6, CmdsAreContexts, QueueStep
<1>6. CASE x \in Cmds
  <2>1. CmdInv(x) /\ InOpen(x) /\ ctx[x].live /\ answers[x] = <<>> /\ ~ctx[x].cplt
        /\ caller[x] \notin {"idle", "send", "sending", "submit", "failed"}
    BY <1>4, <1>6 DEF Inv, OnCq, InOpen, CmdInv, PlaceOK
  <2>2. x \notin Long /\ CmdSeen(x)
    BY <1>1, <1>2, <2>1 DEF CmdInv, Phase, NotSent, CmdOut, CmdBack, ResultOut, ResultBack,
                            ResultSeen, Open
  <2>3. Outcome(x) \in Results
    BY <1>6, <2>2, OutcomeTrue
  <2>4. \/ CompleteAsync(x, ctx, Taken(x))
        \/ CompleteSync(x, ctx, Taken(x))
        \/ ctx' = ctx /\ answers' = answers /\ use_cnt' = use_cnt
    BY <1>4 DEF CompleteQuery
  <2>5. ctx \in [Ctxs -> Context]
    BY <1>3 DEF Types
  <2>6. /\ MoveTypes /\ \A d \in Ctxs \ {x} : ctx'[d] = ctx[d] /\ io'[d] = io[d]
        /\ \A d \in Cmds \ {x} : answers'[d] = answers[d]
        /\ ctx'[x].result = ctx[x].result /\ ctx'[x].st = ctx[x].st
        /\ CompleteAsync(x, ctx, Taken(x)) =>
             x \notin Sync /\ answers'[x] = <<Outcome(x)>> /\ ~ctx'[x].live /\ ~ctx'[x].cplt
        /\ CompleteSync(x, ctx, Taken(x)) =>
             x \in Sync /\ answers'[x] = answers[x] /\ ctx'[x].live /\ ctx'[x].cplt
        /\ ctx' = ctx /\ answers' = answers =>
             answers'[x] = answers[x] /\ ctx'[x].live /\ ~ctx'[x].cplt
    BY <1>2, <1>3, <1>6, <2>1, <2>3, <2>4, <2>5, CompleteEffect
  <2>7. x \notin Elems(env.queue) \cup Elems(th.tid) \cup Elems(th.err) /\ x \in Ctxs /\ x # Query
    BY <1>4, <1>6, CmdsAreContexts DEF OnCq
  <2>8. CASE /\ CompleteAsync(x, ctx, Taken(x)) \/ CompleteSync(x, ctx, Taken(x))
             /\ QueuesNow(Elems(th.cq) \ {x}, Elems(th.tid), Elems(th.err), th.query)
    <3>1. QueueMove(x, Elems(th.cq) \ {x}, Elems(th.tid), Elems(th.err), th.query)
      BY <1>2, <2>6, <2>7, <2>8 DEF QueueMove
    <3>2. ~InOpen(x)' /\ ~InLate(x)' /\ th'.cplt_tids = th.cplt_tids
      BY <1>2, <2>7, <2>8 DEF QueuesNow, InOpen, InLate
    <3>3. Completing(x)
      BY <2>6, <2>8, <3>2 DEF Completing
    <3>4. CmdInv(x)'
      BY <1>2, <1>6, <2>1, <2>2, <2>6, <3>2, <3>3, CompletedCmd
    <3> QED BY <1>2, <1>6, <2>6, <3>1, <3>4, QueueStep
  <2>9. CASE /\ ctx' = ctx /\ answers' = answers /\ use_cnt' = use_cnt
             /\ QueuesNow(Elems(th.cq), Elems(th.tid), Elems(th.err), th.query)
    <3>1. QueueMove(x, Elems(th.cq), Elems(th.tid), Elems(th.err), th.query)
      BY <1>2, <2>6, <2>7, <2>9 DEF QueueMove
    <3> QED BY <1>2, <2>1, <2>7, <2>9, <3>1, MovedOnly
  <2> QED BY <1>4, <2>7, <2>8, <2>9 DEF CompleteQuery
<1> QED BY <1>4, <1>5, <1>6 DEF OnCq, Ctxs

LEMMA StepReceivedLongError == ASSUME Inv, ReceivedLongError PROVE Inv'
<1>1. PICK x \in th.cur \cap Long :
         /\ Received(x) /\ ctx[x].result = "cqe_error"
         /\ process_cplt_cmd(x, AwaitingTid(x), ToTidQueue(x),
                             [ToTidQueue(x) EXCEPT !.err = Append(@, x)])
  BY DEF ReceivedLongError
<1>2. /\ th.pc \in {"cq", "polled"} /\ ctx[x].st \in {"received", "cplt_query"}
      /\ UNCHANGED <<caller, env, fini, io, posted, task, tids>>
  BY <1>1 DEF ReceivedLongError, Received, At, ssdVars
<1>3. Types /\ th \in ThreadType /\ QueueInv
  BY DEF Inv, Types
<1>4. x \in Cmds /\ x \in Ctxs /\ x \in Long
  BY <1>1, CmdsAreContexts, CommandAssumption
<1>5. OnCq(x)
  BY <1>1, <1>2, <1>3, TakenFromCq
<1>6. CmdInv(x) /\ InOpen(x) /\ ctx[x].live /\ answers[x] = <<>> /\ ~ctx[x].cplt
      /\ caller[x] \notin {"idle", "send", "sending", "submit", "failed"}
  BY <1>4, <1>5 DEF Inv, OnCq, InOpen, CmdInv, PlaceOK
<1>7. CmdSeen(x) /\ posted[x] = <<"error">> /\ ctx[x].st = "received"
  BY <1>1, <1>2, <1>6 DEF CmdInv, Phase, NotSent, CmdOut, CmdBack, ResultOut, ResultBack,
                          ResultSeen, CmdSeen, Open
<1>8. Refused(x) /\ x \in RefusedCmds
  BY <1>4, <1>7 DEF Refused, RefusedCmds
<1>9. Final(x)
  <2>1. <<"error">> # <<>> /\ <<"error">>[1] = "error"
    BY Tuples
  <2> QED BY <1>7, <2>1 DEF Final
<1>10. \/ /\ CompleteAsync(x, AwaitingTid(x), ToTidQueue(x))
             \/ CompleteSync(x, AwaitingTid(x), ToTidQueue(x))
          /\ QueuesNow(Elems(th.cq) \ {x}, Elems(th.tid) \cup {x}, Elems(th.err), th.query)
       \/ /\ ctx' = AwaitingTid(x) /\ answers' = answers /\ use_cnt' = use_cnt
          /\ QueuesNow(Elems(th.cq) \ {x}, Elems(th.tid) \cup {x}, Elems(th.err) \cup {x}, th.query)
  BY <1>1, <1>2, <1>3, <1>8, EffectLongError
<1>11. PICK n : n = AwaitingTid(x)
  OBVIOUS
<1>12. /\ n \in [Ctxs -> Context] /\ \A d \in Ctxs \ {x} : n[d] = ctx[d]
       /\ n[x].st = "wait_query" /\ n[x].cplt = ctx[x].cplt /\ n[x].live = ctx[x].live
       /\ n[x].result = ctx[x].result
  <2>1. ctx \in [Ctxs -> Context] /\ ctx[x] \in Context
    BY <1>3, <1>4 DEF Types
  <2>2. PICK m : m = [ctx[x] EXCEPT !.st = "wait_query"]
    OBVIOUS
  <2>3. n = [ctx EXCEPT ![x] = m]
    BY <1>4, <1>7, <1>11, <2>1, <2>2 DEF AwaitingTid
  <2>4. /\ m \in Context /\ m.st = "wait_query" /\ m.cplt = ctx[x].cplt /\ m.live = ctx[x].live
        /\ m.result = ctx[x].result
    BY <2>1, <2>2 DEF Context, CmdStates
  <2> QED BY <1>4, <2>1, <2>3, <2>4
<1>13. PICK t : t = ToTidQueue(x)
  OBVIOUS
<1>14. /\ MoveTypes /\ \A d \in Ctxs \ {x} : ctx'[d] = ctx[d] /\ io'[d] = io[d]
       /\ \A d \in Cmds \ {x} : answers'[d] = answers[d]
       /\ ctx'[x].result = ctx[x].result /\ ctx'[x].st = n[x].st
       /\ CompleteAsync(x, n, t) =>
            x \notin Sync /\ answers'[x] = <<Outcome(x)>> /\ ~ctx'[x].live /\ ~ctx'[x].cplt
       /\ CompleteSync(x, n, t) =>
            x \in Sync /\ answers'[x] = answers[x] /\ ctx'[x].live /\ ctx'[x].cplt
       /\ ctx' = n /\ answers' = answers =>
            answers'[x] = answers[x] /\ ctx'[x].live /\ ~ctx'[x].cplt
  <2>1. Outcome(x) \in Results
    BY <1>4, <1>7, <1>9, OutcomeTrue
  <2>2. \/ CompleteAsync(x, n, t)
        \/ CompleteSync(x, n, t)
        \/ ctx' = n /\ answers' = answers /\ use_cnt' = use_cnt
    BY <1>10, <1>11, <1>13
  <2> QED BY <1>2, <1>3, <1>4, <1>6, <1>12, <2>1, <2>2, CompleteEffect
<1>15. x \notin Elems(env.queue) /\ x # Query
  BY <1>4, <1>5, CmdsAreContexts DEF OnCq
<1>16. PICK errs : /\ QueuesNow(Elems(th.cq) \ {x}, Elems(th.tid) \cup {x}, errs, th.query)
                   /\ errs \subseteq Elems(th.err) \cup {x} /\ Elems(th.err) \subseteq errs
  BY <1>10
<1>17. QueueMove(x, Elems(th.cq) \ {x}, Elems(th.tid) \cup {x}, errs, th.query)
  BY <1>2, <1>4, <1>14, <1>16 DEF QueueMove
<1>18. ~InOpen(x)' /\ th'.cplt_tids = th.cplt_tids
  BY <1>2, <1>15, <1>16 DEF QueuesNow, InOpen
<1>19. Completing(x)
  BY <1>8, <1>10, <1>11, <1>13, <1>14, <1>18 DEF Completing
<1>20. CmdInv(x)'
  BY <1>2, <1>4, <1>6, <1>7, <1>9, <1>12, <1>14, <1>18, <1>19, CompletedCmd
<1> QED BY <1>2, <1>4, <1>14, <1>16, <1>17, <1>20, QueueStep

LEMMA StepLongDone == ASSUME Inv, LongDone PROVE Inv'
<1>1. PICK x \in th.cur :
         /\ ctx[x].st = "cplt_query"
         /\ process_cplt_cmd(x, ctx, TakenTid(x), [TakenTid(x) EXCEPT !.tid = Append(@, x)])
  BY DEF LongDone, TakenTid
<1>2. th.pc = "tid" /\ UNCHANGED <<caller, env, fini, io, posted, task, tids>>
  BY DEF LongDone, At, ssdVars
<1>3. Types /\ th \in ThreadType /\ QueueInv
  BY DEF Inv, Types
<1>4. OnTid(x)
  BY <1>2, <1>3, TakenFromTid
<1>5. x \in Cmds /\ x \in Ctxs /\ x \in Long /\ x # Query
  BY <1>4, CmdsAreContexts, CommandAssumption DEF OnTid
<1>6. /\ CmdInv(x) /\ ResultSeen(x) /\ Final(x) /\ x \notin RefusedCmds /\ ~Refused(x)
  BY <1>1, <1>5, NotRefused DEF Inv
<1>7. /\ InLate(x) /\ ctx[x].live /\ answers[x] = <<>> /\ ~ctx[x].cplt
      /\ caller[x] \notin {"idle", "send", "sending", "submit", "failed"}
  BY <1>4, <1>6 DEF OnTid, InLate, CmdInv, PlaceOK
<1>8. \/ /\ CompleteAsync(x, ctx, TakenTid(x)) \/ CompleteSync(x, ctx, TakenTid(x))
         /\ QueuesNow(Elems(th.cq), Elems(th.tid) \ {x}, Elems(th.err), th.query)
      \/ /\ ctx' = ctx /\ answers' = answers /\ use_cnt' = use_cnt
         /\ QueuesNow(Elems(th.cq), Elems(th.tid), Elems(th.err), th.query)
  BY <1>1, <1>2, <1>3, <1>6, EffectLongDone
<1>9. CASE /\ ctx' = ctx /\ answers' = answers /\ use_cnt' = use_cnt
           /\ QueuesNow(Elems(th.cq), Elems(th.tid), Elems(th.err), th.query)
  <2>1. QueueMove(x, Elems(th.cq), Elems(th.tid), Elems(th.err), th.query)
    BY <1>2, <1>5, <1>9 DEF QueueMove
  <2>2. x \notin Elems(th.cq)
    BY <1>4 DEF OnTid
  <2> QED BY <1>2, <1>5, <1>7, <1>9, <2>1, <2>2, MovedOnly
<1>10. CASE /\ CompleteAsync(x, ctx, TakenTid(x)) \/ CompleteSync(x, ctx, TakenTid(x))
            /\ QueuesNow(Elems(th.cq), Elems(th.tid) \ {x}, Elems(th.err), th.query)
  <2>1. Outcome(x) \in Results /\ ctx \in [Ctxs -> Context]
    BY <1>3, <1>5, <1>6, OutcomeTrue DEF Types
  <2>2. PICK t : t = TakenTid(x)
    OBVIOUS
  <2>3. CompleteAsync(x, ctx, t) \/ CompleteSync(x, ctx, t)
    BY <1>10, <2>2
  <2>4. /\ MoveTypes /\ \A d \in Ctxs \ {x} : ctx'[d] = ctx[d] /\ io'[d] = io[d]
        /\ \A d \in Cmds \ {x} : answers'[d] = answers[d]
        /\ ctx'[x].result = ctx[x].result /\ ctx'[x].st = ctx[x].st
        /\ CompleteAsync(x, ctx, t) =>
             x \notin Sync /\ answers'[x] = <<Outcome(x)>> /\ ~ctx'[x].live /\ ~ctx'[x].cplt
        /\ CompleteSync(x, ctx, t) =>
             x \in Sync /\ answers'[x] = answers[x] /\ ctx'[x].live /\ ctx'[x].cplt
    BY <1>2, <1>3, <1>5, <1>7, <2>1, <2>3, CompleteEffect
  <2>5. x \notin Elems(env.queue) \cup Elems(th.cq) \cup Elems(th.err)
    BY <1>4, <1>6 DEF OnTid
  <2>6. QueueMove(x, Elems(th.cq), Elems(th.tid) \ {x}, Elems(th.err), th.query)
    BY <1>2, <1>5, <1>10, <2>4 DEF QueueMove
  <2>7. ~InOpen(x)' /\ ~InLate(x)' /\ th'.cplt_tids = th.cplt_tids
    BY <1>2, <1>10, <2>5 DEF QueuesNow, InOpen, InLate
  <2>8. Completing(x)
    BY <2>3, <2>4, <2>7 DEF Completing
  <2>9. CmdInv(x)'
    BY <1>2, <1>5, <1>6, <1>7, <2>4, <2>7, <2>8, CompletedCmd
  <2> QED BY <1>2, <1>5, <2>4, <2>6, <2>9, QueueStep
<1> QED BY <1>8, <1>9, <1>10

-----------------------------------------------------------------------------
(* The end of the polling thread and of the session. *)

LEMMA FreedContexts ==
  ASSUME ctx \in [Ctxs -> Context], NEW S, ctx' = Freed(S)
  PROVE  /\ ctx' \in [Ctxs -> Context]
         /\ \A x \in Ctxs : /\ x \notin S => ctx'[x] = ctx[x]
                            /\ x \in S => ~ctx'[x].live
                            /\ ctx'[x].st = ctx[x].st /\ ctx'[x].result = ctx[x].result
                            /\ ctx'[x].cplt = ctx[x].cplt /\ ctx'[x].chan = ctx[x].chan
<1>1. ASSUME NEW x \in Ctxs
      PROVE  /\ ctx'[x] \in Context /\ x \notin S => ctx'[x] = ctx[x]
             /\ x \in S => ~ctx'[x].live
             /\ ctx'[x].st = ctx[x].st /\ ctx'[x].result = ctx[x].result
             /\ ctx'[x].cplt = ctx[x].cplt /\ ctx'[x].chan = ctx[x].chan
  <2>1. ctx[x] \in Context
    OBVIOUS
  <2>2. CASE x \notin S
    BY <2>1, <2>2 DEF Freed
  <2>3. CASE x \in S
    <3>1. ctx'[x] = [ctx[x] EXCEPT !.live = FALSE]
      BY <2>3 DEF Freed
    <3> QED BY <2>1, <2>3, <3>1 DEF Context
  <2> QED BY <2>2, <2>3
<1>2. ctx' \in [Ctxs -> Context]
  <2>1. \A x \in Ctxs : ctx'[x] \in Context
    <3>1. ASSUME NEW x \in Ctxs PROVE ctx'[x] \in Context
      <4>1. ctx[x] \in Context
        OBVIOUS
      <4>2. CASE x \notin S
        BY <4>1, <4>2 DEF Freed
      <4>3. CASE x \in S
        <5>1. ctx'[x] = [ctx[x] EXCEPT !.live = FALSE]
          BY <4>3 DEF Freed
        <5> QED BY <4>1, <5>1 DEF Context
      <4> QED BY <4>2, <4>3
    <3> QED BY <3>1
  <2> QED BY <2>1 DEF Freed
<1> QED BY <1>1, <1>2

\* Contexts that leave the queues they were on, and are freed with them.
LEMMA FreedCmd ==
  ASSUME NEW c \in Cmds, CmdInv(c), NEW S, ctx \in [Ctxs -> Context], ctx' = Freed(S),
         c \in S => c \notin Sync /\ (InOpen(c) \/ InLate(c)) /\ ~InOpen(c)' /\ ~InLate(c)',
         UNCHANGED <<caller, answers, io, posted, task, tids>>,
         th'.cplt_tids \subseteq th.cplt_tids,
         InOpen(c)' => InOpen(c), InLate(c)' => InLate(c)
  PROVE  CmdInv(c)'
<1>1. /\ c \in Ctxs /\ c \notin S => ctx'[c] = ctx[c]
      /\ c \in S => ~ctx'[c].live
      /\ ctx'[c].st = ctx[c].st /\ ctx'[c].result = ctx[c].result /\ ctx'[c].cplt = ctx[c].cplt
  BY FreedContexts, CmdsAreContexts
<1>2. CASE c \notin S
  <2>1. SameCmd(c)
    BY <1>1, <1>2, CmdsAreContexts DEF SameCmd
  <2> QED BY <2>1, FrameCmd
<1>3. CASE c \in S
  <2>1. Phase(c)'
    BY <1>1, FreedContexts, CmdsAreContexts
       DEF CmdInv, Phase, NotSent, CmdOut, CmdBack, CmdSeen, ResultOut, ResultBack, ResultSeen,
           Open, Done
  <2>2. TaskOK(c)'
    BY DEF CmdInv, TaskOK
  <2>3. AnswerOK(c)'
    BY <1>1 DEF CmdInv, AnswerOK, Final
  <2>4. PlaceOK(c)'
    BY <1>1, <1>3 DEF CmdInv, PlaceOK
  <2> QED BY <2>1, <2>2, <2>3, <2>4 DEF CmdInv
<1> QED BY <1>2, <1>3

\* What ExitPolling gives back.
ExitSet == Owned(th.cq \o th.tid \o th.err) \cup {Query}

LEMMA ExitSetIs ==
  ASSUME th \in ThreadType
  PROVE  /\ ExitSet = ((Elems(th.cq) \cup Elems(th.tid) \cup Elems(th.err)) \ Sync) \cup {Query}
         /\ IsFiniteSet(ExitSet)
<1>1. th.cq \in Seq(Ctxs) /\ th.tid \in Seq(Ctxs) /\ th.err \in Seq(Ctxs)
  BY ThreadFields
<1>2. PICK p : p = th.cq \o th.tid
  OBVIOUS
<1>3. p \in Seq(Ctxs) /\ Elems(p) = Elems(th.cq) \cup Elems(th.tid)
  BY <1>1, <1>2, ConcatQueue
<1>4. PICK q : q = p \o th.err
  OBVIOUS
<1>5. q \in Seq(Ctxs) /\ Elems(q) = Elems(th.cq) \cup Elems(th.tid) \cup Elems(th.err)
  BY <1>1, <1>3, <1>4, ConcatQueue
<1>6. IsFiniteSet(Elems(q))
  BY <1>5, QueueFinite
<1>7. IsFiniteSet(Elems(q) \ (Sync \cup {Query}))
  BY <1>6, FS_Difference
<1>8. IsFiniteSet((Elems(q) \ (Sync \cup {Query})) \cup {Query})
  BY <1>7, FS_AddElement
<1>9. ExitSet = (Elems(q) \ (Sync \cup {Query})) \cup {Query}
  BY <1>2, <1>4 DEF ExitSet, Owned
<1> QED BY <1>5, <1>8, <1>9, CmdsAreContexts

LEMMA StepExitPolling == ASSUME Inv, ExitPolling PROVE Inv'
<1>1. /\ ctx' = Freed(ExitSet) /\ use_cnt' = Released(ExitSet)
      /\ th' = [th EXCEPT !.pc = "exited", !.cq = <<>>, !.tid = <<>>, !.err = <<>>,
                          !.cplt_tids = {}, !.timer = "off"]
      /\ UNCHANGED <<caller, env, fini, answers, io, posted, task, tids>>
  BY DEF ExitPolling, ExitSet, ssdVars
<1>2. Types /\ th \in ThreadType /\ QueueInv
  BY DEF Inv, Types
<1>3. /\ th' \in ThreadType /\ QueueInv' /\ th'.pc = "exited" /\ th'.cplt_tids = {}
      /\ Elems(th'.cq) = {} /\ Elems(th'.tid) = {} /\ Elems(th'.err) = {}
  BY <1>1, <1>2, EffectExit
<1>4. /\ ExitSet = ((Elems(th.cq) \cup Elems(th.tid) \cup Elems(th.err)) \ Sync) \cup {Query}
      /\ IsFiniteSet(ExitSet)
  BY <1>2, ExitSetIs
<1>5. Types'
  <2>1. ctx' \in [Ctxs -> Context]
    BY <1>1, <1>2, FreedContexts DEF Types
  <2>2. use_cnt' \in [Channels -> Int]
    BY <1>1, <1>2, <1>4, ReleasedType DEF Types
  <2> QED BY <1>1, <1>2, <1>3, <2>1, <2>2 DEF Types, EnvType
<1>6. QueryInv'
  BY <1>3 DEF QueryInv
<1>7. ASSUME NEW c \in Cmds PROVE CmdInv(c)'
  <2>1. (InOpen(c)' <=> c \in Elems(env.queue)) /\ ~InLate(c)'
    BY <1>1, <1>3 DEF InOpen, InLate
  <2>2. (InOpen(c)' => InOpen(c)) /\ (InLate(c)' => InLate(c))
    BY <2>1 DEF InOpen
  <2>3. c \in ExitSet => c \notin Sync /\ (InOpen(c) \/ InLate(c)) /\ ~InOpen(c)' /\ ~InLate(c)'
    <3>1. c # Query
      BY CmdsAreContexts
    <3>2. c \in Elems(th.cq) \cup Elems(th.tid) \cup Elems(th.err) => c \notin Elems(env.queue)
      BY <1>2 DEF QueueInv, Queues
    <3> QED BY <1>4, <2>1, <3>1, <3>2 DEF InOpen, InLate
  <2>4. ctx \in [Ctxs -> Context] /\ CmdInv(c) /\ th'.cplt_tids \subseteq th.cplt_tids
    BY <1>2, <1>3 DEF Inv, Types
  <2> QED BY <1>1, <2>2, <2>3, <2>4, FreedCmd
<1> QED BY <1>3, <1>5, <1>6, <1>7 DEF Inv

LEMMA StepFiniJoin == ASSUME Inv, FiniJoin PROVE Inv'
<1>1. PICK S : S = Owned(env.queue)
  OBVIOUS
<1>2. /\ ctx' = Freed(S) /\ use_cnt' = Released(S) /\ th.pc = "exited"
      /\ env' = [env EXCEPT !.queue = <<>>] /\ fini' = "done"
      /\ UNCHANGED <<caller, th, answers, io, posted, task, tids>>
  BY <1>1 DEF FiniJoin, ssdVars
<1>3. Types /\ th \in ThreadType /\ QueueInv /\ EnvType
  BY DEF Inv, Types
<1>4. QueueInv' /\ EnvType' /\ Elems(env'.queue) = {}
  BY <1>2, <1>3, EffectFiniJoin
<1>5. env.queue \in Seq(Cmds)
  BY <1>3 DEF EnvType
<1>6. S = Elems(env.queue) \ (Sync \cup {Query}) /\ IsFiniteSet(S)
  BY <1>1, <1>5, QueueFinite, FS_Difference DEF Owned
<1>7. Types'
  <2>1. ctx' \in [Ctxs -> Context]
    BY <1>2, <1>3, FreedContexts DEF Types
  <2>2. use_cnt' \in [Channels -> Int]
    BY <1>2, <1>3, <1>6, ReleasedType DEF Types
  <2> QED BY <1>2, <1>3, <1>4, <2>1, <2>2 DEF Types
<1>8. QueryInv'
  BY <1>2 DEF QueryInv
<1>9. ASSUME NEW c \in Cmds PROVE CmdInv(c)'
  <2>1. (InOpen(c)' <=> c \in Elems(th.cq)) /\ (InLate(c)' <=> InLate(c))
    BY <1>2, <1>4 DEF InOpen, InLate
  <2>2. (InOpen(c)' => InOpen(c)) /\ (InLate(c)' => InLate(c))
    BY <2>1 DEF InOpen
  <2>3. c \in S => c \notin Sync /\ (InOpen(c) \/ InLate(c)) /\ ~InOpen(c)' /\ ~InLate(c)'
    <3>1. c \in Elems(env.queue) => c \notin Elems(th.cq) \cup Elems(th.tid) \cup Elems(th.err)
      BY <1>3 DEF QueueInv, Queues
    <3> QED BY <1>6, <2>1, <3>1 DEF InOpen, InLate
  <2>4. ctx \in [Ctxs -> Context] /\ CmdInv(c) /\ th'.cplt_tids \subseteq th.cplt_tids
    BY <1>2, <1>3 DEF Inv, Types
  <2> QED BY <1>2, <2>2, <2>3, <2>4, FreedCmd
<1> QED BY <1>4, <1>7, <1>8, <1>9 DEF Inv

-----------------------------------------------------------------------------
(* The SSD. *)

LEMMA StepTaskFinishes == ASSUME Inv, NEW c \in Cmds, TaskFinishes(c) PROVE Inv'
<1>1. /\ task[c] = "running" /\ task' = [task EXCEPT ![c] = "finished"]
      /\ UNCHANGED <<caller, ctx, use_cnt, env, fini, th, answers, io, posted, tids>>
  BY DEF TaskFinishes
<1>2. Types /\ CmdInv(c)
  BY DEF Inv
<1>3. task'[c] = "finished" /\ \A d \in Cmds \ {c} : task'[d] = task[d]
  BY <1>1, <1>2 DEF Types
<1>4. Types'
  BY <1>1, <1>2 DEF Types, EnvType
<1>5. QueueInv'
  BY <1>1, FrameQueues DEF Inv
<1>6. SameQuery
  BY <1>1 DEF SameQuery
<1>7. ASSUME NEW d \in Cmds \ {c} PROVE SameCmd(d)
  BY <1>1, <1>3 DEF SameCmd, InOpen, InLate
<1>8. CmdInv(c)'
  <2>1. Phase(c)'
    BY <1>1, <1>2 DEF CmdInv, Phase, NotSent, CmdOut, CmdBack, CmdSeen, ResultOut, ResultBack,
                      ResultSeen, Open, Done
  <2>2. TaskOK(c)'
    BY <1>1, <1>2, <1>3 DEF CmdInv, TaskOK
  <2>3. AnswerOK(c)'
    BY <1>1, <1>2 DEF CmdInv, AnswerOK, Final
  <2>4. PlaceOK(c)'
    BY <1>1, <1>2 DEF CmdInv, PlaceOK, InOpen, InLate, Refused
  <2> QED BY <2>1, <2>2, <2>3, <2>4 DEF CmdInv
<1> QED BY <1>4, <1>5, <1>6, <1>7, <1>8, OneCmdStep

\* The SSD completes a command of a caller.
LEMMA StepPostCmd ==
  ASSUME Inv, NEW c \in Cmds, NEW r \in Results, Post(c, r)
  PROVE  Inv'
<1>1. /\ io[c].op # "none" /\ io[c].cqe = "none" /\ io' = [io EXCEPT ![c].cqe = r]
      /\ r = "error" => <<c, io[c].op>> \in CqeErrors
      /\ posted' = [d \in Cmds |-> IF d = c THEN Append(posted[d], r) ELSE posted[d]]
      /\ task' = [d \in Cmds |-> IF d = c /\ d \in Long /\ io[d].op = "cmd" /\ r = "ok"
                                 THEN "running" ELSE task[d]]
      /\ UNCHANGED <<caller, ctx, use_cnt, env, fini, th, answers, tids>>
  <2>1. c # Query
    BY CmdsAreContexts
  <2> QED BY <2>1 DEF Post
<1>2. Types /\ CmdInv(c) /\ c \in Ctxs /\ io[c] \in IoType
  BY CmdsAreContexts DEF Inv, Types
<1>3. /\ caller[c] \notin Unsent /\ Open(c)
      /\ \/ io[c].op = "cmd" /\ posted[c] = <<>>
         \/ c \in Long /\ io[c].op = "result" /\ posted[c] = <<"ok">>
  BY <1>1, <1>2 DEF CmdInv, Phase, NotSent, CmdOut, CmdBack, CmdSeen, ResultOut, ResultBack,
                    ResultSeen, NoIo, Sent, Results
<1>4. /\ io' \in [Ctxs -> IoType] /\ io'[c].op = io[c].op /\ io'[c].cqe = r
      /\ \A d \in Ctxs \ {c} : io'[d] = io[d]
  <2>1. PICK n : n = [io[c] EXCEPT !.cqe = r]
    OBVIOUS
  <2>2. n \in IoType /\ n.op = io[c].op /\ n.cqe = r
    BY <1>2, <2>1 DEF IoType, Results
  <2>3. io' = [io EXCEPT ![c] = n] /\ io \in [Ctxs -> IoType]
    BY <1>1, <1>2, <2>1 DEF Types
  <2> QED BY <1>2, <2>2, <2>3
<1>5. /\ posted' \in [Cmds -> Seq(Results)] /\ posted'[c] = Append(posted[c], r)
      /\ \A d \in Cmds \ {c} : posted'[d] = posted[d]
  BY <1>1, <1>2 DEF Types
<1>6. /\ posted[c] = <<>> => posted'[c] = <<r>>
      /\ posted[c] = <<"ok">> => posted'[c] = <<"ok", r>>
  <2>1. Append(<<>>, r) = <<r>> /\ Append(<<"ok">>, r) = <<"ok", r>>
    BY Tuples
  <2>2. CASE posted[c] = <<>>
    <3>1. <<>> # <<"ok">>
      OBVIOUS
    <3> QED BY <1>5, <2>1, <2>2, <3>1
  <2>3. CASE posted[c] = <<"ok">>
    <3>1. <<>> # <<"ok">>
      OBVIOUS
    <3> QED BY <1>5, <2>1, <2>3, <3>1
  <2> QED BY <2>2, <2>3
<1>7. /\ task' \in [Cmds -> {"none", "running", "finished", "reported"}]
      /\ \A d \in Cmds \ {c} : task'[d] = task[d]
      /\ task'[c] = task[c] \/ (task'[c] = "running" /\ io[c].op = "cmd" /\ r = "ok")
  BY <1>1, <1>2 DEF Types
<1>8. Types'
  BY <1>1, <1>2, <1>4, <1>5, <1>7 DEF Types, EnvType
<1>9. QueueInv'
  <2>1. RefusedCmds \subseteq RefusedCmds'
    <3>1. ASSUME NEW d \in Cmds, Refused(d) PROVE Refused(d)'
      <4>1. CASE d = c
        <5>1. posted[c] = <<"error">>
          BY <3>1, <4>1 DEF Refused
        <5>2. <<"error">> # <<>> /\ <<"error">> # <<"ok">>
          OBVIOUS
        <5> QED BY <1>3, <5>1, <5>2
      <4>2. CASE d # c
        BY <1>5, <3>1, <4>2 DEF Refused
      <4> QED BY <4>1, <4>2
    <3> QED BY <3>1 DEF RefusedCmds
  <2>2. Queues(env.queue, th.cq, th.tid, th.err, RefusedCmds')
    BY <2>1, QueuesMoreRefused DEF Inv, QueueInv
  <2> QED BY <1>1, <2>2 DEF Inv, QueueInv
<1>10. SameQuery
  BY <1>1 DEF SameQuery
<1>11. ASSUME NEW d \in Cmds \ {c} PROVE SameCmd(d)
  BY <1>1, <1>4, <1>5, <1>7, CmdsAreContexts DEF SameCmd, InOpen, InLate
<1>12. CmdInv(c)'
  <2>1. Open(c)'
    BY <1>1, <1>3 DEF Open
  <2>2. Phase(c)'
    <3>1. CASE io[c].op = "cmd" /\ posted[c] = <<>>
      <4>1. CmdBack(c)'
        BY <1>4, <1>6, <2>1, <3>1 DEF CmdBack
      <4> QED BY <1>1, <1>3, <4>1 DEF Phase
    <3>2. CASE c \in Long /\ io[c].op = "result" /\ posted[c] = <<"ok">>
      <4>1. ResultBack(c)'
        BY <1>4, <1>6, <2>1, <3>2 DEF ResultBack
      <4> QED BY <1>1, <1>3, <4>1 DEF Phase
    <3> QED BY <1>3, <3>1, <3>2
  <2>3. TaskOK(c)'
    <3>1. CASE io[c].op = "cmd" /\ posted[c] = <<>>
      <4>1. posted'[c] # <<>> /\ posted'[c][1] = r
        BY <1>6, <3>1, Tuples
      <4>2. task[c] = "none" /\ c \notin tids \cup th.cplt_tids
        BY <1>2, <3>1 DEF CmdInv, TaskOK
      <4>3. r = "error" => <<c, "cmd">> \in CqeErrors
        BY <1>1, <3>1
      <4> QED BY <1>1, <1>7, <4>1, <4>2, <4>3 DEF TaskOK
    <3>2. CASE c \in Long /\ io[c].op = "result" /\ posted[c] = <<"ok">>
      <4>1. posted'[c] # <<>> /\ posted'[c][1] = "ok"
        BY <1>6, <3>2, Tuples
      <4>2. task'[c] = task[c]
        BY <1>7, <3>2
      <4> QED BY <1>1, <1>2, <4>1, <4>2 DEF CmdInv, TaskOK
    <3> QED BY <1>3, <3>1, <3>2
  <2>4. AnswerOK(c)'
    BY <2>1 DEF AnswerOK, Open
  <2>5. PlaceOK(c)'
    <3>1. (InOpen(c)' <=> InOpen(c)) /\ (InLate(c)' <=> InLate(c))
      BY <1>1 DEF InOpen, InLate
    <3>2. ~Refused(c)
      <4>1. <<"error">> # <<>> /\ <<"error">> # <<"ok">>
        OBVIOUS
      <4> QED BY <1>3, <4>1 DEF Refused
    <3> QED BY <1>1, <1>2, <2>1, <3>1, <3>2 DEF CmdInv, PlaceOK, Open
  <2> QED BY <2>2, <2>3, <2>4, <2>5 DEF CmdInv
<1> QED BY <1>8, <1>9, <1>10, <1>11, <1>12, OneCmdStep

\* The SSD answers the query for finished tasks.
LEMMA StepPostQuery ==
  ASSUME Inv, NEW r \in Results, Post(Query, r)
  PROVE  Inv'
<1>1. /\ io' = [io EXCEPT ![Query].cqe = r]
      /\ posted' = [d \in Cmds |-> IF d = Query THEN Append(posted[d], r) ELSE posted[d]]
      /\ UNCHANGED <<caller, ctx, use_cnt, env, fini, th, answers>>
  BY DEF Post
<1>2. Types
  BY DEF Inv
<1>3. posted' = posted
  BY <1>1, <1>2, CmdsAreContexts DEF Types
<1>4. /\ io' \in [Ctxs -> IoType] /\ \A d \in Ctxs \ {Query} : io'[d] = io[d]
  <2>1. PICK n : n = [io[Query] EXCEPT !.cqe = r]
    OBVIOUS
  <2>2. n \in IoType
    BY <1>2, <2>1, CmdsAreContexts DEF Types, IoType, Results
  <2>3. io' = [io EXCEPT ![Query] = n] /\ io \in [Ctxs -> IoType]
    BY <1>1, <1>2, <2>1 DEF Types
  <2> QED BY <2>2, <2>3
<1>5. /\ task' \in [Cmds -> {"none", "running", "finished", "reported"}] /\ tids' \subseteq Cmds
      /\ \A d \in Cmds : \/ /\ task'[d] = task[d]
                            /\ d \in tids' => d \in tids
                         \/ task[d] = "finished" /\ task'[d] = "reported"
  <2>1. CASE UNCHANGED <<tids, task>>
    BY <1>2, <2>1 DEF Types
  <2>2. ASSUME NEW S \in Reports, tids' = S,
               task' = [d \in Cmds |-> IF d \in S THEN "reported" ELSE task[d]]
        PROVE  /\ task' \in [Cmds -> {"none", "running", "finished", "reported"}]
               /\ tids' \subseteq Cmds
               /\ \A d \in Cmds : \/ task'[d] = task[d] /\ (d \in tids' => d \in tids)
                                  \/ task[d] = "finished" /\ task'[d] = "reported"
    <3>1. S \subseteq Cmds /\ \A d \in S : task[d] = "finished"
      BY DEF Reports
    <3> QED BY <1>2, <2>2, <3>1 DEF Types
  <2> QED BY <2>1, <2>2, CmdsAreContexts DEF Post
<1>6. Types'
  BY <1>1, <1>2, <1>3, <1>4, <1>5 DEF Types, EnvType
<1>7. QueueInv'
  BY <1>1, <1>3, FrameQueues DEF Inv
<1>8. QueryInv'
  BY <1>1 DEF Inv, QueryInv
<1>9. ASSUME NEW c \in Cmds PROVE CmdInv(c)'
  <2>1. c \in Ctxs /\ io'[c] = io[c] /\ CmdInv(c)
    BY <1>4, CmdsAreContexts DEF Inv
  <2>2. CASE task'[c] = task[c] /\ (c \in tids' => c \in tids)
    <3>1. SameCmd(c)
      BY <1>1, <1>3, <2>1, <2>2 DEF SameCmd, InOpen, InLate
    <3> QED BY <2>1, <3>1, FrameCmd
  <2>3. CASE task[c] = "finished" /\ task'[c] = "reported"
    <3>1. Phase(c)'
      BY <1>1, <1>3, <2>1 DEF CmdInv, Phase, NotSent, CmdOut, CmdBack, CmdSeen, ResultOut,
                              ResultBack, ResultSeen, Open, Done
    <3>2. TaskOK(c)'
      BY <1>3, <2>1, <2>3 DEF CmdInv, TaskOK
    <3>3. AnswerOK(c)'
      BY <1>1, <1>3, <2>1 DEF CmdInv, AnswerOK, Final
    <3>4. PlaceOK(c)'
      BY <1>1, <1>3, <2>1 DEF CmdInv, PlaceOK, InOpen, InLate, Refused
    <3> QED BY <3>1, <3>2, <3>3, <3>4 DEF CmdInv
  <2> QED BY <1>5, <2>2, <2>3
<1> QED BY <1>6, <1>7, <1>8, <1>9 DEF Inv

-----------------------------------------------------------------------------
LEMMA InvStep == Inv /\ [Next]_vars => Inv'
<1> SUFFICES ASSUME Inv, [Next]_vars PROVE Inv'
  OBVIOUS
<1>1. ASSUME NEW c \in Cmds, Start(c) \/ Caller(c) \/ TaskFinishes(c) PROVE Inv'
  BY <1>1, StepCaller, StepTaskFinishes
<1>2. ASSUME NEW x \in Ctxs, SSDStep(x) PROVE Inv'
  BY <1>2, StepPostCmd, StepPostQuery DEF SSDStep, Results, Ctxs
<1>3. CASE Polling
  BY <1>3, StepFetch, StepQuiet, StepBroadcast, StepPollCq, StepPollFails, StepReceivedShort,
     StepReceivedLong, StepReceivedLongError, StepMatchTids, StepQueryResult, StepQueryResultFails,
     StepLongDone, StepSendQuery, StepSendQueryFails, StepExitPolling DEF Polling
<1>4. CASE Fini
  BY <1>4, StepQuiet, StepFiniRequest, StepFiniJoin DEF Fini
<1>5. CASE TimerExpires
  BY <1>5, StepQuiet
<1>6. CASE UNCHANGED vars
  <2>1. UNCHANGED <<caller, ctx, use_cnt, env, fini, th, answers, io, posted, task, tids>>
    BY <1>6 DEF vars
  <2>2. Types' /\ QueueInv' /\ QueryInv'
    BY <2>1, FrameQueues DEF Inv, Types, EnvType, QueryInv
  <2>3. ASSUME NEW c \in Cmds PROVE CmdInv(c)'
    <3>1. SameCmd(c)
      BY <2>1 DEF SameCmd, InOpen, InLate
    <3> QED BY <3>1, FrameCmd DEF Inv
  <2> QED BY <2>2, <2>3 DEF Inv
<1> QED BY <1>1, <1>2, <1>3, <1>4, <1>5, <1>6 DEF Next

LEMMA Invariance == Spec => []Inv
  BY InvInit, InvStep, PTL DEF Spec

-----------------------------------------------------------------------------
(* What the invariant says of the properties. *)

\* session.c: the SSD holds a command's buffer until it has completed it; no caller
\* is answered before, whatever the polling thread and the callers interleave.
THEOREM BufferSafe == Spec => []NoAnswerInFlight
<1>1. Inv => NoAnswerInFlight
  <2> SUFFICES ASSUME Inv, NEW c \in Cmds, io[c].op # "none" PROVE answers[c] = <<>>
    BY DEF NoAnswerInFlight
  <2>1. Phase(c)
    BY DEF Inv, CmdInv
  <2> QED BY <2>1 DEF Phase, NotSent, CmdOut, CmdBack, CmdSeen, ResultOut, ResultBack, ResultSeen,
                      NoIo, Open
<1> QED BY <1>1, Invariance, PTL

\* polling_thread_process_cplt_tid_query: the one context of the query for finished
\* tasks is on a queue exactly while the query task says it is running.
THEOREM QueryOnce == Spec => []QueryOutstandingOnce
<1>1. Inv => QueryOutstandingOnce
  BY DEF Inv, QueryInv, QueryOutstandingOnce
<1> QED BY <1>1, Invariance, PTL

Once(q, x) == \A i, j \in 1 .. Len(q) : q[i] = x /\ q[j] = x => i = j

LEMMA OnceInConcat ==
  ASSUME NEW T, NEW p \in Seq(T), NEW q \in Seq(T), NEW x, Once(p, x), Once(q, x),
         ~(x \in Elems(p) /\ x \in Elems(q))
  PROVE  Once(p \o q, x)
<1>1. PICK r : r = p \o q
  OBVIOUS
<1>2. /\ r \in Seq(T) /\ Len(r) = Len(p) + Len(q) /\ Len(q) \in Nat /\ Len(p) \in Nat
      /\ \A i \in 1 .. Len(p) : r[i] = p[i]
      /\ \A i \in 1 .. Len(r) : i > Len(p) => r[i] = q[i - Len(p)] /\ i - Len(p) \in 1 .. Len(q)
  BY <1>1
<1>3. ASSUME NEW i \in 1 .. Len(r), NEW j \in 1 .. Len(r), r[i] = x, r[j] = x PROVE i = j
  <2>1. CASE i <= Len(p) /\ j <= Len(p)
    <3>1. i \in 1 .. Len(p) /\ j \in 1 .. Len(p) /\ p[i] = x /\ p[j] = x
      BY <1>2, <1>3, <2>1
    <3> QED BY <3>1 DEF Once
  <2>2. CASE i > Len(p) /\ j > Len(p)
    <3>1. i - Len(p) = j - Len(p)
      BY <1>2, <1>3, <2>2 DEF Once
    <3> QED BY <1>2, <3>1
  <2>3. ASSUME NEW k \in 1 .. Len(r), NEW l \in 1 .. Len(r), r[k] = x, r[l] = x, k <= Len(p),
               l > Len(p)
        PROVE  FALSE
    <3>1. k \in 1 .. Len(p) /\ p[k] = x
      BY <1>2, <2>3
    <3>2. l - Len(p) \in 1 .. Len(q) /\ q[l - Len(p)] = x
      BY <1>2, <2>3
    <3> QED BY <3>1, <3>2, ElemsOf
  <2> QED BY <1>2, <1>3, <2>1, <2>2, <2>3
<1> QED BY <1>1, <1>3 DEF Once

\* The TAILQ links of session.c: a context is on one queue at a time, once, and no
\* queue holds a context that was freed (refused long commands apart).
THEOREM QueuesSound == Spec => []QueuesHoldLiveContexts
<1>1. Inv => QueuesHoldLiveContexts
  <2> SUFFICES ASSUME Inv PROVE QueuesHoldLiveContexts
    OBVIOUS
  <2>1. PICK e, cq, tid, err, p, q, a :
           /\ e = env.queue /\ cq = th.cq /\ tid = th.tid /\ err = th.err
           /\ p = e \o cq /\ q = p \o tid /\ a = q \o err
    OBVIOUS
  <2>2. Queues(e, cq, tid, err, RefusedCmds) /\ a = AllQueues
    BY <2>1 DEF Inv, QueueInv, AllQueues
  <2>3. e \in Seq(Ctxs) /\ cq \in Seq(Ctxs) /\ tid \in Seq(Ctxs) /\ err \in Seq(Ctxs)
    <3>1. e \in Seq(Cmds) /\ tid \in Seq(Long)
      BY <2>2 DEF Queues
    <3> QED BY <2>2, <3>1, CommandAssumption DEF Queues, Ctxs
  <2>01. p = e \o cq
    BY <2>1
  <2>02. q = p \o tid
    BY <2>1
  <2>03. a = q \o err
    BY <2>1
  <2>4. p \in Seq(Ctxs) /\ Elems(p) = Elems(e) \cup Elems(cq)
    BY <2>01, <2>3, ConcatQueue
  <2>5. q \in Seq(Ctxs) /\ Elems(q) = Elems(p) \cup Elems(tid)
    BY <2>02, <2>3, <2>4, ConcatQueue
  <2>6. a \in Seq(Ctxs) /\ Elems(a) = Elems(q) \cup Elems(err)
    BY <2>03, <2>3, <2>5, ConcatQueue
  <2>7. ASSUME NEW i \in 1 .. Len(a), NEW x, x = a[i], x = Query \/ ~Refused(x)
        PROVE  ctx[x].live /\ \A j \in 1 .. Len(a) : a[j] = x => j = i
    <3>1. x \in Elems(a) /\ x \in Ctxs
      BY <2>6, <2>7, ElemsOf
    <3>2. x \in Elems(e) \cup Elems(cq) \cup Elems(tid) \cup Elems(err)
      BY <2>4, <2>5, <2>6, <3>1
    <3>3. x \notin RefusedCmds
      BY <2>7, CmdsAreContexts DEF RefusedCmds
    <3>4. Once(e, x) /\ Once(cq, x) /\ Once(tid, x) /\ Once(err, x)
      BY <2>2 DEF Queues, Injective, Once
    <3>5. /\ ~(x \in Elems(e) /\ x \in Elems(cq)) /\ ~(x \in Elems(p) /\ x \in Elems(tid))
          /\ ~(x \in Elems(q) /\ x \in Elems(err))
      BY <2>2, <2>4, <2>5, <3>3 DEF Queues
    <3>6. Once(p, x)
      BY <2>1, <2>3, <3>4, <3>5, OnceInConcat
    <3>7. Once(q, x)
      BY <2>1, <2>3, <2>4, <3>4, <3>5, <3>6, OnceInConcat
    <3>8. Once(a, x)
      BY <2>1, <2>3, <2>5, <3>4, <3>5, <3>7, OnceInConcat
    <3>9. ctx[x].live
      <4>1. CASE x \in Cmds
        <5>1. PlaceOK(x) /\ ~Refused(x) /\ (InOpen(x) \/ InLate(x))
          BY <2>1, <3>2, <3>3, <4>1 DEF Inv, CmdInv, RefusedCmds, InOpen, InLate
        <5> QED BY <5>1 DEF PlaceOK
      <4>2. CASE x = Query
        <5>1. th.pc # "exited"
          <6>1. x \in Elems(cq) \cup Elems(err)
            <7>1. Elems(e) \subseteq Cmds /\ Elems(tid) \subseteq Long
              BY <2>2, ElemsOf DEF Queues
            <7> QED BY <3>2, <4>2, <7>1, CmdsAreContexts
          <6> QED BY <2>1, <6>1 DEF Inv, QueueInv, CursorOK
        <5> QED BY <4>2, <5>1 DEF Inv, QueryInv
      <4> QED BY <3>1, <4>1, <4>2 DEF Ctxs
    <3> QED BY <2>7, <3>8, <3>9 DEF Once
  <2> QED BY <2>2, <2>7 DEF QueuesHoldLiveContexts
<1> QED BY <1>1, Invariance, PTL

=============================================================================
