------------------------- MODULE CommServiceProofs -------------------------
(***************************************************************************)
(* What the communication layer promises: the counters of the channels are *)
(* the uses there really are, and every step is a step of CommandService   *)
(* or leaves its state alone.                                              *)
(***************************************************************************)
EXTENDS CommSessionProofs

-----------------------------------------------------------------------------
(* channel.c: the counters.  No bound on the commands is assumed, so that  *)
(* finitely many contexts are alive is part of the invariant.              *)

LiveCtxs == {x \in Ctxs : ctx[x].live}
UsesOf(ch) == {x \in Ctxs : ctx[x].live /\ ctx[x].chan = ch}
BalanceInv == IsFiniteSet(LiveCtxs) /\ ChannelsBalanced

\* No asynchronous long command is refused by the SSD: session.c frees the context of
\* one that is, and its channel, a second time (RefusedLongLeaves).
NoRefusal == \A c \in Long \ Sync : <<c, "cmd">> \notin CqeErrors

LEMMA UsesFinite ==
  ASSUME BalanceInv, NEW ch \in Channels
  PROVE  /\ IsFiniteSet(UsesOf(ch)) /\ Cardinality(UsesOf(ch)) \in Nat
         /\ use_cnt[ch] = Cardinality(UsesOf(ch))
<1>1. IsFiniteSet(UsesOf(ch))
  <2>1. UsesOf(ch) \in SUBSET LiveCtxs
    BY DEF UsesOf, LiveCtxs
  <2> QED BY <2>1, FS_Subset DEF BalanceInv
<1>2. use_cnt[ch] = Cardinality(UsesOf(ch))
  BY DEF BalanceInv, ChannelsBalanced, UsesOf
<1> QED BY <1>1, <1>2, FS_CardinalityType

\* Steps that neither take nor give back a channel.
SameUses ==
    /\ use_cnt' = use_cnt
    /\ \A x \in Ctxs : (ctx'[x].live <=> ctx[x].live) /\ ctx'[x].chan = ctx[x].chan

LEMMA KeepsBalance ==
  ASSUME BalanceInv, SameUses
  PROVE  BalanceInv'
<1>1. LiveCtxs' = LiveCtxs
  BY DEF LiveCtxs, SameUses
<1>2. ASSUME NEW ch \in Channels PROVE UsesOf(ch)' = UsesOf(ch)
  BY DEF UsesOf, SameUses
<1>3. ChannelsBalanced'
  <2> SUFFICES ASSUME NEW ch \in Channels PROVE use_cnt'[ch] = Cardinality(UsesOf(ch)')
    BY DEF ChannelsBalanced, UsesOf
  <2>1. use_cnt'[ch] = use_cnt[ch]
    BY DEF SameUses
  <2> QED BY <1>2, <2>1, UsesFinite
<1> QED BY <1>1, <1>3 DEF BalanceInv

\* Steps that free the contexts in S, each of them alive, and release their channels.
FreesUses(S) ==
    /\ S \subseteq LiveCtxs /\ use_cnt' = Released(S)
    /\ \A x \in Ctxs : /\ ctx'[x].live <=> ctx[x].live /\ x \notin S
                       /\ ctx'[x].chan = ctx[x].chan

LEMMA FreesBalance ==
  ASSUME BalanceInv, NEW S, FreesUses(S)
  PROVE  BalanceInv'
<1>1. LiveCtxs' = LiveCtxs \ S
  BY DEF LiveCtxs, FreesUses
<1>2. IsFiniteSet(LiveCtxs \ S)
  BY FS_Difference DEF BalanceInv
<1>3. ChannelsBalanced'
  <2> SUFFICES ASSUME NEW ch \in Channels PROVE use_cnt'[ch] = Cardinality(UsesOf(ch)')
    BY DEF ChannelsBalanced, UsesOf
  <2>1. PICK R : R = {x \in S : ctx[x].chan = ch}
    OBVIOUS
  <2>2. UsesOf(ch)' = UsesOf(ch) \ R
    BY <2>1 DEF UsesOf, FreesUses
  <2>3. UsesOf(ch) \cap R = R
    BY <2>1 DEF UsesOf, FreesUses, LiveCtxs
  <2>4. Cardinality(UsesOf(ch) \ R) = Cardinality(UsesOf(ch)) - Cardinality(R)
    <3>1. PICK U : U = UsesOf(ch)
      OBVIOUS
    <3>2. IsFiniteSet(U)
      BY <3>1, UsesFinite
    <3>3. Cardinality(U \ R) = Cardinality(U) - Cardinality(U \cap R)
      BY <3>2, FS_Difference
    <3> QED BY <2>3, <3>1, <3>3
  <2>5. use_cnt'[ch] = use_cnt[ch] - Cardinality(R)
    BY <2>1 DEF FreesUses, Released
  <2> QED BY <2>2, <2>4, <2>5, UsesFinite
<1> QED BY <1>1, <1>2, <1>3 DEF BalanceInv

\* comm_channel_controller_get_channel
LEMMA StartBalance ==
  ASSUME Inv, BalanceInv, NEW c \in Cmds, Start(c)
  PROVE  BalanceInv'
<1>1. PICK l : l = LeastUsed
  OBVIOUS
<1>2. l \in Channels
  BY <1>1, ChannelFound DEF Inv, Types
<1>3. PICK n : n = NewContext(l)
  OBVIOUS
<1>4. n.live /\ n.chan = l
  BY <1>3 DEF NewContext
<1>5. ctx' = [ctx EXCEPT ![c] = n] /\ use_cnt' = [use_cnt EXCEPT ![l] = @ + 1]
  BY <1>1, <1>3 DEF Start
<1>6. /\ ctx'[c] = n /\ \A x \in Ctxs \ {c} : ctx'[x] = ctx[x]
      /\ c \in Ctxs /\ ~ctx[c].live
  <2>1. PlaceOK(c) /\ caller[c] = "idle"
    BY DEF Inv, CmdInv, Start
  <2> QED BY <1>5, <2>1, CmdsAreContexts DEF Inv, Types, PlaceOK
<1>7. LiveCtxs' = LiveCtxs \cup {c}
  BY <1>4, <1>6 DEF LiveCtxs
<1>8. IsFiniteSet(LiveCtxs \cup {c})
  BY FS_AddElement DEF BalanceInv
<1>9. ChannelsBalanced'
  <2> SUFFICES ASSUME NEW ch \in Channels PROVE use_cnt'[ch] = Cardinality(UsesOf(ch)')
    BY DEF ChannelsBalanced, UsesOf
  <2>1. CASE ch = l
    <3>1. UsesOf(ch)' = UsesOf(ch) \cup {c} /\ c \notin UsesOf(ch)
      BY <1>4, <1>6, <2>1 DEF UsesOf
    <3>2. Cardinality(UsesOf(ch) \cup {c}) = Cardinality(UsesOf(ch)) + 1
      BY <3>1, UsesFinite, FS_AddElement
    <3>3. use_cnt'[ch] = use_cnt[ch] + 1
      BY <1>2, <1>5, <2>1 DEF Inv, Types
    <3> QED BY <3>1, <3>2, <3>3, UsesFinite
  <2>2. CASE ch # l
    <3>1. UsesOf(ch)' = UsesOf(ch)
      BY <1>4, <1>6, <2>2 DEF UsesOf
    <3>2. use_cnt'[ch] = use_cnt[ch]
      BY <1>2, <1>5, <2>2 DEF Inv, Types
    <3> QED BY <3>1, <3>2, UsesFinite
  <2> QED BY <2>1, <2>2
<1> QED BY <1>7, <1>8, <1>9 DEF BalanceInv

LEMMA BalanceInit == Init => BalanceInv
<1> SUFFICES ASSUME Init PROVE BalanceInv
  OBVIOUS
<1>1. \A x \in Ctxs : /\ ctx[x].live <=> x = Query
                      /\ ctx[x].chan = IF x = Query THEN 1 ELSE 0
  BY DEF Init, NewContext, NoContext
<1>2. Query \in Ctxs /\ IsFiniteSet({Query}) /\ Cardinality({Query}) = 1
  BY CmdsAreContexts, FS_Singleton
<1>3. LiveCtxs = {Query}
  BY <1>1, <1>2 DEF LiveCtxs
<1>4. ASSUME NEW ch \in Channels PROVE use_cnt[ch] = Cardinality(UsesOf(ch))
  <2>1. UsesOf(ch) = IF ch = 1 THEN {Query} ELSE {}
    BY <1>1, <1>2 DEF UsesOf
  <2>2. use_cnt[ch] = IF ch = 1 THEN 1 ELSE 0
    BY DEF Init
  <2> QED BY <1>2, <2>1, <2>2, FS_EmptySet
<1> QED BY <1>2, <1>3, <1>4 DEF BalanceInv, ChannelsBalanced, UsesOf

-----------------------------------------------------------------------------
(* Every step but Start keeps the uses or frees contexts that are alive. *)

BalancedStep == SameUses \/ \E S : FreesUses(S)

\* polling_thread_process_cplt_cmd, from contexts n that are the same uses.
LEMMA CompleteUses ==
  ASSUME ctx \in [Ctxs -> Context], NEW x \in Ctxs, NEW n \in [Ctxs -> Context],
         \A d \in Ctxs : n[d].live = ctx[d].live /\ n[d].chan = ctx[d].chan,
         NEW t, NEW busy, process_cplt_cmd(x, n, t, busy), x \notin Sync => ctx[x].live
  PROVE  BalancedStep
<1>1. CASE CompleteAsync(x, n, t)
  <2>1. /\ x \notin Sync /\ ctx' = [n EXCEPT ![x].live = FALSE] /\ use_cnt' = Released({x})
    BY <1>1 DEF CompleteAsync
  <2>2. n[x] \in Context
    OBVIOUS
  <2>3. /\ ~ctx'[x].live /\ ctx'[x].chan = n[x].chan
        /\ \A d \in Ctxs \ {x} : ctx'[d] = n[d]
    BY <2>1, <2>2 DEF Context
  <2>4. FreesUses({x})
    BY <2>1, <2>3 DEF FreesUses, LiveCtxs
  <2> QED BY <2>4 DEF BalancedStep
<1>2. CASE CompleteSync(x, n, t)
  <2>1. ctx' = [n EXCEPT ![x].cplt = TRUE] /\ use_cnt' = use_cnt
    BY <1>2 DEF CompleteSync
  <2>2. n[x] \in Context
    OBVIOUS
  <2>3. /\ ctx'[x].live = n[x].live /\ ctx'[x].chan = n[x].chan
        /\ \A d \in Ctxs \ {x} : ctx'[d] = n[d]
    BY <2>1, <2>2 DEF Context
  <2>4. SameUses
    BY <2>1, <2>3 DEF SameUses
  <2> QED BY <2>4 DEF BalancedStep
<1>3. CASE CompleteQuery(x, n, t) \/ CompleteBusy(x, n, busy)
  <2>1. ctx' = n /\ use_cnt' = use_cnt
    BY <1>3 DEF CompleteQuery, CompleteBusy
  <2> QED BY <2>1 DEF SameUses, BalancedStep
<1> QED BY <1>1, <1>2, <1>3 DEF process_cplt_cmd

LEMMA UsesCaller ==
  ASSUME Inv, NEW c \in Cmds, Caller(c)
  PROVE  BalancedStep
<1>1. ctx \in [Ctxs -> Context] /\ c \in Ctxs /\ CmdInv(c)
  BY CmdsAreContexts DEF Inv, Types
<1>2. ASSUME ctx' = [ctx EXCEPT ![c].live = FALSE], use_cnt' = Released({c}), ctx[c].live
      PROVE  BalancedStep
  <2>1. ctx[c] \in Context
    BY <1>1
  <2>2. /\ ~ctx'[c].live /\ ctx'[c].chan = ctx[c].chan
        /\ \A d \in Ctxs \ {c} : ctx'[d] = ctx[d]
    BY <1>1, <1>2, <2>1 DEF Context
  <2>3. FreesUses({c})
    BY <1>1, <1>2, <2>2 DEF FreesUses, LiveCtxs
  <2> QED BY <2>3 DEF BalancedStep
<1>3. CASE SendFails(c)
  BY <1>1, <1>2, <1>3 DEF SendFails, CmdInv, PlaceOK
<1>4. CASE SyncReturn(c)
  BY <1>1, <1>2, <1>4 DEF SyncReturn, CmdInv, PlaceOK, AnswerOK
<1>5. CASE UNCHANGED <<ctx, use_cnt>>
  BY <1>5 DEF SameUses, BalancedStep
<1> QED BY <1>3, <1>4, <1>5 DEF Caller, SendIo, UnlockChannel, SendAdmin, Submit, UnlockQueue,
                               Notify, LockWaitMtx, SleepUntilCplt

\* Contexts changed in nothing the counters depend on.
LEMMA UsesContexts ==
  ASSUME Inv, PollCq \/ ReceivedLong \/ MatchTids \/ QueryResult \/ SendQuery \/ SendQueryFails
  PROVE  BalancedStep
<1>1. ctx \in [Ctxs -> Context] /\ use_cnt' = use_cnt
  BY DEF Inv, Types, PollCq, ReceivedLong, MatchTids, QueryResult, SendQuery, SendQueryFails
<1>2. ASSUME NEW d \in Ctxs PROVE (ctx'[d].live <=> ctx[d].live) /\ ctx'[d].chan = ctx[d].chan
  <2>1. ctx[d] \in Context
    BY <1>1
  <2>2. CASE PollCq
    <3>1. PICK S : ctx' = [x \in Ctxs |-> IF x \in S
                 THEN [ctx[x] EXCEPT !.result = CallbackResult(x), !.st = CallbackState(x)]
                 ELSE ctx[x]]
      BY <2>2 DEF PollCq, Deliver
    <3>2. PICK r, s : ctx'[d] = [ctx[d] EXCEPT !.result = r, !.st = s] \/ ctx'[d] = ctx[d]
      BY <3>1
    <3> QED BY <2>1, <3>2 DEF Context
  <2>3. CASE ReceivedLong
    <3>1. PICK x : ctx' = [ctx EXCEPT ![x].st = IF @ = "received" THEN "wait_query" ELSE @]
      BY <2>3 DEF ReceivedLong, AwaitingTid
    <3>2. PICK s : ctx'[d] = [ctx[d] EXCEPT !.st = s] \/ ctx'[d] = ctx[d]
      BY <1>1, <3>1
    <3> QED BY <2>1, <3>2 DEF Context
  <2>4. CASE MatchTids
    <3>1. ctx'[d] = [ctx[d] EXCEPT !.st = "can_query"] \/ ctx'[d] = ctx[d]
      BY <2>4 DEF MatchTids
    <3> QED BY <2>1, <3>1 DEF Context
  <2>5. CASE QueryResult
    <3>1. PICK x : ctx' = [ctx EXCEPT ![x].st = "need_polling"]
      BY <2>5 DEF QueryResult
    <3>2. ctx'[d] = [ctx[d] EXCEPT !.st = "need_polling"] \/ ctx'[d] = ctx[d]
      BY <1>1, <3>1
    <3> QED BY <2>1, <3>2 DEF Context
  <2>6. CASE SendQuery \/ SendQueryFails
    <3>1. ctx' = [ctx EXCEPT ![Query] = NewContext(@.chan)] /\ th.pc # "exited"
      BY <2>6 DEF SendQuery, SendQueryFails, TidPassDone, At
    <3>2. ctx[Query].live /\ Query \in Ctxs
      BY <3>1, CmdsAreContexts DEF Inv, QueryInv
    <3>3. ctx'[Query].live /\ ctx'[Query].chan = ctx[Query].chan
      BY <1>1, <3>1, <3>2 DEF NewContext
    <3>4. d # Query => ctx'[d] = ctx[d]
      BY <1>1, <3>1
    <3> QED BY <3>2, <3>3, <3>4
  <2> QED BY <2>2, <2>3, <2>4, <2>5, <2>6
<1> QED BY <1>1, <1>2 DEF SameUses, BalancedStep

\* An asynchronous long command was not refused, when none is.
LEMMA AsyncAccepted ==
  ASSUME NoRefusal, NEW c \in Cmds, CmdInv(c), c \notin Sync
  PROVE  ~Refused(c)
<1>1. <<"error">> # <<>> /\ <<"error">>[1] = "error"
  BY Tuples
<1> QED BY <1>1 DEF NoRefusal, CmdInv, TaskOK, Refused

LEMMA UsesCompleted ==
  ASSUME NoRefusal, Inv, ReceivedShort \/ ReceivedLongError \/ LongDone
  PROVE  BalancedStep
<1>1. /\ ctx \in [Ctxs -> Context] /\ th \in ThreadType /\ QueueInv
      /\ \A c \in Cmds : CmdInv(c)
  BY DEF Inv, Types
<1>2. CASE ReceivedShort
  <2>1. PICK x \in th.cur : /\ Received(x)
                            /\ \E t, busy : process_cplt_cmd(x, ctx, t, busy)
    BY <1>2 DEF ReceivedShort
  <2>2. OnCq(x) /\ th.pc # "exited"
    BY <1>1, <2>1, TakenFromCq DEF Received, At
  <2>3. ctx[x].live
    BY <1>1, <2>2 DEF OnCq, Ctxs, CmdInv, PlaceOK, InOpen, Inv, QueryInv
  <2> QED BY <1>1, <2>1, <2>2, <2>3, CompleteUses DEF OnCq
<1>3. CASE ReceivedLongError
  <2>0. PICK x \in th.cur \cap Long :
           Received(x) /\ \E t, busy : process_cplt_cmd(x, AwaitingTid(x), t, busy)
    BY <1>3 DEF ReceivedLongError
  <2>1. PICK n : /\ x \in th.cur \cap Long /\ Received(x) /\ n = AwaitingTid(x)
                 /\ \E t, busy : process_cplt_cmd(x, n, t, busy)
    BY <2>0
  <2>2. OnCq(x)
    BY <1>1, <2>1, TakenFromCq DEF Received, At
  <2>3. x \in Cmds /\ x \in Ctxs /\ ctx[x] \in Context
    BY <1>1, <2>1, CmdsAreContexts, CommandAssumption
  <2>4. ctx[x].live
    BY <1>1, <2>2, <2>3 DEF OnCq, CmdInv, PlaceOK, InOpen
  <2>5. PICK m : m = [ctx[x] EXCEPT !.st = IF @ = "received" THEN "wait_query" ELSE @]
    OBVIOUS
  <2>6. m \in Context /\ m.live = ctx[x].live /\ m.chan = ctx[x].chan
    BY <2>3, <2>5 DEF Context, CmdStates
  <2>7. n = [ctx EXCEPT ![x] = m]
    BY <1>1, <2>1, <2>3, <2>5 DEF AwaitingTid
  <2>8. /\ n \in [Ctxs -> Context]
        /\ \A d \in Ctxs : n[d].live = ctx[d].live /\ n[d].chan = ctx[d].chan
    BY <1>1, <2>3, <2>6, <2>7
  <2> QED BY <1>1, <2>1, <2>3, <2>4, <2>8, CompleteUses
<1>4. CASE LongDone
  <2>1. PICK x \in th.cur : /\ ctx[x].st = "cplt_query" /\ th.pc = "tid"
                            /\ \E t, busy : process_cplt_cmd(x, ctx, t, busy)
    BY <1>4 DEF LongDone, At
  <2>2. OnTid(x)
    BY <1>1, <2>1, TakenFromTid
  <2>3. x \in Cmds /\ x \in Ctxs
    BY <2>2, CmdsAreContexts, CommandAssumption DEF OnTid
  <2>4. CmdInv(x) /\ InLate(x)
    BY <1>1, <2>2, <2>3 DEF OnTid, InLate
  <2>5. x \notin Sync => ctx[x].live
    BY <2>3, <2>4, AsyncAccepted DEF CmdInv, PlaceOK
  <2> QED BY <1>1, <2>1, <2>3, <2>5, CompleteUses
<1> QED BY <1>2, <1>3, <1>4

\* session_clear_queue, by the polling thread and by comm_session_env_fini.
LEMMA UsesCleared ==
  ASSUME NoRefusal, Inv, ExitPolling \/ FiniJoin
  PROVE  BalancedStep
<1>1. /\ ctx \in [Ctxs -> Context] /\ th \in ThreadType /\ env.queue \in Seq(Cmds)
      /\ \A c \in Cmds : CmdInv(c)
  BY DEF Inv, Types, EnvType
<1>2. ASSUME NEW S, S \subseteq LiveCtxs, ctx' = Freed(S), use_cnt' = Released(S)
      PROVE  BalancedStep
  <2>1. \A x \in Ctxs : /\ x \notin S => ctx'[x] = ctx[x]
                        /\ x \in S => ~ctx'[x].live
                        /\ ctx'[x].chan = ctx[x].chan
    BY <1>1, <1>2, FreedContexts
  <2>2. FreesUses(S)
    BY <1>2, <2>1 DEF FreesUses
  <2> QED BY <2>2 DEF BalancedStep
<1>3. ASSUME NEW c \in Cmds, c \notin Sync, InOpen(c) \/ InLate(c) PROVE c \in LiveCtxs
  <2>1. ctx[c].live
    BY <1>1, <1>3, AsyncAccepted DEF CmdInv, PlaceOK
  <2> QED BY <2>1, CmdsAreContexts DEF LiveCtxs
<1>4. CASE ExitPolling
  <2>1. ctx' = Freed(ExitSet) /\ use_cnt' = Released(ExitSet) /\ th.pc = "end"
    BY <1>4 DEF ExitPolling, ExitSet, At
  <2>2. Query \in LiveCtxs
    BY <2>1, CmdsAreContexts DEF Inv, QueryInv, LiveCtxs
  <2>3. ASSUME NEW x \in ExitSet PROVE x \in LiveCtxs
    <3>1. x = Query \/ (x \in Elems(th.cq) \cup Elems(th.tid) \cup Elems(th.err) /\ x \notin Sync)
      BY <1>1, <2>3, ExitSetIs
    <3>2. Elems(th.cq) \cup Elems(th.tid) \cup Elems(th.err) \subseteq Ctxs
      BY <1>1, ThreadFields, ElemsOf
    <3> QED BY <1>3, <2>2, <3>1, <3>2 DEF Ctxs, InOpen, InLate
  <2>4. ExitSet \subseteq LiveCtxs
    BY <2>3
  <2> QED BY <1>2, <2>1, <2>4
<1>5. CASE FiniJoin
  <2>1. PICK S : S = Owned(env.queue)
    OBVIOUS
  <2>2. ctx' = Freed(S) /\ use_cnt' = Released(S)
    BY <1>5, <2>1 DEF FiniJoin
  <2>3. Elems(env.queue) \subseteq Cmds
    BY <1>1, ElemsOf
  <2>4. S \subseteq LiveCtxs
    BY <1>3, <2>1, <2>3 DEF Owned, InOpen
  <2> QED BY <1>2, <2>2, <2>4
<1> QED BY <1>4, <1>5

LEMMA BalanceStep ==
  ASSUME NoRefusal, Inv, BalanceInv, [Next]_vars
  PROVE  BalanceInv'
<1>1. ASSUME BalancedStep PROVE BalanceInv'
  BY <1>1, KeepsBalance, FreesBalance DEF BalancedStep
<1>2. CASE UNCHANGED <<ctx, use_cnt>>
  BY <1>1, <1>2 DEF SameUses, BalancedStep
<1>3. CASE \E c \in Cmds : Start(c) \/ Caller(c)
  BY <1>1, <1>3, StartBalance, UsesCaller
<1>4. CASE \/ PollCq \/ ReceivedLong \/ MatchTids \/ QueryResult \/ SendQuery \/ SendQueryFails
  BY <1>1, <1>4, UsesContexts
<1>5. CASE ReceivedShort \/ ReceivedLongError \/ LongDone
  BY <1>1, <1>5, UsesCompleted
<1>6. CASE ExitPolling \/ FiniJoin
  BY <1>1, <1>6, UsesCleared
<1>7. \/ UNCHANGED <<ctx, use_cnt>> \/ \E c \in Cmds : Start(c) \/ Caller(c)
      \/ PollCq \/ ReceivedLong \/ MatchTids \/ QueryResult \/ SendQuery \/ SendQueryFails
      \/ ReceivedShort \/ ReceivedLongError \/ LongDone \/ ExitPolling \/ FiniJoin
  <2>1. CASE Polling
    BY <2>1 DEF Polling, Fetch, FetchBusy, FetchWait, Broadcast, PollBusy, PollFails, NotReceived,
                QueryResultFails, StillRunning, StartTimer, TakeTids, NoQueryWork, Again
  <2>2. CASE Fini
    BY <2>2 DEF Fini, FiniRequest, FiniNotify
  <2>3. CASE TimerExpires \/ UNCHANGED vars
    BY <2>3 DEF TimerExpires, vars
  <2>4. CASE \/ \E c \in Cmds : Start(c) \/ Caller(c) \/ TaskFinishes(c)
             \/ \E x \in Ctxs : SSDStep(x)
    BY <2>4 DEF TaskFinishes, SSDStep, Post
  <2> QED BY <2>1, <2>2, <2>3, <2>4 DEF Next
<1> QED BY <1>2, <1>3, <1>4, <1>5, <1>6, <1>7

\* channel.c's channel_use_cnt: the uses counted for a channel are the contexts alive
\* on it, whichever thread gave the others back, on every path; so none falls below
\* zero.  (If no asynchronous long command is refused: see NoRefusal.)
THEOREM ChannelsAreBalanced == ASSUME NoRefusal PROVE Spec => []ChannelsBalanced
<1>1. Inv /\ BalanceInv /\ [Next]_vars => (Inv /\ BalanceInv)'
  BY InvStep, BalanceStep
<1>2. Init => Inv /\ BalanceInv
  BY InvInit, BalanceInit
<1>3. Inv /\ BalanceInv => ChannelsBalanced
  BY DEF BalanceInv
<1> QED BY <1>1, <1>2, <1>3, PTL DEF Spec

\* Every variable keeps its type, and the counters of the channels their sign.
THEOREM TypeCorrect == ASSUME NoRefusal PROVE Spec => []TypeOK
<1>1. Inv /\ BalanceInv /\ [Next]_vars => (Inv /\ BalanceInv)'
  BY InvStep, BalanceStep
<1>2. Init => Inv /\ BalanceInv
  BY InvInit, BalanceInit
<1>3. Inv /\ BalanceInv => TypeOK
  <2> SUFFICES ASSUME Inv, BalanceInv PROVE TypeOK
    OBVIOUS
  <2>1. use_cnt \in [Channels -> Nat]
    <3>1. \A ch \in Channels : use_cnt[ch] \in Nat
      BY UsesFinite
    <3> QED BY <3>1 DEF Inv, Types
  <2> QED BY <2>1 DEF Inv, Types, TypeOK, EnvType, IoType, Results
<1> QED BY <1>1, <1>2, <1>3, PTL DEF Spec

-----------------------------------------------------------------------------
(* The refinement of CommandService.  A command's status is told by its    *)
(* caller's place, its answers and what the SSD posted; the invariant says *)
(* that the last two agree.                                                *)

SameStatus(c) ==
    /\ answers'[c] = answers[c] /\ posted'[c] = posted[c]
    /\ caller'[c] = "failed" <=> caller[c] = "failed"
    /\ caller'[c] \in {"idle", "send"} <=> caller[c] \in {"idle", "send"}

SameGone == th'.pc = "exited" <=> th.pc = "exited"

ServiceStep == Service!Next \/ UNCHANGED <<CmdStatus, Gone>>

LEMMA StatusKept ==
  ASSUME NEW c \in Cmds, SameStatus(c)
  PROVE  Status(c)' = Status(c)
<1>1. Final(c)' <=> Final(c)
  BY DEF SameStatus, Final
<1> QED BY <1>1 DEF Status, SameStatus

LEMMA ServiceStutters ==
  ASSUME \A c \in Cmds : SameStatus(c), SameGone
  PROVE  ServiceStep
<1>1. CmdStatus' = CmdStatus
  BY StatusKept DEF CmdStatus
<1>2. Gone' = Gone
  BY DEF Gone, SameGone
<1> QED BY <1>1, <1>2 DEF ServiceStep

LEMMA ServiceMoves ==
  ASSUME NEW c \in Cmds, \A d \in Cmds \ {c} : SameStatus(d), SameGone,
         NEW from, Status(c) = from, NEW to, Status(c)' = to
  PROVE  Service!Move(c, from, to)
<1>1. \A d \in Cmds \ {c} : Status(d)' = Status(d)
  BY StatusKept
<1>2. CmdStatus[c] = from /\ CmdStatus' = [CmdStatus EXCEPT ![c] = to]
  BY <1>1 DEF CmdStatus
<1>3. Gone' = Gone
  BY DEF Gone, SameGone
<1> QED BY <1>2, <1>3 DEF Service!Move

\* The status of a command by its phase.
LEMMA StatusUnsent ==
  ASSUME NEW c \in Cmds, CmdInv(c), caller[c] \in {"idle", "send"}
  PROVE  Status(c) = "none"
<1>1. posted[c] = <<>> /\ answers[c] = <<>>
  BY DEF CmdInv, Phase, Unsent, NotSent, Open
<1> QED BY <1>1 DEF Status, Final

LEMMA StatusOpen ==
  ASSUME NEW c \in Cmds, caller[c] \notin Unsent, answers[c] = <<>>,
         posted[c] = <<>> \/ (c \in Long /\ posted[c] = <<"ok">>)
  PROVE  Status(c) = "open"
<1>1. ~Final(c)
  <2>1. <<"ok">>[1] = "ok" /\ Len(<<"ok">>) = 1
    BY Tuples
  <2> QED BY <2>1 DEF Final
<1> QED BY <1>1 DEF Status, Unsent

LEMMA StatusFinal ==
  ASSUME NEW c \in Cmds, CmdInv(c), answers[c] = <<>>, Final(c), posted[c] \in Seq(Results)
  PROVE  /\ Status(c) = Service!Executed(posted[c][Len(posted[c])])
         /\ posted[c][Len(posted[c])] \in Results /\ caller[c] \notin Unsent
<1>1. caller[c] \notin Unsent
  BY DEF CmdInv, Phase, NotSent, Final
<1>2. posted[c][Len(posted[c])] \in Results
  BY DEF Final
<1> QED BY <1>1, <1>2 DEF Status, Unsent, Service!Executed

\* session.c and comm_api.c: a caller is told the outcome.
LEMMA AnswerIsAnswer ==
  ASSUME Inv, Inv', NEW c \in Cmds, NEW r, answers' = [answers EXCEPT ![c] = Append(@, r)],
         UNCHANGED posted, caller'[c] # "failed", \A d \in Cmds \ {c} : SameStatus(d), SameGone
  PROVE  ServiceStep
<1>1. /\ answers[c] \in Seq(Results) /\ posted[c] \in Seq(Results)
      /\ answers'[c] = Append(answers[c], r) /\ answers'[c] \in Seq(Results)
  BY DEF Inv, Types
<1>2. Len(answers'[c]) = Len(answers[c]) + 1 /\ Len(answers[c]) \in Nat /\ answers'[c] # <<>>
  BY <1>1
<1>3. PICK s : s = posted[c][Len(posted[c])]
  OBVIOUS
<1>4. Final(c) /\ answers'[c] = <<s>>
  <2>1. AnswerOK(c)'
    BY DEF Inv, CmdInv
  <2> QED BY <1>2, <1>3, <2>1 DEF AnswerOK, Final
<1>5. Len(answers'[c]) = 1 /\ answers'[c][1] = s
  BY <1>4, Tuples
<1>6. answers[c] = <<>>
  BY <1>1, <1>2, <1>5
<1>7. Status(c) = Service!Executed(s) /\ s \in Results
  BY <1>1, <1>3, <1>4, <1>6, StatusFinal DEF Inv
<1>8. Status(c)' = s
  BY <1>5 DEF Status
<1>9. Service!Move(c, Service!Executed(s), s)
  BY <1>7, <1>8, ServiceMoves
<1>10. Service!Answer(c)
  BY <1>7, <1>9 DEF Service!Answer, Service!Outcomes, Results
<1> QED BY <1>10 DEF ServiceStep, Service!Next

LEMMA ServiceStart ==
  ASSUME Inv, NEW c \in Cmds, Start(c)
  PROVE  ServiceStep
<1>1. /\ caller \in [Cmds -> CallerStates] /\ caller[c] = "idle"
      /\ caller' = [caller EXCEPT ![c] = "send"] /\ UNCHANGED <<th, answers, posted>>
  BY DEF Inv, Types, Start, Goto, ssdVars
<1> QED BY <1>1, ServiceStutters DEF SameStatus, SameGone

LEMMA ServiceCaller ==
  ASSUME Inv, Inv', NEW c \in Cmds, Caller(c)
  PROVE  ServiceStep
<1>1. /\ caller \in [Cmds -> CallerStates] /\ CmdInv(c) /\ posted' = posted
      /\ \A d \in Cmds \ {c} : caller'[d] = caller[d]
  BY DEF Inv, Types, Caller, SendIo, UnlockChannel, SendAdmin, SendFails, Submit, UnlockQueue,
         Notify, LockWaitMtx, SleepUntilCplt, SyncReturn, Goto, ssdVars
<1>2. SameGone
  <2>1. CASE Notify(c)
    BY <2>1, QuietEnd DEF Inv, Types, QuietThread, SameGone
  <2>2. CASE th' = th
    BY <2>2 DEF SameGone
  <2> QED BY <2>1, <2>2 DEF Caller, SendIo, UnlockChannel, SendAdmin, SendFails, Submit, UnlockQueue,
                           LockWaitMtx, SleepUntilCplt, SyncReturn
<1>3. CASE SyncReturn(c)
  <2>1. /\ answers' = [answers EXCEPT ![c] = Append(@, Outcome(c))] /\ caller'[c] # "failed"
    BY <1>1, <1>3 DEF SyncReturn, Goto
  <2>2. \A d \in Cmds \ {c} : SameStatus(d)
    BY <1>1, <2>1 DEF SameStatus, Inv, Types
  <2> QED BY <1>1, <1>2, <2>1, <2>2, AnswerIsAnswer
<1>4. CASE ~SyncReturn(c)
  <2>1. answers' = answers
    BY <1>4 DEF Caller, SendIo, UnlockChannel, SendAdmin, SendFails, Submit, UnlockQueue,
                Notify, LockWaitMtx, SleepUntilCplt
  <2>2. \A d \in Cmds \ {c} : SameStatus(d)
    BY <1>1, <2>1 DEF SameStatus
  <2>3. CASE SendIo(c) \/ SendAdmin(c)
    <3>1. caller[c] = "send" /\ caller'[c] \notin Unsent
      BY <1>1, <2>3 DEF SendIo, SendAdmin, Goto, Unsent
    <3>2. Status(c) = "none" /\ posted[c] = <<>> /\ answers[c] = <<>>
      BY <1>1, <3>1, StatusUnsent DEF CmdInv, Phase, Unsent, NotSent, Open
    <3>3. Status(c)' = "open"
      <4>1. ~Final(c)'
        BY <1>1, <3>2 DEF Final
      <4> QED BY <2>1, <3>1, <3>2, <4>1 DEF Status, Unsent
    <3>4. Service!Issue(c)
      BY <1>2, <2>2, <3>2, <3>3, ServiceMoves DEF Service!Issue
    <3> QED BY <3>4 DEF ServiceStep, Service!Next
  <2>4. CASE SendFails(c)
    <3>1. caller[c] = "send" /\ caller'[c] = "failed"
      BY <1>1, <2>4 DEF SendFails, Goto
    <3>2. Status(c) = "none" /\ Status(c)' = "rejected"
      BY <1>1, <3>1, StatusUnsent DEF Status
    <3>3. Service!Reject(c)
      BY <1>2, <2>2, <3>2, ServiceMoves DEF Service!Reject
    <3> QED BY <3>3 DEF ServiceStep, Service!Next
  <2>5. CASE ~SendIo(c) /\ ~SendAdmin(c) /\ ~SendFails(c)
    <3>1. caller[c] \notin Unsent /\ caller'[c] \notin Unsent
      BY <1>1, <1>4, <2>5 DEF Caller, UnlockChannel, Submit, UnlockQueue, AfterSubmit,
                              Notify, LockWaitMtx, SleepUntilCplt, Goto, Unsent
    <3>2. SameStatus(c)
      BY <1>1, <2>1, <3>1 DEF SameStatus, Unsent
    <3> QED BY <1>2, <2>2, <3>2, ServiceStutters
  <2> QED BY <2>3, <2>4, <2>5
<1> QED BY <1>3, <1>4

\* The SSD's completion of a command executes it, unless a result is still to be asked for.
LEMMA ServicePost ==
  ASSUME Inv, Inv', NEW c \in Cmds, NEW r \in Results, Post(c, r)
  PROVE  ServiceStep
<1>1. /\ io[c].op # "none" /\ io[c].cqe = "none" /\ UNCHANGED <<caller, th, answers>>
      /\ posted' = [d \in Cmds |-> IF d = c THEN Append(posted[d], r) ELSE posted[d]]
  BY DEF Post
<1>2. CmdInv(c) /\ CmdInv(c)' /\ posted'[c] \in Seq(Results)
  BY DEF Inv, Types
<1>3. CmdOut(c) \/ ResultOut(c)
  BY <1>1, <1>2 DEF CmdInv, Phase, NotSent, CmdBack, CmdSeen, ResultBack, ResultSeen, NoIo, Results
<1>4. answers[c] = <<>> /\ caller[c] \notin Unsent
  BY <1>1, <1>2, <1>3 DEF CmdInv, Phase, NotSent, CmdOut, ResultOut, Open, NoIo
<1>5. (\A d \in Cmds \ {c} : SameStatus(d)) /\ SameGone
  BY <1>1 DEF SameStatus, SameGone
<1>6. Status(c) = "open"
  <2>1. posted[c] = <<>> \/ (c \in Long /\ posted[c] = <<"ok">>)
    BY <1>3 DEF CmdOut, ResultOut
  <2> QED BY <1>4, <2>1, StatusOpen
<1>7. CASE c \in Long /\ posted'[c] = <<"ok">>
  <2>1. ~Final(c)'
    <3>1. <<"ok">>[1] = "ok" /\ Len(<<"ok">>) = 1
      BY Tuples
    <3> QED BY <1>7, <3>1 DEF Final
  <2>2. Status(c)' = "open"
    BY <1>1, <1>4, <2>1 DEF Status, Unsent
  <2>3. CmdStatus' = CmdStatus
    BY <1>5, <1>6, <2>2, StatusKept DEF CmdStatus
  <2>4. Gone' = Gone
    BY <1>1 DEF Gone
  <2> QED BY <2>3, <2>4 DEF ServiceStep
<1>8. CASE ~(c \in Long /\ posted'[c] = <<"ok">>)
  <2>1. Final(c)' /\ posted'[c][Len(posted'[c])] = r
    <3>1. CASE CmdOut(c)
      <4>1. posted'[c] = <<r>>
        BY <1>1, <3>1, Tuples DEF CmdOut
      <4>2. posted'[c] # <<>> /\ posted'[c][1] = r /\ Len(posted'[c]) = 1
        BY <4>1, Tuples
      <4>3. c \in Long => r = "error"
        BY <1>8, <4>1 DEF Results
      <4> QED BY <4>2, <4>3 DEF Final
    <3>2. CASE ResultOut(c)
      <4>1. posted'[c] = <<"ok", r>>
        <5>1. posted[c] = <<"ok">> /\ posted'[c] = Append(posted[c], r)
          BY <1>1, <3>2 DEF ResultOut
        <5> QED BY <5>1, Tuples
      <4>2. posted'[c] # <<>> /\ posted'[c][2] = r /\ Len(posted'[c]) = 2
        BY <4>1, Tuples
      <4> QED BY <4>2 DEF Final
    <3> QED BY <1>3, <3>1, <3>2
  <2>2. Status(c)' = Service!Executed(r)
    BY <1>1, <1>4, <2>1 DEF Status, Unsent, Service!Executed
  <2>3. Service!Execute(c)
    <3>1. Service!Move(c, "open", Service!Executed(r))
      BY <1>5, <1>6, <2>2, ServiceMoves
    <3> QED BY <3>1 DEF Service!Execute, Service!Outcomes, Results
  <2> QED BY <2>3 DEF ServiceStep, Service!Next
<1> QED BY <1>7, <1>8

LEMMA ServiceCompleted ==
  ASSUME Inv, Inv', NEW x, NEW n, NEW t, NEW busy, process_cplt_cmd(x, n, t, busy),
         UNCHANGED <<caller, posted>>, SameGone
  PROVE  ServiceStep
<1>1. CASE CompleteAsync(x, n, t)
  <2>1. x \in Cmds /\ answers' = [answers EXCEPT ![x] = Append(@, Outcome(x))]
    BY <1>1 DEF CompleteAsync
  <2>2. \A d \in Cmds \ {x} : SameStatus(d)
    BY <2>1 DEF SameStatus, Inv, Types
  <2>3. caller'[x] # "failed"
    <3>1. answers'[x] # <<>>
      <4>1. answers[x] \in Seq(Results) /\ answers'[x] = Append(answers[x], Outcome(x))
        BY <2>1 DEF Inv, Types
      <4>2. answers'[x] \in Seq(Results)
        BY <2>1 DEF Inv, Types
      <4> QED BY <4>1, <4>2
    <3>2. CmdInv(x)'
      BY <2>1 DEF Inv
    <3> QED BY <3>1, <3>2 DEF CmdInv, Phase, NotSent, Open, Unsent
  <2> QED BY <2>1, <2>2, <2>3, AnswerIsAnswer
<1>2. CASE CompleteQuery(x, n, t) \/ CompleteSync(x, n, t) \/ CompleteBusy(x, n, busy)
  <2>1. answers' = answers
    BY <1>2 DEF CompleteQuery, CompleteSync, CompleteBusy
  <2> QED BY <2>1, ServiceStutters DEF SameStatus
<1> QED BY <1>1, <1>2 DEF process_cplt_cmd

LEMMA ServicePolling ==
  ASSUME Inv, Inv', Polling
  PROVE  ServiceStep
<1>1. /\ th \in ThreadType /\ QueueInv /\ EnvType /\ tids \subseteq Cmds
      /\ caller \in [Cmds -> CallerStates] /\ posted' = posted
  BY DEF Inv, Types, Polling, Fetch, FetchBusy, FetchWait, Broadcast, PollCq, PollBusy, PollFails,
         NotReceived, ReceivedShort, ReceivedLong, ReceivedLongError, MatchTids, QueryResult,
         QueryResultFails, LongDone, StillRunning, StartTimer, SendQuery, SendQueryFails, TakeTids,
         NoQueryWork, Again, ExitPolling, ssdVars
<1>2. CASE ExitPolling
  <2>1. th'.pc = "exited" /\ UNCHANGED <<caller, answers>>
    BY <1>1, <1>2 DEF ExitPolling, ThreadType
  <2>2. CmdStatus' = CmdStatus
    BY <1>1, <2>1, StatusKept DEF CmdStatus, SameStatus
  <2>3. Gone' = TRUE
    BY <2>1 DEF Gone
  <2> QED BY <2>2, <2>3 DEF ServiceStep, Service!Next, Service!GoDown
<1>3. CASE Broadcast
  <2>1. SameGone
    BY <1>1, <1>3, QuietFetch DEF QuietThread, SameGone
  <2>2. answers' = answers
        /\ caller' = [c \in Cmds |-> IF c \in th.bcast /\ caller[c] = "asleep"
                                     THEN "lock" ELSE caller[c]]
    BY <1>3 DEF Broadcast
  <2>3. \A c \in Cmds : SameStatus(c)
    BY <1>1, <2>2 DEF SameStatus
  <2> QED BY <2>1, <2>3, ServiceStutters
<1>4. CASE ReceivedShort \/ ReceivedLongError \/ LongDone
  <2>1. PICK x, n, t, busy : process_cplt_cmd(x, n, t, busy) /\ t.pc # "exited" /\ busy.pc # "exited"
                             /\ t \in ThreadType
    <3>1. CASE ReceivedShort
      <4>1. PICK x \in th.cur : /\ Received(x)
                /\ process_cplt_cmd(x, ctx, Taken(x), [Taken(x) EXCEPT !.cq = Append(@, x)])
        BY <3>1 DEF ReceivedShort
      <4>2. Taken(x).pc = "cq" /\ Taken(x) \in ThreadType
        BY <1>1, <4>1, TakenFromCq DEF Received, At, ThreadIs
      <4>3. PICK t : t = Taken(x)
        OBVIOUS
      <4>4. [t EXCEPT !.cq = Append(@, x)].pc = "cq"
        BY <4>2, <4>3 DEF ThreadType
      <4> QED BY <4>1, <4>2, <4>3, <4>4
    <3>2. CASE ReceivedLongError
      <4>1. PICK x \in th.cur \cap Long : /\ Received(x)
                /\ process_cplt_cmd(x, AwaitingTid(x), ToTidQueue(x),
                                    [ToTidQueue(x) EXCEPT !.err = Append(@, x)])
        BY <3>2 DEF ReceivedLongError
      <4>2. ToTidQueue(x).pc = "cq" /\ ToTidQueue(x) \in ThreadType
        BY <1>1, <4>1, ToTid DEF Received, At, ThreadIs
      <4>3. PICK t : t = ToTidQueue(x)
        OBVIOUS
      <4>4. [t EXCEPT !.err = Append(@, x)].pc = "cq"
        BY <4>2, <4>3 DEF ThreadType
      <4> QED BY <4>1, <4>2, <4>3, <4>4
    <3>3. CASE LongDone
      <4>1. PICK x \in th.cur : /\ th.pc = "tid"
                /\ process_cplt_cmd(x, ctx, TakenTid(x), [TakenTid(x) EXCEPT !.tid = Append(@, x)])
        BY <3>3 DEF LongDone, At, TakenTid
      <4>2. TakenTid(x).pc = "tid" /\ TakenTid(x) \in ThreadType
        BY <1>1, <4>1, TakenFromTid DEF ThreadIs
      <4>3. PICK t : t = TakenTid(x)
        OBVIOUS
      <4>4. [t EXCEPT !.tid = Append(@, x)].pc = "tid"
        BY <4>2, <4>3 DEF ThreadType
      <4> QED BY <4>1, <4>2, <4>3, <4>4
    <3> QED BY <1>4, <3>1, <3>2, <3>3
  <2>2. th.pc # "exited" /\ caller' = caller
    BY <1>4 DEF ReceivedShort, ReceivedLongError, LongDone, Received, At
  <2>3. th'.pc # "exited"
    BY <2>1 DEF process_cplt_cmd, CompleteQuery, CompleteAsync, CompleteSync, CompleteBusy, ThreadType
  <2> QED BY <1>1, <2>1, <2>2, <2>3, ServiceCompleted DEF SameGone
<1>5. CASE ~ExitPolling /\ ~Broadcast /\ ~ReceivedShort /\ ~ReceivedLongError /\ ~LongDone
  <2>1. UNCHANGED <<caller, answers>>
    BY <1>5 DEF Polling, Fetch, FetchBusy, FetchWait, PollCq, PollBusy, PollFails,
         NotReceived, ReceivedLong, MatchTids, QueryResult,
         QueryResultFails, StillRunning, StartTimer, SendQuery, SendQueryFails, TakeTids,
         NoQueryWork, Again
  <2>2. SameGone
    <3>1. CASE QuietThread
      BY <3>1 DEF QuietThread, SameGone
    <3>2. CASE \/ FetchBusy \/ FetchWait \/ PollCq \/ PollBusy \/ NotReceived \/ MatchTids
               \/ StillRunning \/ StartTimer \/ SendQueryFails \/ TakeTids \/ NoQueryWork \/ Again
      BY <1>1, <3>1, <3>2, QuietFetch, QuietCq, QuietTid, QuietEnd
    <3>3. CASE Fetch
      <4>1. th'.pc # "exited"
        BY <1>1, <3>3, EffectFetch DEF QueuesNow
      <4> QED BY <3>3, <4>1 DEF Fetch, At, SameGone
    <3>4. CASE PollFails \/ ReceivedLong \/ QueryResult \/ QueryResultFails \/ SendQuery
      BY <1>1, <3>4 DEF PollFails, ReceivedLong, QueryResult, QueryResultFails, SendQuery, At,
           TidPassDone, Received, ToTidQueue, Taken, NextCq, NextTid, ThreadType, SameGone
    <3> QED BY <1>5, <3>2, <3>3, <3>4 DEF Polling
  <2> QED BY <1>1, <2>1, <2>2, ServiceStutters DEF SameStatus
<1> QED BY <1>2, <1>3, <1>4, <1>5

LEMMA EveryStepIsService ==
  ASSUME Inv, Inv', [Next]_vars
  PROVE  ServiceStep
<1>1. CASE \E c \in Cmds : Start(c) \/ Caller(c)
  BY <1>1, ServiceStart, ServiceCaller
<1>2. CASE \E c \in Cmds : SSDStep(c)
  BY <1>2, ServicePost DEF SSDStep, Results
<1>3. CASE Polling
  BY <1>3, ServicePolling
<1>4. CASE \/ SSDStep(Query) \/ Fini \/ TimerExpires \/ UNCHANGED vars
           \/ \E c \in Cmds : TaskFinishes(c)
  <2>1. UNCHANGED <<caller, answers>>
    BY <1>4 DEF SSDStep, Post, Fini, FiniRequest, FiniNotify, FiniJoin, TimerExpires, TaskFinishes,
                vars
  <2>2. \A c \in Cmds : posted'[c] = posted[c]
    BY <1>4, CmdsAreContexts DEF SSDStep, Post, Fini, FiniRequest, FiniNotify, FiniJoin,
                TimerExpires, TaskFinishes, vars, ssdVars, Inv, Types
  <2>3. SameGone
    <3>1. CASE FiniNotify \/ TimerExpires
      <4>1. QuietThread
        BY <3>1, QuietEnd DEF Inv, Types
      <4> QED BY <4>1 DEF QuietThread, SameGone
    <3>2. CASE th' = th
      BY <3>2 DEF SameGone
    <3> QED BY <1>4, <3>1, <3>2 DEF SSDStep, Post, Fini, FiniRequest, FiniJoin, TaskFinishes, vars
  <2> QED BY <2>1, <2>2, <2>3, ServiceStutters DEF SameStatus
<1> QED BY <1>1, <1>2, <1>3, <1>4 DEF Next, Ctxs

LEMMA ServiceInit == Init => Service!Init
<1> SUFFICES ASSUME Init PROVE Service!Init
  OBVIOUS
<1>1. \A c \in Cmds : Status(c) = "none"
  BY DEF Init, Status, Final
<1>2. Gone = FALSE
  BY DEF Init, Gone
<1> QED BY <1>1, <1>2 DEF Service!Init, CmdStatus

\* Every step of the callers, the polling thread, fini and the SSD is a step of
\* CommandService or changes no command's status: a command is executed once it is
\* sent, and never after its caller was told it could not be; its caller is answered
\* at most once, after the SSD has executed it, with the outcome it really had.
THEOREM ServiceSafety == Spec => Service!SafeSpec
<1>1. Inv /\ Inv' /\ [Next]_vars => [Service!Next]_<<CmdStatus, Gone>>
  BY EveryStepIsService DEF ServiceStep
<1> QED BY <1>1, Invariance, ServiceInit, PTL DEF Spec, Service!SafeSpec

=============================================================================
