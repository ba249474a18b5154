------------------------------ MODULE TxService ------------------------------
(***************************************************************************)
(* What the journal layer promises to the file-system layer, with no       *)
(* threads, queues or ring buffer: a transaction is submitted, becomes     *)
(* durable as a whole, is applied by the SSD and is then reported, each    *)
(* step in submission order; a host crash forgets what was not durable     *)
(* and loses the reports of what was.                                      *)
(***************************************************************************)
EXTENDS Integers

CONSTANT MaxTx          \* bound: number of transactions ever submitted

VARIABLE st             \* st[t]: how far transaction t has come

Tx == 1..MaxTx

(* "orphan": durable when the host crashed, the SSD still owes it;         *)
(* "recovered": applied, but its report died with the host.                *)
Status == {"none", "submitted", "durable", "applied", "reported",
           "lost", "orphan", "recovered"}

StatusOK == st \in [Tx -> Status]

Init == st = [t \in Tx |-> "none"]

\* No transaction older than t is in one of the states S.
NoneBefore(t, S) == \A u \in Tx : u < t => st[u] \notin S

Move(t, from, to) == st[t] = from /\ st' = [st EXCEPT ![t] = to]

Submit(t) == NoneBefore(t, {"none"}) /\ Move(t, "none", "submitted")

Publish(t) == NoneBefore(t, {"submitted"}) /\ Move(t, "submitted", "durable")

Apply(t) == /\ NoneBefore(t, {"durable", "orphan"})
            /\ st[t] \in {"durable", "orphan"}
            /\ st' = [st EXCEPT ![t] = IF st[t] = "durable" THEN "applied" ELSE "recovered"]

Report(t) == /\ NoneBefore(t, {"durable", "applied"})
             /\ Move(t, "applied", "reported")

AfterCrash(s) == CASE s = "submitted" -> "lost"
                   [] s = "durable"   -> "orphan"
                   [] s = "applied"   -> "recovered"
                   [] OTHER           -> s

Crash == st' = [t \in Tx |-> AfterCrash(st[t])]

Next == Crash \/ \E t \in Tx : Submit(t) \/ Publish(t) \/ Apply(t) \/ Report(t)

\* Everything but submitting and crashing is owed by the service.
Progress == \E t \in Tx : Publish(t) \/ Apply(t) \/ Report(t)

SafeSpec == Init /\ [][Next]_st
Owed == WF_st(Progress)
Spec == SafeSpec /\ Owed
==============================================================================
