--------------------------- MODULE CommandService ---------------------------
(***************************************************************************)
(* What the communication layer promises to the threads that use it, with  *)
(* no queues, channels or polling: a command that could be sent is         *)
(* executed by the SSD and answered once, with the outcome it really had.  *)
(* When the polling thread has gone down nothing is owed any more, though  *)
(* an answer on its way may still arrive.                                  *)
(***************************************************************************)
CONSTANT Cmds

VARIABLES status,       \* status[c]: how far command c has come
          down          \* the polling thread has gone

Outcomes == {"ok", "error"}

\* The status of a command executed with outcome r and not yet answered.
Executed(r) == IF r = "ok" THEN "executed" ELSE "refused"

Init == status = [c \in Cmds |-> "none"] /\ down = FALSE

Move(c, from, to) == /\ status[c] = from
                     /\ status' = [status EXCEPT ![c] = to]
                     /\ UNCHANGED down

Issue(c) == Move(c, "none", "open")

Reject(c) == Move(c, "none", "rejected")

Execute(c) == \E r \in Outcomes : Move(c, "open", Executed(r))

Answer(c) == \E r \in Outcomes : Move(c, Executed(r), r)

GoDown == down' = TRUE /\ UNCHANGED status

Next == GoDown \/ \E c \in Cmds : Issue(c) \/ Reject(c) \/ Execute(c) \/ Answer(c)

\* As long as the thread is there, an open command moves on.
Progress(c) == ~down /\ (Execute(c) \/ Answer(c))

SafeSpec == Init /\ [][Next]_<<status, down>>
Spec == SafeSpec /\ \A c \in Cmds : WF_<<status, down>>(Progress(c))
=============================================================================
