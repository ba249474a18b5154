--------------------------- MODULE MCCommSession ---------------------------
(* Instances of CommSession for TLC. *)
EXTENDS CommSession
CONSTANTS io1, io2, long1, long2
IoErrors == {<<io1, "cmd">>}
IoFaults == {io1, io2} \X {"send", "poll"}
LongErrors == {<<long1, "cmd">>, <<long1, "result">>}
LongFaults == {<<long1, "send">>, <<Query, "send">>}
=============================================================================
