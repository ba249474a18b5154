---------------------------- MODULE MCReplaceProtect ----------------------------
(* Replace protection with a few API threads and transactions.             *)
EXTENDS ReplaceProtect
===============================================================================
