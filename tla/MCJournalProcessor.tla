-------------------------- MODULE MCJournalProcessor --------------------------
(* The journal layer on a small ring.                                      *)
EXTENDS JournalProcessor
===============================================================================
