----------------------------- MODULE MCMetaTables -----------------------------
(* The metadata tables of a small device.                                  *)
EXTENDS MetaTables
===============================================================================
