---------------------------- MODULE MCDvrecvProcs ---------------------------
(* The program is finite as it is; only failures and signals are chosen. *)
EXTENDS DvrecvProcs
=============================================================================
