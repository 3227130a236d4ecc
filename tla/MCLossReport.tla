---------------------------- MODULE MCLossReport ----------------------------
(* Sequence numbers modulo 5 and two packets more than that: every starting
   number, a wrap, losses of the packets numbered 0 and 4, packets held back
   and repeated, and several reports and displays. *)
EXTENDS LossReport
=============================================================================
