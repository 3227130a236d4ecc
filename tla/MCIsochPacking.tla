--------------------------- MODULE MCIsochPacking ---------------------------
(* The numbers of the source: NTSC and PAL, the frac of dvplay and those of
   the two builds of dvrecv. *)
EXTENDS IsochPacking

MCFracs == [dvrecv |-> {15, 17}, dvplay |-> {17}]
MCNBlocks == [dvrecv |-> 400, dvplay |-> 300]
=============================================================================
