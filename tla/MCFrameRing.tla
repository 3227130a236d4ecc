---------------------------- MODULE MCFrameRing ----------------------------
(* Three slots, as dvrecv always has, two pieces (the least that can be torn),
   and enough frames to go around the ring twice. *)
EXTENDS FrameRing

MCN == 3

=============================================================================
