-------------------------- MODULE MCVideoAssembly --------------------------
(* Two video positions and one position without a flag, the ring of three
   slots dvrecv always uses, and two timestamps: only a difference between
   timestamps matters to the reader, and with two of them a packet of the
   previous frame may also arrive late. *)
EXTENDS VideoAssembly

MCN == 3
MCTs == {0, 1}
=============================================================================
