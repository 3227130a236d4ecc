----------------------------- MODULE MCPlayOut ------------------------------
(* Source and bus one frame apart at most; as many frames as it takes to be
   muted, to come back and to be muted again. *)
EXTENDS PlayOut
=============================================================================
