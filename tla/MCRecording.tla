---------------------------- MODULE MCRecording -----------------------------
(* Frames of three parts, the last or the second of which has dvplay write
   them; an old file that is longer than some recordings and shorter than
   others. *)
EXTENDS Recording
=============================================================================
