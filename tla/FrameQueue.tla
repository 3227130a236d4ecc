----------------------------- MODULE FrameQueue ----------------------------
(***************************************************************************)
(* What the two processes of dvrecv promise together while the network     *)
(* keeps pace with the IEEE1394 output: frames are put on the bus whole,   *)
(* in the order they were received, each one after its predecessor.        *)
(***************************************************************************)
EXTENDS Naturals

CONSTANT Part    \* the pieces a frame is stored and copied in

VARIABLES complete,  \* how many frames are complete; the next is number complete
          picture    \* for each piece, the frame of the picture on the bus

vars == <<complete, picture>>

Whole(f) == [p \in Part |-> f]

(* Frame 0 is the blank picture of zeroed shared memory. *)
Init == complete = 0 /\ picture = Whole(0)

Complete == complete' = complete + 1 /\ UNCHANGED picture

Show == \E f \in 0 .. complete - 2 : /\ picture = Whole(f)
                                     /\ picture' = Whole(f + 1)
                                     /\ UNCHANGED complete

Next == Complete \/ Show

Spec == Init /\ [][Next]_vars
=============================================================================
