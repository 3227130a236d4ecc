----------------------------- MODULE Concealer -----------------------------
(***************************************************************************)
(* What the receiving half of dvrecv promises about pictures, whatever the *)
(* network loses: a frame handed to the IEEE1394 process shows, at every   *)
(* video position, the newest block ever received for that position.       *)
(***************************************************************************)

CONSTANTS Blk,   \* the video block positions of a frame
          Data,  \* what a block can contain
          Zero   \* the contents of a block of fresh, zeroed memory

VARIABLES latest,  \* the newest block received for each position
          shown    \* the video part of the frame handed over last

vars == <<latest, shown>>

Init == /\ latest = [k \in Blk |-> Zero]
        /\ shown  = [k \in Blk |-> Zero]

(* A block of the frame being received. *)
Receive(k, d) == /\ latest' = [latest EXCEPT ![k] = d]
                 /\ UNCHANGED shown

(* The first block of the next frame hands over the frame before it.  It may
   be a block that is not a video block: then nothing is received. *)
HandOver(k, d) == /\ shown' = latest
                  /\ latest' = [latest EXCEPT ![k] = d]

HandOverOnly == /\ shown' = latest
                /\ UNCHANGED latest

Next == \/ \E k \in Blk, d \in Data : Receive(k, d) \/ HandOver(k, d)
        \/ HandOverOnly

Spec == Init /\ [][Next]_vars
=============================================================================
