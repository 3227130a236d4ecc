---------------------------- MODULE IsochPacking ----------------------------
(***************************************************************************)
(* How dvrecv and dvplay lay a frame out for the FreeBSD 4 IEEE1394        *)
(* driver: IEEE1394_PKT_NUM data packets for each DIF sequence, and an     *)
(* empty packet now and then, so that a frame takes as many bus cycles as  *)
(* it lasts.  The buffer has NBLOCKS slots and is used again for every     *)
(* frame: what the frame before left in it is still there.                 *)
(***************************************************************************)
EXTENDS Integers, FiniteSets

CONSTANTS PktNum,      \* IEEE1394_PKT_NUM
          DifSeqs,     \* DIF sequences in a frame, by format
          Fracs,       \* Fracs[program]: the values frac is given
          NBlocks,     \* NBlocks[program]: NBLOCKS
          MaxLaidOut   \* bound on the frames laid out

Program == {"dvrecv", "dvplay"}

ASSUME PackingAssumption ==
  /\ PktNum \in Nat \ {0} /\ DifSeqs \subseteq Nat \ {0} /\ MaxLaidOut \in Nat
  /\ NBlocks \in [Program -> Nat] /\ Fracs \in [Program -> SUBSET (Nat \ {0, 1})]

VARIABLES program, frac, maxdifseq,    \* chosen once
          frame,      \* the frame laid out
          dseq, pkt,  \* the two loop counters
          count,      \* ieee1394_pkt_count
          label,      \* what the header of every slot says: "data" or "empty"
          body        \* the frame and packet last copied to the slot
chosen == <<program, frac, maxdifseq>>
packVars == <<chosen, frame, dseq, pkt, count, label, body>>

\* The slots a frame can get to; past NBLOCKS - 1 the memory is not the buffer's.
Slot == 0 .. 2 * maxdifseq * PktNum + 1

PackInit ==
  /\ program \in Program /\ frac \in Fracs[program] /\ maxdifseq \in DifSeqs
  /\ frame = 1 /\ dseq = 0 /\ pkt = 0 /\ count = 0
  /\ label = [s \in Slot |-> "data"]
  /\ body = [s \in Slot |-> [f |-> 0, d |-> 0, c |-> 0]]

\* Every frac-th packet is followed by an empty one (mod is 0): dvrecv looks at
\* the number of packets after counting the data packet, dvplay before.
EmptyNext == (IF program = "dvrecv" THEN count + 1 ELSE count) % frac = 0

Labels ==
  IF EmptyNext THEN [label EXCEPT ![count] = "data", ![count + 1] = "empty"]
               ELSE [label EXCEPT ![count] = "data"]

\* The slots a data packet takes, with the empty one behind it.
BadTaken == 1
Taken == IF EmptyNext THEN 2 ELSE 1

Pack ==
  /\ dseq < maxdifseq
  /\ body' = [body EXCEPT ![count] = [f |-> frame, d |-> dseq, c |-> pkt]]
  /\ label' = Labels
  /\ count' = count + Taken
  /\ IF pkt + 1 < PktNum THEN pkt' = pkt + 1 /\ UNCHANGED dseq
                         ELSE pkt' = 0 /\ dseq' = dseq + 1
  /\ UNCHANGED <<chosen, frame>>

BadRestart == count
Restart == 0

\* The frame goes to the driver, and the next one is laid out from slot 0.
Write ==
  /\ dseq = maxdifseq /\ frame < MaxLaidOut
  /\ frame' = frame + 1 /\ dseq' = 0 /\ pkt' = 0 /\ count' = Restart
  /\ UNCHANGED <<chosen, label, body>>

PackNext == Pack \/ Write
PackSpec == PackInit /\ [][PackNext]_packVars

(***************************************************************************)
(* Properties                                                              *)
(***************************************************************************)
Done == dseq = maxdifseq
DataSlots == {s \in 0 .. count - 1 : label[s] = "data"}

\* What the driver is given: all packets of this frame, each once, in order, in
\* slots that say so; nothing of the frame before shows in the slots between
\* them, which say that they are empty; and of any frac slots in a row, after
\* the first, one is such a slot, so that the bus keeps pace with the camera.
InOrder ==
  Done =>
    /\ Cardinality(DataSlots) = maxdifseq * PktNum
    /\ \A s \in DataSlots :
         LET n == Cardinality({t \in DataSlots : t < s})
         IN  body[s] = [f |-> frame, d |-> n \div PktNum, c |-> n % PktNum]
    /\ \A s \in 1 .. count - frac :
         Cardinality((s .. s + frac - 1) \ DataSlots) = 1

\* The packets of a frame fit in the buffer, although neither program looks at
\* its size.  (Not those of a PAL frame in dvplay, whose buffer has 300 slots.)
Fits == program = "dvrecv" \/ maxdifseq <= 10 => count <= NBlocks[program]
=============================================================================
