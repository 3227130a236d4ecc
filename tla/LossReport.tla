----------------------------- MODULE LossReport ----------------------------
(***************************************************************************)
(* How dvrecv counts lost DV/RTP packets and tells dvsend (dvrecv/read.c,  *)
(* dvrecv/rtcp.c, dvsend/rtcp.c).  The receiver compares the sequence      *)
(* number of each packet with that of the packet before it; two pairs of   *)
(* counters, one for the local display and one for RTCP, collect the gaps  *)
(* and are reset on different occasions.  An RTCP SR from the sender makes *)
(* the receiver send an RR, which dvsend -L displays.                      *)
(***************************************************************************)
EXTENDS Integers

CONSTANTS SeqMod,     \* RTP sequence numbers are 0 .. SeqMod - 1 (16 bits)
          LostHalf,   \* the field `lost' holds -LostHalf .. LostHalf - 1 (24 bits)
          ShowEvery,  \* pkt_loss_count, the -l option of dvrecv
          MaxSent     \* bound on the packets sent

ASSUME SeqAssumption == SeqMod \in Nat /\ SeqMod > 1
ASSUME LostAssumption == LostHalf \in Nat \ {0}
ASSUME BoundAssumption == ShowEvery \in Nat /\ MaxSent \in Nat

VARIABLES
  next, sent,               \* sender: next sequence number, packets sent
  held,                     \* network: packets held back
  prev,                     \* receiver: rtp_seq_prev
  npkts, pktLoss,           \* receiver: the counters of the local display
  pktCount, pktLossSum,     \* receiver: the counters for RTCP
  rr, screen,               \* the last RR sent; what dvsend -L shows last
  late,                     \* history: how many packets have ever been held back
  lost, lostSince, early,   \* history: packets dropped, since the last one
                            \* delivered, before the receiver could compare
  displayed, reported       \* history: sums of all losses shown, all reported
net    == <<next, sent, held, late, lost, lostSince, early>>
local  == <<npkts, pktLoss, displayed>>
rtcp   == <<pktCount, pktLossSum, rr, reported>>
vars   == <<net, prev, local, rtcp, screen>>

SeqNumbers == 0 .. SeqMod - 1
NoRR == [fraction |-> 0, lost |-> 0, received |-> 0]

Init == /\ next \in SeqNumbers /\ sent = 0 /\ held = {} /\ late = 0
        /\ lost = 0 /\ lostSince = 0 /\ early = 0
        /\ prev = 0
        /\ npkts = 0 /\ pktLoss = 0 /\ displayed = 0
        /\ pktCount = 0 /\ pktLossSum = 0 /\ rr = NoRR /\ reported = 0
        /\ screen = NoRR

(* What a packet numbered s adds to the number of losses.  0 stands for "no
   packet yet", and a smaller number than the last adds nothing. *)
BadGap(s) == IF prev < s THEN s - prev ELSE 0
Gap(s) == IF prev # 0 /\ prev < s THEN s - prev - 1 ELSE 0

(* The display shows and resets its own pair of counters only. *)
BadDisplay(gap) ==
  IF npkts + 1 >= ShowEvery
  THEN npkts' = 0 /\ pktLoss' = 0 /\ displayed' = displayed + pktLoss
  ELSE npkts' = npkts + 1 /\ pktLoss' = pktLoss + gap /\ UNCHANGED displayed
Display(gap) ==
  IF npkts + 1 >= ShowEvery
  THEN npkts' = 0 /\ pktLoss' = 0 /\ displayed' = displayed + pktLoss + gap
  ELSE npkts' = npkts + 1 /\ pktLoss' = pktLoss + gap /\ UNCHANGED displayed

(* dvrecv takes a packet from the RTP socket. *)
Receive(s) ==
  /\ pktCount' = pktCount + 1
  /\ pktLossSum' = pktLossSum + Gap(s)
  /\ Display(Gap(s))
  /\ prev' = s
  /\ UNCHANGED <<rr, reported, screen>>

(* dvsend sends the next packet; the number is a u_int16_t. *)
Transmit == /\ sent < MaxSent
            /\ sent' = sent + 1
            /\ next' = IF next = SeqMod - 1 THEN 0 ELSE next + 1

Deliver == /\ Transmit
           /\ Receive(next)
           /\ early' = IF prev = 0 THEN lost ELSE early
           /\ lostSince' = 0 /\ UNCHANGED <<held, late, lost>>

Lose == /\ Transmit
        /\ lost' = lost + 1 /\ lostSince' = lostSince + 1
        /\ UNCHANGED <<held, late, early, prev, local, rtcp, screen>>

Hold == /\ Transmit
        /\ held' = held \cup {next} /\ late' = late + 1
        /\ UNCHANGED <<lost, lostSince, early, prev, local, rtcp, screen>>

(* A packet held back arrives; a copy of it may arrive again. *)
DeliverHeld == \E s \in held, copies \in BOOLEAN :
                 /\ Receive(s)
                 /\ held' = IF copies THEN held ELSE held \ {s}
                 /\ sent < MaxSent /\ sent' = sent + 1
                 /\ UNCHANGED <<next, late, lost, lostSince, early>>

(* What the signed field `lost' makes of a count. *)
Signed(n) == LET m == n % (2 * LostHalf)
             IN  IF m < LostHalf THEN m ELSE m - 2 * LostHalf

(* An SR arrives and is answered, unless no packet came since the last one.
   `fraction' is a field of 8 bits. *)
Report == /\ pktCount >= 1
          /\ rr' = [fraction |-> ((pktLossSum * 256) \div pktCount) % 256,
                    lost |-> Signed(pktLossSum),
                    received |-> pktCount]
          /\ reported' = reported + pktLossSum
          /\ pktCount' = 0 /\ pktLossSum' = 0
          /\ UNCHANGED <<net, prev, local, screen>>

(* The RR reaches dvsend, which turns the fraction into a percentage. *)
BadShow == /\ rr # NoRR
           /\ screen' = [rr EXCEPT !.fraction = (@ * 100) \div 127]
           /\ UNCHANGED <<net, prev, local, rtcp>>
Show == /\ rr # NoRR
        /\ screen' = [rr EXCEPT !.fraction = (@ * 100) \div 255]
        /\ UNCHANGED <<net, prev, local, rtcp>>

Next == Deliver \/ Lose \/ Hold \/ DeliverHeld \/ Report \/ Show

Spec == Init /\ [][Next]_vars
-----------------------------------------------------------------------------
RR == [fraction : 0 .. 255, lost : -LostHalf .. LostHalf - 1, received : Nat]

TypeOK == /\ next \in SeqNumbers /\ sent \in 0 .. MaxSent /\ held \in SUBSET SeqNumbers
          /\ late \in Nat
          /\ prev \in SeqNumbers
          /\ npkts \in Nat /\ pktLoss \in Nat /\ displayed \in Nat
          /\ pktCount \in Nat /\ pktLossSum \in Nat /\ reported \in Nat
          /\ rr \in RR /\ screen \in RR
          /\ lost \in Nat /\ lostSince \in Nat /\ early \in Nat

(* A network that only drops packets is never blamed for more than it dropped:
   the losses reported and about to be reported do not exceed those that
   happened before the last delivery, whatever the sequence numbers wrap to.
   (read.c:158-167 and rtcp.c:86-99 together.) *)
NoFalseLoss == late = 0 => reported + pktLossSum <= lost - lostSince

(* As long as the sender has not wrapped around, nothing is missed either: from
   the first packet that is not numbered 0 on, every packet dropped before the
   last delivery is counted once, in whichever report. *)
CountsAll == late = 0 /\ prev # 0 /\ sent <= next
               => reported + pktLossSum = lost - lostSince - early

(* On a network that keeps the order the losses reported are the losses that
   happened: never more, and until the wrap never fewer. *)
LossesCounted == NoFalseLoss /\ CountsAll

(* The two pairs of counters are reset independently, yet neither loses or
   repeats a loss that the other one counts; and a pending loss always comes
   with a packet that revealed it, so an SR is never ignored, and nothing
   divided by zero, while losses wait to be reported. *)
LossHasPacket == pktLossSum > 0 => pktCount > 0
CountersAgree == /\ displayed + pktLoss = reported + pktLossSum
                 /\ LossHasPacket

(* What dvsend -L prints against the share of the packets sent that were lost
   ("fraction lost", rtpvar.h:81), as long as fewer were lost than received, which
   keeps the byte from wrapping: never below it by more than a percent, but too
   high, since rtcp.c:87 divides by the packets received, by as much of the share as
   the lost are of the received, and two for the rounding.  One packet lost in nine
   shows as 12 percent, one in three as 50. *)
Share(x) == (100 * x.lost) \div (x.lost + x.received)
Excess(x) == (x.lost * (Share(x) + 1)) \div x.received
ScreenAccurate ==
  screen.lost \in 0 .. screen.received - 1 =>
    screen.fraction \in Share(screen) - 1 .. Share(screen) + Excess(screen) + 2
=============================================================================
