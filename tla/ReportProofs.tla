---------------------------- MODULE ReportProofs ----------------------------
(***************************************************************************)
(* The reception reports: that dvsend listens where they are sent          *)
(* (DvsendSockets), that they do not pile up there (RtcpExchange), and     *)
(* that they count the losses (LossReport); for every command line, every  *)
(* modulus of the sequence numbers, every display interval and every       *)
(* number of packets and of receivers.                                     *)
(***************************************************************************)
EXTENDS LossReport, RtcpExchange, DvsendSockets, FiniteSetTheorems, TLAPS

(***************************************************************************)
(* Elements of sequences, and division.                                    *)
(***************************************************************************)
LEMMA HeadTaken ==
  ASSUME NEW S, NEW q \in Seq(S), q # <<>>
  PROVE  /\ Head(q) = q[1] /\ Head(q) \in S /\ Tail(q) \in Seq(S)
         /\ Len(Tail(q)) = Len(q) - 1 /\ Len(q) \in Nat \ {0}
         /\ \A i \in 1 .. Len(Tail(q)) : Tail(q)[i] = q[i + 1]
  OBVIOUS

LEMMA TailAdded ==
  ASSUME NEW S, NEW q \in Seq(S), NEW x \in S
  PROVE  /\ Append(q, x) \in Seq(S) /\ Len(Append(q, x)) = Len(q) + 1 /\ Len(q) \in Nat
         /\ \A i \in 1 .. Len(q) + 1 : Append(q, x)[i] = IF i <= Len(q) THEN q[i] ELSE x
  OBVIOUS

LEMMA SeqPut ==
  ASSUME NEW S, NEW q \in Seq(S), NEW x \in S, NEW i \in 1 .. Len(q),
         NEW p, p = [q EXCEPT ![i] = x]
  PROVE  /\ p \in Seq(S) /\ Len(p) = Len(q)
         /\ \A j \in 1 .. Len(q) : p[j] = IF j = i THEN x ELSE q[j]
  OBVIOUS

LEMMA SeqElement ==
  ASSUME NEW S, NEW q \in Seq(S), NEW i \in 1 .. Len(q)
  PROVE  q[i] \in S
  OBVIOUS

LEMMA SeqFirst ==
  ASSUME NEW S, NEW q \in Seq(S), q # <<>>
  PROVE  1 \in 1 .. Len(q) /\ q[1] \in S
  OBVIOUS

LEMMA DivMod ==
  ASSUME NEW n \in Int, NEW d \in Nat \ {0}
  PROVE  n \div d \in Int /\ n % d \in 0 .. d - 1 /\ n = (n \div d) * d + (n % d)
  OBVIOUS

LEMMA WholeMultiple ==
  ASSUME NEW q \in Int, NEW d \in Nat \ {0}
  PROVE  (q * d) % d = 0
<1> DEFINE n == q * d
           x == n \div d
           r == n % d
<1>1. n \in Int
  OBVIOUS
<1>2. x \in Int /\ r \in 0 .. d - 1 /\ n = x * d + r
  <2> HIDE DEF n
  <2> QED
    BY <1>1
<1> HIDE DEF x, r
<1>3. r = (q - x) * d
  BY <1>2
<1>4. ~(q - x >= 1)
  <2>1. SUFFICES ASSUME q - x >= 1 PROVE FALSE
    OBVIOUS
  <2>2. (q - x) * d >= 1 * d
    BY <1>2, <2>1
  <2> QED
    BY <1>2, <1>3, <2>2
<1>5. ~(q - x <= -1)
  <2>1. SUFFICES ASSUME q - x <= -1 PROVE FALSE
    OBVIOUS
  <2>2. (q - x) * d <= (-1) * d
    BY <1>2, <2>1
  <2> QED
    BY <1>2, <1>3, <2>2
<1>6. q - x = 0
  BY <1>2, <1>4, <1>5
<1> QED
  BY <1>3, <1>6 DEF r

LEMMA RemainderIs ==
  ASSUME NEW x \in Int, NEW d \in Nat \ {0}, NEW r \in 0 .. d - 1
  PROVE  ((x * d) + r) % d = r
<1> DEFINE n == (x * d) + r
           y == n \div d
           z == n % d
<1>1. n \in Int
  OBVIOUS
<1>2. y \in Int /\ z \in 0 .. d - 1 /\ n = (y * d) + z
  <2> HIDE DEF n
  <2> QED
    BY <1>1, DivMod
<1> HIDE DEF y, z
<1>3. (x - y) * d = z - r
  BY <1>2
<1>4. ~(x - y >= 1)
  <2>1. SUFFICES ASSUME x - y >= 1 PROVE FALSE
    OBVIOUS
  <2>2. (x - y) * d >= 1 * d
    BY <1>2, <2>1
  <2> QED
    BY <1>2, <1>3, <2>2
<1>5. ~(x - y <= -1)
  <2>1. SUFFICES ASSUME x - y <= -1 PROVE FALSE
    OBVIOUS
  <2>2. (x - y) * d <= (-1) * d
    BY <1>2, <2>1
  <2> QED
    BY <1>2, <1>3, <2>2
<1>6. x - y = 0
  BY <1>2, <1>4, <1>5
<1> QED
  BY <1>2, <1>3, <1>6 DEF z

LEMMA QuotientIs ==
  ASSUME NEW x \in Int, NEW d \in Nat \ {0}, NEW r \in 0 .. d - 1
  PROVE  ((x * d) + r) \div d = x
<1> DEFINE n == (x * d) + r
           y == n \div d
           k == y * d
<1>1. n \in Int /\ x * d \in Int
  OBVIOUS
<1>2. n % d = r
  BY RemainderIs
<1>3. y \in Int /\ n = k + (n % d)
  <2> HIDE DEF n
  <2> QED
    BY <1>1, DivMod
<1>4. k = x * d
  <2>1. k \in Int
    BY <1>3
  <2> HIDE DEF k, y
  <2> QED
    BY <1>1, <1>2, <1>3, <2>1
<1> HIDE DEF y
<1>5. ~(y - x >= 1)
  <2>1. SUFFICES ASSUME y - x >= 1 PROVE FALSE
    OBVIOUS
  <2>2. (y - x) * d >= 1 * d
    BY <1>3, <2>1
  <2> QED
    BY <1>3, <1>4, <2>2
<1>6. ~(y - x <= -1)
  <2>1. SUFFICES ASSUME y - x <= -1 PROVE FALSE
    OBVIOUS
  <2>2. (y - x) * d <= (-1) * d
    BY <1>3, <2>1
  <2> QED
    BY <1>3, <1>4, <2>2
<1> QED
  BY <1>3, <1>5, <1>6 DEF y

LEMMA NextQuotient ==
  ASSUME NEW n \in Nat, NEW d \in Nat \ {0}
  PROVE  (n + d) \div d = (n \div d) + 1
<1> DEFINE x == n \div d
           r == n % d
<1>1. x \in Int /\ r \in 0 .. d - 1 /\ n = x * d + r
  BY DivMod
<1> HIDE DEF x, r
<1>2. n + d = (x + 1) * d + r /\ x + 1 \in Int
  BY <1>1
<1>3. (((x + 1) * d) + r) \div d = x + 1
  BY <1>1, <1>2, QuotientIs
<1> QED
  BY <1>2, <1>3 DEF x

LEMMA SmallQuotient ==
  ASSUME NEW d \in Nat \ {0}, NEW n \in 0 .. d - 1
  PROVE  n \div d = 0 /\ n % d = n
<1>1. ((0 * d) + n) \div d = 0 /\ ((0 * d) + n) % d = n
  BY QuotientIs, RemainderIs
<1>2. (0 * d) + n = n
  OBVIOUS
<1> QED
  BY <1>1, <1>2

LEMMA QuotientGrows ==
  ASSUME NEW a \in Nat, NEW b \in Nat, a <= b, NEW d \in Nat \ {0}
  PROVE  a \div d <= b \div d
<1> DEFINE x == a \div d
           y == b \div d
<1>1. x \in Int /\ y \in Int /\ x * d <= a /\ b < (y + 1) * d
  <2>1. x \in Int /\ a % d \in 0 .. d - 1 /\ a = x * d + (a % d)
    BY DivMod
  <2>2. y \in Int /\ b % d \in 0 .. d - 1 /\ b = y * d + (b % d)
    BY DivMod
  <2> HIDE DEF x, y
  <2> QED
    BY <2>1, <2>2
<1> HIDE DEF x, y
<1>2. ~(x - (y + 1) >= 0)
  <2>1. SUFFICES ASSUME x - (y + 1) >= 0 PROVE FALSE
    OBVIOUS
  <2>2. (x - (y + 1)) * d >= 0
    BY <1>1, <2>1
  <2>3. x * d - (y + 1) * d >= 0 /\ x * d \in Int /\ (y + 1) * d \in Int
    BY <1>1, <2>2
  <2> QED
    BY <1>1, <2>3
<1> QED
  BY <1>1, <1>2 DEF x, y

(***************************************************************************)
(* The losses                                                              *)
(***************************************************************************)
(* A gap is never negative. *)
LEMMA GapType == ASSUME TypeOK, NEW s \in SeqNumbers PROVE Gap(s) \in Nat
  BY SeqAssumption DEF TypeOK, SeqNumbers, Gap

(* The fraction is a byte and the count of lost packets a number. *)
LEMMA ReportType ==
  ASSUME TypeOK, pktCount >= 1
  PROVE  [fraction |-> ((pktLossSum * 256) \div pktCount) % 256,
          lost |-> Signed(pktLossSum), received |-> pktCount] \in RR
<1>1. pktCount \in Nat \ {0} /\ pktLossSum * 256 \in Nat
  BY DEF TypeOK
<1> DEFINE x == pktLossSum * 256
           q == x \div pktCount
<1>2. q \in Int
  BY <1>1
<1> HIDE DEF q
<1>3. q % 256 \in 0 .. 255
  BY <1>2
<1> DEFINE m == 2 * LostHalf
<1>4. m \in Nat \ {0}
  BY LostAssumption
<1> HIDE DEF m
<1>5. pktLossSum % m \in 0 .. m - 1
  BY <1>4 DEF TypeOK
<1>6. Signed(pktLossSum) \in -LostHalf .. LostHalf - 1
  BY <1>4, <1>5, LostAssumption DEF Signed, m
<1> QED
  BY <1>1, <1>3, <1>6 DEF RR, q

(* Receiving a packet keeps the types of everything it touches. *)
LEMMA ReceiveType ==
  ASSUME TypeOK, NEW s \in SeqNumbers, Receive(s)
  PROVE  /\ prev' \in SeqNumbers
         /\ npkts' \in Nat /\ pktLoss' \in Nat /\ displayed' \in Nat
         /\ pktCount' \in Nat /\ pktLossSum' \in Nat /\ reported' \in Nat
         /\ rr' \in RR /\ screen' \in RR
  BY GapType DEF TypeOK, Receive, Display

(* TypeOK of the counters, the two ends and the network. *)
THEOREM TypeCorrect == Spec => []TypeOK
<1>1. Init => TypeOK
  BY BoundAssumption, SeqAssumption, LostAssumption DEF Init, TypeOK, SeqNumbers, NoRR, RR
<1>2. TypeOK /\ [Next]_vars => TypeOK'
  <2> SUFFICES ASSUME TypeOK, [Next]_vars PROVE TypeOK'
    OBVIOUS
  <2>1. ASSUME Transmit
        PROVE  next' \in SeqNumbers /\ sent' \in 0 .. MaxSent
    BY <2>1, SeqAssumption, BoundAssumption DEF TypeOK, Transmit, SeqNumbers
  <2>2. CASE Deliver
    <3>1. next \in SeqNumbers
      BY DEF TypeOK
    <3> QED
      BY <2>1, <2>2, <3>1, ReceiveType DEF TypeOK, Deliver
  <2>3. CASE Lose
    BY <2>1, <2>3 DEF TypeOK, Lose, local, rtcp
  <2>4. CASE Hold
    BY <2>1, <2>4 DEF TypeOK, Hold, local, rtcp
  <2>5. CASE DeliverHeld
    <3>1. PICK s \in held, copies \in BOOLEAN :
            /\ Receive(s)
            /\ held' = IF copies THEN held ELSE held \ {s}
            /\ sent < MaxSent /\ sent' = sent + 1
            /\ UNCHANGED <<next, late, lost, lostSince, early>>
      BY <2>5 DEF DeliverHeld
    <3>2. s \in SeqNumbers
      BY <3>1 DEF TypeOK
    <3>3. sent' \in 0 .. MaxSent
      BY <3>1, BoundAssumption DEF TypeOK
    <3>4. held' \in SUBSET SeqNumbers
      BY <3>1 DEF TypeOK
    <3> QED
      BY <3>1, <3>2, <3>3, <3>4, ReceiveType DEF TypeOK
  <2>6. CASE Report
    <3>1. rr' \in RR
      BY <2>6, ReportType DEF Report
    <3> QED
      BY <2>6, <3>1 DEF TypeOK, Report, net, local
  <2>7. CASE Show
    <3>1. rr \in RR
      BY DEF TypeOK
    <3>2. ((rr.fraction * 100) \div 255) \in 0 .. 255
      BY <3>1 DEF RR
    <3>3. screen' \in RR
      BY <2>7, <3>1, <3>2 DEF Show, RR
    <3> QED
      BY <2>7, <3>3 DEF TypeOK, Show, net, local, rtcp
  <2>8. CASE UNCHANGED vars
    BY <2>8 DEF TypeOK, vars, net, local, rtcp
  <2> QED
    BY <2>2, <2>3, <2>4, <2>5, <2>6, <2>7, <2>8 DEF Next
<1> QED
  BY <1>1, <1>2, PTL DEF Spec

(* What receiving any packet does to the totals: both pairs of counters grow
   by the same gap. *)
LEMMA ReceiveCounts ==
  ASSUME TypeOK, NEW s \in SeqNumbers, Receive(s)
  PROVE  /\ displayed' + pktLoss' = displayed + pktLoss + Gap(s)
         /\ reported' + pktLossSum' = reported + pktLossSum + Gap(s)
         /\ pktCount' > 0
         /\ prev' = s
  BY GapType DEF TypeOK, Receive, Display

(* No reset, of the display or of a report, loses or repeats a loss, and a loss
   to be reported always comes with a packet (no SR is ignored then). *)
THEOREM Bookkeeping == Spec => [](CountersAgree /\ LossHasPacket)
<1> DEFINE Inv == CountersAgree /\ LossHasPacket
<1>1. Init => Inv
  BY DEF Init, CountersAgree, LossHasPacket
<1>2. TypeOK /\ Inv /\ [Next]_vars => Inv'
  <2> SUFFICES ASSUME TypeOK, Inv, [Next]_vars PROVE Inv'
    OBVIOUS
  <2> USE DEF CountersAgree, LossHasPacket
  <2>1. ASSUME NEW s \in SeqNumbers, Receive(s) PROVE Inv'
    BY <2>1, ReceiveCounts, GapType DEF TypeOK
  <2>2. CASE Deliver
    BY <2>1, <2>2 DEF TypeOK, Deliver
  <2>3. CASE Lose
    BY <2>3 DEF Lose, local, rtcp
  <2>4. CASE Hold
    BY <2>4 DEF Hold, local, rtcp
  <2>5. CASE DeliverHeld
    BY <2>1, <2>5 DEF TypeOK, DeliverHeld
  <2>6. CASE Report
    BY <2>6 DEF TypeOK, Report, local
  <2>7. CASE Show
    BY <2>7 DEF Show, local, rtcp
  <2>8. CASE UNCHANGED vars
    BY <2>8 DEF vars, local, rtcp
  <2> QED
    BY <2>2, <2>3, <2>4, <2>5, <2>6, <2>7, <2>8 DEF Next
<1> QED
  BY <1>1, <1>2, TypeCorrect, PTL DEF Spec

(* The strengthening: how far the next number can be from the last delivered
   one is known from the drops in between. *)
InOrder ==
  /\ lostSince <= lost
  /\ prev # 0 /\ prev < next => next - prev - 1 <= lostSince
  /\ reported + pktLossSum <= lost - lostSince
Unwrapped ==
  sent <= next =>
    /\ prev # 0 => /\ prev < next /\ next - prev - 1 = lostSince
                   /\ reported + pktLossSum = lost - lostSince - early
    /\ prev = 0 => reported + pktLossSum = 0
LossInv == late = 0 => held = {} /\ InOrder /\ Unwrapped

(* On a network that only drops packets the receiver never reports more losses
   than there were, and until the sequence numbers wrap it reports them all. *)
THEOREM LossCounted == Spec => []LossesCounted
<1>1. Init => LossInv
  BY SeqAssumption DEF Init, LossInv, InOrder, Unwrapped, SeqNumbers
<1>2. TypeOK /\ LossInv /\ [Next]_vars => LossInv'
  <2> SUFFICES ASSUME TypeOK, LossInv, [Next]_vars, late' = 0 PROVE LossInv'
    BY DEF LossInv
  <2>a. late' = late \/ late' = late + 1
    BY DEF Next, Deliver, Lose, Hold, DeliverHeld, Report, Show, vars, net
  <2>b. late = 0
    BY <2>a DEF TypeOK
  <2>0. held = {} /\ InOrder /\ Unwrapped
    BY <2>b DEF LossInv
  <2>1. CASE Deliver
    <3>1. /\ next \in SeqNumbers /\ Gap(next) \in Nat
          /\ Receive(next)
          /\ lostSince' = 0 /\ lost' = lost /\ held' = held
          /\ sent' = sent + 1
          /\ next' = IF next = SeqMod - 1 THEN 0 ELSE next + 1
          /\ early' = IF prev = 0 THEN lost ELSE early
      BY <2>1, GapType DEF TypeOK, Deliver, Transmit
    <3>2. /\ reported' + pktLossSum' = reported + pktLossSum + Gap(next)
          /\ prev' = next
      BY <3>1, ReceiveCounts
    <3>3. Gap(next) <= lostSince
      BY <2>0, SeqAssumption DEF Gap, InOrder, TypeOK, SeqNumbers
    <3>4. InOrder'
      BY <2>0, <3>1, <3>2, <3>3, SeqAssumption DEF InOrder, TypeOK, SeqNumbers
    <3>5. Unwrapped'
      <4> SUFFICES ASSUME sent' <= next'
                   PROVE  /\ prev' # 0 =>
                               /\ prev' < next' /\ next' - prev' - 1 = lostSince'
                               /\ reported' + pktLossSum' = lost' - lostSince' - early'
                          /\ prev' = 0 => reported' + pktLossSum' = 0
        BY DEF Unwrapped
      <4>1. next' = next + 1 /\ sent <= next
        BY <3>1, SeqAssumption DEF TypeOK, SeqNumbers
      <4>2. CASE prev = 0
        <5>1. Gap(next) = 0 /\ reported + pktLossSum = 0
          BY <2>0, <4>1, <4>2 DEF Gap, Unwrapped
        <5> QED
          BY <3>1, <3>2, <4>1, <4>2, <5>1 DEF TypeOK, SeqNumbers
      <4>3. CASE prev # 0
        <5>1. Gap(next) = lostSince /\ next # 0
          BY <2>0, <4>1, <4>3 DEF Gap, Unwrapped, TypeOK, SeqNumbers
        <5> QED
          BY <2>0, <3>1, <3>2, <4>1, <4>3, <5>1 DEF Unwrapped, TypeOK, SeqNumbers
      <4> QED
        BY <4>2, <4>3
    <3> QED
      BY <2>0, <3>1, <3>4, <3>5 DEF LossInv
  <2>2. CASE Lose
    <3>1. /\ lostSince' = lostSince + 1 /\ lost' = lost + 1 /\ held' = held
          /\ sent' = sent + 1 /\ early' = early /\ prev' = prev
          /\ next' = IF next = SeqMod - 1 THEN 0 ELSE next + 1
          /\ reported' = reported /\ pktLossSum' = pktLossSum
      BY <2>2 DEF Lose, Transmit, local, rtcp
    <3>2. InOrder'
      BY <2>0, <3>1, SeqAssumption DEF InOrder, TypeOK, SeqNumbers
    <3>3. Unwrapped'
      BY <2>0, <3>1, SeqAssumption DEF Unwrapped, TypeOK, SeqNumbers
    <3> QED
      BY <2>0, <3>1, <3>2, <3>3 DEF LossInv
  <2>3. CASE Hold
    BY <2>b, <2>3 DEF Hold
  <2>4. CASE DeliverHeld
    BY <2>0, <2>4 DEF DeliverHeld
  <2>5. CASE Report
    <3>1. /\ reported' + pktLossSum' = reported + pktLossSum
          /\ UNCHANGED <<next, sent, held, lost, lostSince, early, prev>>
      BY <2>5 DEF Report, net, TypeOK
    <3> QED
      BY <2>0, <3>1 DEF LossInv, InOrder, Unwrapped
  <2>6. CASE Show
    BY <2>0, <2>6 DEF Show, net, rtcp, LossInv, InOrder, Unwrapped
  <2>7. CASE UNCHANGED vars
    BY <2>0, <2>7 DEF vars, net, rtcp, LossInv, InOrder, Unwrapped
  <2> QED
    BY <2>1, <2>2, <2>3, <2>4, <2>5, <2>6, <2>7 DEF Next
<1>3. TypeOK /\ LossInv => LossesCounted
  BY DEF LossInv, InOrder, Unwrapped, LossesCounted, NoFalseLoss, CountsAll
<1> QED
  BY <1>1, <1>2, <1>3, TypeCorrect, PTL DEF Spec
-----------------------------------------------------------------------------
(* A quotient is what the two products around it say it is. *)
LEMMA QuotientBounds ==
  ASSUME NEW n \in Int, NEW d \in Nat \ {0}
  PROVE  n \div d \in Int /\ (n \div d) * d <= n /\ n < (n \div d) * d + d
  OBVIOUS

(* Rounding the loss ratio to a byte, and that byte to a percentage, changes
   the percentage by one at most. *)
LEMMA PercentOfByte ==
  ASSUME NEW n \in Nat, NEW d \in Nat, n < d
  PROVE  LET a == (n * 256) \div d
             e == (100 * n) \div d
         IN  a \in 0 .. 255 /\ (a * 100) \div 255 \in e - 1 .. e + 1
<1> DEFINE a == (n * 256) \div d
           e == (100 * n) \div d
           p == (a * 100) \div 255
<1>1. d \in Nat \ {0} /\ n * 256 \in Int /\ 100 * n \in Int
  OBVIOUS
<1>2. a \in Int /\ a * d <= n * 256 /\ n * 256 < a * d + d
  BY <1>1, QuotientBounds
<1>3. e \in Int /\ e * d <= 100 * n /\ 100 * n < e * d + d
  BY <1>1, QuotientBounds
<1> HIDE DEF a, e
<1>4. p \in Int /\ p * 255 <= a * 100 /\ a * 100 < p * 255 + 255
  BY <1>2
<1> HIDE DEF p
<1>5. a >= 0
  <2>1. SUFFICES ASSUME a <= -1 PROVE FALSE
    BY <1>2
  <2>2. a * d <= (-1) * d
    BY <1>1, <1>2, <2>1
  <2> QED
    BY <1>1, <1>2, <2>2
<1>6. a <= 255
  <2>1. SUFFICES ASSUME a >= 256 PROVE FALSE
    BY <1>2
  <2>2. a * d >= 256 * d
    BY <1>1, <1>2, <2>1
  <2> QED
    BY <1>1, <1>2, <2>2
<1>7. p >= e - 1
  <2>1. SUFFICES ASSUME p + 2 <= e PROVE FALSE
    BY <1>3, <1>4
  <2>2. (p + 2) * d <= e * d
    BY <1>1, <1>3, <1>4, <2>1
  <2>3. (p * d) * 255 + 255 * d >= (a * 100) * d
    BY <1>1, <1>2, <1>4
  <2> DEFINE ad == a * d
             ed == e * d
             pd == p * d
  <2>4. ad \in Int /\ ed \in Int /\ pd \in Int /\ (p + 2) * d = pd + 2 * d
        /\ (a * 100) * d = 100 * ad
    BY <1>1, <1>2, <1>3, <1>4
  <2>5. pd + 2 * d <= ed /\ pd * 255 + 255 * d >= 100 * ad
    BY <2>2, <2>3, <2>4
  <2>6. ed <= 100 * n /\ n * 256 < ad + d
    BY <1>2, <1>3
  <2> HIDE DEF ad, ed, pd
  <2> QED
    BY <1>1, <2>4, <2>5, <2>6
<1>8. p <= e + 1
  <2>1. SUFFICES ASSUME e + 2 <= p PROVE FALSE
    BY <1>3, <1>4
  <2>2. (e + 2) * d <= p * d
    BY <1>1, <1>3, <1>4, <2>1
  <2>3. (p * d) * 255 <= (a * 100) * d
    BY <1>1, <1>2, <1>4
  <2> DEFINE ad == a * d
             ed == e * d
             pd == p * d
  <2>4. ad \in Int /\ ed \in Int /\ pd \in Int /\ (e + 2) * d = ed + 2 * d
        /\ (a * 100) * d = 100 * ad
    BY <1>1, <1>2, <1>3, <1>4
  <2>5. ed + 2 * d <= pd /\ pd * 255 <= 100 * ad
    BY <2>2, <2>3, <2>4
  <2>6. 100 * n < ed + d /\ ad <= n * 256
    BY <1>2, <1>3
  <2> HIDE DEF ad, ed, pd
  <2> QED
    BY <1>1, <2>4, <2>5, <2>6
<1> QED
  BY <1>2, <1>3, <1>4, <1>5, <1>6, <1>7, <1>8 DEF a, e, p

(* The ratio of the lost to the received, against their share of all packets. *)
Ratio(x) == (100 * x.lost) \div x.received
LEMMA ShareOfRatio ==
  ASSUME NEW r, r.lost \in Nat, r.received \in Nat, r.lost < r.received
  PROVE  /\ Ratio(r) \in Int /\ Share(r) \in Int /\ Excess(r) \in Int
         /\ Share(r) <= Ratio(r) /\ Ratio(r) <= Share(r) + Excess(r) + 1
<1> DEFINE n == r.lost
           d == r.received
<1>0. /\ n \in Nat /\ d \in Nat /\ n < d
      /\ Ratio(r) = (100 * n) \div d /\ Share(r) = (100 * n) \div (n + d)
      /\ Excess(r) = (n * (Share(r) + 1)) \div d
  BY DEF Ratio, Share, Excess
<1> HIDE DEF n, d
<1> DEFINE e == (100 * n) \div d
           t == (100 * n) \div (n + d)
           x == (n * (t + 1)) \div d
<1>1. n \in Nat /\ d \in Nat \ {0} /\ n + d \in Nat \ {0} /\ 100 * n \in Int
  BY <1>0
<1>2. e \in Int /\ e * d <= 100 * n /\ 100 * n < e * d + d
  BY <1>1, QuotientBounds
<1>3. t \in Int /\ t * (n + d) <= 100 * n /\ 100 * n < t * (n + d) + (n + d)
  BY <1>1, QuotientBounds
<1> HIDE DEF e, t
<1>4. n * (t + 1) \in Int
  BY <1>1, <1>3
<1>5. x \in Int /\ n * (t + 1) < x * d + d
  BY <1>1, <1>4, QuotientBounds
<1> HIDE DEF x
<1> DEFINE en == e * n
           ed == e * d
           tn == t * n
           td == t * d
           xd == x * d
<1>6. en \in Int /\ ed \in Int /\ tn \in Int /\ td \in Int /\ xd \in Int
  BY <1>1, <1>2, <1>3, <1>5
<1>7. t * (n + d) = tn + td /\ n * (t + 1) = tn + n
  BY <1>1, <1>3
<1>8. e >= 0 /\ t >= 0
  <2>1. SUFFICES ASSUME e <= -1 \/ t <= -1 PROVE FALSE
    BY <1>2, <1>3
  <2>2. e <= -1 => e * d <= (-1) * d
    BY <1>1, <1>2
  <2>3. t <= -1 => t * (n + d) <= (-1) * (n + d)
    BY <1>1, <1>3
  <2> QED
    BY <1>1, <1>2, <1>3, <2>1, <2>2, <2>3
<1>9. t <= e
  <2>1. SUFFICES ASSUME e + 1 <= t PROVE FALSE
    BY <1>2, <1>3
  <2>2. (e + 1) * d <= t * d /\ (e + 1) * d = ed + d
    BY <1>1, <1>2, <1>3, <2>1
  <2>3. t * n >= 0
    BY <1>1, <1>3, <1>8
  <2>4. ed + d <= td /\ tn >= 0 /\ tn + td <= 100 * n /\ 100 * n < ed + d
    BY <1>2, <1>3, <1>7, <2>2, <2>3
  <2> HIDE DEF ed, td, tn
  <2> QED
    BY <1>1, <1>6, <2>4
<1>10. e <= t + x + 1
  <2>1. SUFFICES ASSUME t + x + 2 <= e PROVE FALSE
    BY <1>2, <1>3, <1>5
  <2>2. (t + x + 2) * d <= e * d /\ (t + x + 2) * d = td + xd + 2 * d
    BY <1>1, <1>2, <1>3, <1>5, <2>1
  <2>3. /\ td + xd + 2 * d <= ed /\ ed <= 100 * n
        /\ 100 * n < tn + td + (n + d) /\ tn + n < xd + d
    BY <1>2, <1>3, <1>5, <1>7, <2>2
  <2> HIDE DEF ed, td, tn, xd
  <2> QED
    BY <1>1, <1>6, <2>3
<1> QED
  BY <1>0, <1>2, <1>3, <1>5, <1>9, <1>10 DEF e, t, x

(* So the percentage shown is near the share, as ScreenAccurate says. *)
LEMMA PercentOfShare ==
  ASSUME NEW r, r.lost \in Nat, r.received \in Nat, r.lost < r.received,
         r.fraction = (r.lost * 256) \div r.received
  PROVE  (r.fraction * 100) \div 255 \in Share(r) - 1 .. Share(r) + Excess(r) + 2
<1> DEFINE p == (r.fraction * 100) \div 255
           n == r.lost
           d == r.received
<1>1. p \in Ratio(r) - 1 .. Ratio(r) + 1
  <2>1. n \in Nat /\ d \in Nat /\ n < d
    OBVIOUS
  <2>2. p = (((n * 256) \div d) * 100) \div 255 /\ Ratio(r) = (100 * n) \div d
    BY DEF Ratio
  <2> HIDE DEF n, d, p
  <2>3. (((n * 256) \div d) * 100) \div 255 \in ((100 * n) \div d) - 1 .. ((100 * n) \div d) + 1
    BY <2>1, PercentOfByte
  <2> QED
    BY <2>2, <2>3
<1>2. /\ Ratio(r) \in Int /\ Share(r) \in Int /\ Excess(r) \in Int
      /\ Share(r) <= Ratio(r) /\ Ratio(r) <= Share(r) + Excess(r) + 1
  BY ShareOfRatio
<1> HIDE DEF p
<1>3. p \in Share(r) - 1 .. Share(r) + Excess(r) + 2
  BY <1>1, <1>2
<1> QED
  BY <1>3 DEF p

(* As long as the field `lost' holds what it is given, an RR carries the ratio
   of what was lost to what was received. *)
RatioKept(x) == x.lost \in 0 .. x.received - 1 =>
                  x.fraction = (x.lost * 256) \div x.received
ScreenInv == reported < LostHalf => RatioKept(rr) /\ ScreenAccurate

(* Until the losses reported no longer fit into the field `lost' (8388607 of
   them) the percentage that dvsend -L prints is not below the share of packets
   lost, and above it by no more than dividing by those received makes it, for
   every ratio of lost to received packets below one, whatever the network does. *)
THEOREM ScreenRight == Spec => [](reported < LostHalf => ScreenAccurate)
<1>1. Init => ScreenInv
  BY DEF Init, NoRR, ScreenInv, RatioKept, ScreenAccurate
<1>2. TypeOK /\ ScreenInv /\ [Next]_vars => ScreenInv'
  <2> SUFFICES ASSUME TypeOK, ScreenInv, [Next]_vars, reported' < LostHalf
               PROVE  RatioKept(rr)' /\ ScreenAccurate'
    BY DEF ScreenInv
  <2>1. CASE UNCHANGED <<rr, reported, screen>>
    BY <2>1 DEF ScreenInv, RatioKept, ScreenAccurate
  <2>2. CASE Report
    <3>1. /\ pktCount \in Nat /\ pktCount >= 1 /\ pktLossSum \in Nat
          /\ reported \in Nat /\ reported' = reported + pktLossSum /\ screen' = screen
          /\ rr' = [fraction |-> ((pktLossSum * 256) \div pktCount) % 256,
                    lost |-> Signed(pktLossSum), received |-> pktCount]
      BY <2>2 DEF Report, TypeOK
    <3>2. pktLossSum < LostHalf /\ reported < LostHalf
      BY <3>1, LostAssumption
    <3>3. Signed(pktLossSum) = pktLossSum
      <4>1. pktLossSum % (2 * LostHalf) = pktLossSum
        BY <3>1, <3>2, LostAssumption
      <4> QED
        BY <3>2, <4>1 DEF Signed
    <3>4. ScreenAccurate'
      BY <3>1, <3>2 DEF ScreenInv, ScreenAccurate
    <3>5. RatioKept(rr)'
      <4> DEFINE a == (pktLossSum * 256) \div pktCount
      <4>1. SUFFICES ASSUME pktLossSum \in 0 .. pktCount - 1
                     PROVE  a % 256 = a
        BY <3>1, <3>3 DEF RatioKept
      <4>2. a \in 0 .. 255
        <5>1. pktLossSum < pktCount
          BY <3>1, <4>1
        <5> QED
          BY <3>1, <5>1, PercentOfByte
      <4> HIDE DEF a
      <4> QED
        BY <4>2
    <3> QED
      BY <3>4, <3>5
  <2>3. CASE Show
    <3>1. /\ rr \in RR /\ UNCHANGED <<rr, reported>>
          /\ screen' = [rr EXCEPT !.fraction = (rr.fraction * 100) \div 255]
      BY <2>3 DEF Show, TypeOK, rtcp
    <3>2. /\ screen'.lost = rr.lost /\ screen'.received = rr.received
          /\ screen'.fraction = (rr.fraction * 100) \div 255
          /\ rr.lost \in Int /\ rr.received \in Nat
      BY <3>1, LostAssumption DEF RR
    <3>3. RatioKept(rr)
      BY <3>1 DEF ScreenInv
    <3>4. ScreenAccurate'
      <4>1. Share(screen)' = Share(rr) /\ Excess(screen)' = Excess(rr)
        BY <3>2 DEF Share, Excess
      <4>2. SUFFICES ASSUME rr.lost \in 0 .. rr.received - 1
                     PROVE  (rr.fraction * 100) \div 255
                              \in Share(rr) - 1 .. Share(rr) + Excess(rr) + 2
        BY <3>2, <4>1 DEF ScreenAccurate
      <4>3. rr.lost \in Nat /\ rr.lost < rr.received
            /\ rr.fraction = (rr.lost * 256) \div rr.received
        BY <3>2, <3>3, <4>2 DEF RatioKept
      <4> QED
        BY <3>2, <4>3, PercentOfShare
    <3> QED
      BY <3>1, <3>3, <3>4 DEF RatioKept
  <2>4. Next => Report \/ Show \/ UNCHANGED <<rr, reported, screen>>
    BY DEF Next, Deliver, Lose, Hold, DeliverHeld, Receive, rtcp
  <2> QED
    BY <2>1, <2>2, <2>3, <2>4 DEF vars, rtcp
<1>3. ScreenInv => (reported < LostHalf => ScreenAccurate)
  BY DEF ScreenInv
<1> QED
  BY <1>1, <1>2, <1>3, TypeCorrect, PTL DEF Spec

(***************************************************************************)
(* The dialogue                                                            *)
(***************************************************************************)
LEMMA RtcpType == RtcpSpec => []RtcpTypeOK
<1>1. RtcpInit => RtcpTypeOK
  <2> SUFFICES ASSUME RtcpInit PROVE RtcpTypeOK
    OBVIOUS
  <2>1. /\ since \in 0..(Interval + 1) \cup {Never} /\ count \in 0..(Period - 1)
        /\ left \in 0..Blocks /\ camera \in BOOLEAN
    BY RtcpAssumption DEF RtcpInit
  <2>2. reports \in Seq(Receivers) /\ shown \in Receivers \cup {"none"}
        /\ stuck \subseteq Receivers /\ {lossy, separated, macosX} \subseteq BOOLEAN
        /\ slow \subseteq Receivers
    BY DEF RtcpInit
  <2>3. /\ rtp \in [Receivers -> 0..Cap] /\ sr \in [Receivers -> 0..Cap]
        /\ heard \in [Receivers -> BOOLEAN]
    BY RtcpAssumption DEF RtcpInit
  <2> QED
    BY <2>1, <2>2, <2>3 DEF RtcpTypeOK
<1>2. RtcpTypeOK /\ [RtcpNext]_rtcpVars => RtcpTypeOK'
  <2> SUFFICES ASSUME RtcpTypeOK, [RtcpNext]_rtcpVars PROVE RtcpTypeOK'
    OBVIOUS
  <2> USE DEF RtcpTypeOK, chosen, senderVars
  <2>1. ASSUME NEW q \in [Receivers -> 0..Cap], NEW to
        PROVE  Arrive(q, to) \in [Receivers -> 0..Cap]
    BY RtcpAssumption DEF Arrive
  <2>2. CASE Iterate
    <3>1. left' \in 0..Blocks
      <4>1. left' = left - 1 /\ left > 0 /\ left \in 0..Blocks /\ Blocks \in Nat
        BY <2>2, RtcpAssumption DEF Iterate
      <4> QED
        BY <4>1
    <3>2. count' \in 0..(Period - 1)
      <4>1. count' = IF macosX THEN 0 ELSE (count + 1) % Period
        BY <2>2 DEF Iterate
      <4>2. Period \in Nat \ {0} /\ count + 1 \in Nat
        BY RtcpAssumption
      <4> QED
        BY <4>1, <4>2
    <3>3. since' \in 0..(Interval + 1) \cup {Never}
      <4>1. since' = since \/ since' = 0
        BY <2>2 DEF Iterate, AfterSR
      <4> QED
        BY <4>1, RtcpAssumption
    <3>4. reports' \in Seq(Receivers) /\ shown' \in Receivers \cup {"none"}
      <4>1. \/ reports # <<>> /\ reports' = Tail(reports) /\ shown' = Head(reports)
            \/ reports' = reports /\ shown' = "none"
        BY <2>2 DEF Iterate, ProcessRtcp
      <4>2. reports \in Seq(Receivers) /\ shown \in Receivers \cup {"none"}
        OBVIOUS
      <4> HIDE DEF RtcpTypeOK
      <4> QED
        BY <4>1, <4>2, HeadTaken
    <3>5. rtp' \in [Receivers -> 0..Cap] /\ sr' \in [Receivers -> 0..Cap]
      <4>1. \E to : rtp' = Arrive(rtp, to)
        BY <2>2 DEF Iterate
      <4>2. sr' = sr \/ \E to : sr' = Arrive(sr, to)
        BY <2>2 DEF Iterate
      <4> QED
        BY <2>1, <4>1, <4>2
    <3> QED
      BY <2>2, <3>1, <3>2, <3>3, <3>4, <3>5 DEF Iterate
  <2>3. CASE DeviceFails
    BY <2>3 DEF DeviceFails
  <2>4. CASE Second
    <3>1. left' \in 0..Blocks
      BY <2>4, RtcpAssumption DEF Second
    <3>2. since' \in 0..(Interval + 1) \cup {Never}
      <4>1. since' = IF since \in 0..Interval THEN since + 1 ELSE since
        BY <2>4 DEF Second
      <4>2. Interval \in Nat
        BY RtcpAssumption
      <4> QED
        BY <4>1, <4>2
    <3> QED
      BY <2>4, <3>1, <3>2 DEF Second
  <2>5. ASSUME NEW r \in Receivers, ReadRtp(r) PROVE RtcpTypeOK'
    <3>1. rtp[r] - 1 \in 0..Cap
      BY <2>5, RtcpAssumption DEF ReadRtp
    <3> QED
      BY <2>5, <3>1 DEF ReadRtp
  <2>6. ASSUME NEW r \in Receivers, WaitAudio(r) PROVE RtcpTypeOK'
    BY <2>6 DEF WaitAudio
  <2>7. ASSUME NEW r \in Receivers, ReadSR(r) PROVE RtcpTypeOK'
    <3>1. sr[r] - 1 \in 0..Cap
      BY <2>7, RtcpAssumption DEF ReadSR
    <3>2. reports' \in Seq(Receivers)
      <4>1. reports' = reports \/ reports' = Append(reports, r)
        BY <2>7 DEF ReadSR, Reply
      <4>2. reports \in Seq(Receivers)
        OBVIOUS
      <4> HIDE DEF RtcpTypeOK
      <4> QED
        BY <4>1, <4>2, TailAdded
    <3> QED
      BY <2>7, <3>1, <3>2 DEF ReadSR
  <2>8. ASSUME NEW r \in Receivers, ReadAudio(r) PROVE RtcpTypeOK'
    BY <2>8 DEF ReadAudio
  <2>9. CASE UNCHANGED rtcpVars
    BY <2>9 DEF rtcpVars
  <2> QED
    BY <2>2, <2>3, <2>4, <2>5, <2>6, <2>7, <2>8, <2>9 DEF RtcpNext, Selected
<1> QED
  BY <1>1, <1>2, PTL DEF RtcpSpec

(* The turns left in this second that read a report. *)
Turns == IF macosX THEN left ELSE left - ((count + left) \div Period)

(* Nobody's report waits twice; while one waits its dvrecv has no other SR to
   answer; and once the answers are in, there are turns enough to read them
   before the next SR is due. *)
Single == \A i, j \in 1 .. Len(reports) : reports[i] = reports[j] => i = j
Answered == \A r \in Receivers :
              sr[r] \in {0, 1} /\ (sr[r] = 1 => \A i \in 1 .. Len(reports) : reports[i] # r)
ReadInTime ==
  /\ since # 0 => \A r \in Receivers : sr[r] = 0
  /\ since = 1 => reports = <<>> \/ Len(reports) <= Turns
  /\ since \notin {0, 1} => reports = <<>>
OnceInv ==
  /\ Single
  /\ separated => reports = <<>>
  /\ ~separated => stuck = {} /\ Answered
  /\ ~separated /\ Looping => ReadInTime

(* In a second the loop has a turn for every dvrecv, not counting those that
   readcount keeps from RTCP.  (Thousands of blocks come in a second, and every
   6000th or 1000th turn is one without.) *)
TurnsForAll ==
  /\ IsFiniteSet(Receivers)
  /\ Cardinality(Receivers) + ((Blocks + Period - 1) \div Period) <= Blocks

LEMMA ReportsBounded ==
  ASSUME RtcpTypeOK, Single, IsFiniteSet(Receivers)
  PROVE  Len(reports) <= Cardinality(Receivers)
<1> DEFINE n == Len(reports)
<1>1. reports \in Seq(Receivers) /\ n \in Nat
  BY DEF RtcpTypeOK
<1>2. reports \in [1 .. n -> Receivers]
  BY <1>1
<1>3. Cardinality(Receivers) \in Nat /\ IsFiniteSet(1 .. n) /\ Cardinality(1 .. n) = n
  <2>1. Cardinality(Receivers) \in Nat
    BY FS_CardinalityType
  <2>2. IsFiniteSet(1 .. n) /\ Cardinality(1 .. n) = IF 1 > n THEN 0 ELSE n - 1 + 1
    BY <1>1, FS_Interval
  <2> QED
    BY <1>1, <2>1, <2>2
<1>4. ~(Cardinality(Receivers) < n)
  <2>1. SUFFICES ASSUME Cardinality(Receivers) < n PROVE FALSE
    OBVIOUS
  <2>2. \E x, y \in 1 .. n : x # y /\ reports[x] = reports[y]
    <3> HIDE DEF n
    <3> QED
      BY <1>2, <1>3, <2>1, FS_PigeonHole
  <2> QED
    BY <2>2 DEF Single
<1> QED
  BY <1>1, <1>3, <1>4

(* A turn that is not the sender's first of the second for an SR. *)
LEMMA TurnsStep ==
  ASSUME RtcpTypeOK, Iterate
  PROVE  /\ Turns \in Int /\ Turns' \in Int
         /\ RtcpTurn(IF macosX THEN 0 ELSE (count + 1) % Period) => Turns' = Turns - 1
         /\ ~RtcpTurn(IF macosX THEN 0 ELSE (count + 1) % Period) => Turns' = Turns
<1>1. /\ left \in Nat /\ left > 0 /\ left' = left - 1 /\ macosX' = macosX
      /\ count \in 0 .. Period - 1 /\ Period \in Nat \ {0}
      /\ count' = IF macosX THEN 0 ELSE (count + 1) % Period
  BY RtcpAssumption DEF RtcpTypeOK, Iterate, chosen
<1>2. CASE macosX
  BY <1>1, <1>2 DEF Turns, RtcpTurn
<1>3. CASE ~macosX /\ count + 1 <= Period - 1
  <2>1. (count + 1) % Period = count + 1
    BY <1>1, <1>3, SmallQuotient
  <2>2. count' + left' = count + left /\ count' = count + 1 /\ count + 1 # 0
    BY <1>1, <1>3, <2>1
  <2>3. (count + left) \div Period \in Int
    BY <1>1
  <2>4. Turns = left - ((count + left) \div Period)
        /\ Turns' = left' - ((count + left) \div Period)
    BY <1>1, <1>3, <2>2 DEF Turns
  <2>5. RtcpTurn(IF macosX THEN 0 ELSE (count + 1) % Period)
    BY <1>3, <2>1, <2>2 DEF RtcpTurn
  <2> DEFINE Q == (count + left) \div Period
  <2>6. Q \in Int /\ Turns = left - Q /\ Turns' = left' - Q
    BY <2>3, <2>4
  <2> HIDE DEF Q
  <2> QED
    BY <1>1, <2>5, <2>6
<1>4. CASE ~macosX /\ ~(count + 1 <= Period - 1)
  <2>1. count + 1 = Period
    BY <1>1, <1>4
  <2>2. (count + 1) % Period = 0
    <3>1. (1 * Period) % Period = 0
      BY <1>1, WholeMultiple
    <3>2. 1 * Period = count + 1
      BY <1>1, <2>1
    <3> QED
      BY <3>1, <3>2
  <2>3. count + left = left' + Period /\ left' \in Nat /\ count' + left' = left'
    BY <1>1, <1>4, <2>1, <2>2
  <2>4. (count + left) \div Period = (left' \div Period) + 1 /\ left' \div Period \in Int
    <3>1. (left' + Period) \div Period = (left' \div Period) + 1
      BY <1>1, <2>3, NextQuotient
    <3>2. left' \div Period \in Int
      BY <1>1, <2>3
    <3> QED
      BY <2>3, <3>1, <3>2
  <2>5. Turns = left - ((count + left) \div Period) /\ Turns' = left' - (left' \div Period)
    BY <1>1, <1>4, <2>3 DEF Turns
  <2> QED
    BY <1>1, <1>4, <2>2, <2>4, <2>5 DEF RtcpTurn
<1> QED
  BY <1>2, <1>3, <1>4

LEMMA IterateOnce ==
  ASSUME RtcpTypeOK, OnceInv, Iterate
  PROVE  OnceInv'
<1> DEFINE n == IF macosX THEN 0 ELSE (count + 1) % Period
<1>1. /\ Looping /\ Looping' /\ stuck' = stuck /\ separated' = separated
      /\ since' = AfterSR(n) /\ ProcessRtcp(n)
      /\ \E to : sr' = IF Due(n) THEN Arrive(sr, to) ELSE sr
  BY DEF Iterate, Looping, chosen
<1>2. /\ reports \in Seq(Receivers) /\ since \in 0..(Interval + 1) \cup {Never}
      /\ sr \in [Receivers -> 0..Cap] /\ Interval \in Nat \ {0}
  BY RtcpAssumption DEF RtcpTypeOK
<1>3. /\ RtcpTurn(n) => Turns' = Turns - 1 /\ Turns \in Int
      /\ ~RtcpTurn(n) => Turns' = Turns
  BY TurnsStep
<1> HIDE DEF n
<1>4. \/ RtcpTurn(n) /\ reports # <<>> /\ reports' = Tail(reports)
      \/ reports' = reports /\ (RtcpTurn(n) => reports = <<>>)
  BY <1>1 DEF ProcessRtcp
<1>5. /\ Single' /\ (reports = <<>> => reports' = <<>>)
      /\ \A r : (\A i \in 1 .. Len(reports) : reports[i] # r) =>
                  (\A i \in 1 .. Len(reports') : reports'[i] # r)
  <2>1. CASE reports' = reports
    BY <2>1 DEF Single, OnceInv
  <2>2. CASE reports # <<>> /\ reports' = Tail(reports)
    <3>1. /\ Len(reports') = Len(reports) - 1 /\ Len(reports) \in Nat \ {0}
          /\ \A i \in 1 .. Len(reports') : reports'[i] = reports[i + 1]
      BY <1>2, <2>2, HeadTaken
    <3>2. \A i \in 1 .. Len(reports') : i + 1 \in 1 .. Len(reports)
      BY <3>1
    <3>3. Single'
      <4>1. SUFFICES ASSUME NEW i \in 1 .. Len(reports'), NEW j \in 1 .. Len(reports'),
                            reports'[i] = reports'[j]
                     PROVE  i = j
        BY DEF Single
      <4>2. reports[i + 1] = reports[j + 1]
        BY <3>1, <4>1
      <4>3. i + 1 = j + 1
        BY <3>2, <4>2 DEF Single, OnceInv
      <4> QED
        BY <3>1, <4>3
    <3> QED
      BY <2>2, <3>1, <3>2, <3>3
  <2> QED
    BY <1>4, <2>1, <2>2
<1>6. separated => reports' = <<>>
  BY <1>5 DEF OnceInv
<1>7. ASSUME ~separated PROVE Answered' /\ ReadInTime'
  <2>1. stuck = {} /\ Answered /\ ReadInTime
    BY <1>1, <1>7 DEF OnceInv
  <2>2. CASE Due(n)
    <3>1. since = Interval + 1 /\ since' = 0
      BY <1>1, <1>2, <2>2 DEF Due, Never, AfterSR
    <3>2. since # 0 /\ since \notin {0, 1}
      BY <1>2, <3>1
    <3>3. reports = <<>> /\ reports' = <<>> /\ \A r \in Receivers : sr[r] = 0
      BY <1>5, <2>1, <3>2 DEF ReadInTime
    <3>4. \A r \in Receivers : sr'[r] \in {0, 1}
      <4>1. PICK to : sr' = Arrive(sr, to)
        BY <1>1, <2>2
      <4> QED
        BY <3>3, <4>1 DEF Arrive
    <3>5. 1 .. Len(reports') = {}
      BY <3>3
    <3>6. Answered'
      BY <3>4, <3>5 DEF Answered
    <3>7. ReadInTime'
      BY <3>1, <3>3 DEF ReadInTime
    <3> QED
      BY <3>6, <3>7
  <2>3. CASE ~Due(n)
    <3>1. since' = since /\ sr' = sr
      BY <1>1, <2>3 DEF AfterSR
    <3>2. Answered'
      BY <1>5, <2>1, <3>1 DEF Answered
    <3>3. since = 1 => reports' = <<>> \/ Len(reports') <= Turns'
      <4>1. SUFFICES ASSUME since = 1, reports # <<>> PROVE reports' = <<>> \/ Len(reports') <= Turns'
        BY <1>5
      <4>2. Len(reports) <= Turns
        BY <2>1, <4>1 DEF ReadInTime
      <4>3. CASE RtcpTurn(n)
        <5>1. Len(reports') = Len(reports) - 1 /\ Len(reports) \in Nat
          BY <1>2, <1>4, <4>1, <4>3, HeadTaken
        <5> QED
          BY <1>3, <4>2, <4>3, <5>1
      <4>4. CASE ~RtcpTurn(n)
        BY <1>3, <1>4, <4>2, <4>4
      <4> QED
        BY <4>3, <4>4
    <3>4. ReadInTime'
      BY <1>5, <2>1, <3>1, <3>3 DEF ReadInTime
    <3> QED
      BY <3>2, <3>4
  <2> QED
    BY <2>2, <2>3
<1> QED
  BY <1>1, <1>5, <1>6, <1>7 DEF OnceInv

LEMMA SecondOnce ==
  ASSUME RtcpTypeOK, OnceInv, Second, TurnsForAll, slow = {}
  PROVE  OnceInv'
<1>1. /\ reports' = reports /\ sr' = sr /\ stuck' = stuck /\ count' = count
      /\ separated' = separated /\ camera' = camera /\ macosX' = macosX
      /\ since' = IF since \in 0..Interval THEN since + 1 ELSE since
  BY DEF Second, chosen
<1>2. Single' /\ (separated => reports' = <<>>) /\ (~separated => stuck' = {} /\ Answered')
  BY <1>1 DEF OnceInv, Single, Answered
<1>3. ASSUME ~separated, Looping PROVE ReadInTime'
  <2>1. ReadInTime /\ stuck = {} /\ left = 0 /\ left' = Blocks
    BY <1>3 DEF OnceInv, Second
  <2>2. \A r \in Receivers : sr'[r] = 0
    BY <1>1, <1>3, <2>1 DEF Second, Idle
  <2>3. /\ Interval \in Nat \ {0} /\ since \in 0..(Interval + 1) \cup {Never}
        /\ Blocks \in Nat /\ Period \in Nat \ {0} /\ count \in 0 .. Period - 1
        /\ reports \in Seq(Receivers)
    BY RtcpAssumption DEF RtcpTypeOK
  <2>4. ASSUME since' = 1 PROVE reports' = <<>> \/ Len(reports') <= Turns'
    <3>1. since = 0 \/ since = 1
      BY <1>1, <2>3, <2>4 DEF Never
    <3>2. Len(reports) <= Cardinality(Receivers) /\ Cardinality(Receivers) \in Nat
      BY ReportsBounded, FS_CardinalityType DEF OnceInv, TurnsForAll
    <3> DEFINE Q == (count + Blocks) \div Period
               R == (Blocks + Period - 1) \div Period
    <3>3. Q <= R /\ Q \in Int /\ R \in Int
      <4>1. count + Blocks \in Nat /\ Blocks + Period - 1 \in Nat
            /\ count + Blocks <= Blocks + Period - 1
        BY <2>3
      <4> QED
        BY <2>3, <4>1, QuotientGrows
    <3>4. R >= 0
      <4>1. 0 \div Period = 0
        BY <2>3, SmallQuotient
      <4>2. Blocks + Period - 1 \in Nat /\ 0 <= Blocks + Period - 1
        BY <2>3
      <4>3. 0 \div Period <= (Blocks + Period - 1) \div Period
        BY <2>3, <4>2, QuotientGrows
      <4> QED
        BY <4>1, <4>3
    <3>5. Cardinality(Receivers) + R <= Blocks
      BY DEF TurnsForAll
    <3>6. Turns' = IF macosX THEN Blocks ELSE Blocks - Q
      BY <1>1, <2>1 DEF Turns
    <3>7. Len(reports) \in Nat
      BY <2>3
    <3> HIDE DEF Q, R
    <3>8. Len(reports) <= Turns'
      BY <2>3, <3>2, <3>3, <3>4, <3>5, <3>6, <3>7
    <3> QED
      BY <1>1, <3>8
  <2>5. ASSUME since' \notin {0, 1} PROVE reports' = <<>>
    <3>1. CASE since = 1
      <4>1. Turns <= 0
        <5>1. CASE macosX
          BY <2>1, <5>1 DEF Turns
        <5>2. CASE ~macosX
          <6>1. count + left = count
            BY <2>1, <2>3
          <6>2. count \div Period = 0
            BY <2>3, SmallQuotient
          <6> QED
            BY <2>1, <5>2, <6>1, <6>2 DEF Turns
        <5> QED
          BY <5>1, <5>2
      <4>2. reports = <<>> \/ Len(reports) <= Turns
        BY <2>1, <3>1 DEF ReadInTime
      <4>3. Turns \in Int /\ Len(reports) \in Nat /\ (Len(reports) = 0 => reports = <<>>)
        <5>1. Turns \in Int
          BY <2>1, <2>3 DEF Turns
        <5> QED
          BY <2>3, <5>1
      <4> QED
        BY <1>1, <4>1, <4>2, <4>3
    <3>2. CASE since # 1
      <4>1. since \notin {0, 1}
        BY <1>1, <2>3, <2>5, <3>2
      <4> QED
        BY <1>1, <2>1, <4>1 DEF ReadInTime
    <3> QED
      BY <3>1, <3>2
  <2> QED
    BY <2>2, <2>4, <2>5 DEF ReadInTime
<1> QED
  BY <1>1, <1>2, <1>3 DEF OnceInv, Looping

LEMMA ReadSROnce ==
  ASSUME RtcpTypeOK, OnceInv, NEW r \in Receivers, ReadSR(r)
  PROVE  OnceInv'
<1>1. /\ ~separated /\ sr[r] > 0 /\ sr' = [sr EXCEPT ![r] = @ - 1]
      /\ reports' = reports \/ reports' = Append(reports, r)
      /\ UNCHANGED <<senderVars, stuck>>
  BY DEF ReadSR, Reply
<1>2. /\ since' = since /\ count' = count /\ left' = left /\ camera' = camera
      /\ separated' = separated /\ macosX' = macosX /\ stuck' = stuck
  BY <1>1 DEF senderVars, chosen
<1>3. reports \in Seq(Receivers) /\ sr \in [Receivers -> 0..Cap]
  BY DEF RtcpTypeOK
<1>4. /\ stuck = {} /\ Answered /\ Single /\ (Looping => ReadInTime)
  BY <1>1 DEF OnceInv
<1>5. sr[r] = 1 /\ sr'[r] = 0 /\ \A t \in Receivers : t # r => sr'[t] = sr[t]
  BY <1>1, <1>3, <1>4 DEF Answered
<1>6. \A i \in 1 .. Len(reports) : reports[i] # r
  BY <1>4, <1>5 DEF Answered
<1>7. CASE reports' = reports
  BY <1>1, <1>2, <1>4, <1>5, <1>7 DEF OnceInv, Single, Answered, ReadInTime, Looping, Turns
<1>8. CASE reports' = Append(reports, r)
  <2>1. /\ Len(reports') = Len(reports) + 1 /\ Len(reports) \in Nat
        /\ \A i \in 1 .. Len(reports) + 1 : reports'[i] = IF i <= Len(reports) THEN reports[i] ELSE r
    BY <1>3, <1>8, TailAdded
  <2>2. \A i \in 1 .. Len(reports') :
          \/ i \in 1 .. Len(reports) /\ reports'[i] = reports[i]
          \/ i = Len(reports) + 1 /\ reports'[i] = r
    BY <2>1
  <2>3. Single'
    BY <1>4, <1>6, <2>2 DEF Single
  <2>4. Answered'
    <3>1. SUFFICES ASSUME NEW t \in Receivers
                   PROVE  sr'[t] \in {0, 1} /\
                          (sr'[t] = 1 => \A i \in 1 .. Len(reports') : reports'[i] # t)
      BY DEF Answered
    <3>2. CASE t = r
      BY <1>5, <3>2
    <3>3. CASE t # r
      BY <1>4, <1>5, <2>2, <3>3 DEF Answered
    <3> QED
      BY <3>2, <3>3
  <2>5. Looping => since = 0
    BY <1>4, <1>5 DEF ReadInTime
  <2>6. Looping' => ReadInTime'
    BY <1>2, <2>5 DEF Looping, ReadInTime
  <2> QED
    BY <1>1, <1>2, <1>4, <2>3, <2>4, <2>6 DEF OnceInv
<1> QED
  BY <1>1, <1>7, <1>8

(* At most one RR of each dvrecv waits at dvsend (process_rtcp in
   dvsend/rtcp.c reads one a turn, send_rtcp_rr in dvrecv/rtcp.c answers each
   SR) if they keep up with the stream, for every number of dvrecvs that the turns
   of a second suffice for. *)
THEOREM ReportsDoNotPileUp ==
  ASSUME TurnsForAll
  PROVE  RtcpSpec => []OneReportEach
<1> DEFINE FastInv == slow = {} => OnceInv
<1>1. RtcpInit => FastInv
  <2> SUFFICES ASSUME RtcpInit PROVE OnceInv
    OBVIOUS
  <2>1. reports = <<>> /\ sr = [r \in Receivers |-> 0] /\ stuck = {}
    BY DEF RtcpInit
  <2>2. 1 .. Len(reports) = {}
    BY <2>1
  <2> QED
    BY <2>1, <2>2 DEF OnceInv, Single, Answered, ReadInTime
<1>2. RtcpTypeOK /\ FastInv /\ [RtcpNext]_rtcpVars => FastInv'
  <2>0. [RtcpNext]_rtcpVars => slow' = slow
    BY DEF RtcpNext, Iterate, DeviceFails, Second, Selected, ReadRtp, WaitAudio, ReadSR,
           ReadAudio, rtcpVars, senderVars, chosen
  <2> SUFFICES ASSUME RtcpTypeOK, slow = {}, OnceInv, [RtcpNext]_rtcpVars PROVE OnceInv'
    BY <2>0
  <2>1. CASE Iterate
    BY <2>1, IterateOnce
  <2>2. CASE Second
    BY <2>2, SecondOnce
  <2>3. ASSUME NEW r \in Receivers, ReadSR(r) PROVE OnceInv'
    BY <2>3, ReadSROnce
  <2>4. CASE DeviceFails
    <3>1. UNCHANGED <<since, count, left, reports, sr, stuck, chosen>> /\ (Looping' => Looping)
      BY <2>4 DEF DeviceFails, Looping, chosen
    <3> QED
      BY <3>1 DEF OnceInv, Single, Answered, ReadInTime, Turns, chosen
  <2>5. ASSUME NEW r \in Receivers, ReadRtp(r) PROVE OnceInv'
    BY <2>5 DEF ReadRtp, OnceInv, Single, Answered, ReadInTime, Turns, Looping, senderVars, chosen
  <2>6. ASSUME NEW r \in Receivers, WaitAudio(r) PROVE OnceInv'
    BY <2>6 DEF WaitAudio, OnceInv, Single, Answered, ReadInTime, Turns, Looping, senderVars, chosen
  <2>7. ASSUME NEW r \in Receivers, ReadAudio(r) PROVE OnceInv'
    BY <2>7 DEF ReadAudio, OnceInv, Single, Answered, ReadInTime, Turns, Looping, senderVars, chosen
  <2>8. CASE UNCHANGED rtcpVars
    BY <2>8 DEF rtcpVars, OnceInv, Single, Answered, ReadInTime, Turns, Looping, senderVars, chosen
  <2> QED
    BY <2>1, <2>2, <2>3, <2>4, <2>5, <2>6, <2>7, <2>8 DEF RtcpNext, Selected
<1>3. RtcpTypeOK /\ FastInv => OneReportEach
  <2> SUFFICES ASSUME RtcpTypeOK, slow = {}, OnceInv, NEW r \in Receivers PROVE Cardinality(Of(r)) <= 1
    BY DEF OneReportEach
  <2>1. DOMAIN reports = 1 .. Len(reports)
    BY DEF RtcpTypeOK
  <2>2. CASE Of(r) = {}
    BY <2>2, FS_EmptySet
  <2>3. CASE Of(r) # {}
    <3>1. PICK i : Of(r) = {i}
      <4>1. PICK k \in 1 .. Len(reports) : reports[k] = r
        BY <2>1, <2>3 DEF Of
      <4>2. \A j \in 1 .. Len(reports) : reports[j] = r => j = k
        BY <4>1 DEF OnceInv, Single
      <4>3. Of(r) = {k}
        BY <2>1, <4>1, <4>2 DEF Of
      <4> QED
        BY <4>3
    <3>2. Cardinality({i}) = 1
      BY FS_Singleton
    <3> QED
      BY <3>1, <3>2
  <2> QED
    BY <2>2, <2>3
<1> QED
  BY <1>1, <1>2, <1>3, RtcpType, PTL DEF RtcpSpec

(***************************************************************************)
(* The sockets                                                             *)
(***************************************************************************)
(* The destinations, and the entry of the receive list. *)
Host == DOMAIN Family
Ifname == {""} \cup Interfaces \cup {d.ifname : d \in Dests}
Default == [port : Nat, ttl : Nat, ifname : Ifname, ifname6 : Ifname]
Dest == [host : Host, port : Nat, ttl : Nat, ifname : Ifname, ifname6 : Ifname,
         family : Families \cup {"unspec"}, soc : Nat]
Recv == [family : Families, port : Nat, soc : Nat, next : {"null", "wild"}]

DestTypes ==
  /\ at \in Nat \ {0} /\ (pc = "options" => at = 1)
  /\ default \in Default
  /\ dests \in Seq(Dest) /\ outs \in Seq(Dest) /\ Len(outs) <= Len(dests)
  /\ recv \in Seq(Recv) /\ nextFd \in Nat

(* A name under a hint resolves to one family, or to none. *)
LEMMA ResolvesOnce ==
  ASSUME NEW host \in Host, NEW hint \in Families \cup {"unspec"}
  PROVE  /\ Resolved(host, hint) \subseteq Families
         /\ \A f, g \in Resolved(host, hint) : f = g
<1>1. host # "" /\ Family[host] # <<>> /\ Family[host] \in Seq(Families)
  BY SocketsAssumption DEF Host
<1>2. Family[host][1] \in Families
  BY <1>1, SeqFirst
<1>3. CASE hint = "unspec"
  BY <1>1, <1>2, <1>3 DEF Resolved
<1>4. CASE hint # "unspec"
  BY <1>1, <1>4 DEF Resolved
<1> QED
  BY <1>3, <1>4

LEMMA Added ==
  ASSUME DestTypes, NEW d \in Dests
  PROVE  /\ AddDest(d) \in Dest /\ AddRtcpOut(d) \in Dest
         /\ AddDest(d).soc = 0 /\ AddRtcpOut(d).soc = 0
         /\ AddRtcpOut(d).port = AddDest(d).port + 1
         /\ AddRtcpOut(d).host = AddDest(d).host
         /\ AddRtcpOut(d).family = AddDest(d).family
<1>1. d \in [host : Host, port : Nat, ttl : Nat, ifname : STRING]
  BY SocketsAssumption DEF Host
<1>2. Hint \in Families \cup {"unspec"}
  BY DEF Hint, Families
<1>3. default \in Default
  BY DEF DestTypes
<1> DEFINE e == AddDest(d)
<1>4. /\ e \in Dest /\ e.soc = 0
  <2>1. /\ d.host \in Host /\ d.port \in Nat /\ d.ttl \in Nat /\ d.ifname \in Ifname
        /\ default.port \in Nat /\ default.ttl \in Nat /\ default.ifname \in Ifname
        /\ "" \in Ifname
    BY <1>1, <1>3 DEF Default, Ifname
  <2>2. /\ (IF d.port < 1 THEN default.port ELSE d.port) \in Nat
        /\ (IF d.ttl < 1 THEN default.ttl ELSE d.ttl) \in Nat
        /\ (IF d.ifname = "" THEN default.ifname ELSE d.ifname) \in Ifname
    BY <2>1
  <2>3. ASSUME NEW p \in Nat, NEW t \in Nat, NEW n \in Ifname
        PROVE  [host |-> d.host, port |-> p, ttl |-> t, ifname |-> n, ifname6 |-> "",
                family |-> Hint, soc |-> 0] \in Dest
    BY <1>2, <2>1 DEF Dest
  <2> QED
    BY <2>2, <2>3 DEF AddDest
<1>5. e.port \in Nat
  BY <1>4 DEF Dest
<1> HIDE DEF e
<1>6. [e EXCEPT !.port = @ + 1] \in Dest
  BY <1>4, <1>5 DEF Dest
<1>7. /\ [e EXCEPT !.port = @ + 1].soc = 0
      /\ [e EXCEPT !.port = @ + 1].port = e.port + 1
      /\ [e EXCEPT !.port = @ + 1].host = e.host
      /\ [e EXCEPT !.port = @ + 1].family = e.family
  BY <1>4, <1>5 DEF Dest
<1> QED
  BY <1>4, <1>6, <1>7 DEF e, AddRtcpOut

(* What the steps of the start-up do to a destination: give it the family it
   resolved to, and most often a socket. *)
Enter(q, i, f, s) == [q EXCEPT ![i].family = f, ![i].soc = s]
EnterFamily(q, i, f) == [q EXCEPT ![i].family = f]

LEMMA Entered ==
  ASSUME NEW q \in Seq(Dest), NEW i \in 1 .. Len(q), NEW f \in Families, NEW s \in Nat
  PROVE  \E x \in Dest :
           /\ Enter(q, i, f, s) = [q EXCEPT ![i] = x]
           /\ x.soc = s /\ x.family = f /\ x.port = q[i].port /\ x.host = q[i].host
<1>1. q[i] \in Dest
  BY SeqElement
<1> DEFINE e == q[i]
           x == [e EXCEPT !.family = f, !.soc = s]
<1>2. e \in Dest
  BY <1>1
<1>3. Enter(q, i, f, s) = [q EXCEPT ![i] = x]
  BY DEF Enter
<1> HIDE DEF e
<1>4. x \in Dest /\ x.soc = s /\ x.family = f /\ x.port = e.port /\ x.host = e.host
  BY <1>2 DEF Dest
<1> HIDE DEF x
<1> QED
  BY <1>3, <1>4 DEF e

LEMMA FamilyEntered ==
  ASSUME NEW q \in Seq(Dest), NEW i \in 1 .. Len(q), NEW f \in Families
  PROVE  \E x \in Dest :
           /\ EnterFamily(q, i, f) = [q EXCEPT ![i] = x]
           /\ x.soc = q[i].soc /\ x.family = f /\ x.port = q[i].port /\ x.host = q[i].host
<1>1. q[i] \in Dest
  BY SeqElement
<1> DEFINE e == q[i]
           x == [e EXCEPT !.family = f]
<1>2. e \in Dest
  BY <1>1
<1>3. EnterFamily(q, i, f) = [q EXCEPT ![i] = x]
  BY DEF EnterFamily
<1> HIDE DEF e
<1>4. x \in Dest /\ x.soc = e.soc /\ x.family = f /\ x.port = e.port /\ x.host = e.host
  BY <1>2 DEF Dest
<1> HIDE DEF x
<1> QED
  BY <1>3, <1>4 DEF e

(* Two lists of destinations whose sockets are all different, and less than n. *)
Sockets(q, n) ==
  /\ \A i \in 1 .. Len(q) : q[i].soc < n
  /\ \A i, j \in 1 .. Len(q) : q[i].soc = q[j].soc /\ q[i].soc # 0 => i = j
Apart(q, r) == \A i \in 1 .. Len(q), j \in 1 .. Len(r) : q[i].soc = r[j].soc => q[i].soc = 0
SocketInv == Sockets(dests, nextFd) /\ Sockets(outs, nextFd) /\ Apart(dests, outs)

(* With one destination its RTCP entry is the same host under the same hint,
   one port on; each of the two is resolved once, to the same family. *)
Pair == Len(dests) = 1 /\ Len(outs) = 1
HeardInv ==
  /\ Pair => outs[1].port = dests[1].port + 1 /\ outs[1].host = dests[1].host
  /\ pc = "options" \/ (pc = "rtp" /\ at = 1) =>
       recv = <<>> /\ (Pair => outs[1].family = dests[1].family)
  /\ (pc = "rtp" /\ at # 1) \/ pc = "audio" \/ (pc = "rtcp" /\ at = 1) =>
       recv = <<>> /\ (Pair => dests[1].family \in Resolved(outs[1].host, outs[1].family))
  /\ (pc = "rtcp" /\ at # 1) \/ pc \in {"rtcpAudio", "multicast", "multicastRtcp", "loop"} =>
       (recv # <<>> /\ Len(dests) = 1 => Heard(1))

LEMMA SocketPut ==
  ASSUME NEW q \in Seq(Dest), NEW r \in Seq(Dest), NEW n \in Nat, NEW i \in 1 .. Len(q),
         NEW x \in Dest, x.soc = n,
         Sockets(q, n), Sockets(r, n), Apart(q, r),
         NEW p, p = [q EXCEPT ![i] = x]
  PROVE  Sockets(p, n + 1) /\ Sockets(r, n + 1) /\ Apart(p, r)
<1>1. /\ p \in Seq(Dest) /\ Len(p) = Len(q)
      /\ \A j \in 1 .. Len(q) : p[j] = IF j = i THEN x ELSE q[j]
  BY SeqPut
<1>2. \A j \in 1 .. Len(q) : q[j].soc \in Nat /\ q[j].soc < n
  <2>1. \A j \in 1 .. Len(q) : q[j] \in Dest
    BY SeqElement
  <2> QED
    BY <2>1 DEF Dest, Sockets
<1>3. \A j \in 1 .. Len(r) : r[j].soc \in Nat /\ r[j].soc < n
  <2>1. \A j \in 1 .. Len(r) : r[j] \in Dest
    BY SeqElement
  <2> QED
    BY <2>1 DEF Dest, Sockets
<1>4. \A j \in 1 .. Len(q) : p[j].soc = IF j = i THEN n ELSE q[j].soc
  BY <1>1
<1>5. Sockets(p, n + 1)
  <2>1. \A j \in 1 .. Len(p) : p[j].soc < n + 1
    BY <1>1, <1>2, <1>4
  <2>2. ASSUME NEW j \in 1 .. Len(p), NEW k \in 1 .. Len(p), p[j].soc = p[k].soc, p[j].soc # 0
        PROVE  j = k
    <3>1. (j = i => p[j].soc = n) /\ (k = i => p[k].soc = n)
          /\ (j # i => p[j].soc = q[j].soc /\ p[j].soc < n)
          /\ (k # i => p[k].soc = q[k].soc /\ p[k].soc < n)
      BY <1>1, <1>2, <1>4
    <3> QED
      BY <1>1, <2>2, <3>1 DEF Sockets
  <2> QED
    BY <2>1, <2>2 DEF Sockets
<1>6. Sockets(r, n + 1)
  <2>1. \A j \in 1 .. Len(r) : r[j].soc < n + 1
    BY <1>3
  <2>2. \A j, k \in 1 .. Len(r) : r[j].soc = r[k].soc /\ r[j].soc # 0 => j = k
    BY DEF Sockets
  <2> QED
    BY <2>1, <2>2 DEF Sockets
<1>7. Apart(p, r)
  <2>1. SUFFICES ASSUME NEW j \in 1 .. Len(p), NEW k \in 1 .. Len(r), p[j].soc = r[k].soc
                 PROVE  p[j].soc = 0
    BY DEF Apart
  <2>2. j # i
    <3>1. SUFFICES ASSUME j = i PROVE FALSE
      OBVIOUS
    <3>2. r[k].soc = n /\ r[k].soc < n /\ r[k].soc \in Nat
      BY <1>1, <1>3, <1>4, <2>1, <3>1
    <3> QED
      BY <3>2
  <2> QED
    BY <1>1, <1>4, <2>1, <2>2 DEF Apart
<1> QED
  BY <1>5, <1>6, <1>7

LEMMA ApartTurned ==
  ASSUME NEW q, NEW r, Apart(q, r)
  PROVE  Apart(r, q)
BY DEF Apart

LEMMA SocketAdd ==
  ASSUME NEW q \in Seq(Dest), NEW r \in Seq(Dest), NEW n \in Nat, NEW x \in Dest, x.soc = 0,
         Sockets(q, n), Apart(q, r), 0 < n
  PROVE  Sockets(Append(q, x), n) /\ Apart(Append(q, x), r)
<1> DEFINE p == Append(q, x)
<1>1. /\ Len(p) = Len(q) + 1 /\ Len(q) \in Nat
      /\ \A i \in 1 .. Len(q) + 1 : p[i] = IF i <= Len(q) THEN q[i] ELSE x
  BY TailAdded
<1> HIDE DEF p
<1>2. \A i \in 1 .. Len(p) : \/ i \in 1 .. Len(q) /\ p[i] = q[i]
                             \/ i = Len(q) + 1 /\ p[i] = x
  BY <1>1
<1>3. \A i \in 1 .. Len(p) : p[i].soc < n
  BY <1>2 DEF Sockets
<1>4. \A i \in 1 .. Len(p) : p[i].soc # 0 => i \in 1 .. Len(q) /\ p[i] = q[i]
  BY <1>2
<1>5. Sockets(p, n)
  BY <1>3, <1>4 DEF Sockets
<1>6. Apart(p, r)
  BY <1>4 DEF Apart
<1> QED
  BY <1>5, <1>6 DEF p

(* The multicast options set so far: in m a destination has what it asks for, or
   the defaults where a call was refused, and only sockets that multicast_settings
   has come past have any. *)
Given(m, d) == d.soc \in DOMAIN m /\ \E r \in Refusals(d) : m[d.soc] = Set(None, Wanted(d), r)
GivenUpTo(m, q, n) ==
  \A i \in 1 .. Len(q) : i < n /\ q[i].host \in Multicast /\ q[i].soc # 0 => Given(m, q[i])
Past(q, n, s) == \E i \in 1 .. Len(q) : i < n /\ q[i].soc = s
MulticastInv ==
  /\ pc \notin {"multicast", "multicastRtcp", "loop"} \cup Ends => DOMAIN mopts = {}
  /\ pc = "multicast" =>
       GivenUpTo(mopts, dests, at) /\ \A s \in DOMAIN mopts : Past(dests, at, s)
  /\ pc = "multicastRtcp" =>
       /\ GivenUpTo(mopts, dests, Len(dests) + 1) /\ GivenUpTo(mopts, outs, at)
       /\ \A s \in DOMAIN mopts : Past(dests, Len(dests) + 1, s) \/ Past(outs, at, s)

SocketsInv == DestTypes /\ SocketInv /\ HeardInv /\ MulticastInv /\ OwnOptions /\ 0 < nextFd

LEMMA SocketsStart == SocketsInit => SocketsInv
<1> SUFFICES ASSUME SocketsInit PROVE SocketsInv
  OBVIOUS
<1>1. pc = "options" /\ at = 1 /\ recv = <<>> /\ nextFd = 3
  BY DEF SocketsInit
<1>2. default \in Default
  <2> DEFINE p == DEFAULT_DVTS_UDP_PORT
             i == ""
  <2>1. p \in Nat /\ 1 \in Nat
    BY DEF DEFAULT_DVTS_UDP_PORT
  <2>2. i \in Ifname
    BY DEF Ifname
  <2>3. default = [port |-> p, ttl |-> 1, ifname |-> i, ifname6 |-> i]
    BY DEF SocketsInit
  <2> HIDE DEF p, i
  <2> QED
    BY <2>1, <2>2, <2>3 DEF Default
<1>3. dests = <<>> /\ outs = <<>>
  BY DEF SocketsInit
<1>4. Len(dests) = 0 /\ Len(outs) = 0
  BY <1>3
<1>5. DestTypes
  <2>1. dests \in Seq(Dest) /\ outs \in Seq(Dest)
    BY <1>3
  <2>2. recv \in Seq(Recv)
    BY <1>1
  <2> QED
    BY <1>1, <1>2, <1>4, <2>1, <2>2 DEF DestTypes
<1>6. 1 .. Len(dests) = {} /\ 1 .. Len(outs) = {} /\ ~Pair
  BY <1>4 DEF Pair
<1>7. SocketInv
  BY <1>6 DEF SocketInv, Sockets, Apart
<1>8. HeardInv
  BY <1>1, <1>6 DEF HeardInv
<1>9. MulticastInv
  <2>1. mopts = <<>>
    BY DEF SocketsInit
  <2> QED
    BY <1>1, <2>1 DEF MulticastInv
<1> QED
  BY <1>1, <1>5, <1>7, <1>8, <1>9 DEF SocketsInv, OwnOptions

LEMMA AddDestinationKeeps ==
  ASSUME SocketsInv, NEW d \in Dests, AddDestination(d)
  PROVE  SocketsInv'
<1> DEFINE x == AddDest(d)
           y == AddRtcpOut(d)
<1>1. /\ DestTypes /\ SocketInv /\ HeardInv /\ 0 < nextFd
      /\ pc = "options" /\ pc' = pc /\ at' = at /\ default' = default /\ recv' = recv
      /\ nextFd' = nextFd /\ bound' = bound /\ mopts' = mopts
      /\ dests' = Append(dests, x)
      /\ outs' = Append(outs, y) \/ outs' = outs
  BY DEF SocketsInv, AddDestination, options, sockets
<1>2. /\ x \in Dest /\ y \in Dest /\ x.soc = 0 /\ y.soc = 0 /\ y.port = x.port + 1
      /\ y.host = x.host /\ y.family = x.family
  BY <1>1, Added
<1> HIDE DEF x, y
<1>3. /\ dests \in Seq(Dest) /\ outs \in Seq(Dest) /\ Len(outs) <= Len(dests) /\ nextFd \in Nat
      /\ at = 1 /\ default \in Default /\ recv \in Seq(Recv)
  BY <1>1 DEF DestTypes
<1>4. /\ dests' \in Seq(Dest) /\ Len(dests') = Len(dests) + 1 /\ Len(dests) \in Nat
      /\ \A i \in 1 .. Len(dests) + 1 : dests'[i] = IF i <= Len(dests) THEN dests[i] ELSE x
  BY <1>1, <1>2, <1>3, TailAdded
<1>5. /\ Len(outs) \in Nat /\ outs' \in Seq(Dest)
      /\ \/ /\ outs' = Append(outs, y) /\ Len(outs') = Len(outs) + 1
            /\ \A i \in 1 .. Len(outs) + 1 : outs'[i] = IF i <= Len(outs) THEN outs[i] ELSE y
         \/ outs' = outs
  <2>1. CASE outs' = outs
    BY <1>3, <2>1
  <2>2. CASE outs' = Append(outs, y)
    BY <1>2, <1>3, <2>2, TailAdded
  <2> QED
    BY <1>1, <2>1, <2>2
<1>6. DestTypes'
  BY <1>1, <1>3, <1>4, <1>5 DEF DestTypes
<1>7. SocketInv'
  <2>1. Sockets(dests', nextFd) /\ Apart(dests', outs)
    BY <1>1, <1>2, <1>3, SocketAdd DEF SocketInv
  <2>2. Apart(outs, dests')
    BY <2>1, ApartTurned
  <2>3. CASE outs' = outs
    BY <1>1, <2>1, <2>3 DEF SocketInv
  <2>4. CASE outs' = Append(outs, y)
    <3>1. Sockets(outs', nextFd) /\ Apart(outs', dests')
      BY <1>1, <1>2, <1>3, <1>4, <2>2, <2>4, SocketAdd DEF SocketInv
    <3>2. Apart(dests', outs')
      BY <3>1, ApartTurned
    <3> QED
      BY <1>1, <2>1, <3>1, <3>2 DEF SocketInv
  <2> QED
    BY <1>1, <2>3, <2>4
<1>8. HeardInv'
  <2>1. recv' = <<>>
    BY <1>1 DEF HeardInv
  <2>2. Pair' => /\ outs'[1].port = dests'[1].port + 1 /\ outs'[1].host = dests'[1].host
                 /\ outs'[1].family = dests'[1].family
    <3>1. SUFFICES ASSUME Pair' PROVE dests'[1] = x /\ outs'[1] = y
      BY <1>2
    <3>2. Len(dests) = 0 /\ Len(outs) = 0 /\ Len(outs') = 1
      BY <1>3, <1>4, <1>5, <3>1 DEF Pair
    <3>3. dests'[1] = x
      BY <1>4, <3>2
    <3>4. outs' # outs
      BY <3>2
    <3> QED
      BY <1>5, <3>2, <3>3, <3>4
  <2> QED
    BY <1>1, <1>3, <2>1, <2>2 DEF HeardInv
<1>9. MulticastInv'
  BY <1>1 DEF SocketsInv, MulticastInv
<1> QED
  BY <1>1, <1>6, <1>7, <1>8, <1>9 DEF SocketsInv, OwnOptions

(* Nothing that matters to the invariant changes. *)
LEMMA Untouched ==
  ASSUME SocketsInv, UNCHANGED <<pc, at, default, dests, outs, recv, nextFd, bound, mopts>>
  PROVE  SocketsInv'
<1>1. DestTypes'
  BY DEF SocketsInv, DestTypes
<1>2. SocketInv'
  BY DEF SocketsInv, SocketInv, Sockets, Apart
<1>3. HeardInv'
  BY DEF SocketsInv, HeardInv, Pair, Heard
<1>4. OwnOptions'
  BY DEF SocketsInv, OwnOptions, Groups
<1>5. MulticastInv'
  BY DEF SocketsInv, MulticastInv, GivenUpTo, Given, Past
<1> QED
  BY <1>1, <1>2, <1>3, <1>4, <1>5 DEF SocketsInv

(* A step of the start-up ends, or the program does. *)
LEMMA StepEnds ==
  ASSUME SocketsInv, UNCHANGED <<default, dests, outs, recv, nextFd, bound, mopts>>,
         \/ pc' \in Ends /\ at' = at
         \/ pc' = "rtp" /\ at' = 1 /\ pc = "options"
         \/ at' = 1 /\ pc = "rtp" /\ at > Len(dests) /\ pc' \in {"audio", "rtcp", "multicast"}
         \/ at' = 1 /\ pc = "audio" /\ pc' \in {"rtcp", "multicast"}
         \/ at' = 1 /\ pc = "rtcp" /\ at > Len(outs) /\ pc' \in {"rtcpAudio", "multicast"}
  PROVE  SocketsInv'
<1>1. DestTypes /\ SocketInv /\ HeardInv /\ 0 < nextFd
  BY DEF SocketsInv
<1>2. pc' # "options" /\ pc' # "loop"
  BY DEF Ends
<1>3. DestTypes'
  BY <1>1, <1>2 DEF DestTypes
<1>4. SocketInv'
  BY <1>1 DEF SocketInv, Sockets, Apart
<1>5. at \in Nat \ {0} /\ Len(dests) \in Nat /\ Len(outs) \in Nat /\ (pc = "options" => at = 1)
  BY <1>1 DEF DestTypes
<1>6. Pair' = Pair /\ Heard(1)' = Heard(1)
  BY DEF Pair, Heard
<1>7. HeardInv'
  <2>1. Pair => outs[1].port = dests[1].port + 1 /\ outs[1].host = dests[1].host
    BY <1>1 DEF HeardInv
  <2>2. CASE pc' \in Ends
    BY <1>6, <2>1, <2>2 DEF HeardInv, Ends
  <2>3. CASE pc' = "rtp" /\ at' = 1 /\ pc = "options"
    BY <1>1, <1>6, <2>3 DEF HeardInv
  <2>4. CASE at' = 1 /\ pc = "rtp" /\ at > Len(dests) /\ pc' \in {"audio", "rtcp", "multicast"}
    <3>1. recv = <<>>
      BY <1>1, <2>4 DEF HeardInv
    <3>2. Pair => dests[1].family \in Resolved(outs[1].host, outs[1].family)
      <4>1. Pair => at # 1
        BY <1>5, <2>4 DEF Pair
      <4> QED
        BY <1>1, <2>4, <4>1 DEF HeardInv
    <3> QED
      BY <1>6, <2>1, <2>4, <3>1, <3>2 DEF HeardInv
  <2>5. CASE at' = 1 /\ pc = "audio" /\ pc' \in {"rtcp", "multicast"}
    <3>1. recv = <<>> /\ (Pair => dests[1].family \in Resolved(outs[1].host, outs[1].family))
      BY <1>1, <2>5 DEF HeardInv
    <3> QED
      BY <1>6, <2>1, <2>5, <3>1 DEF HeardInv
  <2>6. CASE at' = 1 /\ pc = "rtcp" /\ at > Len(outs) /\ pc' \in {"rtcpAudio", "multicast"}
    <3>1. recv # <<>> /\ Len(dests) = 1 => Heard(1)
      BY <1>1, <2>6 DEF HeardInv
    <3> QED
      BY <1>6, <2>1, <2>6, <3>1 DEF HeardInv
  <2> QED
    BY <2>2, <2>3, <2>4, <2>5, <2>6
<1>8. MulticastInv'
  <2>1. MulticastInv
    BY DEF SocketsInv
  <2>2. CASE pc' \in Ends
    BY <2>2 DEF MulticastInv, Ends
  <2>3. CASE pc' \notin Ends
    <3>1. DOMAIN mopts = {}
      BY <2>1, <2>3 DEF MulticastInv, Ends
    <3>2. pc' = "multicast" => at' = 1
      BY <2>3
    <3>3. pc' = "multicast" => GivenUpTo(mopts, dests, at')
      BY <1>5, <3>2 DEF GivenUpTo
    <3>4. pc' # "multicastRtcp"
      BY DEF Ends
    <3> QED
      BY <3>1, <3>3, <3>4 DEF MulticastInv, GivenUpTo, Given
  <2> QED
    BY <2>2, <2>3
<1> QED
  BY <1>1, <1>2, <1>3, <1>4, <1>7, <1>8 DEF SocketsInv, OwnOptions

LEMMA OptionsKeep ==
  ASSUME SocketsInv, SetDefault
  PROVE  SocketsInv'
<1>1. /\ default \in Default /\ pc = "options" /\ Ports \subseteq Nat /\ Ttls \subseteq Nat
      /\ UNCHANGED <<pc, at, dests, outs, recv, nextFd, bound, mopts>>
  BY SocketsAssumption DEF SocketsInv, DestTypes, SetDefault, sockets
<1>2. Interfaces \subseteq Ifname
  BY DEF Ifname
<1>3. default' \in Default
  <2>1. \/ \E p \in Nat : default' = [default EXCEPT !.port = p]
        \/ \E t \in Nat : default' = [default EXCEPT !.ttl = t]
        \/ \E i \in Interfaces : default' = [default EXCEPT !.ifname = i]
        \/ \E i \in Interfaces : default' = [default EXCEPT !.ifname6 = i]
    BY <1>1 DEF SetDefault
  <2> QED
    BY <1>1, <1>2, <2>1 DEF Default
<1>4. DestTypes'
  BY <1>1, <1>3 DEF SocketsInv, DestTypes
<1>5. SocketInv'
  BY <1>1 DEF SocketsInv, SocketInv, Sockets, Apart
<1>6. HeardInv'
  BY <1>1 DEF SocketsInv, HeardInv, Pair, Heard
<1>7. MulticastInv'
  BY <1>1 DEF SocketsInv, MulticastInv
<1> QED
  BY <1>1, <1>4, <1>5, <1>6, <1>7 DEF SocketsInv, OwnOptions

(* _prepare_rtp_send *)
LEMMA SocketOpened ==
  ASSUME SocketsInv, pc = "rtp", at <= Len(dests),
         NEW f \in Resolved(dests[at].host, dests[at].family),
         dests' = Enter(dests, at, f, nextFd),
         nextFd' = nextFd + 1, at' = at + 1,
         UNCHANGED <<pc, options, outs, recv, bound, mopts>>
  PROVE  SocketsInv'
<1>1. DestTypes /\ SocketInv /\ HeardInv /\ 0 < nextFd /\ default' = default
  BY DEF SocketsInv, options
<1>2. /\ dests \in Seq(Dest) /\ outs \in Seq(Dest) /\ nextFd \in Nat /\ at \in 1 .. Len(dests)
      /\ Len(outs) <= Len(dests)
  BY <1>1 DEF DestTypes
<1>3. f \in Families
  <2>1. dests[at] \in Dest
    BY <1>2, SeqElement
  <2>2. dests[at].host \in Host /\ dests[at].family \in Families \cup {"unspec"}
    BY <2>1 DEF Dest
  <2> QED
    BY <2>2, ResolvesOnce
<1>4. PICK x \in Dest :
        /\ dests' = [dests EXCEPT ![at] = x] /\ x.soc = nextFd
        /\ x.family = f /\ x.port = dests[at].port /\ x.host = dests[at].host
  BY <1>2, <1>3, Entered
<1>5. /\ dests' \in Seq(Dest) /\ Len(dests') = Len(dests)
      /\ \A j \in 1 .. Len(dests) : dests'[j] = IF j = at THEN x ELSE dests[j]
  BY <1>2, <1>4, SeqPut
<1>6. DestTypes'
  BY <1>1, <1>2, <1>5 DEF DestTypes
<1>7. SocketInv'
  <2>1. Sockets(dests, nextFd) /\ Sockets(outs, nextFd) /\ Apart(dests, outs)
    BY <1>1 DEF SocketInv
  <2>2. /\ dests \in Seq(Dest) /\ outs \in Seq(Dest) /\ nextFd \in Nat /\ at \in 1 .. Len(dests)
        /\ x \in Dest /\ x.soc = nextFd /\ dests' = [dests EXCEPT ![at] = x]
    BY <1>2, <1>4
  <2>3. Sockets(dests', nextFd + 1) /\ Sockets(outs, nextFd + 1) /\ Apart(dests', outs)
    BY ONLY <2>1, <2>2, SocketPut
  <2> QED
    BY <1>1, <2>3 DEF SocketInv
<1>8. HeardInv'
  <2>1. recv' = <<>>
    BY <1>1 DEF HeardInv
  <2>2. at' # 1 /\ Pair' = Pair
    BY <1>2, <1>5 DEF Pair
  <2>3. ASSUME Pair
        PROVE  /\ outs'[1].port = dests'[1].port + 1 /\ outs'[1].host = dests'[1].host
               /\ dests'[1].family \in Resolved(outs'[1].host, outs'[1].family)
    <3>1. at = 1
      BY <1>2, <2>3 DEF Pair
    <3>2. /\ outs[1].port = dests[1].port + 1 /\ outs[1].host = dests[1].host
          /\ outs[1].family = dests[1].family
      BY <1>1, <2>3, <3>1 DEF HeardInv
    <3>3. dests'[1] = x
      BY <1>2, <1>5, <3>1
    <3> QED
      BY <1>4, <3>1, <3>2, <3>3
  <2> QED
    BY <2>1, <2>2, <2>3 DEF HeardInv
<1>9. 0 < nextFd'
  BY <1>1, <1>2
<1>10. MulticastInv'
  BY DEF SocketsInv, MulticastInv, Ends
<1> QED
  BY <1>6, <1>7, <1>8, <1>9, <1>10 DEF SocketsInv, OwnOptions

(* _prepare_rtcp_send *)
LEMMA RtcpOpened ==
  ASSUME SocketsInv, pc = "rtcp", at <= Len(outs),
         NEW f \in Resolved(outs[at].host, outs[at].family),
         OpenRtcp(f), AddRtcpRecv(f), at' = at + 1,
         UNCHANGED <<pc, options, dests, mopts>>
  PROVE  SocketsInv'
<1>1. DestTypes /\ SocketInv /\ HeardInv /\ 0 < nextFd /\ default' = default
  BY DEF SocketsInv, options
<1>2. /\ dests \in Seq(Dest) /\ outs \in Seq(Dest) /\ nextFd \in Nat /\ at \in 1 .. Len(outs)
      /\ Len(outs) <= Len(dests) /\ recv \in Seq(Recv)
  BY <1>1 DEF DestTypes
<1>3. /\ outs[at] \in Dest /\ outs[at].host \in Host /\ outs[at].port \in Nat
      /\ outs[at].family \in Families \cup {"unspec"} /\ outs[at].soc \in Nat
  <2>1. outs[at] \in Dest
    BY <1>2, SeqElement
  <2> QED
    BY <2>1 DEF Dest
<1>4. f \in Families
  BY <1>3, ResolvesOnce
<1>5. PICK x \in Dest :
        /\ x.port = outs[at].port /\ x.host = outs[at].host
        /\ outs' = [outs EXCEPT ![at] = x]
        /\ \/ x.soc = nextFd /\ nextFd' = nextFd + 1
           \/ x.soc = outs[at].soc /\ nextFd' = nextFd
  <2>1. CASE SamePort(f)
    <3>1. outs' = EnterFamily(outs, at, f) /\ nextFd' = nextFd
      BY <2>1 DEF OpenRtcp, EnterFamily
    <3> QED
      BY <1>2, <1>4, <3>1, FamilyEntered
  <2>2. CASE ~SamePort(f)
    <3>1. outs' = Enter(outs, at, f, nextFd) /\ nextFd' = nextFd + 1
      BY <2>2 DEF OpenRtcp, Enter
    <3> QED
      BY <1>2, <1>4, <3>1, Entered
  <2> QED
    BY <2>1, <2>2
<1>6. /\ outs' \in Seq(Dest) /\ Len(outs') = Len(outs)
      /\ \A j \in 1 .. Len(outs) : outs'[j].port = outs[j].port /\ outs'[j].host = outs[j].host
  <2>1. /\ outs' \in Seq(Dest) /\ Len(outs') = Len(outs)
        /\ \A j \in 1 .. Len(outs) : outs'[j] = IF j = at THEN x ELSE outs[j]
    BY <1>2, <1>5, SeqPut
  <2> QED
    BY <1>5, <2>1
<1>7. /\ recv' \in Seq(Recv)
      /\ \/ recv # <<>> /\ recv' # <<>> /\ bound' = bound
         \/ recv = <<>> /\ recv' = <<>>
         \/ /\ recv = <<>>
            /\ \E n \in {"null", "wild"} :
                 recv' = <<[family |-> f, port |-> outs[at].port, soc |-> nextFd, next |-> n]>>
            /\ nextFd \in DOMAIN bound' /\ bound'[nextFd] = outs[at].port
  <2>1. CASE recv # <<>>
    <3>1. bound' = bound
          /\ \/ recv' = recv
             \/ recv' = <<[recv[1] EXCEPT !.soc = outs[at].soc]>>
      BY <2>1 DEF AddRtcpRecv
    <3>2. recv[1] \in Recv
      BY <1>2, <2>1, SeqFirst
    <3>3. [recv[1] EXCEPT !.soc = outs[at].soc] \in Recv
      BY <1>3, <3>2 DEF Recv
    <3>4. recv' \in Seq(Recv) /\ recv' # <<>>
      <4> DEFINE z == [recv[1] EXCEPT !.soc = outs[at].soc]
      <4>1. z \in Recv
        BY <3>3
      <4> HIDE DEF z
      <4>2. <<z>> \in Seq(Recv) /\ <<z>> # <<>>
        BY <4>1
      <4> QED
        BY <1>2, <2>1, <3>1, <4>2 DEF z
    <3> QED
      BY <2>1, <3>1, <3>4
  <2>2. CASE recv = <<>>
    <3>1. \/ /\ \E n \in {"null", "wild"} :
                  recv' = <<[family |-> f, port |-> outs[at].port, soc |-> nextFd, next |-> n]>>
             /\ bound' = [s \in DOMAIN bound \cup {nextFd} |->
                            IF s = nextFd THEN outs[at].port ELSE bound[s]]
          \/ recv' = recv
      BY <2>2 DEF AddRtcpRecv
    <3>2. CASE recv' = recv
      BY <1>2, <2>2, <3>2
    <3>3. CASE recv' # recv
      <4>1. PICK n \in {"null", "wild"} :
              recv' = <<[family |-> f, port |-> outs[at].port, soc |-> nextFd, next |-> n]>>
        BY <3>1, <3>3
      <4>2. nextFd \in DOMAIN bound' /\ bound'[nextFd] = outs[at].port
        BY <3>1, <3>3
      <4> DEFINE z == [family |-> f, port |-> outs[at].port, soc |-> nextFd, next |-> n]
      <4>3. z \in Recv
        BY <1>2, <1>3, <1>4 DEF Recv
      <4> HIDE DEF z
      <4>4. <<z>> \in Seq(Recv)
        BY <4>3
      <4>5. recv' \in Seq(Recv)
        BY <4>1, <4>4 DEF z
      <4> QED
        BY <2>2, <4>1, <4>2, <4>5
    <3> QED
      BY <3>2, <3>3
  <2> QED
    BY <2>1, <2>2
<1>8. DestTypes'
  BY <1>1, <1>2, <1>5, <1>6, <1>7 DEF DestTypes
<1>9. SocketInv'
  <2>1. Sockets(outs, nextFd) /\ Sockets(dests, nextFd) /\ Apart(outs, dests) /\ Apart(dests, outs)
    BY <1>1, ApartTurned DEF SocketInv
  <2>2. CASE x.soc = nextFd /\ nextFd' = nextFd + 1
    <3>1. Sockets(outs', nextFd') /\ Sockets(dests, nextFd') /\ Apart(outs', dests)
      BY <1>2, <1>5, <2>1, <2>2, SocketPut
    <3> QED
      BY <3>1, ApartTurned DEF SocketInv
  <2>3. CASE x.soc = outs[at].soc /\ nextFd' = nextFd
    <3>1. \A j \in 1 .. Len(outs) : outs'[j] = IF j = at THEN x ELSE outs[j]
      BY <1>2, <1>5, <2>3, SeqPut
    <3>2. \A j \in 1 .. Len(outs) : outs'[j].soc = outs[j].soc
      BY <2>3, <3>1
    <3> QED
      BY <1>6, <2>1, <2>3, <3>2 DEF SocketInv, Sockets, Apart
  <2> QED
    BY <1>5, <2>2, <2>3
<1>10. HeardInv'
  <2>1. Pair' = Pair /\ at' # 1 /\ pc' = "rtcp"
    BY <1>2, <1>6 DEF Pair
  <2>2. Pair => outs'[1].port = dests'[1].port + 1 /\ outs'[1].host = dests'[1].host
    BY <1>1, <1>6 DEF HeardInv, Pair
  <2>3. ASSUME recv' # <<>>, Len(dests) = 1 PROVE Heard(1)'
    <3>1. at = 1 /\ Pair
      BY <1>2, <2>3 DEF Pair
    <3>2. recv = <<>> /\ dests[1].family \in Resolved(outs[1].host, outs[1].family)
          /\ outs[1].port = dests[1].port + 1
      BY <1>1, <3>1 DEF HeardInv
    <3>3. f = dests[1].family
      BY <1>3, <3>1, <3>2, ResolvesOnce
    <3>4. PICK n \in {"null", "wild"} :
            /\ recv' = <<[family |-> f, port |-> outs[at].port, soc |-> nextFd, next |-> n]>>
            /\ nextFd \in DOMAIN bound' /\ bound'[nextFd] = outs[at].port
      BY <1>7, <2>3, <3>2
    <3>5. 1 \in DOMAIN recv' /\ recv'[1].soc = nextFd /\ recv'[1].family = f
      BY <3>4
    <3> QED
      BY <3>1, <3>2, <3>3, <3>4, <3>5 DEF Heard
  <2> QED
    BY <2>1, <2>2, <2>3 DEF HeardInv
<1>11. 0 < nextFd'
  BY <1>1, <1>2, <1>5
<1>12. MulticastInv'
  BY DEF SocketsInv, MulticastInv, Ends
<1> QED
  BY <1>8, <1>9, <1>10, <1>11, <1>12 DEF SocketsInv, OwnOptions

(* The calls for one destination touch its own socket only, and give one that had
   no options yet what the destination asks for, as far as they are not refused. *)
LEMMA OneSet ==
  ASSUME NEW d, SetOptions(d)
  PROVE  \/ mopts' = mopts /\ (d.host \notin Multicast \/ d.soc = 0)
         \/ /\ d.soc # 0 /\ DOMAIN mopts' = DOMAIN mopts \cup {d.soc}
            /\ \A s \in DOMAIN mopts : s # d.soc => mopts'[s] = mopts[s]
            /\ d.soc \notin DOMAIN mopts => Given(mopts', d)
<1>1. CASE d.host \notin Multicast \/ d.soc = 0
  BY <1>1 DEF SetOptions
<1>2. CASE ~(d.host \notin Multicast \/ d.soc = 0)
  <2> DEFINE had == IF d.soc \in DOMAIN mopts THEN mopts[d.soc] ELSE None
  <2>1. PICK r \in Refusals(d) :
          mopts' = [s \in DOMAIN mopts \cup {d.soc} |->
                      IF s = d.soc THEN Set(had, Wanted(d), r) ELSE mopts[s]]
    BY <1>2 DEF SetOptions
  <2>2. mopts'[d.soc] = Set(had, Wanted(d), r)
    BY <2>1
  <2>3. d.soc \notin DOMAIN mopts => had = None
    OBVIOUS
  <2>4. /\ DOMAIN mopts' = DOMAIN mopts \cup {d.soc}
        /\ \A s \in DOMAIN mopts : s # d.soc => mopts'[s] = mopts[s]
    BY <2>1
  <2> HIDE DEF had
  <2>5. d.soc \notin DOMAIN mopts => Given(mopts', d)
    BY <2>2, <2>3, <2>4 DEF Given
  <2> QED
    BY <1>2, <2>4, <2>5
<1> QED
  BY <1>1, <1>2

(* A list whose sockets are not the destination's keeps what it was given. *)
LEMMA GivenKept ==
  ASSUME NEW q, NEW n, NEW d, SetOptions(d), GivenUpTo(mopts, q, n),
         \A i \in 1 .. Len(q) : i < n /\ q[i].soc = d.soc => d.soc = 0
  PROVE  GivenUpTo(mopts', q, n)
<1> SUFFICES ASSUME NEW i \in 1 .. Len(q), i < n, q[i].host \in Multicast, q[i].soc # 0
             PROVE  Given(mopts', q[i])
  BY DEF GivenUpTo
<1>1. Given(mopts, q[i]) /\ q[i].soc \in DOMAIN mopts
  BY DEF GivenUpTo, Given
<1>2. mopts' = mopts \/ (q[i].soc \in DOMAIN mopts' /\ mopts'[q[i].soc] = mopts[q[i].soc])
  BY <1>1, OneSet
<1> QED
  BY <1>1, <1>2 DEF Given

LEMMA GivenNext ==
  ASSUME NEW q \in Seq(Dest), NEW n, Sockets(q, n), NEW k \in 1 .. Len(q),
         SetOptions(q[k]), GivenUpTo(mopts, q, k), q[k].soc # 0 => q[k].soc \notin DOMAIN mopts
  PROVE  GivenUpTo(mopts', q, k + 1)
<1>1. k \in Nat
  OBVIOUS
<1>2. \A i \in 1 .. Len(q) : i < k /\ q[i].soc = q[k].soc => q[k].soc = 0
  BY <1>1 DEF Sockets
<1>3. GivenUpTo(mopts', q, k)
  BY <1>2, GivenKept
<1>4. q[k].host \in Multicast /\ q[k].soc # 0 => Given(mopts', q[k])
  BY OneSet
<1>5. \A i \in 1 .. Len(q) : i < k + 1 => i < k \/ i = k
  BY <1>1
<1> QED
  BY <1>3, <1>4, <1>5 DEF GivenUpTo

(* The sockets that have options after a step. *)
LEMMA NowSet ==
  ASSUME NEW d, SetOptions(d), NEW s \in DOMAIN mopts'
  PROVE  s \in DOMAIN mopts \/ (s = d.soc /\ d.soc # 0)
BY OneSet

LEMMA SettingsKeep ==
  ASSUME SocketsInv, MulticastSettings
  PROVE  SocketsInv'
<1>1. /\ DestTypes /\ SocketInv /\ HeardInv /\ MulticastInv /\ 0 < nextFd
      /\ pc \in {"multicast", "multicastRtcp"} /\ pc' \in {"multicast", "multicastRtcp", "loop"}
      /\ default' = default /\ dests' = dests /\ outs' = outs /\ recv' = recv
      /\ nextFd' = nextFd /\ bound' = bound
  BY DEF SocketsInv, MulticastSettings, Finish, options, sockets
<1>2. /\ dests \in Seq(Dest) /\ outs \in Seq(Dest) /\ Len(outs) <= Len(dests)
      /\ Len(dests) \in Nat /\ Len(outs) \in Nat /\ at \in Nat \ {0}
      /\ Sockets(dests, nextFd) /\ Sockets(outs, nextFd) /\ Apart(dests, outs)
  BY <1>1 DEF DestTypes, SocketInv
<1>3. at' \in Nat \ {0}
  BY <1>2 DEF MulticastSettings, Finish
<1>4. DestTypes'
  BY <1>1, <1>2, <1>3 DEF DestTypes
<1>5. SocketInv'
  BY <1>1 DEF SocketInv, Sockets, Apart
<1>6. HeardInv'
  <2>1. Pair' = Pair /\ Heard(1)' = Heard(1)
    BY <1>1 DEF Pair, Heard
  <2>2. /\ Pair => outs[1].port = dests[1].port + 1 /\ outs[1].host = dests[1].host
        /\ recv # <<>> /\ Len(dests) = 1 => Heard(1)
    BY <1>1 DEF HeardInv
  <2> QED
    BY <1>1, <2>1, <2>2 DEF HeardInv
<1>7. MulticastInv' /\ OwnOptions'
  <2>1. CASE /\ pc = "multicast" /\ at <= Len(dests) /\ SetOptions(dests[at])
             /\ at' = at + 1 /\ pc' = pc
    <3>1. at \in 1 .. Len(dests)
      BY <1>2, <2>1
    <3>2. GivenUpTo(mopts, dests, at) /\ \A s \in DOMAIN mopts : Past(dests, at, s)
      BY <1>1, <2>1 DEF MulticastInv
    <3>3. dests[at].soc # 0 => dests[at].soc \notin DOMAIN mopts
      <4>1. ASSUME NEW i \in 1 .. Len(dests), i < at, dests[i].soc = dests[at].soc
            PROVE  dests[at].soc = 0
        BY <1>2, <3>1, <4>1 DEF Sockets
      <4> QED
        BY <3>2, <4>1 DEF Past
    <3>4. GivenUpTo(mopts', dests, at + 1)
      BY <1>2, <2>1, <3>1, <3>2, <3>3, GivenNext
    <3>5. ASSUME NEW s \in DOMAIN mopts' PROVE Past(dests, at + 1, s)
      <4>1. s \in DOMAIN mopts \/ s = dests[at].soc
        BY <2>1, NowSet
      <4>2. CASE s \in DOMAIN mopts
        <5>1. Past(dests, at, s)
          BY <3>2, <4>2
        <5> QED
          BY <1>2, <5>1 DEF Past
      <4>3. CASE s = dests[at].soc
        BY <1>2, <3>1, <4>3 DEF Past
      <4> QED
        BY <4>1, <4>2, <4>3
    <3> QED
      BY <1>1, <2>1, <3>4, <3>5 DEF MulticastInv, OwnOptions, GivenUpTo, Past
  <2>2. CASE Finish("multicast", dests, "multicastRtcp")
    <3>1. /\ pc = "multicast" /\ at > Len(dests) /\ pc' = "multicastRtcp" /\ at' = 1 /\ mopts' = mopts
      BY <2>2 DEF Finish, sockets
    <3>2. GivenUpTo(mopts, dests, at) /\ \A s \in DOMAIN mopts : Past(dests, at, s)
      BY <1>1, <3>1 DEF MulticastInv
    <3>3. GivenUpTo(mopts, dests, Len(dests) + 1)
      BY <1>2, <3>1, <3>2 DEF GivenUpTo
    <3>4. GivenUpTo(mopts, outs, 1)
      BY <1>2 DEF GivenUpTo
    <3>5. ASSUME NEW s \in DOMAIN mopts PROVE Past(dests, Len(dests) + 1, s)
      BY <1>2, <3>2 DEF Past
    <3> QED
      BY <1>1, <3>1, <3>3, <3>4, <3>5 DEF MulticastInv, OwnOptions, GivenUpTo, Given, Past
  <2>3. CASE /\ pc = "multicastRtcp" /\ at <= Len(outs) /\ SetOptions(outs[at])
             /\ at' = at + 1 /\ pc' = pc
    <3>1. at \in 1 .. Len(outs)
      BY <1>2, <2>3
    <3>2. /\ GivenUpTo(mopts, dests, Len(dests) + 1) /\ GivenUpTo(mopts, outs, at)
          /\ \A s \in DOMAIN mopts : Past(dests, Len(dests) + 1, s) \/ Past(outs, at, s)
      BY <1>1, <2>3 DEF MulticastInv
    <3>3. outs[at].soc # 0 => outs[at].soc \notin DOMAIN mopts
      <4>1. ASSUME NEW i \in 1 .. Len(outs), i < at, outs[i].soc = outs[at].soc
            PROVE  outs[at].soc = 0
        BY <1>2, <3>1, <4>1 DEF Sockets
      <4>2. ASSUME NEW i \in 1 .. Len(dests), dests[i].soc = outs[at].soc
            PROVE  outs[at].soc = 0
        BY <1>2, <3>1, <4>2 DEF Apart
      <4> QED
        BY <3>2, <4>1, <4>2 DEF Past
    <3>4. GivenUpTo(mopts', outs, at + 1)
      BY <1>2, <2>3, <3>1, <3>2, <3>3, GivenNext
    <3>5. GivenUpTo(mopts', dests, Len(dests) + 1)
      <4>1. \A i \in 1 .. Len(dests) : dests[i].soc = outs[at].soc => outs[at].soc = 0
        BY <1>2, <3>1 DEF Apart
      <4> QED
        BY <2>3, <3>2, <4>1, GivenKept
    <3>6. ASSUME NEW s \in DOMAIN mopts'
          PROVE  Past(dests, Len(dests) + 1, s) \/ Past(outs, at + 1, s)
      <4>1. s \in DOMAIN mopts \/ s = outs[at].soc
        BY <2>3, NowSet
      <4>2. CASE s \in DOMAIN mopts
        <5>1. Past(dests, Len(dests) + 1, s) \/ Past(outs, at, s)
          BY <3>2, <4>2
        <5>2. Past(outs, at, s) => Past(outs, at + 1, s)
          BY <1>2 DEF Past
        <5> QED
          BY <5>1, <5>2
      <4>3. CASE s = outs[at].soc
        BY <1>2, <3>1, <4>3 DEF Past
      <4> QED
        BY <4>1, <4>2, <4>3
    <3> QED
      BY <1>1, <2>3, <3>4, <3>5, <3>6 DEF MulticastInv, OwnOptions, GivenUpTo, Past
  <2>4. CASE Finish("multicastRtcp", outs, "loop")
    <3>1. /\ pc = "multicastRtcp" /\ at > Len(outs) /\ pc' = "loop" /\ mopts' = mopts
      BY <2>4 DEF Finish, sockets
    <3>2. GivenUpTo(mopts, dests, Len(dests) + 1) /\ GivenUpTo(mopts, outs, at)
      BY <1>1, <3>1 DEF MulticastInv
    <3>3. ASSUME NEW i \in Groups(dests), dests[i].soc # 0 PROVE Given(mopts, dests[i])
      <4>1. i \in 1 .. Len(dests) /\ i < Len(dests) + 1 /\ dests[i].host \in Multicast
        BY <1>2 DEF Groups
      <4> QED
        BY <3>2, <3>3, <4>1 DEF GivenUpTo
    <3>4. ASSUME NEW i \in Groups(outs), outs[i].soc # 0 PROVE Given(mopts, outs[i])
      <4>1. i \in 1 .. Len(outs) /\ i < at /\ outs[i].host \in Multicast
        BY <1>2, <3>1 DEF Groups
      <4> QED
        BY <3>2, <3>4, <4>1 DEF GivenUpTo
    <3>5. OwnOptions'
      BY <1>1, <3>1, <3>3, <3>4 DEF OwnOptions, Given, Groups
    <3>6. MulticastInv'
      BY <3>1 DEF MulticastInv
    <3> QED
      BY <3>5, <3>6
  <2> QED
    BY <2>1, <2>2, <2>3, <2>4 DEF MulticastSettings
<1> QED
  BY <1>1, <1>4, <1>5, <1>6, <1>7 DEF SocketsInv

(* The steps that open a socket for reports and go on with nothing else. *)
LEMMA AudioKeeps ==
  ASSUME SocketsInv, UNCHANGED <<pc, default, dests, outs, recv, bound, mopts>>,
         \/ pc = "audio" /\ at' = at + 1 /\ nextFd' = nextFd
         \/ pc = "rtcpAudio" /\ at' = at /\ nextFd' = nextFd + 1
  PROVE  SocketsInv'
<1>1. /\ DestTypes /\ SocketInv /\ HeardInv /\ 0 < nextFd
      /\ nextFd \in Nat /\ at \in Nat \ {0} /\ dests \in Seq(Dest) /\ outs \in Seq(Dest)
  BY DEF SocketsInv, DestTypes
<1>2. nextFd' \in Nat /\ nextFd <= nextFd' /\ at' \in Nat \ {0} /\ pc \in {"audio", "rtcpAudio"}
  BY <1>1
<1>3. DestTypes'
  BY <1>1, <1>2 DEF DestTypes
<1>4. SocketInv'
  <2>1. /\ \A i \in 1 .. Len(dests) : dests[i].soc \in Nat
        /\ \A i \in 1 .. Len(outs) : outs[i].soc \in Nat
    <3>1. /\ \A i \in 1 .. Len(dests) : dests[i] \in Dest
          /\ \A i \in 1 .. Len(outs) : outs[i] \in Dest
      BY <1>1, SeqElement
    <3> QED
      BY <3>1 DEF Dest
  <2>2. Sockets(dests, nextFd')
    BY <1>1, <1>2, <2>1 DEF SocketInv, Sockets
  <2>3. Sockets(outs, nextFd')
    BY <1>1, <1>2, <2>1 DEF SocketInv, Sockets
  <2> QED
    BY <1>1, <2>2, <2>3 DEF SocketInv
<1>5. HeardInv'
  <2>1. Pair' = Pair /\ Heard(1)' = Heard(1)
    BY DEF Pair, Heard
  <2>2. Pair => outs[1].port = dests[1].port + 1 /\ outs[1].host = dests[1].host
    BY <1>1 DEF HeardInv
  <2>3. CASE pc = "audio"
    <3>1. recv = <<>> /\ (Pair => dests[1].family \in Resolved(outs[1].host, outs[1].family))
      BY <1>1, <2>3 DEF HeardInv
    <3> QED
      BY <2>1, <2>2, <2>3, <3>1 DEF HeardInv
  <2>4. CASE pc = "rtcpAudio"
    <3>1. recv # <<>> /\ Len(dests) = 1 => Heard(1)
      BY <1>1, <2>4 DEF HeardInv
    <3> QED
      BY <2>1, <2>2, <2>4, <3>1 DEF HeardInv
  <2> QED
    BY <1>2, <2>3, <2>4
<1>6. OwnOptions' /\ 0 < nextFd'
  BY <1>1, <1>2 DEF OwnOptions
<1>7. MulticastInv'
  BY <1>2 DEF SocketsInv, MulticastInv, Ends
<1> QED
  BY <1>3, <1>4, <1>5, <1>6, <1>7 DEF SocketsInv

LEMMA StartUpKeeps ==
  ASSUME SocketsInv, StartUp
  PROVE  SocketsInv'
<1>1. CASE PrepareRtpSend
  <2>1. ASSUME pc = "rtp", at <= Len(dests),
               NEW f \in Resolved(dests[at].host, dests[at].family),
               dests' = [dests EXCEPT ![at].family = f, ![at].soc = nextFd],
               nextFd' = nextFd + 1, at' = at + 1,
               UNCHANGED <<pc, options, outs, recv, bound, mopts>>
        PROVE  SocketsInv'
    <3>1. dests' = Enter(dests, at, f, nextFd)
      BY <2>1 DEF Enter
    <3> QED
      BY <2>1, <3>1, SocketOpened
  <2>2. CASE Finish("rtp", dests, AfterRtp)
    BY <2>2, StepEnds DEF Finish, AfterRtp, options, sockets
  <2>3. CASE Fail("rtp", dests)
    BY <2>3, StepEnds DEF Fail, Ends, options, sockets
  <2> QED
    BY <1>1, <2>1, <2>2, <2>3 DEF PrepareRtpSend
<1>2. CASE PrepareRtpAudioSend
  <2>1. CASE pc = "audio" /\ at' = at + 1 /\ UNCHANGED <<pc, flags, default, aouts, dests, outs, sockets>>
    BY <2>1, AudioKeeps DEF sockets
  <2>2. CASE Finish("audio", adests, AfterAudio)
    BY <2>2, StepEnds DEF Finish, AfterAudio, options, sockets
  <2>3. CASE Fail("audio", adests)
    BY <2>3, StepEnds DEF Fail, Ends, options, sockets
  <2> QED
    BY <1>2, <2>1, <2>2, <2>3 DEF PrepareRtpAudioSend
<1>3. CASE PrepareRtcpSend
  <2>1. ASSUME pc = "rtcp", at <= Len(outs),
               NEW f \in Resolved(outs[at].host, outs[at].family),
               OpenRtcp(f), AddRtcpRecv(f), at' = at + 1,
               UNCHANGED <<pc, options, dests, mopts>>
        PROVE  SocketsInv'
    BY <2>1, RtcpOpened
  <2>2. CASE pc' = "crashed" /\ UNCHANGED <<at, options, dests, outs, sockets>>
    BY <2>2, StepEnds DEF Ends, options, sockets
  <2>3. CASE Finish("rtcp", outs, AfterRtcp)
    BY <2>3, StepEnds DEF Finish, AfterRtcp, options, sockets
  <2> QED
    BY <1>3, <2>1, <2>2, <2>3 DEF PrepareRtcpSend
<1>4. CASE PrepareRtcpAudioSend
  <2>1. CASE /\ pc = "rtcpAudio" /\ nextFd' = nextFd + 1
             /\ UNCHANGED <<pc, at, flags, default, adests, dests, outs, recv, bound, mopts>>
    BY <2>1, AudioKeeps
  <2>2. CASE NoDescriptor
    BY <2>2, StepEnds DEF NoDescriptor, Ends, options, sockets
  <2>3. CASE Fail("rtcpAudio", aouts)
    BY <2>3, StepEnds DEF Fail, Ends, options, sockets
  <2> QED
    BY <1>4, <2>1, <2>2, <2>3 DEF PrepareRtcpAudioSend
<1>5. CASE LoopWalks
  BY <1>5, StepEnds DEF LoopWalks, Ends, options, sockets
<1> QED
  BY <1>1, <1>2, <1>3, <1>4, <1>5, SettingsKeep DEF StartUp

LEMMA SocketsStep == SocketsInv /\ [SocketsNext]_socketsVars => SocketsInv'
<1> SUFFICES ASSUME SocketsInv, [SocketsNext]_socketsVars PROVE SocketsInv'
  OBVIOUS
<1>1. CASE UNCHANGED socketsVars
  BY <1>1, Untouched DEF socketsVars
<1>2. ASSUME NEW d \in Dests, AddDestination(d) \/ AddAudioOnlyDestination(d)
      PROVE  SocketsInv'
  <2>1. CASE AddAudioOnlyDestination(d)
    BY <2>1, Untouched DEF AddAudioOnlyDestination, sockets
  <2> QED
    BY <1>2, <2>1, AddDestinationKeeps
<1>3. CASE SetFlag
  BY <1>3, Untouched DEF SetFlag, sockets
<1>4. CASE OptionsEnd
  <2>1. at = 1
    BY <1>4 DEF OptionsEnd, SocketsInv, DestTypes
  <2> QED
    BY <1>4, <2>1, StepEnds DEF OptionsEnd, sockets
<1>5. CASE SystemCallFails
  BY <1>5, StepEnds DEF SystemCallFails, Ends, options, sockets
<1> QED
  BY <1>1, <1>2, <1>3, <1>4, <1>5, OptionsKeep, StartUpKeeps DEF SocketsNext

LEMMA SocketsHold == SocketsSpec => []SocketsInv
<1> QED
  BY SocketsStart, SocketsStep, PTL DEF SocketsSpec

(* Whatever the order of the options and whatever fails on the way, with one
   destination the socket main_loop reads is the one its reports go to. *)
THEOREM HeardByOne == SocketsSpec => []HeardAlone
<1>1. SocketsInv => HeardAlone
  BY DEF SocketsInv, HeardInv, HeardAlone
<1> QED
  BY <1>1, SocketsHold, PTL

(* Whichever setsockopt calls are refused, every group's socket ends up with the
   TTL and the interface of the destination it was opened for, or where the call
   was refused with the kernel's defaults. *)
THEOREM OptionsOwn == SocketsSpec => []OwnOptions
<1>1. SocketsInv => OwnOptions
  BY DEF SocketsInv
<1> QED
  BY <1>1, SocketsHold, PTL
=============================================================================
