---------------------------- MODULE WriterProofs ----------------------------
(***************************************************************************)
(* What dvrecv and dvplay give the IEEE1394 driver: how one frame is laid  *)
(* out (IsochPacking), for every number of packets and slots and every     *)
(* pace of the bus; and how sound and picture of dvrecv go together        *)
(* (PlayOut), for every size of the rings, every jitter and every length   *)
(* of the stream.                                                          *)
(***************************************************************************)
EXTENDS IsochPacking, PlayOut, FiniteSetTheorems, TLAPS

LEMMA DivMod ==
  ASSUME NEW n \in Int, NEW d \in Nat \ {0}
  PROVE  n \div d \in Int /\ n % d \in 0 .. d - 1 /\ n = (n \div d) * d + (n % d)
  OBVIOUS

LEMMA WholeMultiple ==
  ASSUME NEW q \in Int, NEW d \in Nat \ {0}
  PROVE  (q * d) % d = 0
<1> DEFINE n == q * d
           x == n \div d
           r == n % d
<1>1. n \in Int
  OBVIOUS
<1>2. x \in Int /\ r \in 0 .. d - 1 /\ n = x * d + r
  <2> HIDE DEF n
  <2> QED
    BY <1>1
<1> HIDE DEF x, r
<1>3. r = (q - x) * d
  BY <1>2
<1>4. ~(q - x >= 1)
  <2>1. SUFFICES ASSUME q - x >= 1 PROVE FALSE
    OBVIOUS
  <2>2. (q - x) * d >= 1 * d
    BY <1>2, <2>1
  <2> QED
    BY <1>2, <1>3, <2>2
<1>5. ~(q - x <= -1)
  <2>1. SUFFICES ASSUME q - x <= -1 PROVE FALSE
    OBVIOUS
  <2>2. (q - x) * d <= (-1) * d
    BY <1>2, <2>1
  <2> QED
    BY <1>2, <1>3, <2>2
<1>6. q - x = 0
  BY <1>2, <1>4, <1>5
<1> QED
  BY <1>3, <1>6 DEF r

LEMMA OneMultiple ==
  ASSUME NEW d \in Nat \ {0}, NEW n \in Nat
  PROVE  \E g \in n - d + 1 .. n : \A h \in n - d + 1 .. n : h % d = 0 <=> h = g
<1> DEFINE x == n \div d
           r == n % d
           g == x * d
<1>1. x \in Int /\ r \in 0 .. d - 1 /\ n = g + r
  OBVIOUS
<1>2. g \in Int /\ g % d = 0
  BY <1>1, WholeMultiple
<1>3. g \in n - d + 1 .. n
  <2> HIDE DEF g, r, x
  <2> QED
    BY <1>1, <1>2
<1>4. ASSUME NEW h \in n - d + 1 .. n, h % d = 0 PROVE h = g
  <2> DEFINE y == h \div d
             k == y * d
  <2>1. y \in Int /\ h = k + (h % d) /\ h \in Int
    <3>1. h \in Int
      OBVIOUS
    <3> QED
      BY <3>1, DivMod
  <2>2. k \in Int /\ h = k
    BY <1>4, <2>1
  <2>3. k < g + d /\ g < k + d
    <3> HIDE DEF g, r, x, k
    <3> QED
      BY <1>1, <1>2, <2>2
  <2> HIDE DEF x, y
  <2>4. ~(y - x >= 1)
    <3>1. SUFFICES ASSUME y - x >= 1 PROVE FALSE
      OBVIOUS
    <3>2. (y - x) * d >= 1 * d
      BY <1>1, <2>1, <3>1
    <3> QED
      BY <1>1, <2>1, <2>3, <3>2
  <2>5. ~(y - x <= -1)
    <3>1. SUFFICES ASSUME y - x <= -1 PROVE FALSE
      OBVIOUS
    <3>2. (y - x) * d <= (-1) * d
      BY <1>1, <2>1, <3>1
    <3> QED
      BY <1>1, <2>1, <2>3, <3>2
  <2>6. y = x
    BY <1>1, <2>1, <2>4, <2>5
  <2> QED
    BY <2>2, <2>6
<1> HIDE DEF g
<1> QED
  BY <1>2, <1>3, <1>4

LEMMA RemainderIs ==
  ASSUME NEW x \in Int, NEW d \in Nat \ {0}, NEW r \in 0 .. d - 1
  PROVE  ((x * d) + r) % d = r
<1> DEFINE n == (x * d) + r
           y == n \div d
           z == n % d
<1>1. n \in Int
  OBVIOUS
<1>2. y \in Int /\ z \in 0 .. d - 1 /\ n = (y * d) + z
  <2> HIDE DEF n
  <2> QED
    BY <1>1, DivMod
<1> HIDE DEF y, z
<1>3. (x - y) * d = z - r
  BY <1>2
<1>4. ~(x - y >= 1)
  <2>1. SUFFICES ASSUME x - y >= 1 PROVE FALSE
    OBVIOUS
  <2>2. (x - y) * d >= 1 * d
    BY <1>2, <2>1
  <2> QED
    BY <1>2, <1>3, <2>2
<1>5. ~(x - y <= -1)
  <2>1. SUFFICES ASSUME x - y <= -1 PROVE FALSE
    OBVIOUS
  <2>2. (x - y) * d <= (-1) * d
    BY <1>2, <2>1
  <2> QED
    BY <1>2, <1>3, <2>2
<1>6. x - y = 0
  BY <1>2, <1>4, <1>5
<1> QED
  BY <1>2, <1>3, <1>6 DEF z

LEMMA NextRemainder ==
  ASSUME NEW c \in Nat, NEW d \in Nat \ {0}
  PROVE  (c + 1) % d = IF (c % d) + 1 <= d - 1 THEN (c % d) + 1 ELSE 0
<1> DEFINE x == c \div d
           r == c % d
<1>1. x \in Int /\ r \in 0 .. d - 1 /\ c = x * d + r
  BY DivMod
<1> HIDE DEF x, r
<1>2. CASE r + 1 <= d - 1
  <2>1. c + 1 = x * d + (r + 1) /\ r + 1 \in 0 .. d - 1 /\ x * d \in Int
    BY <1>1, <1>2
  <2>2. ((x * d) + (r + 1)) % d = r + 1
    BY <1>1, <2>1, RemainderIs
  <2> QED
    BY <1>2, <2>1, <2>2 DEF r
<1>3. CASE ~(r + 1 <= d - 1)
  <2>1. c + 1 = (x + 1) * d /\ x + 1 \in Int
    BY <1>1, <1>3
  <2>2. ((x + 1) * d) % d = 0
    BY <2>1, WholeMultiple
  <2> QED
    BY <1>3, <2>1, <2>2 DEF r
<1> QED
  BY <1>2, <1>3

LEMMA QuotientIs ==
  ASSUME NEW x \in Int, NEW d \in Nat \ {0}, NEW r \in 0 .. d - 1
  PROVE  ((x * d) + r) \div d = x
<1> DEFINE n == (x * d) + r
           y == n \div d
           k == y * d
<1>1. n \in Int /\ x * d \in Int
  OBVIOUS
<1>2. n % d = r
  BY RemainderIs
<1>3. y \in Int /\ n = k + (n % d)
  <2> HIDE DEF n
  <2> QED
    BY <1>1, DivMod
<1>4. k = x * d
  <2>1. k \in Int
    BY <1>3
  <2> HIDE DEF k, y
  <2> QED
    BY <1>1, <1>2, <1>3, <2>1
<1> HIDE DEF y
<1>5. ~(y - x >= 1)
  <2>1. SUFFICES ASSUME y - x >= 1 PROVE FALSE
    OBVIOUS
  <2>2. (y - x) * d >= 1 * d
    BY <1>3, <2>1
  <2> QED
    BY <1>3, <1>4, <2>2
<1>6. ~(y - x <= -1)
  <2>1. SUFFICES ASSUME y - x <= -1 PROVE FALSE
    OBVIOUS
  <2>2. (y - x) * d <= (-1) * d
    BY <1>3, <2>1
  <2> QED
    BY <1>3, <1>4, <2>2
<1> QED
  BY <1>3, <1>5, <1>6 DEF y

-----------------------------------------------------------------------------
(* The data packets laid out so far of the frame, and the slots that are to
   stay without: every frac-th, but never the first. *)
Packed == dseq * PktNum + pkt
GapAt == IF program = "dvrecv" THEN 0 ELSE 1
Gap(s) == s >= 1 /\ s % frac = GapAt
Rank(s) == Cardinality({t \in DataSlots : t < s})

TypeInv ==
  /\ program \in Program /\ frac \in Nat \ {0, 1} /\ frac \in Fracs[program]
  /\ maxdifseq \in Nat \ {0} /\ maxdifseq \in DifSeqs /\ frame \in Nat
  /\ dseq \in 0 .. maxdifseq /\ pkt \in 0 .. PktNum - 1
  /\ dseq = maxdifseq => pkt = 0
  /\ count \in Nat /\ count <= 2 * Packed
  /\ label \in [Slot -> {"data", "empty"}] /\ DOMAIN body = Slot
PackInv ==
  /\ \A s \in 0 .. count - 1 : label[s] = "data" <=> ~Gap(s)
  /\ ~Gap(count)
  /\ Cardinality(DataSlots) = Packed
  /\ \A s \in DataSlots :
       body[s] = [f |-> frame, d |-> Rank(s) \div PktNum, c |-> Rank(s) % PktNum]

LEMMA PackedType ==
  ASSUME TypeInv
  PROVE  /\ Packed \in Nat /\ Packed <= maxdifseq * PktNum /\ maxdifseq * PktNum \in Nat
         /\ dseq < maxdifseq => Packed + 1 <= maxdifseq * PktNum
         /\ dseq = maxdifseq => Packed = maxdifseq * PktNum
<1>1. dseq \in Nat /\ pkt \in Nat /\ PktNum \in Nat \ {0} /\ maxdifseq \in Nat \ {0}
      /\ pkt <= PktNum - 1
  BY PackingAssumption DEF TypeInv
<1>2. dseq * PktNum \in Nat /\ maxdifseq * PktNum \in Nat
  BY <1>1
<1>3. dseq < maxdifseq => dseq * PktNum + PktNum <= maxdifseq * PktNum
  <2>1. SUFFICES ASSUME dseq < maxdifseq PROVE (dseq + 1) * PktNum <= maxdifseq * PktNum
    BY <1>1
  <2>2. (maxdifseq - (dseq + 1)) * PktNum >= 0
    BY <1>1, <2>1
  <2> QED
    BY <1>1, <2>2
<1>4. dseq = maxdifseq => pkt = 0
  BY DEF TypeInv
<1>5. dseq = maxdifseq => dseq * PktNum = maxdifseq * PktNum
  OBVIOUS
<1>6. dseq <= maxdifseq
  BY DEF TypeInv
<1> HIDE DEF TypeInv
<1> QED
  BY <1>1, <1>2, <1>3, <1>4, <1>5, <1>6 DEF Packed

(* Whether an empty slot follows is what the slot after the next says. *)
LEMMA GapNext ==
  ASSUME TypeInv
  PROVE  EmptyNext <=> Gap(count + 1)
<1>1. count \in Nat /\ frac \in Nat \ {0} /\ frac >= 2 /\ count % frac \in 0 .. frac - 1
  BY DEF TypeInv
<1>2. (count + 1) % frac = IF (count % frac) + 1 <= frac - 1 THEN (count % frac) + 1 ELSE 0
  BY <1>1, NextRemainder
<1>3. CASE program = "dvrecv"
  BY <1>1, <1>3 DEF EmptyNext, Gap, GapAt
<1>4. CASE program # "dvrecv"
  BY <1>1, <1>2, <1>4 DEF EmptyNext, Gap, GapAt
<1> QED
  BY <1>3, <1>4

(* No two such slots are neighbours. *)
LEMMA GapsApart ==
  ASSUME TypeInv, NEW s \in Nat, Gap(s)
  PROVE  ~Gap(s + 1)
<1>1. frac \in Nat \ {0} /\ frac >= 2 /\ s % frac \in 0 .. frac - 1
  BY DEF TypeInv
<1>2. (s + 1) % frac = IF (s % frac) + 1 <= frac - 1 THEN (s % frac) + 1 ELSE 0
  BY <1>1, NextRemainder
<1> QED
  BY <1>1, <1>2 DEF Gap, GapAt

LEMMA PackStep ==
  ASSUME TypeInv, PackInv, Pack
  PROVE  TypeInv' /\ PackInv' /\ Packed' = Packed + 1
<1>1. /\ count \in Nat /\ count <= 2 * Packed /\ Packed \in Nat /\ PktNum \in Nat \ {0}
      /\ maxdifseq * PktNum \in Nat
      /\ dseq \in Nat /\ pkt \in Nat /\ pkt <= PktNum - 1 /\ maxdifseq \in Nat /\ dseq < maxdifseq
      /\ label \in [Slot -> {"data", "empty"}] /\ DOMAIN body = Slot
      /\ Packed + 1 <= maxdifseq * PktNum
  BY PackedType, PackingAssumption DEF TypeInv, Pack
<1>2. /\ body' = [body EXCEPT ![count] = [f |-> frame, d |-> dseq, c |-> pkt]]
      /\ label' = Labels /\ count' = count + Taken
      /\ program' = program /\ frac' = frac /\ maxdifseq' = maxdifseq /\ frame' = frame
  BY DEF Pack, chosen
<1>3. IF pkt + 1 < PktNum THEN pkt' = pkt + 1 /\ dseq' = dseq ELSE pkt' = 0 /\ dseq' = dseq + 1
  BY DEF Pack
<1>4. /\ Packed' = Packed + 1 /\ dseq' \in 0 .. maxdifseq /\ pkt' \in 0 .. PktNum - 1
      /\ dseq' = maxdifseq => pkt' = 0
  <2>1. dseq * PktNum \in Nat /\ (dseq + 1) * PktNum = dseq * PktNum + PktNum
    BY <1>1
  <2>2. CASE pkt + 1 < PktNum
    BY <1>1, <1>3, <2>1, <2>2 DEF Packed
  <2>3. CASE ~(pkt + 1 < PktNum)
    <3>1. pkt' = 0 /\ dseq' = dseq + 1 /\ pkt = PktNum - 1
      BY <1>1, <1>3, <2>3
    <3>2. dseq' * PktNum = dseq * PktNum + PktNum
      BY <2>1, <3>1
    <3> QED
      BY <1>1, <2>1, <3>1, <3>2 DEF Packed
  <2> QED
    BY <2>2, <2>3
<1>5. count \in Slot /\ count + 1 \in Slot
  <2>1. 2 * maxdifseq * PktNum = 2 * (maxdifseq * PktNum)
    BY <1>1
  <2> QED
    BY <1>1, <2>1 DEF Slot
<1>6. Taken \in 1 .. 2 /\ (Taken = 2 <=> EmptyNext) /\ (EmptyNext <=> Gap(count + 1))
  BY GapNext DEF Taken
<1>7. Slot' = Slot
  BY <1>2 DEF Slot
<1>8. label' \in [Slot -> {"data", "empty"}] /\ DOMAIN body' = Slot
  BY <1>1, <1>2, <1>5 DEF Labels
<1>9. TypeInv'
  <2>1. count' \in Nat /\ count' <= 2 * Packed'
    BY <1>1, <1>2, <1>4, <1>6
  <2>2. (program \in Program /\ frac \in Nat \ {0, 1} /\ frac \in Fracs[program]
         /\ maxdifseq \in Nat \ {0} /\ maxdifseq \in DifSeqs /\ frame \in Nat)'
    BY <1>2 DEF TypeInv
  <2> QED
    BY <1>2, <1>4, <1>7, <1>8, <2>1, <2>2 DEF TypeInv
<1>10. \A s \in Nat : Gap(s)' <=> Gap(s)
  BY <1>2 DEF Gap, GapAt
<1>11. /\ \A s \in 0 .. count - 1 : label'[s] = label[s] /\ body'[s] = body[s]
       /\ label'[count] = "data"
       /\ body'[count] = [f |-> frame, d |-> dseq, c |-> pkt]
       /\ Taken = 2 => label'[count + 1] = "empty"
  <2>1. \A s \in 0 .. count - 1 : s \in Slot /\ s # count /\ s # count + 1
    BY <1>1, <1>5 DEF Slot
  <2>2. body'[count] = [f |-> frame, d |-> dseq, c |-> pkt]
        /\ \A s \in 0 .. count - 1 : body'[s] = body[s]
    BY <1>1, <1>2, <1>5, <2>1
  <2>3. count # count + 1
    BY <1>1
  <2>4. CASE EmptyNext
    <3>1. label' = [label EXCEPT ![count] = "data", ![count + 1] = "empty"]
      BY <1>2, <2>4 DEF Labels
    <3> QED
      BY <1>1, <1>5, <2>1, <2>2, <2>3, <3>1
  <2>5. CASE ~EmptyNext
    <3>1. label' = [label EXCEPT ![count] = "data"]
      BY <1>2, <2>5 DEF Labels
    <3> QED
      BY <1>1, <1>5, <1>6, <2>1, <2>2, <2>5, <3>1
  <2> QED
    BY <2>4, <2>5
<1>12. DataSlots' = DataSlots \cup {count}
  <2>1. \A s : s \in 0 .. count' - 1 <=> s \in 0 .. count - 1 \/ s = count
                                          \/ (Taken = 2 /\ s = count + 1)
    <3>1. CASE Taken = 1
      BY <1>1, <1>2, <3>1
    <3>2. CASE Taken = 2
      BY <1>1, <1>2, <3>2
    <3> QED
      BY <1>6, <3>1, <3>2
  <2>2. \A s : s \in DataSlots' <=> s \in 0 .. count' - 1 /\ label'[s] = "data"
    BY DEF DataSlots
  <2>3. \A s : s \in DataSlots <=> s \in 0 .. count - 1 /\ label[s] = "data"
    BY DEF DataSlots
  <2>4. \A s : s \in DataSlots' <=> s \in DataSlots \/ s = count
    BY <1>11, <2>1, <2>2, <2>3
  <2> QED
    BY <2>4
<1>13. IsFiniteSet(DataSlots) /\ count \notin DataSlots
       /\ DataSlots \subseteq 0 .. count - 1
  <2>1. IsFiniteSet(0 .. count - 1)
    BY <1>1, FS_Interval
  <2>2. DataSlots \subseteq 0 .. count - 1
    BY DEF DataSlots
  <2>3. IsFiniteSet(DataSlots)
    BY <2>1, <2>2, FS_Subset
  <2> QED
    BY <1>1, <2>2, <2>3
<1>14. Cardinality(DataSlots) = Packed
  BY DEF PackInv
<1>15. Cardinality(DataSlots') = Packed'
  BY <1>4, <1>12, <1>13, <1>14, FS_AddElement
<1>16. \A s \in 0 .. count' - 1 : (label[s] = "data" <=> ~Gap(s))'
  <2>1. SUFFICES ASSUME NEW s \in 0 .. count' - 1 PROVE label'[s] = "data" <=> ~Gap(s)
    BY <1>1, <1>2, <1>6, <1>10
  <2>2. CASE s \in 0 .. count - 1
    BY <1>11, <2>2 DEF PackInv
  <2>3. CASE s = count
    BY <1>11, <2>3 DEF PackInv
  <2>4. CASE s = count + 1
    <3>1. Taken = 2
      BY <1>1, <1>2, <1>6, <2>1, <2>4
    <3> QED
      BY <1>6, <1>11, <2>4, <3>1
  <2> QED
    BY <1>1, <1>2, <1>6, <2>1, <2>2, <2>3, <2>4
<1>17. ~Gap(count')
  <2>1. CASE Taken = 1
    BY <1>2, <1>6, <2>1
  <2>2. CASE Taken = 2
    <3>1. count + 1 \in Nat /\ Gap(count + 1) /\ count' = (count + 1) + 1
      BY <1>1, <1>2, <1>6, <2>2
    <3> QED
      BY <3>1, GapsApart
  <2> QED
    BY <1>6, <2>1, <2>2
<1>18. \A s \in DataSlots' :
         body'[s] = [f |-> frame, d |-> Rank(s)' \div PktNum, c |-> Rank(s)' % PktNum]
  <2>1. SUFFICES ASSUME NEW s \in DataSlots'
                 PROVE  body'[s] = [f |-> frame, d |-> Rank(s)' \div PktNum, c |-> Rank(s)' % PktNum]
    OBVIOUS
  <2>2. CASE s \in DataSlots
    <3>1. s \in 0 .. count - 1
      BY <1>13, <2>2
    <3>2. {t \in DataSlots' : t < s} = {t \in DataSlots : t < s}
      BY <1>1, <1>12, <3>1
    <3>3. Rank(s)' = Rank(s)
      BY <3>2 DEF Rank
    <3>4. body[s] = [f |-> frame, d |-> Rank(s) \div PktNum, c |-> Rank(s) % PktNum]
      BY <2>2 DEF PackInv
    <3> QED
      BY <1>11, <3>1, <3>3, <3>4
  <2>3. CASE s = count
    <3>1. {t \in DataSlots' : t < s} = DataSlots
      <4>1. \A t \in DataSlots : t \in Int /\ t < count
        BY <1>1, <1>13
      <4>2. ~(count < count)
        BY <1>1
      <4>3. \A t : t \in DataSlots' <=> t \in DataSlots \/ t = count
        BY <1>12
      <4>4. \A t : t \in DataSlots' /\ t < s <=> t \in DataSlots
        BY <2>3, <4>1, <4>2, <4>3
      <4> QED
        BY <4>4
    <3>2. Rank(s)' = Packed
      BY <1>14, <3>1 DEF Rank
    <3>3. pkt \in 0 .. PktNum - 1 /\ dseq \in Int
      BY <1>1
    <3>4. Packed % PktNum = pkt /\ Packed \div PktNum = dseq
      BY <1>1, <3>3, RemainderIs, QuotientIs DEF Packed
    <3> QED
      BY <1>11, <2>3, <3>2, <3>4
  <2> QED
    BY <1>12, <2>1, <2>2, <2>3
<1>19. PackInv'
  <2>1. (\A s \in 0 .. count - 1 : label[s] = "data" <=> ~Gap(s))'
    BY <1>16
  <2>2. (~Gap(count))'
    <3>1. count' \in Nat
      BY <1>1, <1>2, <1>6
    <3>2. Gap(count') <=> (Gap(count))'
      BY <1>2 DEF Gap, GapAt
    <3> QED
      BY <1>17, <3>2
  <2> QED
    BY <1>2, <1>15, <1>18, <2>1, <2>2 DEF PackInv
<1> QED
  BY <1>4, <1>9, <1>19

LEMMA PackInvHolds ==
  PackSpec => [](TypeInv /\ PackInv)
<1>1. PackInit => TypeInv /\ PackInv
  <2> SUFFICES ASSUME PackInit PROVE TypeInv /\ PackInv
    OBVIOUS
  <2>1. dseq = 0 /\ pkt = 0 /\ count = 0 /\ frame = 1 /\ program \in Program
        /\ frac \in Fracs[program] /\ maxdifseq \in DifSeqs
    BY DEF PackInit
  <2>2. PktNum \in Nat \ {0} /\ DifSeqs \subseteq Nat \ {0}
        /\ Fracs \in [Program -> SUBSET (Nat \ {0, 1})]
    BY PackingAssumption
  <2>3. Packed = 0
    BY <2>1, <2>2 DEF Packed
  <2>4. label \in [Slot -> {"data", "empty"}] /\ DOMAIN body = Slot
    BY DEF PackInit
  <2>5. frac \in Nat \ {0, 1} /\ maxdifseq \in Nat \ {0}
    BY <2>1, <2>2
  <2>6. TypeInv
    BY <2>1, <2>2, <2>3, <2>4, <2>5 DEF TypeInv
  <2>7. DataSlots = {}
    BY <2>1 DEF DataSlots
  <2> QED
    BY <2>1, <2>3, <2>6, <2>7, FS_EmptySet DEF PackInv, Gap
<1>2. TypeInv /\ PackInv /\ [PackNext]_packVars => (TypeInv /\ PackInv)'
  <2> SUFFICES ASSUME TypeInv, PackInv, [PackNext]_packVars PROVE (TypeInv /\ PackInv)'
    OBVIOUS
  <2>1. CASE Pack
    BY <2>1, PackStep
  <2>2. CASE Write
    <3>1. dseq' = 0 /\ pkt' = 0 /\ count' = 0 /\ frame' = frame + 1 /\ program' = program
          /\ frac' = frac /\ maxdifseq' = maxdifseq /\ label' = label /\ body' = body
      BY <2>2 DEF Write, Restart, chosen
    <3>2. Packed' = 0 /\ Slot' = Slot /\ maxdifseq \in Nat /\ PktNum \in Nat \ {0}
      BY <3>1, PackingAssumption DEF Packed, Slot, TypeInv
    <3>3. TypeInv'
      BY <3>1, <3>2 DEF TypeInv
    <3>4. DataSlots' = {}
      BY <3>1 DEF DataSlots
    <3> QED
      BY <3>1, <3>2, <3>3, <3>4, FS_EmptySet DEF PackInv, Gap
  <2>3. CASE UNCHANGED packVars
    <3>1. dseq' = dseq /\ pkt' = pkt /\ count' = count /\ frame' = frame /\ program' = program
          /\ frac' = frac /\ maxdifseq' = maxdifseq /\ label' = label /\ body' = body
      BY <2>3 DEF packVars, chosen
    <3>2. Packed' = Packed /\ DataSlots' = DataSlots /\ Slot' = Slot
      BY <3>1 DEF Packed, DataSlots, Slot
    <3>3. TypeInv'
      BY <3>1, <3>2 DEF TypeInv
    <3>4. \A s : Rank(s)' = Rank(s) /\ (Gap(s)' <=> Gap(s))
      BY <3>1, <3>2 DEF Rank, Gap, GapAt
    <3> QED
      BY <3>1, <3>2, <3>3, <3>4 DEF PackInv
  <2> QED
    BY <2>1, <2>2, <2>3 DEF PackNext
<1> QED
  BY <1>1, <1>2, PTL DEF PackSpec

(* Of as many slots in a row as frac one is to stay empty. *)
LEMMA OneGap ==
  ASSUME TypeInv, NEW s \in Nat \ {0}
  PROVE  \E g \in s .. s + frac - 1 : \A t \in s .. s + frac - 1 : Gap(t) <=> t = g
<1>1. frac \in Nat \ {0} /\ frac >= 2
  BY DEF TypeInv
<1> DEFINE last == s + frac - 1 - GapAt
<1>2. GapAt \in 0 .. 1
  BY DEF GapAt
<1>3. last \in Nat /\ last - frac + 1 = s - GapAt
  BY <1>1, <1>2
<1> HIDE DEF last
<1>4. PICK h \in last - frac + 1 .. last : \A u \in last - frac + 1 .. last : u % frac = 0 <=> u = h
  BY <1>1, <1>3, OneMultiple
<1>5. last = s + frac - 1 - GapAt
  BY DEF last
<1>6. h + GapAt \in s .. s + frac - 1
  BY <1>1, <1>2, <1>3, <1>4, <1>5
<1>7. ASSUME NEW t \in s .. s + frac - 1 PROVE Gap(t) <=> t = h + GapAt
  <2>1. t \in Nat /\ t >= 1 /\ t - GapAt \in Nat /\ t - GapAt \in last - frac + 1 .. last
    BY <1>1, <1>2, <1>3, <1>5
  <2>2. (t - GapAt) % frac = 0 <=> t - GapAt = h
    BY <1>4, <2>1
  <2>3. t - GapAt = h <=> t = h + GapAt
    BY <1>2, <1>3, <1>4, <2>1
  <2>4. t % frac = GapAt <=> (t - GapAt) % frac = 0
    <3>1. CASE GapAt = 0
      BY <2>1, <3>1
    <3>2. CASE GapAt = 1
      <4> DEFINE c == t - 1
      <4>1. c \in Nat /\ t = c + 1
        BY <2>1
      <4> HIDE DEF c
      <4>2. c % frac \in 0 .. frac - 1
        BY <1>1, <4>1
      <4>3. (c + 1) % frac = IF (c % frac) + 1 <= frac - 1 THEN (c % frac) + 1 ELSE 0
        BY <1>1, <4>1, NextRemainder
      <4>4. (c + 1) % frac = 1 <=> c % frac = 0
        BY <1>1, <4>2, <4>3
      <4>5. t - GapAt = c
        BY <3>2, <4>1
      <4> QED
        BY <3>2, <4>1, <4>4, <4>5
    <3> QED
      BY <1>2, <3>1, <3>2
  <2> QED
    BY <2>1, <2>2, <2>3, <2>4 DEF Gap
<1> QED
  BY <1>6, <1>7

(* A frame reaches the driver whole and in order, with nothing left over from
   the one before, and at the bus's pace (the loops of dvrecv/write-freebsd4.c
   and dvplay/write-freebsd4.c), whatever the numbers are. *)
THEOREM LaidOutInOrder ==
  PackSpec => []InOrder
<1>1. TypeInv /\ PackInv => InOrder
  <2> SUFFICES ASSUME TypeInv, PackInv, Done PROVE
         /\ Cardinality(DataSlots) = maxdifseq * PktNum
         /\ \A s \in DataSlots :
              LET n == Cardinality({t \in DataSlots : t < s})
              IN  body[s] = [f |-> frame, d |-> n \div PktNum, c |-> n % PktNum]
         /\ \A s \in 1 .. count - frac : Cardinality((s .. s + frac - 1) \ DataSlots) = 1
    BY DEF InOrder
  <2>1. Cardinality(DataSlots) = maxdifseq * PktNum
    BY PackedType DEF PackInv, Done
  <2>2. \A s \in DataSlots :
          LET n == Cardinality({t \in DataSlots : t < s})
          IN  body[s] = [f |-> frame, d |-> n \div PktNum, c |-> n % PktNum]
    BY DEF PackInv, Rank
  <2>3. ASSUME NEW s \in 1 .. count - frac
        PROVE  Cardinality((s .. s + frac - 1) \ DataSlots) = 1
    <3>1. frac \in Nat /\ count \in Nat /\ s \in Nat \ {0}
      BY DEF TypeInv
    <3>2. PICK g \in s .. s + frac - 1 : \A t \in s .. s + frac - 1 : Gap(t) <=> t = g
      BY <3>1, OneGap
    <3>3. \A t \in s .. s + frac - 1 : t \in 0 .. count - 1
      BY <3>1, <2>3
    <3>4. \A t \in 0 .. count - 1 : t \in DataSlots <=> ~Gap(t)
      BY DEF DataSlots, PackInv
    <3>5. (s .. s + frac - 1) \ DataSlots = {g}
      BY <3>2, <3>3, <3>4
    <3> QED
      BY <3>5, FS_Singleton
  <2> QED
    BY <2>1, <2>2, <2>3
<1> QED
  BY <1>1, PackInvHolds, PTL

-----------------------------------------------------------------------------
(* How many slots stay empty is told by how far the frame has got. *)
Empties == count - Packed
EmptiesInv ==
  IF count = 0 THEN Packed = 0
  ELSE /\ Empties \in Nat
       /\ IF program = "dvrecv"
          THEN Empties * frac + 1 <= count /\ count <= Empties * frac + frac - 1
          ELSE (Empties - 1) * frac + 2 <= count /\ count <= Empties * frac

(* A multiple of d that is more than (x - 1) * d and at most x * d. *)
LEMMA TheMultiple ==
  ASSUME NEW d \in Nat \ {0}, NEW x \in Int, NEW n \in Int, n % d = 0,
         x * d - d < n, n <= x * d
  PROVE  n = x * d
<1> DEFINE y == n \div d
           k == y * d
           l == x * d
<1>1. y \in Int /\ n = k
  <2>1. y \in Int /\ n = k + (n % d)
    BY DivMod
  <2>2. k \in Int
    BY <2>1
  <2> HIDE DEF k, y
  <2> QED
    BY <2>1, <2>2
<1>2. l \in Int /\ k \in Int /\ l - d < k /\ k <= l
  BY <1>1
<1> HIDE DEF y
<1>3. ~(x - y >= 1)
  <2>1. SUFFICES ASSUME x - y >= 1 PROVE FALSE
    OBVIOUS
  <2>2. (x - y) * d >= 1 * d
    BY <1>1, <2>1
  <2>3. l - k >= d
    BY <1>1, <2>2
  <2> HIDE DEF k, l
  <2> QED
    BY <1>2, <2>3
<1>4. ~(x - y <= -1)
  <2>1. SUFFICES ASSUME x - y <= -1 PROVE FALSE
    OBVIOUS
  <2>2. (x - y) * d <= (-1) * d
    BY <1>1, <2>1
  <2>3. l - k <= -d
    BY <1>1, <2>2
  <2> HIDE DEF k, l
  <2> QED
    BY <1>2, <2>3
<1> QED
  BY <1>1, <1>3, <1>4

LEMMA EmptiesStep ==
  ASSUME TypeInv, PackInv, EmptiesInv, Pack
  PROVE  EmptiesInv'
<1>1. /\ count \in Nat /\ frac \in Nat \ {0} /\ frac >= 2 /\ Packed \in Nat /\ program \in Program
      /\ Packed' = Packed + 1 /\ program' = program /\ frac' = frac
      /\ count' = count + Taken
  BY PackedType, PackStep DEF TypeInv, Pack, chosen
<1>2. (EmptyNext => Taken = 2) /\ (~EmptyNext => Taken = 1)
  BY DEF Taken
<1>3. EmptyNext <=> (IF program = "dvrecv" THEN (count + 1) % frac = 0 ELSE count % frac = 0)
  BY DEF EmptyNext
<1>4. /\ EmptyNext => count' = count + 2 /\ Empties' = Empties + 1
      /\ ~EmptyNext => count' = count + 1 /\ Empties' = Empties
  <2>1. CASE EmptyNext
    BY <1>1, <1>2, <2>1 DEF Empties
  <2>2. CASE ~EmptyNext
    BY <1>1, <1>2, <2>2 DEF Empties
  <2> QED
    BY <2>1, <2>2
<1>5. count' # 0
  <2>1. CASE EmptyNext
    BY <1>1, <1>4, <2>1
  <2>2. CASE ~EmptyNext
    BY <1>1, <1>4, <2>2
  <2> QED
    BY <2>1, <2>2
<1> DEFINE R(e, c) ==
      /\ e \in Nat
      /\ IF program = "dvrecv" THEN e * frac + 1 <= c /\ c <= e * frac + frac - 1
                               ELSE (e - 1) * frac + 2 <= c /\ c <= e * frac
<1>6. SUFFICES R(Empties', count')
  BY <1>1, <1>5 DEF EmptiesInv
<1>7. CASE count = 0
  <2>1. Packed = 0 /\ Empties = 0
    BY <1>7 DEF EmptiesInv, Empties
  <2>2. 0 * frac = 0 /\ 1 * frac = frac
    BY <1>1
  <2>3. CASE program = "dvrecv"
    <3>1. (0 + 1) % frac = 1
      <4>1. 0 % frac = 0
        BY <1>1, <2>2, WholeMultiple
      <4>2. (count + 1) % frac = IF (count % frac) + 1 <= frac - 1 THEN (count % frac) + 1 ELSE 0
        BY <1>1, NextRemainder
      <4>3. count % frac = 0 /\ 0 + 1 <= frac - 1
        BY <1>1, <1>7, <4>1
      <4>4. (count + 1) % frac = 1
        BY <4>2, <4>3
      <4> QED
        BY <1>7, <4>4
    <3>2. ~EmptyNext
      BY <1>3, <1>7, <2>3, <3>1
    <3>3. count' = 1 /\ Empties' = 0
      BY <1>4, <1>7, <2>1, <3>2
    <3> QED
      BY <1>1, <2>2, <2>3, <3>3
  <2>4. CASE program # "dvrecv"
    <3>1. 0 % frac = 0
      BY <1>1, <2>2, WholeMultiple
    <3>2. EmptyNext
      BY <1>3, <1>7, <2>4, <3>1
    <3>3. count' = 2 /\ Empties' = 1
      BY <1>4, <1>7, <2>1, <3>2
    <3> QED
      BY <1>1, <2>2, <2>4, <3>3
  <2> QED
    BY <2>3, <2>4
<1>8. CASE count # 0
  <2>1. R(Empties, count)
    BY <1>8 DEF EmptiesInv
  <2> DEFINE E == Empties
             m == E * frac
  <2>2. /\ E \in Nat /\ m \in Int /\ (E + 1) * frac = m + frac
        /\ (E - 1) * frac = m - frac /\ ((E + 1) - 1) * frac = m
        /\ m % frac = 0 /\ (m + frac) % frac = 0
    <3>1. E \in Nat
      BY <2>1
    <3>2. m \in Int /\ (E + 1) * frac = m + frac /\ (E - 1) * frac = m - frac
          /\ ((E + 1) - 1) * frac = m /\ E + 1 \in Int
      BY <1>1, <3>1
    <3>3. m % frac = 0 /\ ((E + 1) * frac) % frac = 0
      <4> HIDE DEF E
      <4> QED
        BY <1>1, <3>1, <3>2, WholeMultiple
    <3> QED
      BY <3>1, <3>2, <3>3
  <2>3. CASE program = "dvrecv"
    <3>1. m + 1 <= count /\ count <= m + frac - 1
      BY <2>1, <2>3
    <3>2. CASE EmptyNext
      <4>1. (count + 1) % frac = 0 /\ count + 1 <= (E + 1) * frac
            /\ (E + 1) * frac - frac < count + 1 /\ E + 1 \in Int /\ count + 1 \in Int
        <5> HIDE DEF m, E
        <5> QED
          BY <1>1, <1>3, <2>2, <2>3, <3>1, <3>2
      <4>2. count + 1 = (E + 1) * frac
        <5> HIDE DEF E, m
        <5> QED
          BY <1>1, <4>1, TheMultiple
      <4>3. count' = m + frac + 1 /\ Empties' = E + 1
        <5>1. count' = count + 2 /\ Empties' = E + 1
          BY <1>4, <3>2
        <5> HIDE DEF m, E
        <5> QED
          BY <1>1, <2>2, <4>2, <5>1
      <4>4. Empties' * frac = m + frac
        BY <2>2, <4>3
      <4>5. Empties' * frac + 1 <= count' /\ count' <= Empties' * frac + frac - 1 /\ Empties' \in Nat
        <5> HIDE DEF m, E
        <5> QED
          BY <1>1, <2>2, <4>3, <4>4
      <4> QED
        BY <2>3, <4>5
    <3>3. CASE ~EmptyNext
      <4>1. count' = count + 1 /\ Empties' = E
        BY <1>4, <3>3
      <4>2. count + 1 # m + frac
        BY <1>3, <2>2, <2>3, <3>3
      <4>3. m + 1 <= count' /\ count' <= m + frac - 1
        <5> HIDE DEF m, E
        <5> QED
          BY <1>1, <2>2, <3>1, <4>1, <4>2
      <4> QED
        BY <2>2, <2>3, <4>1, <4>3
    <3> QED
      BY <3>2, <3>3
  <2>4. CASE program # "dvrecv"
    <3>1. m - frac + 2 <= count /\ count <= m
      <4>1. (E - 1) * frac + 2 <= count /\ count <= m
        BY <2>1, <2>4
      <4> QED
        BY <2>2, <4>1
    <3>2. CASE EmptyNext
      <4>1. count % frac = 0 /\ E * frac - frac < count
        <5>1. E * frac = m
          OBVIOUS
        <5> HIDE DEF m, E
        <5> QED
          BY <1>1, <1>3, <2>2, <2>4, <3>1, <3>2, <5>1
      <4>2. count = m
        <5>1. count <= E * frac
          BY <3>1
        <5>2. count = E * frac
          <6> HIDE DEF E, m
          <6>1. count \in Int /\ frac \in Nat \ {0} /\ E \in Int
            BY <1>1, <2>2
          <6> QED
            BY <4>1, <5>1, <6>1, TheMultiple
        <5> QED
          BY <5>2
      <4>3. count' = m + 2 /\ Empties' = E + 1
        BY <1>4, <3>2, <4>2
      <4>4. Empties' * frac = m + frac /\ (Empties' - 1) * frac = m
        BY <2>2, <4>3
      <4>5. (Empties' - 1) * frac + 2 <= count' /\ count' <= Empties' * frac /\ Empties' \in Nat
        <5> HIDE DEF m, E
        <5> QED
          BY <1>1, <2>2, <4>3, <4>4
      <4> QED
        BY <2>4, <4>5
    <3>3. CASE ~EmptyNext
      <4>1. count' = count + 1 /\ Empties' = E
        BY <1>4, <3>3
      <4>2. count # m
        BY <1>3, <2>2, <2>4, <3>3
      <4>3. m - frac + 2 <= count' /\ count' <= m
        <5> HIDE DEF m, E
        <5> QED
          BY <1>1, <2>2, <3>1, <4>1, <4>2
      <4>4. (Empties' - 1) * frac = m - frac /\ Empties' * frac = m
        BY <2>2, <4>1
      <4> QED
        BY <2>2, <2>4, <4>1, <4>3, <4>4
    <3> QED
      BY <3>2, <3>3
  <2> QED
    BY <2>3, <2>4
<1> QED
  BY <1>7, <1>8

LEMMA EmptiesInvHolds ==
  PackSpec => []EmptiesInv
<1>1. PackInit => EmptiesInv
  <2> SUFFICES ASSUME PackInit PROVE EmptiesInv
    OBVIOUS
  <2>1. dseq = 0 /\ pkt = 0 /\ count = 0 /\ PktNum \in Nat
    BY PackingAssumption DEF PackInit
  <2> QED
    BY <2>1 DEF EmptiesInv, Packed
<1>2. TypeInv /\ PackInv /\ EmptiesInv /\ [PackNext]_packVars => EmptiesInv'
  <2> SUFFICES ASSUME TypeInv, PackInv, EmptiesInv, [PackNext]_packVars PROVE EmptiesInv'
    OBVIOUS
  <2>1. CASE Pack
    BY <2>1, EmptiesStep
  <2>2. CASE Write
    <3>1. dseq' = 0 /\ pkt' = 0 /\ count' = 0 /\ PktNum \in Nat
      BY <2>2, PackingAssumption DEF Write, Restart
    <3> QED
      BY <3>1 DEF EmptiesInv, Packed
  <2>3. CASE UNCHANGED packVars
    BY <2>3 DEF packVars, chosen, EmptiesInv, Empties, Packed
  <2> QED
    BY <2>1, <2>2, <2>3 DEF PackNext
<1> QED
  BY <1>1, <1>2, PackInvHolds, PTL DEF PackSpec

(* The slots m DIF sequences need: one empty slot for every frac - 1 packets,
   and in dvplay one more, behind the very first. *)
Slots(p, m, d) ==
  m * PktNum + (m * PktNum) \div (d - 1) + (IF p = "dvrecv" THEN 0 ELSE 1)

(* The buffers are large enough, but for the frames Fits leaves out. *)
Room == \A p \in Program : \A d \in Fracs[p], m \in DifSeqs :
          (p = "dvrecv" \/ m <= 10) => Slots(p, m, d) <= NBlocks[p]

(* Those of the source are: 25 packets for each of the 10 or 12 sequences,
   every 15th or 17th packet (dvplay: 17th), 400 slots (dvplay: 300). *)
LEMMA RoomInSource ==
  ASSUME PktNum = 25, DifSeqs = {10, 12},
         Fracs = [p \in Program |-> IF p = "dvrecv" THEN {15, 17} ELSE {17}],
         NBlocks = [p \in Program |-> IF p = "dvrecv" THEN 400 ELSE 300]
  PROVE  Room
<1>1. 250 \div 14 = 17 /\ 250 \div 16 = 15 /\ 300 \div 14 = 21 /\ 300 \div 16 = 18
  OBVIOUS
<1>2. ASSUME NEW p \in Program, NEW d \in Fracs[p], NEW m \in DifSeqs, p = "dvrecv" \/ m <= 10
      PROVE  Slots(p, m, d) <= NBlocks[p]
  <2>1. m = 10 \/ m = 12
    OBVIOUS
  <2>2. CASE p = "dvrecv"
    <3>1. (d = 15 \/ d = 17) /\ NBlocks[p] = 400
      BY <2>2
    <3> QED
      BY <1>1, <2>1, <2>2, <3>1 DEF Slots
  <2>3. CASE p # "dvrecv"
    <3>1. d = 17 /\ NBlocks[p] = 300 /\ m = 10
      BY <1>2, <2>1, <2>3
    <3> QED
      BY <1>1, <2>3, <3>1 DEF Slots
  <2> QED
    BY <2>2, <2>3
<1> QED
  BY <1>2 DEF Room

(* A product bounds the quotient. *)
LEMMA QuotientBound ==
  ASSUME NEW e \in Nat, NEW d \in Nat \ {0}, NEW n \in Nat, e * d <= n
  PROVE  e <= n \div d
<1> DEFINE q == n \div d
           r == n % d
<1>1. q \in Int /\ r \in 0 .. d - 1 /\ n = q * d + r
  BY DivMod
<1> HIDE DEF q, r
<1>2. ~(e - (q + 1) >= 0)
  <2>1. SUFFICES ASSUME e - (q + 1) >= 0 PROVE FALSE
    OBVIOUS
  <2>2. (e - (q + 1)) * d >= 0
    BY <1>1, <2>1
  <2>3. e * d >= (q + 1) * d
    BY <1>1, <2>2
  <2>4. (q + 1) * d = q * d + d /\ q * d \in Int /\ e * d \in Int
    BY <1>1
  <2> QED
    BY <1>1, <2>3, <2>4
<1> QED
  BY <1>1, <1>2 DEF q

(* Neither program runs past its buffer (the loops of dvrecv/write-freebsd4.c
   and dvplay/write-freebsd4.c), which has room for the frame and the empty
   slots without either looking. *)
THEOREM StaysInBuffer ==
  ASSUME Room
  PROVE  PackSpec => []Fits
<1>1. TypeInv /\ EmptiesInv => Fits
  <2> SUFFICES ASSUME TypeInv, EmptiesInv, program = "dvrecv" \/ maxdifseq <= 10
               PROVE  count <= NBlocks[program]
    BY DEF Fits
  <2> DEFINE N == maxdifseq * PktNum
             d == frac - 1
             E == Empties
  <2>1. /\ count \in Nat /\ Packed \in Nat /\ N \in Nat /\ Packed <= N /\ d \in Nat \ {0}
        /\ frac = d + 1 /\ NBlocks[program] \in Nat
    BY PackedType, PackingAssumption DEF TypeInv
  <2>2. Slots(program, maxdifseq, frac) <= NBlocks[program]
    BY DEF TypeInv, Room
  <2>3. Slots(program, maxdifseq, frac) = N + (N \div d) + (IF program = "dvrecv" THEN 0 ELSE 1)
    BY DEF Slots
  <2>4. N \div d \in Nat
    <3> HIDE DEF N, d
    <3> QED
      BY <2>1
  <2>5. CASE count = 0
    <3> HIDE DEF N, d
    <3> QED
      BY <2>1, <2>5
  <2>6. CASE count # 0
    <3>1. E \in Nat /\ count = Packed + E
      BY <2>1, <2>6 DEF EmptiesInv, Empties
    <3>2. CASE program = "dvrecv"
      <4>1. E * frac + 1 <= count
        BY <2>6, <3>2 DEF EmptiesInv
      <4>2. E * frac = E * d + E /\ E * d \in Nat
        <5> HIDE DEF E, d
        <5> QED
          BY <2>1, <3>1
      <4>3. E * d <= N
        <5> HIDE DEF E, N, d
        <5> QED
          BY <2>1, <3>1, <4>1, <4>2
      <4>4. E <= N \div d
        <5> HIDE DEF E, N, d
        <5> QED
          BY <2>1, <3>1, <4>3, QuotientBound
      <4> HIDE DEF E, N, d
      <4> QED
        BY <2>1, <2>2, <2>3, <2>4, <3>1, <3>2, <4>4
    <3>3. CASE program # "dvrecv"
      <4>1. (E - 1) * frac + 2 <= count
        BY <2>6, <3>3 DEF EmptiesInv
      <4>2. CASE E = 0
        <5> HIDE DEF E, N, d
        <5> QED
          BY <2>1, <2>2, <2>3, <2>4, <3>1, <3>3, <4>2
      <4>3. CASE E # 0
        <5> DEFINE e == E - 1
        <5>1. e \in Nat /\ E = e + 1
          BY <3>1, <4>3
        <5>2. e * frac = e * d + e /\ e * d \in Nat
          <6> HIDE DEF e, d
          <6> QED
            BY <2>1, <5>1
        <5>3. e * frac + 2 <= count
          BY <4>1
        <5>4. e * d <= N
          <6> HIDE DEF E, N, d, e
          <6> QED
            BY <2>1, <3>1, <5>1, <5>2, <5>3
        <5>5. e <= N \div d
          <6> HIDE DEF E, N, d, e
          <6> QED
            BY <2>1, <5>1, <5>4, QuotientBound
        <5> HIDE DEF E, N, d, e
        <5> QED
          BY <2>1, <2>2, <2>3, <2>4, <3>1, <3>3, <5>1, <5>5
      <4> QED
        BY <4>2, <4>3
    <3> QED
      BY <3>2, <3>3
  <2> QED
    BY <2>5, <2>6
<1> QED
  BY <1>1, PackInvHolds, EmptiesInvHolds, PTL
-----------------------------------------------------------------------------
(* Sound and picture *)

(* The counter of rounds without sound is exact up to five and then stays at
   ten, and the flag kept by one file is the flag computed anew by the other. *)
MuteInv == /\ misses \in 0 .. 7 /\ same \in 0 .. 10 /\ silent \in BOOLEAN
           /\ platform \in {"linux", "freebsd4", "macosX"}
           /\ platform # "macosX" =>
                /\ same = IF misses > 5 THEN 10 ELSE misses
                /\ silent <=> misses > 5

(* Sound is left out from the sixth round without new sound on, and not before,
   on Linux and FreeBSD 4 alike (write-linux.c, write-freebsd4.c). *)
THEOREM Mutes == Spec => []MuteRule
<1>1. Init => MuteInv
  <2>1. ASSUME Init PROVE platform \in {"linux", "freebsd4", "macosX"}
    BY <2>1, PlatformAssumption DEF Init
  <2>2. ASSUME Init PROVE same = 0 /\ silent = FALSE /\ misses = 0
    BY <2>2 DEF Init
  <2> QED
    BY <2>1, <2>2 DEF MuteInv
<1>2. MuteInv /\ [Next]_vars => MuteInv'
  <2> SUFFICES ASSUME MuteInv, [Next]_vars PROVE MuteInv'
    OBVIOUS
  <2>1. CASE WriteFrame
    <3>1. CASE aq # <<>>
      <4>1. same' = 0 /\ silent' = FALSE /\ misses' = 0 /\ platform' = platform
        BY <2>1, <3>1 DEF WriteFrame, TakeAudio
      <4>2. platform' \in {"linux", "freebsd4", "macosX"}
        BY <4>1 DEF MuteInv
      <4>3. same' = 0 /\ misses' = 0 => ~(misses' > 5) /\ misses' \in 0 .. 7 /\ same' \in 0 .. 10
                /\ same' = IF misses' > 5 THEN 10 ELSE misses'
        OBVIOUS
      <4> QED
        BY <4>1, <4>2, <4>3, Zenon DEF MuteInv
    <3>2. CASE aq = <<>>
      <4>1. /\ same' = Counted(same + 1) /\ silent' = Quiet(same + 1)
            /\ misses' = IF misses < 7 THEN misses + 1 ELSE misses
            /\ platform' = platform
        BY <2>1, <3>2 DEF WriteFrame, TakeAudio
      <4> QED
        BY <4>1 DEF MuteInv, Counted, Quiet
    <3> QED
      BY <3>1, <3>2
  <2>2. CASE UNCHANGED <<platform, same, silent, misses>>
    BY <2>2 DEF MuteInv
  <2> QED
    BY <2>1, <2>2 DEF Next, VideoArrives, AudioArrives, NextSource, Stop, bus, vars
<1>3. MuteInv => MuteRule
  BY DEF MuteInv, MuteRule
<1> QED
  BY <1>1, <1>2, <1>3, PTL DEF Spec
-----------------------------------------------------------------------------
(* A ring on its way from the source to the bus: c is the frame being received,
   q those handed over, shown the one the writer is at, and last the newest
   frame of which anything can have arrived. *)
Before(c) == IF c = 0 THEN 0 ELSE c - 1
Last(medium) == IF medium \in got THEN f ELSE f - 1

Ring(q, c, shown, last) ==
  /\ q \in Seq(Nat) /\ Len(q) <= Ready /\ last \in Nat /\ c \in 0 .. last
  /\ shown \in Nat /\ shown <= Before(c)
  /\ \A i \in 1 .. Len(q) : q[i] <= Before(c)

(* A ring that loses no whole frame: every frame is where its number says. *)
Gapless(q, c, shown, last) ==
  /\ c = last
  /\ shown = Before(c) - Len(q)
  /\ \A i \in 1 .. Len(q) : q[i] = shown + i

(* The two rings, each for itself and, without loss, as one.  LipSync speaks of
   the frames shown only; it is the frames still queued that make it hold. *)
Streams ==
  /\ f \in Nat \ {0} /\ lossOf \in SUBSET {"video", "audio"}
  /\ Ring(vq, vcur, vshow, Last("video"))
  /\ Ring(aq, acur, ashow, Last("audio"))
  /\ "video" \notin lossOf => Gapless(vq, vcur, vshow, Last("video"))
  /\ "audio" \notin lossOf => Gapless(aq, acur, ashow, Last("audio"))
  /\ lossOf = {} /\ "audio" \in got => "video" \in got
LipInv == Streams /\ LipSync

(* The first block of a frame hands the frame before over. *)
LEMMA HandsOver ==
  ASSUME NEW q, NEW c, NEW shown, NEW last, Ring(q, c, shown, last), Paced(q)
  PROVE  /\ Ring(HandedOver(q, c), last + 1, shown, last + 1)
         /\ Gapless(q, c, shown, last) =>
              Gapless(HandedOver(q, c), last + 1, shown, last + 1)
<1>1. CASE c = 0
  BY <1>1 DEF Ring, Gapless, HandedOver, Before
<1>2. CASE c # 0
  <2> DEFINE r == Append(q, c)
  <2>1. /\ q \in Seq(Nat) /\ c \in Nat \ {0} /\ c <= last /\ last \in Nat
        /\ HandedOver(q, c) = r /\ Before(c) = c - 1 /\ Before(last + 1) = last
    BY <1>2 DEF Ring, HandedOver, Before
  <2>2. /\ r \in Seq(Nat) /\ Len(r) = Len(q) + 1
        /\ \A i \in 1 .. Len(r) : r[i] = IF i <= Len(q) THEN q[i] ELSE c
    BY <2>1
  <2> HIDE DEF r
  <2>3. Ring(r, last + 1, shown, last + 1)
    <3>1. /\ Len(q) < Ready /\ shown \in Nat /\ shown <= c - 1
          /\ \A i \in 1 .. Len(q) : q[i] <= c - 1
      BY <2>1 DEF Ring, Paced
    <3>2. \A i \in 1 .. Len(r) : r[i] <= last
      <4> SUFFICES ASSUME NEW i \in 1 .. Len(r) PROVE r[i] <= last
        OBVIOUS
      <4>1. CASE i <= Len(q)
        <5>1. i \in 1 .. Len(q) /\ r[i] = q[i] /\ q[i] \in Nat
          BY <2>1, <2>2, <4>1
        <5>2. q[i] <= c - 1
          BY <3>1, <5>1
        <5> QED
          BY <2>1, <5>1, <5>2
      <4>2. CASE i > Len(q)
        BY <2>1, <2>2, <4>2
      <4> QED
        BY <2>1, <4>1, <4>2
    <3> QED
      BY <2>1, <2>2, <3>1, <3>2, BoundAssumption DEF Ring
  <2>4. Gapless(q, c, shown, last) => Gapless(r, last + 1, shown, last + 1)
    <3> SUFFICES ASSUME Gapless(q, c, shown, last)
                 PROVE  Gapless(r, last + 1, shown, last + 1)
      OBVIOUS
    <3>1. /\ c = last /\ shown = c - 1 - Len(q) /\ shown \in Nat
          /\ \A i \in 1 .. Len(q) : q[i] = shown + i
      BY <2>1 DEF Ring, Gapless
    <3>2. \A i \in 1 .. Len(r) : r[i] = shown + i
      <4> SUFFICES ASSUME NEW i \in 1 .. Len(r) PROVE r[i] = shown + i
        OBVIOUS
      <4>1. CASE i <= Len(q)
        <5>1. i \in 1 .. Len(q) /\ r[i] = q[i]
          BY <2>1, <2>2, <4>1
        <5> QED
          BY <3>1, <5>1
      <4>2. CASE i > Len(q)
        BY <2>1, <2>2, <3>1, <4>2
      <4> QED
        BY <2>1, <4>1, <4>2
    <3> QED
      BY <2>1, <2>2, <3>1, <3>2 DEF Gapless
  <2> QED
    BY <2>1, <2>3, <2>4
<1> QED
  BY <1>1, <1>2

(* The writer takes the oldest of them. *)
LEMMA Takes ==
  ASSUME NEW q, NEW c, NEW shown, NEW last, Ring(q, c, shown, last), q # <<>>
  PROVE  /\ Len(Tail(q)) <= Ready - 1
         /\ Ring(Tail(q), c, Head(q), last)
         /\ Gapless(q, c, shown, last) => Gapless(Tail(q), c, Head(q), last)
<1>1. /\ q \in Seq(Nat) /\ Len(q) \in Nat \ {0} /\ Head(q) = q[1]
      /\ Tail(q) \in Seq(Nat) /\ Len(Tail(q)) = Len(q) - 1
      /\ \A i \in 1 .. Len(Tail(q)) : Tail(q)[i] = q[i + 1]
  BY DEF Ring
<1>2. Ring(Tail(q), c, Head(q), last)
  BY <1>1, BoundAssumption DEF Ring
<1>3. Gapless(q, c, shown, last) => Gapless(Tail(q), c, Head(q), last)
  BY <1>1 DEF Ring, Gapless, Before
<1> QED
  BY <1>1, <1>2, <1>3, BoundAssumption DEF Ring

(* Sound and picture stay within a ring of each other (read.c hands the rings
   over each for itself, write-linux.c advances each for itself). *)
THEOREM StaysInSync == Spec => []LipSync
<1>1. Init => LipInv
  <2> SUFFICES ASSUME Init PROVE LipInv
    OBVIOUS
  <2>1. /\ f = 1 /\ lossOf \in SUBSET {"video", "audio"} /\ got = {}
        /\ vq = <<>> /\ aq = <<>> /\ vcur = 0 /\ acur = 0 /\ vshow = 0 /\ ashow = 0
    BY DEF Init
  <2>2. Last("video") = 0 /\ Last("audio") = 0
    BY <2>1 DEF Last
  <2>3. Ring(<<>>, 0, 0, 0) /\ Gapless(<<>>, 0, 0, 0)
    <3>1. <<>> \in Seq(Nat) /\ Len(<<>>) = 0 /\ Before(0) = 0 /\ 1 .. 0 = {}
      BY DEF Before
    <3>2. Ring(<<>>, 0, 0, 0)
      BY <3>1, BoundAssumption DEF Ring
    <3>3. Gapless(<<>>, 0, 0, 0)
      BY <3>1 DEF Gapless
    <3> QED
      BY <3>2, <3>3
  <2>4. Streams
    BY <2>1, <2>2, <2>3 DEF Streams
  <2> QED
    BY <2>1, <2>4, BoundAssumption DEF LipInv, LipSync
<1>2. LipInv /\ [Next]_vars => LipInv'
  <2> SUFFICES ASSUME LipInv, [Next]_vars PROVE LipInv'
    OBVIOUS
  <2> USE DEF LipInv
  <2>1. CASE VideoArrives
    <3>1. /\ "video" \notin got /\ got' = got \cup {"video"} /\ Paced(vq)
          /\ vq' = HandedOver(vq, vcur) /\ vcur' = f
          /\ UNCHANGED <<lossOf, f, acur, aq, vshow, ashow>>
      BY <2>1 DEF VideoArrives, bus
    <3>2. Last("video") + 1 = f /\ Last("video")' = f /\ Last("audio")' = Last("audio")
      BY <3>1 DEF Last, Streams
    <3>3. /\ Ring(vq', f, vshow, f)
          /\ Gapless(vq, vcur, vshow, Last("video")) => Gapless(vq', f, vshow, f)
      BY <3>1, <3>2, HandsOver DEF Streams
    <3> QED
      BY <3>1, <3>2, <3>3 DEF Streams, LipSync, Ring, Gapless
  <2>2. CASE AudioArrives
    <3>1. /\ "audio" \notin got /\ got' = got \cup {"audio"} /\ Paced(aq)
          /\ lossOf = {} => "video" \in got
          /\ aq' = HandedOver(aq, acur) /\ acur' = f
          /\ UNCHANGED <<lossOf, f, vcur, vq, vshow, ashow>>
      BY <2>2 DEF AudioArrives, bus
    <3>2. Last("audio") + 1 = f /\ Last("audio")' = f /\ Last("video")' = Last("video")
      BY <3>1 DEF Last, Streams
    <3>3. /\ Ring(aq', f, ashow, f)
          /\ Gapless(aq, acur, ashow, Last("audio")) => Gapless(aq', f, ashow, f)
      BY <3>1, <3>2, HandsOver DEF Streams
    <3> QED
      BY <3>1, <3>2, <3>3 DEF Streams, LipSync, Ring, Gapless
  <2>3. CASE NextSource
    <3>1. /\ {"video", "audio"} \ lossOf \subseteq got
          /\ f' = f + 1 /\ got' = {}
          /\ UNCHANGED <<lossOf, vcur, vq, acur, aq, vshow, ashow>>
      BY <2>3 DEF NextSource, rings, bus
    <3>2. ASSUME NEW medium \in {"video", "audio"}
          PROVE  /\ Last(medium)' = f /\ Last(medium) \in {f - 1, f}
                 /\ medium \notin lossOf => Last(medium) = f
      BY <3>1 DEF Last, Streams
    <3> QED
      BY <3>1, <3>2 DEF Streams, LipSync, Ring, Gapless
  <2>4. CASE WriteFrame
    <3>1. /\ UNCHANGED <<lossOf, f, got, vcur, acur>> /\ TakeVideo
          /\ \/ aq # <<>> /\ ashow' = Head(aq) /\ aq' = Tail(aq)
             \/ aq = <<>> /\ UNCHANGED <<ashow, aq>>
      BY <2>4 DEF WriteFrame, TakeAudio, source
    <3>2. \/ vq # <<>> /\ vshow' = Head(vq) /\ vq' = Tail(vq)
          \/ vq = <<>> /\ UNCHANGED <<vshow, vq>>
      BY <3>1 DEF TakeVideo
    <3>3. Last("video")' = Last("video") /\ Last("audio")' = Last("audio")
      BY <3>1 DEF Last
    <3>4. /\ Ring(vq', vcur, vshow', Last("video"))
          /\ "video" \notin lossOf => Gapless(vq', vcur, vshow', Last("video"))
      BY <3>2, Takes DEF Streams
    <3>5. /\ Ring(aq', acur, ashow', Last("audio"))
          /\ "audio" \notin lossOf => Gapless(aq', acur, ashow', Last("audio"))
      BY <3>1, Takes DEF Streams
    <3>6. Streams'
      BY <3>1, <3>3, <3>4, <3>5 DEF Streams
    <3>7. /\ Len(vq') <= Ready - 1 /\ Len(aq') <= Ready - 1
          /\ Len(vq') \in Nat /\ Len(aq') \in Nat
      <4>1. Ring(vq, vcur, vshow, Last("video")) /\ Ring(aq, acur, ashow, Last("audio"))
        BY DEF Streams
      <4>2. /\ vq # <<>> => Len(Tail(vq)) <= Ready - 1
            /\ aq # <<>> => Len(Tail(aq)) <= Ready - 1
        BY <4>1, Takes
      <4>3. Len(<<>>) <= Ready - 1
        BY BoundAssumption
      <4>4. Len(vq') \in Nat /\ Len(aq') \in Nat
        BY <3>4, <3>5 DEF Ring
      <4> QED
        BY <3>1, <3>2, <4>2, <4>3, <4>4
    <3>8. /\ vcur \in Nat /\ acur \in Nat /\ vcur <= f /\ acur <= f
          /\ f \in Nat \ {0} /\ vshow \in Nat /\ ashow \in Nat
          /\ vshow' \in Nat /\ ashow' \in Nat
          /\ vshow' <= Before(vcur) /\ ashow' <= Before(acur)
      BY <3>1, <3>4, <3>5 DEF Streams, Ring, Last
    <3>9. ASSUME "video" \notin lossOf
          PROVE  /\ vcur >= f - 1 /\ vshow' = Before(vcur) - Len(vq')
                 /\ vshow' = IF vq = <<>> THEN vshow ELSE vshow + 1
      <4>1. vcur = Last("video") /\ vq # <<>> => Head(vq) = vshow + 1
        BY <3>9 DEF Streams, Ring, Gapless
      <4> QED
        BY <3>2, <3>4, <3>8, <3>9, <4>1 DEF Gapless, Last
    <3>10. ASSUME "audio" \notin lossOf
           PROVE  /\ acur >= f - 1 /\ ashow' = Before(acur) - Len(aq')
                  /\ ashow' = IF aq = <<>> THEN ashow ELSE ashow + 1
      <4>1. acur = Last("audio") /\ aq # <<>> => Head(aq) = ashow + 1
        BY <3>10 DEF Streams, Ring, Gapless
      <4> QED
        BY <3>1, <3>5, <3>8, <3>10, <4>1 DEF Gapless, Last
    <3>11. ASSUME lossOf = {"audio"} PROVE ashow' - vshow' <= Ready
      <4>1. vcur >= f - 1 /\ vshow' = Before(vcur) - Len(vq')
        BY <3>9, <3>11
      <4> QED
        BY <3>7, <3>8, <4>1, BoundAssumption DEF Before
    <3>12. ASSUME lossOf = {"video"} PROVE vshow' - ashow' <= Ready
      <4>1. acur >= f - 1 /\ ashow' = Before(acur) - Len(aq')
        BY <3>10, <3>12
      <4> QED
        BY <3>7, <3>8, <4>1, BoundAssumption DEF Before
    <3>13. ASSUME lossOf = {} PROVE vshow' - ashow' \in {0, 1}
      <4>1. vshow - ashow \in {0, 1} /\ ("audio" \in got => "video" \in got)
        BY <3>13 DEF Streams, LipSync
      <4>2. acur <= vcur
        BY <3>8, <3>13, <4>1 DEF Streams, Gapless, Last
      <4>3. vq = <<>> => vshow' = Before(vcur)
        BY <3>2, <3>8, <3>9, <3>13 DEF Before
      <4>4. aq = <<>> => ashow' = Before(acur)
        BY <3>1, <3>8, <3>10, <3>13 DEF Before
      <4>5. /\ vcur >= f - 1 /\ vshow' = IF vq = <<>> THEN vshow ELSE vshow + 1
            /\ acur >= f - 1 /\ ashow' = IF aq = <<>> THEN ashow ELSE ashow + 1
        BY <3>9, <3>10, <3>13
      <4> QED
        BY <3>8, <4>1, <4>2, <4>3, <4>4, <4>5 DEF Before
    <3>14. LipSync'
      BY <3>1, <3>11, <3>12, <3>13 DEF LipSync
    <3> QED
      BY <3>6, <3>14
  <2>5. CASE UNCHANGED <<lossOf, f, got, vcur, vq, acur, aq, vshow, ashow>>
    BY <2>5 DEF Streams, LipSync, Ring, Gapless, Last
  <2> QED
    BY <2>1, <2>2, <2>3, <2>4, <2>5 DEF Next, Stop, vars, rings, bus, source
<1>3. LipInv => LipSync
  BY DEF LipInv
<1> QED
  BY <1>1, <1>2, <1>3, PTL DEF Spec
=============================================================================
