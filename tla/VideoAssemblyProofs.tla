------------------------ MODULE VideoAssemblyProofs ------------------------
(***************************************************************************)
(* For any number of frame buffers, any sets of positions and any data:    *)
(* the reader of dvrecv keeps its type, leaves handed-over frames alone,   *)
(* and implements Concealer.                                               *)
(***************************************************************************)
EXTENDS VideoAssembly, TLAPS

(* The next and prev pointers of attach_shared_memory stay in the ring and
   are inverse to each other. *)
LEMMA RingPointers == ASSUME NEW s \in Slot
                      PROVE  /\ NextOf(s) \in Slot
                             /\ PrevOf(s) \in Slot
                             /\ PrevOf(NextOf(s)) = s
  BY NAssumption DEF Slot, NextOf, PrevOf

(* Patching a frame yields a frame. *)
LEMMA PatchedType == TypeOK => Patched \in [Pos -> Data]
<1> SUFFICES ASSUME TypeOK PROVE Patched \in [Pos -> Data]
  OBVIOUS
<1>1. cur \in Slot /\ PrevOf(cur) \in Slot
  BY RingPointers DEF TypeOK
<1>2. frame[cur] \in [Pos -> Data] /\ frame[PrevOf(cur)] \in [Pos -> Data]
  BY <1>1 DEF TypeOK
<1> QED
  BY <1>2 DEF Patched

(* TypeOK of the reader (dvrecv/read.c), for every size of the ring. *)
THEOREM TypeCorrect == Spec => []TypeOK
<1>1. Init => TypeOK
  BY NAssumption, DataAssumption, TsAssumption DEF Init, TypeOK, Slot
<1>2. TypeOK /\ [Next]_vars => TypeOK'
  <2> SUFFICES ASSUME TypeOK, [Next]_vars PROVE TypeOK'
    OBVIOUS
  <2>1. ASSUME NEW p \in Pos, NEW d \in Data, SameFrame(p, d)
        PROVE  TypeOK'
    BY <2>1 DEF TypeOK, SameFrame, Marked
  <2>2. ASSUME NEW ts \in Ts, NEW p \in Pos, NEW d \in Data,
               NewFrame(ts, p, d)
        PROVE  TypeOK'
    <3>1. cur' \in Slot
      BY <2>2, RingPointers DEF TypeOK, NewFrame
    <3>2. Patched \in [Pos -> Data]
      BY PatchedType
    <3>3. frame' \in [Slot -> [Pos -> Data]]
      BY <2>2, <3>1, <3>2 DEF TypeOK, NewFrame
    <3>4. flag' \in [Slot -> [Blk -> BOOLEAN]]
      BY <2>2, <3>1 DEF TypeOK, NewFrame, Marked
    <3> QED
      BY <2>2, <3>1, <3>2, <3>3, <3>4 DEF TypeOK, NewFrame
  <2>3. CASE UNCHANGED vars
    BY <2>3 DEF TypeOK, vars
  <2> QED
    BY <2>1, <2>2, <2>3 DEF Next
<1> QED
  BY <1>1, <1>2, PTL DEF Spec

(* Frames handed over stay intact until the ring comes back to them. *)
THEOREM FramesKept == Spec => []SealedKept
<1>1. Init => SealedKept
  BY DEF Init, SealedKept
<1>2. TypeOK /\ SealedKept /\ [Next]_vars => SealedKept'
  <2> SUFFICES ASSUME TypeOK, SealedKept, [Next]_vars PROVE SealedKept'
    OBVIOUS
  <2>1. ASSUME NEW p \in Pos, NEW d \in Data, SameFrame(p, d)
        PROVE  SealedKept'
    BY <2>1 DEF TypeOK, SealedKept, SameFrame
  <2>2. ASSUME NEW ts \in Ts, NEW p \in Pos, NEW d \in Data,
               NewFrame(ts, p, d)
        PROVE  SealedKept'
    <3> SUFFICES ASSUME NEW s \in Slot, s # cur'
                 PROVE  frame'[s] = sealed'[s]
      BY DEF SealedKept
    <3>1. frame'[s] = [frame EXCEPT ![cur] = Patched][s]
      BY <2>2 DEF TypeOK, NewFrame
    <3>2. CASE s = cur
      BY <2>2, <3>1, <3>2 DEF TypeOK, NewFrame
    <3>3. CASE s # cur
      BY <2>2, <3>1, <3>3 DEF TypeOK, NewFrame, SealedKept
    <3> QED
      BY <3>2, <3>3
  <2>3. CASE UNCHANGED vars
    BY <2>3 DEF SealedKept, vars
  <2> QED
    BY <2>1, <2>2, <2>3 DEF Next
<1> QED
  BY <1>1, <1>2, TypeCorrect, PTL DEF Spec

(* What patching hands over is the newest block of every video position. *)
LEMMA PatchedIsNewest == ASSUME NEW k \in Blk PROVE Patched[k] = Newest[k]
  BY DEF Patched, Newest, Pos

(* Storing the block at p makes it the newest one there and changes no other
   video position, whichever slot is current. *)
LEMMA StoreIsReceive ==
  ASSUME TypeOK, NEW p \in Pos, NEW d \in Data, SameFrame(p, d)
  PROVE  Newest' = [k \in Blk |-> IF k = p THEN d ELSE Newest[k]]
<1>1. PrevOf(cur) \in Slot /\ cur \in Slot /\ cur' = cur
  BY RingPointers DEF TypeOK, SameFrame
<1>2. ASSUME NEW k \in Blk
      PROVE  /\ flag'[cur][k] = (flag[cur][k] \/ k = p)
             /\ frame'[cur][k] = IF k = p THEN d ELSE frame[cur][k]
             /\ k # p => frame'[PrevOf(cur)][k] = frame[PrevOf(cur)][k]
  <2>1. k \in Pos
    BY DEF Pos
  <2>2. frame[cur] \in [Pos -> Data] /\ frame[PrevOf(cur)] \in [Pos -> Data]
    BY <1>1 DEF TypeOK
  <2> QED
    BY <1>1, <2>1, <2>2 DEF TypeOK, SameFrame, Marked
<1>3. ASSUME NEW k \in Blk
      PROVE  (IF flag'[cur][k] THEN frame'[cur][k] ELSE frame'[PrevOf(cur)][k])
               = IF k = p THEN d ELSE Newest[k]
  BY <1>2 DEF Newest
<1> QED
  BY <1>1, <1>3 DEF Newest

(* The first block of a new frame: the slot just patched becomes the one
   behind, so the newest blocks are the patched ones but for the new block. *)
LEMMA HandOverIsReceive ==
  ASSUME TypeOK, NEW ts \in Ts, NEW p \in Pos, NEW d \in Data,
         NewFrame(ts, p, d)
  PROVE  /\ Newest' = [k \in Blk |-> IF k = p THEN d ELSE Newest[k]]
         /\ [k \in Blk |-> sealed'[PrevOf(cur')][k]] = Newest
<1>1. cur \in Slot /\ cur' \in Slot /\ PrevOf(cur') = cur
  BY RingPointers DEF TypeOK, NewFrame
<1>2. Patched \in [Pos -> Data]
  BY PatchedType
<1>3. ASSUME NEW k \in Blk
      PROVE  /\ flag'[cur'][k] = (k = p)
             /\ k = p => frame'[cur'][k] = d
             /\ k # p => frame'[cur][k] = Newest[k]
  <2>1. k \in Pos /\ Patched[k] = Newest[k]
    BY PatchedIsNewest DEF Pos
  <2>2. DEFINE f == [frame EXCEPT ![cur] = Patched]
  <2>3. f \in [Slot -> [Pos -> Data]] /\ f[cur] = Patched
    BY <1>1, <1>2 DEF TypeOK
  <2>4. frame' = [f EXCEPT ![cur'][p] = d]
    BY DEF NewFrame
  <2>5. flag'[cur'][k] = (k = p)
    BY <1>1 DEF TypeOK, NewFrame, Marked
  <2> HIDE DEF f
  <2>6. (k = p => frame'[cur'][k] = d) /\ (k # p => frame'[cur][k] = f[cur][k])
    BY <1>1, <2>1, <2>3, <2>4
  <2> QED
    BY <2>1, <2>3, <2>5, <2>6
<1>4. ASSUME NEW k \in Blk
      PROVE (IF flag'[cur'][k] THEN frame'[cur'][k] ELSE frame'[PrevOf(cur')][k])
              = IF k = p THEN d ELSE Newest[k]
  BY <1>1, <1>3
<1>5. Newest' = [k \in Blk |-> IF flag'[cur'][k] THEN frame'[cur'][k]
                                ELSE frame'[PrevOf(cur')][k]]
  BY DEF Newest
<1>6. Newest' = [k \in Blk |-> IF k = p THEN d ELSE Newest[k]]
  BY <1>4, <1>5
<1>7. sealed'[cur] = Patched
  BY <1>1 DEF TypeOK, NewFrame
<1>8. [k \in Blk |-> sealed'[PrevOf(cur')][k]] = [k \in Blk |-> Newest[k]]
  BY <1>1, <1>7, PatchedIsNewest
<1>9. [k \in Blk |-> Newest[k]] = Newest
  BY DEF Newest
<1> QED
  BY <1>6, <1>8, <1>9

(* The reader hands over, at every timestamp change, exactly the newest block
   of every video position: it implements Concealer. *)
THEOREM Implements == Spec => Conceals
<1> DEFINE Shown == [k \in Blk |-> sealed[PrevOf(cur)][k]]
<1>1. Init => C!Init
  <2> SUFFICES ASSUME Init PROVE C!Init
    OBVIOUS
  <2>1. 0 \in Slot /\ PrevOf(0) \in Slot
    BY NAssumption, RingPointers DEF Slot
  <2> QED
    BY <2>1 DEF Init, C!Init, Newest, Pos
<1>2. TypeOK /\ [Next]_vars => [C!Next]_(C!vars)
  <2> SUFFICES ASSUME TypeOK, [Next]_vars PROVE C!Next \/ UNCHANGED C!vars
    BY DEF C!vars
  <2>1. ASSUME NEW p \in Pos, NEW d \in Data, SameFrame(p, d)
        PROVE  C!Next \/ UNCHANGED C!vars
    <3>1. Shown' = Shown
      BY <2>1 DEF SameFrame
    <3>2. Newest' = [k \in Blk |-> IF k = p THEN d ELSE Newest[k]]
      BY <2>1, StoreIsReceive
    <3>3. CASE p \in Blk
      <4>1. Newest' = [Newest EXCEPT ![p] = d]
        BY <3>2, <3>3 DEF Newest
      <4> QED
        BY <3>1, <3>3, <4>1 DEF C!Next, C!Receive
    <3>4. CASE p \notin Blk
      <4>1. Newest' = Newest
        BY <3>2, <3>4 DEF Newest
      <4> QED
        BY <3>1, <4>1 DEF C!vars
    <3> QED
      BY <3>3, <3>4
  <2>2. ASSUME NEW ts \in Ts, NEW p \in Pos, NEW d \in Data,
               NewFrame(ts, p, d)
        PROVE  C!Next
    <3>1. /\ Newest' = [k \in Blk |-> IF k = p THEN d ELSE Newest[k]]
          /\ Shown' = Newest
      BY <2>2, HandOverIsReceive
    <3>2. CASE p \in Blk
      <4>1. Newest' = [Newest EXCEPT ![p] = d]
        BY <3>1, <3>2 DEF Newest
      <4> QED
        BY <3>1, <3>2, <4>1 DEF C!Next, C!HandOver
    <3>3. CASE p \notin Blk
      <4>1. Newest' = Newest
        BY <3>1, <3>3 DEF Newest
      <4> QED
        BY <3>1, <4>1 DEF C!Next, C!HandOverOnly
    <3> QED
      BY <3>2, <3>3
  <2>3. CASE UNCHANGED vars
    BY <2>3 DEF vars, C!vars, Newest
  <2> QED
    BY <2>1, <2>2, <2>3 DEF Next
<1> QED
  BY <1>1, <1>2, TypeCorrect, PTL DEF Spec, Conceals, C!Spec
=============================================================================
