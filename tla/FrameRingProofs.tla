-------------------------- MODULE FrameRingProofs --------------------------
(***************************************************************************)
(* The shared ring of dvrecv for every number of slots, every set of       *)
(* pieces and every number of frames: the writer's mark stays where the    *)
(* writer is whatever the pace, and a stream that runs less than N frames  *)
(* ahead of the bus gets to it as a queue of whole frames, with the two    *)
(* processes never at work on the same slot.                               *)
(***************************************************************************)
EXTENDS FrameRing, Integers, TLAPS

(* The lock words are four different numbers. *)
LEMMA LocksDiffer ==
  /\ READY # WRITING_DATA /\ READY # WRITING_IEEE1394 /\ READY # DATA_READY
  /\ WRITING_DATA # WRITING_IEEE1394 /\ WRITING_DATA # DATA_READY
  /\ WRITING_IEEE1394 # DATA_READY
  BY DEF READY, WRITING_DATA, WRITING_IEEE1394, DATA_READY

(* The next pointer of attach_shared_memory stays in the ring. *)
LEMMA NextInRing == ASSUME NEW s \in Slot PROVE NextOf(s) \in Slot
  BY NAssumption DEF Slot, NextOf

(* A frame handed over leaves room for one more. *)
Numbered == TypeOK /\ (rpc \in {"patch", "seal"} => rframe < MaxFrame)

(* The reader's steps, its handlers' included, keep the types. *)
LEMMA ReaderType ==
  ASSUME Numbered, Reader \/ (\E p \in Part : NewFrame(p) \/ SameFrame(p))
  PROVE  Numbered'
<1> USE LeadAssumption DEF Numbered, TypeOK
<1>1. ASSUME NEW p \in Part, NewFrame(p) PROVE Numbered'
  <2>1. rframe < MaxFrame
    BY <1>1 DEF NewFrame
  <2> QED
    BY <1>1, <2>1 DEF NewFrame, shared, writer
<1>2. ASSUME NEW p \in Part, SameFrame(p) PROVE Numbered'
  BY <1>2 DEF SameFrame, shared, writer
<1>3. CASE Seal
  <2>1. rpos' \in Slot
    BY <1>3, NextInRing DEF Seal
  <2> QED
    BY <1>3, <2>1 DEF Seal, writer
<1>4. CASE Test
  BY <1>4 DEF Test, shared, writer
<1>5. CASE Claim
  BY <1>5 DEF Claim, writer
<1>6. CASE Retest
  BY <1>6, NextInRing DEF Retest, shared, writer
<1>7. CASE Store
  <2>1. content' \in [Slot -> [Part -> 0 .. MaxFrame]]
    BY <1>7 DEF Store
  <2> QED
    BY <1>7, <2>1 DEF Store, writer
<1>8. ASSUME NEW p \in Part, Patch(p) PROVE Numbered'
  <2>1. content' \in [Slot -> [Part -> 0 .. MaxFrame]]
    BY <1>8 DEF Patch
  <2> QED
    BY <1>8, <2>1 DEF Patch, writer
<1> QED
  BY <1>1, <1>2, <1>3, <1>4, <1>5, <1>6, <1>7, <1>8 DEF Reader

(* And so do the writer's. *)
LEMMA WriterType == ASSUME Numbered, Writer PROVE Numbered'
<1> USE DEF Numbered, TypeOK
<1>1. CASE Attach
  BY <1>1 DEF Attach, reader
<1>2. CASE Poll
  BY <1>2, NextInRing DEF Poll, shared, reader
<1>3. CASE Take
  BY <1>3 DEF Take, reader
<1>4. ASSUME NEW p \in Part, Copy(p) PROVE Numbered'
  BY <1>4 DEF Copy, shared, reader
<1>5. CASE Release
  BY <1>5 DEF Release, reader
<1> QED
  BY <1>1, <1>2, <1>3, <1>4, <1>5 DEF Writer

(* TypeOK of the ring and of both processes. *)
THEOREM TypeCorrect == Spec => []Numbered
<1>1. Init => Numbered
  BY NAssumption, PartAssumption, LeadAssumption DEF Init, Numbered, TypeOK, Slot
<1>2. Numbered /\ [Next]_vars => Numbered'
  <2>1. Numbered /\ UNCHANGED vars => Numbered'
    BY DEF Numbered, TypeOK, vars, shared, reader, writer
  <2> QED
    BY <2>1, ReaderType, WriterType DEF Next
<1> QED
  BY <1>1, <1>2, PTL DEF Spec

(* MarkIsWriters: the reader's stores and the parent's attach may wipe the
   mark of a slot, but nothing leaves one behind. *)
THEOREM MarkStays == Spec => []MarkIsWriters
<1>1. Init => MarkIsWriters
  BY LocksDiffer DEF Init, MarkIsWriters
<1>2. Numbered /\ MarkIsWriters /\ [Next]_vars => MarkIsWriters'
  <2> SUFFICES ASSUME Numbered, MarkIsWriters, [Next]_vars PROVE MarkIsWriters'
    OBVIOUS
  <2> USE LocksDiffer DEF Numbered, TypeOK, MarkIsWriters
  <2>1. CASE \E p \in Part : NewFrame(p) \/ SameFrame(p)
    BY <2>1 DEF NewFrame, SameFrame, shared, writer
  <2>2. CASE Reader
    BY <2>2 DEF Reader, Patch, Seal, Test, Claim, Retest, Store, shared, writer
  <2>3. CASE Attach
    BY <2>3 DEF Attach, reader
  <2>4. CASE Poll
    BY <2>4 DEF Poll, shared, reader
  <2>5. CASE Take
    BY <2>5 DEF Take, reader
  <2>6. ASSUME NEW p \in Part, Copy(p) PROVE MarkIsWriters'
    BY <2>6 DEF Copy, shared, reader
  <2>7. CASE Release
    BY <2>7 DEF Release, reader
  <2>8. CASE UNCHANGED vars
    BY <2>8 DEF vars, shared, writer
  <2> QED
    BY <2>1, <2>2, <2>3, <2>4, <2>5, <2>6, <2>7, <2>8 DEF Next, Writer
<1> QED
  BY <1>1, <1>2, TypeCorrect, PTL DEF Spec
-----------------------------------------------------------------------------
(* The invariant of a steady stream.  The slot d places ahead of the writer
   is that of the frame d frames after the writer's. *)
At(d) == IF wpos + d < N THEN wpos + d ELSE wpos + d - N
Ahead == rframe - wframe
Whole(f) == [p \in Part |-> f]
Filled(s, f) == \A p \in Part : content[s][p] = f

(* The two processes are less than a ring apart, and meet in a slot only
   before the first frame. *)
Pointers ==
  /\ wframe \in Nat /\ wframe <= rframe /\ Ahead < N
  /\ rframe > 0 => wframe < rframe
  /\ wframe = 0 => wpos = 0
  /\ rpos = At(Ahead)
  /\ rpc \in {"patch", "seal"} => rframe + 1 <= wframe + Lead
  /\ rpc \in {"test", "claim", "retest", "store"} => rframe > 0 /\ rslot = rpos
  /\ wpc # "attach"

(* The slots marked DATA_READY are those of the frames in between, and that of
   the frame the writer is about to take; and the first slot for a while. *)
Marks ==
  /\ \A d \in 1 .. N - 1 : lock[At(d)] = DATA_READY <=> d < Ahead
  /\ lock[wpos] = DATA_READY => wpc = "take" \/ (rframe = 1 /\ rpc \notin {"patch", "seal"})

(* From the writer's slot on, every slot up to the reader's holds its frame. *)
Contents ==
  /\ \A d \in 0 .. N - 1 : d = 0 \/ d < Ahead => Filled(At(d), wframe + d)
  /\ rframe > 0 => \A p \in recv[rpos] : content[rpos][p] = rframe
  /\ rpc = "patch" => \A p \in Part \ rtodo : content[rpos][p] = rframe
  /\ rpc = "seal" => Filled(rpos, rframe)

(* What is on the bus is the frame the writer is at or the one before. *)
Pictures ==
  /\ wpc = "poll" => picture = Whole(wframe)
  /\ picture = Whole(wframe) \/ (wframe > 0 /\ picture = Whole(wframe - 1))
  /\ wpc = "take" => wtodo = Part
  /\ wpc = "copy" => \A p \in Part \ wtodo : wbuf[p] = wframe
  /\ wpc = "release" => wbuf = Whole(wframe)

Inv == Pointers /\ Marks /\ Contents /\ Pictures

(* The slots ahead of the writer are different slots. *)
LEMMA Places ==
  ASSUME Numbered
  PROVE  /\ \A d \in 0 .. N - 1 : At(d) \in Slot
         /\ \A d, e \in 0 .. N - 1 : At(d) = At(e) => d = e
         /\ At(0) = wpos
         /\ \A d \in 0 .. N - 2 : NextOf(At(d)) = At(d + 1)
<1>1. N \in Nat /\ N > 0 /\ wpos \in 0 .. N - 1
  BY NAssumption DEF Numbered, TypeOK, Slot
<1>2. \A d \in 0 .. N - 1 : At(d) \in 0 .. N - 1
  BY <1>1 DEF At
<1>3. \A d, e \in 0 .. N - 1 : At(d) = At(e) => d = e
  BY <1>1 DEF At
<1>4. \A d \in 0 .. N - 2 : NextOf(At(d)) = At(d + 1)
  BY <1>1 DEF At, NextOf
<1> QED
  BY <1>1, <1>2, <1>3, <1>4 DEF At, Slot

(* Where both processes are, as numbers. *)
LEMMA Whereabouts ==
  ASSUME Numbered, Inv
  PROVE  /\ N \in Nat /\ N > 0 /\ Lead \in Nat
         /\ rframe \in Nat /\ wframe \in Nat
         /\ Ahead \in 0 .. N - 1 /\ rframe = wframe + Ahead
         /\ rframe > 0 <=> Ahead > 0
         /\ rpos = At(Ahead) /\ wpos = At(0) /\ rpos \in Slot /\ wpos \in Slot
         /\ Ahead > 0 => rpos # wpos
<1>1. N \in Nat /\ N > 0 /\ Lead \in Nat /\ MaxFrame \in Nat
  BY NAssumption, LeadAssumption
<1>2. rframe \in Nat /\ wframe \in Nat
  BY <1>1 DEF Numbered, TypeOK
<1>3. Ahead \in 0 .. N - 1 /\ rframe = wframe + Ahead /\ (rframe > 0 <=> Ahead > 0)
  BY <1>1, <1>2 DEF Inv, Pointers, Ahead
<1>4. rpos = At(Ahead) /\ wpos = At(0) /\ rpos \in Slot /\ wpos \in Slot
  BY Places DEF Inv, Pointers, Numbered, TypeOK
<1>5. Ahead > 0 => rpos # wpos
  BY <1>1, <1>3, <1>4, Places
<1> QED
  BY <1>1, <1>2, <1>3, <1>4, <1>5

(* A new timestamp has what the slot lacks patched: what it does not lack is of
   the frame. *)
LEMMA NewFrameKeeps ==
  ASSUME Numbered, Inv, steady, Lead < N, NEW p \in Part, NewFrame(p)
  PROVE  Inv'
<1>1. /\ rtodo' = Part \ recv[rpos] /\ rpc' = IF rtodo' = {} THEN "seal" ELSE "patch"
      /\ Paced
      /\ UNCHANGED <<lock, content, recv, rpos, rslot, rframe, wpc, wpos, wtodo, wbuf, wframe, picture>>
  BY DEF NewFrame, shared, writer
<1>2. Pointers'
  BY <1>1 DEF Inv, Pointers, Paced, Ahead, At
<1>3. Marks'
  <2>1. rframe = 1 => lock[wpos] # DATA_READY
    BY <1>1, LocksDiffer, Whereabouts DEF Paced, Inv, Pointers
  <2> QED
    BY <1>1, <2>1 DEF Inv, Marks, Ahead, At
<1>4. Contents'
  <2>1. \A q \in Part \ rtodo' : content[rpos][q] = rframe
    <3>1. rframe = 0 => \A q \in Part : content[rpos][q] = rframe
      BY Whereabouts DEF Inv, Contents, Filled
    <3>2. rframe > 0 => \A q \in recv[rpos] : content[rpos][q] = rframe
      BY DEF Inv, Contents
    <3> QED
      BY <1>1, <3>1, <3>2, Whereabouts
  <2>2. rpc' = "seal" => Filled(rpos, rframe)
    BY <1>1, <2>1 DEF Filled
  <2> QED
    BY <1>1, <2>1, <2>2 DEF Inv, Contents, Filled, At, Ahead
<1>5. Pictures'
  BY <1>1 DEF Inv, Pictures, Whole
<1> QED
  BY <1>2, <1>3, <1>4, <1>5 DEF Inv

(* Patching is storing for the frame in its slot, where the writer is not, or is
   before the first frame. *)
LEMMA PatchKeeps ==
  ASSUME Numbered, Inv, steady, Lead < N, NEW q \in Part, Patch(q)
  PROVE  Inv'
<1>1. /\ rpc = "patch" /\ q \in rtodo
      /\ content' = [content EXCEPT ![rpos][q] = rframe]
      /\ rtodo' = rtodo \ {q} /\ rpc' = IF rtodo' = {} THEN "seal" ELSE "patch"
      /\ UNCHANGED <<lock, recv, rpos, rslot, rframe, wpc, wpos, wtodo, wbuf, wframe, picture>>
  BY DEF Patch, writer
<1>2. Pointers'
  BY <1>1 DEF Inv, Pointers, Ahead, At
<1>3. Marks'
  BY <1>1 DEF Inv, Marks, Ahead, At
<1>4. Contents'
  <2>1. \A s \in Slot : s # rpos => content'[s] = content[s]
    BY <1>1 DEF Numbered, TypeOK
  <2>2. \A p \in Part : content'[rpos][p] = IF p = q THEN rframe ELSE content[rpos][p]
    BY <1>1, Whereabouts DEF Numbered, TypeOK
  <2>3. \A p \in Part \ rtodo : content[rpos][p] = rframe
    BY <1>1 DEF Inv, Contents
  <2>4. \A p \in Part \ rtodo' : content'[rpos][p] = rframe
    BY <1>1, <2>2, <2>3
  <2>5. rframe > 0 => \A p \in recv[rpos] : content'[rpos][p] = rframe
    <3>1. recv[rpos] \subseteq Part
      BY Whereabouts DEF Numbered, TypeOK
    <3>2. rframe > 0 => \A p \in recv[rpos] : content[rpos][p] = rframe
      BY DEF Inv, Contents
    <3> QED
      BY <2>2, <3>1, <3>2
  <2>6. ASSUME NEW d \in 0 .. N - 1, d = 0 \/ d < Ahead
        PROVE  \A p \in Part : content'[At(d)][p] = wframe + d
    <3>1. Filled(At(d), wframe + d) /\ At(d) \in Slot
      BY <2>6, Places DEF Inv, Contents
    <3>2. CASE At(d) # rpos
      BY <2>1, <3>1, <3>2 DEF Filled
    <3>3. CASE At(d) = rpos
      <4>1. d = Ahead
        BY <3>3, Whereabouts, Places
      <4>2. wframe + d = rframe
        BY <4>1, Whereabouts
      <4> QED
        BY <2>2, <3>1, <3>3, <4>2 DEF Filled
    <3> QED
      BY <3>2, <3>3
  <2>7. rpc' = "seal" => Filled(rpos, rframe)'
    BY <1>1, <2>4 DEF Filled
  <2> QED
    BY <1>1, <2>4, <2>5, <2>6, <2>7 DEF Contents, Filled, At, Ahead
<1>5. Pictures'
  BY <1>1 DEF Inv, Pictures, Whole
<1> QED
  BY <1>2, <1>3, <1>4, <1>5 DEF Inv

(* Handing a frame over marks its slot and moves on to one the writer is not at. *)
LEMMA SealKeeps ==
  ASSUME Numbered, Inv, steady, Lead < N, Seal
  PROVE  Inv'
<1>1. /\ rpc = "seal" /\ rpc' = "test"
      /\ lock' = [lock EXCEPT ![rpos] = DATA_READY]
      /\ rpos' = NextOf(rpos) /\ rslot' = rpos'
      /\ rframe' = rframe + 1
      /\ recv' = [recv EXCEPT ![rpos'] = {}]
      /\ UNCHANGED <<content, wpc, wpos, wtodo, wbuf, wframe, picture>>
  BY DEF Seal, writer
<1>2. /\ Ahead + 1 \in 0 .. N - 1 /\ Ahead' = Ahead + 1
      /\ rpos' = At(Ahead + 1) /\ rpos' \in Slot
  <2>1. Ahead' = Ahead + 1 /\ rframe + 1 <= wframe + Lead
    BY <1>1, Whereabouts DEF Ahead, Inv, Pointers
  <2>2. Ahead + 1 \in 0 .. N - 1
    BY <2>1, Whereabouts
  <2> QED
    BY <1>1, <2>1, <2>2, Whereabouts, Places
<1>3. Pointers'
  <2>1. At(Ahead)' = At(Ahead + 1)
    BY <1>1, <1>2 DEF At
  <2> QED
    BY <1>1, <1>2, <2>1, Whereabouts DEF Inv, Pointers
<1>4. Marks'
  <2>1. \A s \in Slot : lock'[s] = IF s = rpos THEN DATA_READY ELSE lock[s]
    BY <1>1 DEF Numbered, TypeOK
  <2>2. ASSUME NEW d \in 1 .. N - 1
        PROVE  lock'[At(d)] = DATA_READY <=> d < Ahead + 1
    <3>1. d \in 0 .. N - 1 /\ At(d) \in Slot /\ (At(d) = rpos <=> d = Ahead)
      BY Whereabouts, Places
    <3>2. lock[At(d)] = DATA_READY <=> d < Ahead
      BY DEF Inv, Marks
    <3> QED
      BY <2>1, <3>1, <3>2, Whereabouts
  <2>3. lock'[wpos] = DATA_READY => wpc = "take" \/ rframe + 1 = 1
    <3>1. CASE rframe = 0
      BY <3>1
    <3>2. CASE rframe # 0
      <4>1. lock'[wpos] = lock[wpos]
        BY <2>1, <3>2, Whereabouts
      <4> QED
        BY <1>1, <4>1 DEF Inv, Marks
    <3> QED
      BY <3>1, <3>2
  <2> QED
    BY <1>1, <1>2, <2>2, <2>3 DEF Marks, At
<1>5. Contents'
  <2>1. ASSUME NEW d \in 0 .. N - 1, d = 0 \/ d < Ahead + 1
        PROVE  Filled(At(d), wframe + d)
    <3>1. CASE d = Ahead
      BY <1>1, <3>1, Whereabouts DEF Inv, Contents
    <3>2. CASE d # Ahead
      BY <2>1, <3>2, Whereabouts DEF Inv, Contents
    <3> QED
      BY <3>1, <3>2
  <2>2. recv'[rpos'] = {}
    BY <1>1, <1>2 DEF Numbered, TypeOK
  <2> QED
    BY <1>1, <1>2, <2>1, <2>2 DEF Contents, Filled, At
<1>6. Pictures'
  BY <1>1 DEF Inv, Pictures, Whole
<1> QED
  BY <1>3, <1>4, <1>5, <1>6 DEF Inv

(* The handlers of the blocks of a frame, which store in the slot of it. *)
LEMMA HandlerKeeps ==
  ASSUME Numbered, MarkIsWriters, Inv, steady, Lead < N,
         Test \/ Claim \/ Retest \/ Store \/ (\E p \in Part : SameFrame(p))
  PROVE  Inv'
<1>1. /\ rpos' = rpos
      /\ rpc' \notin {"patch", "seal"} /\ rpc \notin {"patch", "seal"}
      /\ rslot' = rpos /\ rframe > 0
      /\ UNCHANGED <<rframe, wpc, wpos, wtodo, wbuf, wframe, picture>>
  <2>1. lock[rpos] # WRITING_IEEE1394 \/ rframe = 0
    BY Whereabouts DEF MarkIsWriters
  <2>2. CASE Retest
    BY <2>1, <2>2 DEF Retest, Inv, Pointers, writer
  <2> QED
    BY <2>2 DEF Test, Claim, Store, SameFrame, Inv, Pointers, writer
<1>2. Ahead > 0 /\ Ahead' = Ahead /\ rpos # wpos
  BY <1>1, Whereabouts DEF Ahead
<1>3. Pointers'
  BY <1>1, <1>2 DEF Inv, Pointers, At
<1>4. \A s \in Slot : lock'[s] = lock[s] \/ (s = rpos /\ lock'[s] = WRITING_DATA)
  BY DEF Test, Claim, Retest, Store, SameFrame, shared, Inv, Pointers, Numbered, TypeOK
<1>5. Marks'
  <2>1. ASSUME NEW d \in 1 .. N - 1
        PROVE  lock'[At(d)] = DATA_READY <=> d < Ahead
    <3>1. d \in 0 .. N - 1 /\ At(d) \in Slot /\ (At(d) = rpos <=> d = Ahead)
      BY Whereabouts, Places
    <3>2. lock[At(d)] = DATA_READY <=> d < Ahead
      BY DEF Inv, Marks
    <3> QED
      BY <1>4, <3>1, <3>2, LocksDiffer
  <2>2. lock'[wpos] = lock[wpos]
    BY <1>2, <1>4, Whereabouts
  <2> QED
    BY <1>1, <1>2, <2>1, <2>2 DEF Inv, Marks, At
<1>6. Contents'
  <2>1. CASE Store
    <3>1. /\ rslot = rpos /\ rpart \in Part
          /\ content' = [content EXCEPT ![rpos][rpart] = rframe]
          /\ recv' = [recv EXCEPT ![rpos] = @ \cup {rpart}]
      BY <2>1 DEF Store, Inv, Pointers, Numbered, TypeOK
    <3>2. \A s \in Slot : s # rpos => content'[s] = content[s]
      BY <3>1 DEF Numbered, TypeOK
    <3>3. \A q \in Part : content'[rpos][q] = IF q = rpart THEN rframe ELSE content[rpos][q]
      BY <3>1, Whereabouts DEF Numbered, TypeOK
    <3>4. recv'[rpos] = recv[rpos] \cup {rpart} /\ recv[rpos] \subseteq Part
      BY <3>1, Whereabouts DEF Numbered, TypeOK
    <3>5. \A q \in recv'[rpos] : content'[rpos][q] = rframe
      BY <1>1, <3>1, <3>3, <3>4 DEF Inv, Contents
    <3>6. ASSUME NEW d \in 0 .. N - 1, d = 0 \/ d < Ahead
          PROVE  \A q \in Part : content'[At(d)][q] = wframe + d
      <4>1. At(d) \in Slot /\ At(d) # rpos
        BY <1>2, <3>6, Whereabouts, Places
      <4>2. Filled(At(d), wframe + d)
        BY <3>6 DEF Inv, Contents
      <4> QED
        BY <3>2, <4>1, <4>2 DEF Filled
    <3> QED
      BY <1>1, <1>2, <3>5, <3>6 DEF Contents, Filled, At
  <2>2. CASE UNCHANGED <<content, recv>>
    BY <1>1, <1>2, <2>2 DEF Inv, Contents, Filled, At
  <2> QED
    BY <2>1, <2>2 DEF Test, Claim, Retest, SameFrame, shared
<1>7. Pictures'
  BY <1>1 DEF Inv, Pictures, Whole
<1> QED
  BY <1>3, <1>5, <1>6, <1>7 DEF Inv

(* The writer takes the next slot exactly if it holds a complete frame. *)
LEMMA PollKeeps ==
  ASSUME Numbered, Inv, steady, Lead < N, Poll
  PROVE  Inv'
<1>1. /\ wpc = "poll" /\ wtodo' = Part
      /\ UNCHANGED <<lock, content, recv, rpc, rpos, rslot, rtodo, rframe, wbuf, picture>>
  BY DEF Poll, shared, reader
<1>2. CASE lock[NextOf(wpos)] # DATA_READY
  <2>1. wpc' = "copy" /\ UNCHANGED <<wpos, wframe>>
    BY <1>2 DEF Poll
  <2>2. Ahead' = Ahead /\ \A d : At(d)' = At(d)
    BY <1>1, <2>1 DEF Ahead, At
  <2>3. Pointers' /\ Contents'
    BY <1>1, <2>1, <2>2 DEF Inv, Pointers, Contents, Filled, At, Ahead
  <2>4. Marks' /\ Pictures'
    BY <1>1, <2>1, <2>2 DEF Inv, Marks, Pictures, Whole, At
  <2> QED
    BY <2>3, <2>4 DEF Inv
<1>3. CASE lock[NextOf(wpos)] = DATA_READY
  <2>1. wpc' = "take" /\ wpos' = NextOf(wpos) /\ wframe' = wframe + 1
    BY <1>3 DEF Poll
  <2>2. Ahead > 1
    <3>1. CASE N = 1
      <4>1. NextOf(wpos) = wpos
        BY <3>1, Whereabouts DEF NextOf, Slot
      <4>2. rframe = 0
        BY <3>1, Whereabouts
      <4> QED
        BY <1>1, <1>3, <4>1, <4>2 DEF Inv, Marks
    <3>2. CASE N > 1
      <4>1. NextOf(wpos) = At(1) /\ 1 \in 1 .. N - 1
        BY <3>2, Whereabouts, Places
      <4> QED
        BY <1>3, <4>1, Whereabouts DEF Inv, Marks
    <3> QED
      BY <3>1, <3>2, Whereabouts
  <2>3. /\ N > 1 /\ wpos' = At(1) /\ Ahead' = Ahead - 1
    BY <1>1, <2>1, <2>2, Whereabouts, Places DEF Ahead
  <2>4. /\ \A d \in 0 .. N - 2 : At(d)' = At(d + 1)
        /\ At(N - 1)' = wpos
    BY <2>3, Whereabouts DEF At, Slot
  <2>5. Pointers'
    <3>1. At(Ahead)' = At(Ahead)
      BY <2>2, <2>3, <2>4, Whereabouts DEF At
    <3> QED
      BY <1>1, <2>1, <2>2, <2>3, <3>1, Whereabouts DEF Inv, Pointers
  <2>6. Marks'
    <3>1. ASSUME NEW d \in 1 .. N - 1
          PROVE  lock[At(d)'] = DATA_READY <=> d < Ahead - 1
      <4>1. CASE d = N - 1
        <5>1. lock[wpos] # DATA_READY
          BY <1>1, <2>2, Whereabouts DEF Inv, Marks
        <5> QED
          BY <2>4, <4>1, <5>1, Whereabouts
      <4>2. CASE d # N - 1
        <5>1. d + 1 \in 1 .. N - 1 /\ d \in 0 .. N - 2
          BY <4>2, Whereabouts
        <5>2. lock[At(d + 1)] = DATA_READY <=> d + 1 < Ahead
          BY <5>1 DEF Inv, Marks
        <5> QED
          BY <2>4, <5>1, <5>2, Whereabouts
      <4> QED
        BY <4>1, <4>2
    <3> QED
      BY <1>1, <2>1, <2>3, <3>1 DEF Marks, At
  <2>7. Contents'
    <3>1. ASSUME NEW d \in 0 .. N - 1, d = 0 \/ d < Ahead - 1
          PROVE  \A q \in Part : content[At(d)'][q] = wframe + 1 + d
      <4>1. d + 1 \in 0 .. N - 1 /\ d \in 0 .. N - 2 /\ d + 1 < Ahead
        BY <2>2, <3>1, Whereabouts
      <4>2. Filled(At(d + 1), wframe + (d + 1))
        BY <4>1 DEF Inv, Contents
      <4> QED
        BY <2>4, <4>1, <4>2, Whereabouts DEF Filled
    <3> QED
      BY <1>1, <2>1, <2>3, <3>1 DEF Inv, Contents, Filled, At
  <2>8. Pictures'
    BY <1>1, <2>1, Whereabouts DEF Inv, Pictures, Whole
  <2> QED
    BY <2>5, <2>6, <2>7, <2>8 DEF Inv
<1> QED
  BY <1>2, <1>3

(* The writer's own work leaves pointers and contents alone. *)
LEMMA WorkKeeps ==
  ASSUME Numbered, Inv, steady, Lead < N,
         Take \/ Release \/ (\E p \in Part : Copy(p))
  PROVE  Inv'
<1>1. UNCHANGED <<content, recv, rpc, rpos, rslot, rtodo, rframe, wpos, wframe>> /\ wpc' # "attach"
  BY DEF Take, Copy, Release, shared, reader
<1>2. Ahead' = Ahead /\ \A d : At(d)' = At(d)
  BY <1>1 DEF Ahead, At
<1>3. Pointers' /\ Contents'
  BY <1>1, <1>2 DEF Inv, Pointers, Contents, Filled, At, Ahead
<1>4. Marks'
  <2>1. CASE Take \/ Release
    <3>1. /\ \A s \in Slot : s # wpos => lock'[s] = lock[s]
          /\ lock'[wpos] # DATA_READY
      BY <2>1, LocksDiffer DEF Take, Release, Numbered, TypeOK
    <3>2. \A d \in 1 .. N - 1 : At(d) \in Slot /\ At(d) # wpos
      BY Whereabouts, Places
    <3> QED
      BY <1>1, <1>2, <3>1, <3>2 DEF Inv, Marks, At
  <2>2. CASE \E p \in Part : Copy(p)
    BY <1>1, <1>2, <2>2 DEF Copy, shared, Inv, Marks, At
  <2> QED
    BY <2>1, <2>2
<1>5. Pictures'
  <2>1. CASE Take
    BY <2>1 DEF Take, Inv, Pictures, Whole
  <2>2. ASSUME NEW p \in Part, Copy(p) PROVE Pictures'
    <3>1. content[wpos][p] = wframe
      BY Whereabouts DEF Inv, Contents, Filled
    <3>2. /\ wpc = "copy" /\ wbuf' = [wbuf EXCEPT ![p] = wframe]
          /\ wtodo' = wtodo \ {p} /\ wpc' = IF wtodo' = {} THEN "release" ELSE "copy"
          /\ picture' = picture /\ wframe' = wframe
      BY <2>2, <3>1 DEF Copy
    <3>3. \A q \in Part \ wtodo' : wbuf'[q] = wframe
      BY <3>2 DEF Inv, Pictures, Numbered, TypeOK
    <3>4. wtodo' = {} => wbuf' = Whole(wframe)
      BY <3>2, <3>3 DEF Whole, Numbered, TypeOK
    <3> QED
      BY <3>2, <3>3, <3>4 DEF Inv, Pictures, Whole
  <2>3. CASE Release
    BY <2>3 DEF Release, Inv, Pictures, Whole
  <2> QED
    BY <2>1, <2>2, <2>3
<1> QED
  BY <1>3, <1>4, <1>5 DEF Inv

(* The invariant holds as long as the stream keeps pace with the bus. *)
LEMMA InvHolds == ASSUME Lead < N PROVE Spec => [](steady => Inv)
<1>1. Init => (steady => Inv)
  <2> SUFFICES ASSUME Init, steady PROVE Inv
    OBVIOUS
  <2>1. N \in Nat /\ N > 0 /\ Ahead = 0 /\ \A d \in 0 .. N - 1 : At(d) = d
    BY NAssumption DEF Init, Ahead, At
  <2>2. Pointers
    BY <2>1 DEF Init, Pointers
  <2>3. Marks
    BY <2>1, LocksDiffer DEF Init, Marks, Slot
  <2>4. Contents
    BY <2>1 DEF Init, Contents, Filled, Slot
  <2>5. Pictures
    BY DEF Init, Pictures, Whole
  <2> QED
    BY <2>2, <2>3, <2>4, <2>5 DEF Inv
<1>2. Numbered /\ MarkIsWriters /\ (steady => Inv) /\ [Next]_vars => (steady => Inv)'
  <2> SUFFICES ASSUME Numbered, MarkIsWriters, steady => Inv, [Next]_vars, steady' PROVE Inv'
    OBVIOUS
  <2>1. steady /\ Inv
    BY DEF Next, NewFrame, SameFrame, Reader, Patch, Seal, Test, Claim, Retest, Store,
           Writer, Attach, Poll, Take, Copy, Release, vars
  <2>2. CASE Reader
    BY <2>1, <2>2, PatchKeeps, SealKeeps, HandlerKeeps DEF Reader
  <2>3. CASE \E p \in Part : NewFrame(p) \/ SameFrame(p)
    BY <2>1, <2>3, NewFrameKeeps, HandlerKeeps
  <2>4. CASE Writer
    <3>1. ~Attach
      BY <2>1 DEF Attach, Inv, Pointers
    <3> QED
      BY <2>1, <2>4, <3>1, PollKeeps, WorkKeeps DEF Writer
  <2>5. CASE UNCHANGED vars
    <3>1. UNCHANGED <<lock, content, recv, rpc, rpos, rslot, rtodo, rframe, wpc, wpos, wtodo, wbuf, wframe, picture>>
      BY <2>5 DEF vars, shared, reader, writer
    <3> QED
      BY <2>1, <3>1 DEF Inv, Pointers, Marks, Contents, Pictures, Filled, Whole, At, Ahead
  <2> QED
    BY <2>2, <2>3, <2>4, <2>5 DEF Next
<1> QED
  BY <1>1, <1>2, TypeCorrect, MarkStays, PTL DEF Spec

(* Exclusive: the two processes are never at work on the same slot, for any
   ring, if the stream is less than a ring ahead of the bus. *)
THEOREM Excludes == ASSUME Lead < N PROVE Spec => []Exclusive
<1>1. Numbered /\ (steady => Inv) => Exclusive
  BY Whereabouts DEF Exclusive, Inv, Pointers
<1> QED
  BY <1>1, InvHolds, TypeCorrect, PTL

(* InOrder: under the same condition the ring implements FrameQueue, so that
   no frame is torn, left out or out of order on its way to the bus. *)
THEOREM Implements == ASSUME Lead < N PROVE Spec => InOrder
<1> DEFINE complete == IF steady THEN rframe ELSE 0
           onBus    == IF steady THEN picture ELSE [p \in Part |-> 0]
<1>1. Init => Q!Init
  BY DEF Init, Q!Init, Q!Whole
<1>2. Numbered /\ (steady => Inv) /\ [Next]_vars => [Q!Next]_(Q!vars)
  <2> SUFFICES ASSUME Numbered, steady => Inv, [Next]_vars
               PROVE  Q!Next \/ UNCHANGED <<complete, onBus>>
    BY DEF Q!vars
  <2>1. steady' = steady
    BY DEF Next, NewFrame, SameFrame, Reader, Patch, Seal, Test, Claim, Retest, Store,
           Writer, Attach, Poll, Take, Copy, Release, vars
  <2>2. CASE ~steady
    BY <2>1, <2>2
  <2>3. CASE steady /\ Seal
    <3>1. complete' = complete + 1 /\ onBus' = onBus
      BY <2>1, <2>3 DEF Seal, writer
    <3> QED
      BY <3>1 DEF Q!Next, Q!Complete
  <2>4. CASE steady /\ Release
    <3>1. picture' = Whole(wframe) /\ rframe' = rframe
      BY <2>4 DEF Release, reader, Inv, Pictures
    <3>2. CASE picture = Whole(wframe)
      BY <2>1, <2>4, <3>1, <3>2
    <3>3. CASE wframe > 0 /\ picture = Whole(wframe - 1)
      <4>1. wframe - 1 \in 0 .. rframe - 2
        BY <2>4, <3>3, Whereabouts DEF Inv, Pointers
      <4>2. /\ onBus = Q!Whole(wframe - 1) /\ onBus' = Q!Whole(wframe - 1 + 1)
            /\ complete' = complete /\ complete = rframe
        BY <2>1, <2>4, <3>1, <3>3, Whereabouts DEF Whole, Q!Whole
      <4> QED
        BY <4>1, <4>2 DEF Q!Next, Q!Show
    <3> QED
      BY <2>4, <3>2, <3>3 DEF Inv, Pictures
  <2>5. CASE steady /\ ~Seal /\ ~Release
    <3>1. rframe' = rframe /\ picture' = picture
      BY <2>5 DEF Next, NewFrame, SameFrame, Reader, Patch, Test, Claim, Retest, Store, Writer,
                  Attach, Poll, Take, Copy, vars, shared, reader, writer
    <3> QED
      BY <2>1, <3>1
  <2> QED
    BY <2>2, <2>3, <2>4, <2>5
<1> QED
  BY <1>1, <1>2, InvHolds, TypeCorrect, PTL DEF Spec, InOrder, Q!Spec
=============================================================================
