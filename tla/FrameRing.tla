----------------------------- MODULE FrameRing -----------------------------
(***************************************************************************)
(* The ring of frame buffers in System V shared memory between the two     *)
(* processes of dvrecv.  The reading process stores received blocks and    *)
(* hands frames over (read.c); the writing process copies frames to the    *)
(* IEEE1394 bus (write-linux.c).  The only synchronisation is the `lock'   *)
(* word of each slot, read and written without any atomic operation, so    *)
(* every load and store of a lock, and the copy of every piece of a frame, *)
(* is a step of its own here.                                              *)
(*                                                                         *)
(* Frames are numbered in the order of reception; a piece of a slot is     *)
(* represented by the number of the frame it was last stored for (blocks   *)
(* patched in for lost ones count as stored).  VideoAssembly says what the *)
(* stored pieces contain.                                                  *)
(***************************************************************************)
EXTENDS Naturals

CONSTANTS N,           \* frames_in_buffer
          Part,        \* the pieces of a frame that are stored separately
          MaxFrame,    \* bounds on the frames received in a steady stream
          MaxBurst,    \* and in one that is not
          Lead         \* how far a steady stream runs ahead of the bus, in frames

ASSUME NAssumption    == N \in Nat \ {0}
ASSUME PartAssumption == Part # {}
ASSUME LeadAssumption == {Lead, MaxFrame, MaxBurst} \subseteq Nat /\ MaxBurst <= MaxFrame

READY == 1              \* DVFRAME_READY
WRITING_DATA == 2       \* DVFRAME_WRITING_DATA
WRITING_IEEE1394 == 4   \* DVFRAME_WRITING_IEEE1394
DATA_READY == 8         \* DVFRAME_DATA_READY

VARIABLES
  steady,                     \* is the stream at the pace of the bus, and the
                              \* parent attached when it begins?
  lock, content, recv,        \* shared memory: per slot, the lock, the pieces
                              \* and video_recv_flag
  rpc, rpos, rslot, rpart,    \* reader: program counter, its video_framebuf,
                              \* the local shm_frame, the piece being stored
  rtodo,                      \* reader: the pieces it has yet to patch
  rframe,                     \* reader: number of the frame being received
  wpc, wpos, wtodo, wbuf,     \* writer: program counter, its video_framebuf,
                              \* what is left to copy, dvframe_buf
  wframe,                     \* writer: how many frames it has taken
  picture                     \* what the last write to the bus carried
shared == <<lock, content, recv>>
reader == <<rpc, rpos, rslot, rpart, rtodo, rframe>>
writer == <<wpc, wpos, wtodo, wbuf, wframe, picture>>
vars   == <<steady, shared, reader, writer>>

Slot == 0 .. N - 1
NextOf(s) == IF s = N - 1 THEN 0 ELSE s + 1

(* The reader has attached, which set every lock; the writer has attached too,
   or is still in prepare_ieee1394 and has yet to. *)
Init == /\ steady \in BOOLEAN
        /\ lock = [s \in Slot |-> READY]
        /\ content = [s \in Slot |-> [p \in Part |-> 0]]
        /\ recv = [s \in Slot |-> {}]
        /\ rpc = "idle" /\ rpos = 0 /\ rslot = 0 /\ rpart \in Part /\ rframe = 0
        /\ rtodo = {}
        /\ wpc = IF steady THEN "poll" ELSE "attach"
        /\ wpos = 0
        /\ wtodo = IF steady THEN {} ELSE Slot
        /\ wbuf = [p \in Part |-> 0] /\ wframe = 0
        /\ picture = [p \in Part |-> 0]
-----------------------------------------------------------------------------
(* The reading process *)

(* The pace of the sender relative to the bus, which no code enforces.  The
   first packet marks slot 0 DATA_READY without there being a frame in it;
   in a steady stream the writer, which is at slot 0, has finished a round and
   so cleared that mark before the second frame begins. *)
Paced == /\ rframe + 1 <= wframe + Lead
         /\ rframe = 1 => lock[0] = READY

(* The first block of the next frame: the pieces of the current slot that did
   not arrive are patched, one memcpy after the other. *)
NewFrame(p) ==
  /\ rpc = "idle"
  /\ IF steady THEN Paced /\ rframe < MaxFrame ELSE rframe < MaxBurst
  /\ rtodo' = Part \ recv[rpos]
  /\ rpc' = IF rtodo' = {} THEN "seal" ELSE "patch"
  /\ rpart' = p
  /\ UNCHANGED <<steady, shared, rpos, rslot, rframe, writer>>

Patch(q) ==
  /\ rpc = "patch" /\ q \in rtodo
  /\ content' = [content EXCEPT ![rpos][q] = rframe]
  /\ rtodo' = rtodo \ {q}
  /\ rpc' = IF rtodo' = {} THEN "seal" ELSE "patch"
  /\ UNCHANGED <<steady, lock, recv, rpos, rslot, rpart, rframe, writer>>

(* The slot is handed over after the pointer moved. *)
BadSealLate ==
  /\ rpc = "seal"
  /\ lock' = [lock EXCEPT ![NextOf(rpos)] = DATA_READY]
  /\ rpos' = NextOf(rpos) /\ rslot' = rpos'
  /\ rframe' = rframe + 1
  /\ recv' = [recv EXCEPT ![rpos'] = {}]
  /\ rpc' = "test"
  /\ UNCHANGED <<steady, content, rpart, rtodo, writer>>

(* The slot is not handed over at all. *)
BadSealReady ==
  /\ rpc = "seal"
  /\ lock' = [lock EXCEPT ![rpos] = READY]
  /\ rpos' = NextOf(rpos) /\ rslot' = rpos'
  /\ rframe' = rframe + 1
  /\ recv' = [recv EXCEPT ![rpos'] = {}]
  /\ rpc' = "test"
  /\ UNCHANGED <<steady, content, rpart, rtodo, writer>>

(* lock = DVFRAME_DATA_READY; advance; clear video_recv_flag; enter the
   handler of the block. *)
Seal ==
  /\ rpc = "seal"
  /\ lock' = [lock EXCEPT ![rpos] = DATA_READY]
  /\ rpos' = NextOf(rpos) /\ rslot' = rpos'
  /\ rframe' = rframe + 1
  /\ recv' = [recv EXCEPT ![rpos'] = {}]
  /\ rpc' = "test"
  /\ UNCHANGED <<steady, content, rpart, rtodo, writer>>

(* Another block of the current frame: enter its handler. *)
SameFrame(p) ==
  /\ rpc = "idle" /\ rframe > 0 /\ p \notin recv[rpos]
  /\ rpc' = "test" /\ rslot' = rpos /\ rpart' = p
  /\ UNCHANGED <<steady, shared, rpos, rtodo, rframe, writer>>

(* if (!(lock & DVFRAME_WRITING_DATA)) *)
Test ==
  /\ rpc = "test"
  /\ rpc' = IF lock[rslot] = WRITING_DATA THEN "retest" ELSE "claim"
  /\ UNCHANGED <<steady, shared, rpos, rslot, rpart, rtodo, rframe, writer>>

Claim ==
  /\ rpc = "claim"
  /\ lock' = [lock EXCEPT ![rslot] = WRITING_DATA]
  /\ rpc' = "store"
  /\ UNCHANGED <<steady, content, recv, rpos, rslot, rpart, rtodo, rframe, writer>>

(* A claimed slot is waited for instead of being stored in. *)
BadRetest ==
  /\ rpc = "retest"
  /\ IF lock[rslot] = WRITING_IEEE1394
     THEN rpos' = NextOf(rslot) ELSE rpos' = rpos
  /\ rpc' = "test"
  /\ UNCHANGED <<steady, shared, rslot, rpart, rtodo, rframe, writer>>

(* else if (lock & DVFRAME_WRITING_IEEE1394): the lock is loaded again, and
   the shared pointer moves on while the local one stays. *)
Retest ==
  /\ rpc = "retest"
  /\ IF lock[rslot] = WRITING_IEEE1394
     THEN rpos' = NextOf(rslot) /\ rpc' = "test"
     ELSE rpos' = rpos /\ rpc' = "store"
  /\ UNCHANGED <<steady, shared, rslot, rpart, rtodo, rframe, writer>>

Store ==
  /\ rpc = "store"
  /\ content' = [content EXCEPT ![rslot][rpart] = rframe]
  /\ recv' = [recv EXCEPT ![rslot] = @ \cup {rpart}]
  /\ rpc' = "idle"
  /\ UNCHANGED <<steady, lock, rpos, rslot, rpart, rtodo, rframe, writer>>

Reader == (\E p \in Part : Patch(p)) \/ Seal \/ Test \/ Claim \/ Retest \/ Store
-----------------------------------------------------------------------------
(* The writing process *)

(* attach_shared_memory in the parent sets every lock once more, whatever the
   reader has done with it since. *)
Attach ==
  /\ wpc = "attach"
  /\ \E s \in wtodo : /\ \A t \in wtodo : s <= t
                      /\ lock' = [lock EXCEPT ![s] = READY]
                      /\ wtodo' = wtodo \ {s}
  /\ wpc' = IF wtodo' = {} THEN "poll" ELSE "attach"
  /\ UNCHANGED <<steady, content, recv, reader, wpos, wbuf, wframe, picture>>

(* The next slot is taken unless it is being stored in. *)
BadPoll ==
  /\ wpc = "poll"
  /\ IF lock[NextOf(wpos)] # WRITING_DATA
     THEN wpos' = NextOf(wpos) /\ wframe' = wframe + 1 /\ wpc' = "take"
     ELSE wpc' = "copy" /\ UNCHANGED <<wpos, wframe>>
  /\ wtodo' = Part
  /\ UNCHANGED <<steady, shared, reader, wbuf, picture>>

(* Is the next slot ready?  If not, the current one is sent again. *)
Poll ==
  /\ wpc = "poll"
  /\ IF lock[NextOf(wpos)] = DATA_READY
     THEN wpos' = NextOf(wpos) /\ wframe' = wframe + 1 /\ wpc' = "take"
     ELSE wpc' = "copy" /\ UNCHANGED <<wpos, wframe>>
  /\ wtodo' = Part
  /\ UNCHANGED <<steady, shared, reader, wbuf, picture>>

Take ==
  /\ wpc = "take"
  /\ lock' = [lock EXCEPT ![wpos] = WRITING_IEEE1394]
  /\ wpc' = "copy"
  /\ UNCHANGED <<steady, content, recv, reader, wpos, wtodo, wbuf, wframe, picture>>

Copy(p) ==
  /\ wpc = "copy" /\ p \in wtodo
  /\ wbuf' = [wbuf EXCEPT ![p] = content[wpos][p]]
  /\ wtodo' = wtodo \ {p}
  /\ wpc' = IF wtodo' = {} THEN "release" ELSE "copy"
  /\ UNCHANGED <<steady, shared, reader, wpos, wframe, picture>>

(* The slot is not given back. *)
BadRelease ==
  /\ wpc = "release"
  /\ picture' = wbuf
  /\ wpc' = "poll"
  /\ UNCHANGED <<steady, shared, reader, wpos, wtodo, wbuf, wframe>>

(* lock = DVFRAME_READY, then write(fd1394, dvframe_buf). *)
Release ==
  /\ wpc = "release"
  /\ lock' = [lock EXCEPT ![wpos] = READY]
  /\ picture' = wbuf
  /\ wpc' = "poll"
  /\ UNCHANGED <<steady, content, recv, reader, wpos, wtodo, wbuf, wframe>>

Writer == Attach \/ Poll \/ Take \/ (\E p \in Part : Copy(p)) \/ Release
-----------------------------------------------------------------------------
Next == \/ \E p \in Part : NewFrame(p) \/ SameFrame(p)
        \/ Reader
        \/ Writer

(* Both processes are scheduled again and again.  Whether a further packet
   arrives is up to the network. *)
Spec == Init /\ [][Next]_vars /\ WF_vars(Reader) /\ WF_vars(Writer)
-----------------------------------------------------------------------------
TypeOK == /\ steady \in BOOLEAN
          /\ lock \in [Slot -> {READY, WRITING_DATA, WRITING_IEEE1394, DATA_READY}]
          /\ content \in [Slot -> [Part -> 0 .. MaxFrame]]
          /\ recv \in [Slot -> SUBSET Part]
          /\ rpc \in {"idle", "patch", "seal", "test", "claim", "retest", "store"}
          /\ rpos \in Slot /\ rslot \in Slot /\ rpart \in Part /\ rtodo \in SUBSET Part
          /\ rframe \in 0 .. MaxFrame
          /\ wpc \in {"attach", "poll", "take", "copy", "release"}
          /\ wpos \in Slot /\ wtodo \in SUBSET (Part \cup Slot)
          /\ wbuf \in [Part -> 0 .. MaxFrame] /\ wframe \in Nat
          /\ picture \in [Part -> 0 .. MaxFrame]

(* While the writer works on a slot (it polls, takes, copies, releases), the
   reader neither patches, seals, claims nor stores in it.  The locks do not
   ensure it: the reader never looks for WRITING_IEEE1394 before it claims; it
   is so in a steady stream alone. *)
Exclusive ==
  steady =>
    /\ rpc \in {"test", "claim", "retest", "store"} => rslot # wpos
    /\ rpc \in {"patch", "seal"} /\ rframe > 0 => rpos # wpos

(* As long as reception runs at most N - 1 frames ahead, the two processes
   amount to a queue of whole frames: no frame is torn, skipped or reordered
   on its way to the bus.  (A stream that is not steady promises nothing: it is
   mapped to a queue that stands still.) *)
Q == INSTANCE FrameQueue
       WITH complete <- IF steady THEN rframe ELSE 0,
            picture  <- IF steady THEN picture ELSE [p \in Part |-> 0]
InOrder == Q!Spec

(* Every complete frame gets to the bus: the picture catches up with it (and
   by InOrder passes through it). *)
EveryFrameShown ==
  \A f \in 1 .. MaxFrame - 1 : steady /\ rframe > f ~> \A p \in Part : picture[p] >= f

(* Whatever the network and the startup do: the test-and-set loop of a block
   handler ends, so reception never hangs on a lock. *)
HandlerEnds == (rpc # "idle") ~> (rpc = "idle")

(* The writer's mark is only ever on the slot the writer is at, although the
   reader may overwrite it and the parent's attach resets it. *)
MarkIsWriters ==
  \A s \in Slot : lock[s] = WRITING_IEEE1394 =>
                    s = wpos /\ wpc \in {"copy", "release"}
=============================================================================
