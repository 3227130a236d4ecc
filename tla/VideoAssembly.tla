--------------------------- MODULE VideoAssembly ---------------------------
(***************************************************************************)
(* The reading process of dvrecv (dvrecv/read.c): DIF blocks of received   *)
(* DV/RTP packets are stored in a ring of frame buffers, and a change of   *)
(* the RTP timestamp hands the frame over.  This module is the reader on   *)
(* its own, one action per DIF block; the locks it shares with the         *)
(* IEEE1394 process are in FrameRing.                                      *)
(***************************************************************************)
EXTENDS Naturals

CONSTANTS N,     \* frames_in_buffer
          Blk,   \* video positions, the pairs (dseq, dbn) of video_recv_flag
          Sys,   \* header, subcode and VAUX positions, which have no flag
          Data, Zero,
          Ts     \* RTP timestamps

ASSUME NAssumption    == N \in Nat \ {0}
ASSUME PosAssumption  == Blk \cap Sys = {}
ASSUME DataAssumption == Zero \in Data
ASSUME TsAssumption   == 0 \in Ts

VARIABLES frame,   \* frame[s][p]: what slot s holds at position p
          flag,    \* video_recv_flag of each slot
          cur,     \* the slot of dvrecv_param->video_framebuf
          tsPrev,  \* rtp_ts_prev
          sealed   \* sealed[s]: the contents of s when DATA_READY was last set
vars == <<frame, flag, cur, tsPrev, sealed>>

Pos  == Blk \cup Sys
Slot == 0 .. N - 1

(* The ring the next and prev pointers form. *)
NextOf(s) == IF s = N - 1 THEN 0 ELSE s + 1
PrevOf(s) == IF s = 0 THEN N - 1 ELSE s - 1

(* Shared memory comes zeroed and attach_shared_memory leaves the frames as
   they are. *)
Init == /\ frame  = [s \in Slot |-> [p \in Pos |-> Zero]]
        /\ flag   = [s \in Slot |-> [k \in Blk |-> FALSE]]
        /\ cur    = 0
        /\ tsPrev = 0
        /\ sealed = frame

(* Mistakes named Bad..., each above the definition it would replace, are what
   the runs are shown to notice. *)
BadPatched == [p \in Pos |-> IF p \in Blk /\ ~flag[cur][p]
                             THEN frame[NextOf(cur)][p] ELSE frame[cur][p]]

(* The current frame, its missing video blocks copied from the slot before. *)
Patched == [p \in Pos |-> IF p \in Blk /\ ~flag[cur][p]
                          THEN frame[PrevOf(cur)][p] ELSE frame[cur][p]]

(* The flags of a slot once the block at p is stored in it. *)
Marked(f, p) == [k \in Blk |-> f[k] \/ k = p]

BadSameFrame(p, d) ==   \* stores through the read loop's stale shm_frame
  /\ frame' = [frame EXCEPT ![PrevOf(cur)][p] = d]
  /\ flag'  = [flag EXCEPT ![cur] = Marked(@, p)]
  /\ UNCHANGED <<cur, tsPrev, sealed>>

(* A block of the frame being received. *)
SameFrame(p, d) ==
  /\ frame' = [frame EXCEPT ![cur][p] = d]
  /\ flag'  = [flag EXCEPT ![cur] = Marked(@, p)]
  /\ UNCHANGED <<cur, tsPrev, sealed>>

BadNewFrame(ts, p, d) ==   \* does not remember the timestamp
  /\ ts # tsPrev
  /\ cur' = NextOf(cur)
  /\ frame' = [[frame EXCEPT ![cur] = Patched] EXCEPT ![cur'][p] = d]
  /\ flag' = [flag EXCEPT ![cur'] = Marked([k \in Blk |-> FALSE], p)]
  /\ sealed' = [sealed EXCEPT ![cur] = Patched]
  /\ UNCHANGED tsPrev

(* A block with another timestamp: the current slot is patched and handed
   over, the flags of the next slot are cleared, and the block goes there. *)
NewFrame(ts, p, d) ==
  /\ ts # tsPrev
  /\ tsPrev' = ts
  /\ cur' = NextOf(cur)
  /\ frame' = [[frame EXCEPT ![cur] = Patched] EXCEPT ![cur'][p] = d]
  /\ flag' = [flag EXCEPT ![cur'] = Marked([k \in Blk |-> FALSE], p)]
  /\ sealed' = [sealed EXCEPT ![cur] = Patched]

Next == \E p \in Pos, d \in Data : \/ SameFrame(p, d)
                                   \/ \E ts \in Ts : NewFrame(ts, p, d)

Spec == Init /\ [][Next]_vars
-----------------------------------------------------------------------------
(* The state of the reader has the shape read.c gives it. *)
TypeOK == /\ frame  \in [Slot -> [Pos -> Data]]
          /\ flag   \in [Slot -> [Blk -> BOOLEAN]]
          /\ cur    \in Slot
          /\ tsPrev \in Ts
          /\ sealed \in [Slot -> [Pos -> Data]]

(* A frame handed over stays what it was until the ring comes back to its
   slot: while a frame is received, nothing the reader does (not the patching,
   not the clearing of flags) touches any other slot, so the other process and
   the next patching read complete frames. *)
SealedKept == \A s \in Slot \ {cur} : frame[s] = sealed[s]

(* What the reader would show now at each video position. *)
Newest == [k \in Blk |-> IF flag[cur][k] THEN frame[cur][k]
                         ELSE frame[PrevOf(cur)][k]]

(* The reader implements the abstract receiver: the flags and the ring always
   amount to one newest block per video position, and that is what each
   timestamp change hands over (read.c:195-217). *)
C == INSTANCE Concealer
       WITH latest <- Newest,
            shown  <- [k \in Blk |-> sealed[PrevOf(cur)][k]]
Conceals == C!Spec
=============================================================================
