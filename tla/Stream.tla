------------------------------- MODULE Stream -------------------------------
(***************************************************************************)
(* From one IEEE1394 bus to the other end of the network: the packetiser   *)
(* of DvsendRtp, a network that may lose packets and hold them back, and   *)
(* the reading process of dvrecv (dvrecv/read.c), whose pictures are those *)
(* of VideoAssembly and whose sound has a ring of its own.  A block keeps  *)
(* the number of the frame it came from, so that what is handed over at    *)
(* the far end can be compared with what the camera sent.                  *)
(*                                                                         *)
(* Nothing but packets goes from one program to the other.  What dvsend    *)
(* does after a packet has left does not depend on when it arrives, so the *)
(* network delivers all it does not hold back before the next block is     *)
(* read.                                                                   *)
(***************************************************************************)
EXTENDS DvsendRtp

CONSTANT N               \* frames_in_buffer

ASSUME SlotAssumption == N \in Nat \ {0}

VARIABLES
  wire, held,            \* packets under way, packets the network holds back
  lost, late,            \* history: how many it lost, how many it held back
  hand,                  \* the packet dvrtp_read_loop is at, without the
                         \* blocks it has dealt with
  seqPrev, pktLossSum,   \* rtp_seq_prev, the losses counted
  ring, flag, cur, tsPrev, sealed,   \* the pictures, as in VideoAssembly
  aring, acur, atsPrev,  \* the sound: the slots, the present one, and
                         \* rtp_audio_ts_prev
  pictures, sounds       \* history: what was handed over
network == <<wire, held, lost, late>>
video   == <<ring, flag, cur, tsPrev, sealed, pictures>>
audio   == <<aring, acur, atsPrev, sounds>>
reader  == <<hand, seqPrev, pktLossSum, video, audio>>

Places(sections) == {i \in DOMAIN Frame : Frame[i] \in sections}
Sound == Places({"audio"})
Shown == Places({"video"})

V == INSTANCE VideoAssembly
       WITH Blk <- Shown, Sys <- Places({"header", "subcode", "vaux"}),
            Data <- 0 .. MaxFrame, Zero <- 0, Ts <- Nat, frame <- ring

NoPacket == [stream |-> "main", seq |-> 0, ts |-> 0, blocks |-> <<>>]

StreamInit ==
  /\ Init
  /\ wire = <<>> /\ held = {} /\ lost = 0 /\ late = 0
  /\ hand = NoPacket /\ seqPrev = 0 /\ pktLossSum = 0
  /\ V!Init /\ pictures = <<>>
  /\ aring = [slot \in 0 .. N - 1 |-> [i \in Sound |-> 0]]
  /\ acur = 0 /\ atsPrev = 0 /\ sounds = <<>>
-----------------------------------------------------------------------------
(* dvsend and the network *)

Faults == usr + Cardinality(missed) + lost + late

(* The packets a step has added to those sent on a stream. *)
New(stream, before, after) ==
  [n \in 1 .. Len(after) - Len(before) |->
     LET p == after[Len(before) + n]
     IN  [stream |-> stream, seq |-> p.seq, ts |-> p.ts, blocks |-> p.blocks]]

Quiet == wire = <<>> /\ hand.blocks = <<>>

Send == /\ Quiet
        /\ Next
        /\ wire' = New("main", s.sent, s'.sent) \o New("audio", s.asent, s'.asent)
        /\ UNCHANGED <<held, lost, late, reader>>
        /\ Faults' <= MaxTrouble

Lose == /\ wire # <<>> /\ hand.blocks = <<>> /\ Faults < MaxTrouble
        /\ wire' = Tail(wire) /\ lost' = lost + 1
        /\ UNCHANGED <<vars, held, late, reader>>

Hold == /\ wire # <<>> /\ hand.blocks = <<>> /\ Faults < MaxTrouble
        /\ wire' = Tail(wire) /\ held' = held \cup {Head(wire)} /\ late' = late + 1
        /\ UNCHANGED <<vars, lost, reader>>
-----------------------------------------------------------------------------
(* dvrecv *)

(* The losses a packet makes dvrecv count; one rtp_seq_prev for both streams. *)
Gap(seq) == IF seqPrev # 0 /\ seqPrev < seq THEN seq - seqPrev - 1 ELSE 0

(* recvfrom, and the counters. *)
Recv(p) == /\ hand.blocks = <<>>
           /\ hand' = p
           /\ pktLossSum' = pktLossSum + Gap(p.seq)
           /\ seqPrev' = p.seq
           /\ UNCHANGED <<vars, lost, late, video, audio>>
RecvNext == wire # <<>> /\ Recv(Head(wire)) /\ wire' = Tail(wire) /\ UNCHANGED held
RecvLate == \E p \in held : Recv(p) /\ held' = held \ {p} /\ UNCHANGED wire

(* The block dvrtp_read_loop is at. *)
Block1 == Head(hand.blocks)
Done1 == /\ hand.blocks # <<>>
         /\ hand' = [hand EXCEPT !.blocks = Tail(@)]
         /\ UNCHANGED <<vars, network, seqPrev, pktLossSum>>

(* _process_sct_header, _subcode, _vaux and _video, with the hand-over that
   goes before them when the timestamp is a new one. *)
ReadPicture ==
  /\ Done1 /\ Block1.i \notin Sound
  /\ IF hand.ts = tsPrev
     THEN V!SameFrame(Block1.i, Block1.f) /\ UNCHANGED pictures
     ELSE /\ V!NewFrame(hand.ts, Block1.i, Block1.f)
          /\ pictures' = Append(pictures, [i \in Shown |-> sealed'[cur][i]])
  /\ UNCHANGED audio

(* _process_sct_audio.  Nothing fills in what is missing, and nothing clears
   the slot: what was in it the last time the ring came round stays. *)
BadNewSound == hand.ts # atsPrev /\ hand.ts # tsPrev
NewSound == hand.ts # atsPrev

ReadSound ==
  /\ Done1 /\ Block1.i \in Sound
  /\ acur' = IF NewSound THEN (acur + 1) % N ELSE acur
  /\ atsPrev' = IF NewSound THEN hand.ts ELSE atsPrev
  /\ sounds' = IF NewSound THEN Append(sounds, aring[acur]) ELSE sounds
  /\ aring' = [aring EXCEPT ![acur'][Block1.i] = Block1.f]
  /\ UNCHANGED video

StreamNext == \/ Send \/ Lose \/ Hold
              \/ RecvNext \/ RecvLate \/ ReadPicture \/ ReadSound

StreamSpec == StreamInit /\ [][StreamNext]_<<vars, network, reader>>
-----------------------------------------------------------------------------
(* Nothing goes wrong on the way. *)
Undisturbed == missed = {} /\ lost = 0 /\ late = 0
Rested == Quiet /\ held = {} /\ pos = 1     \* at the end of a frame

(* End to end: undisturbed, at any constant rate, the pictures dvrecv hands
   over are every rate-th the camera took, whole, each once, in order, after the
   empty slot the first packet hands over; all of them but the last, which waits
   for the next timestamp. *)
PicturesArrive ==
  Undisturbed /\ usr = 0 /\ "NO_VIDEO_STREAM" \notin flags =>
    /\ \A k \in 1 .. Len(pictures) : pictures[k] = [i \in Shown |-> drop * (k - 1)]
    /\ Rested => Len(pictures) = (src - 1) \div drop

(* And so is the sound, from whichever stream, even though the redundant
   copies (rtp.c:264) carry blocks of several frames under the timestamp of the
   last: those of the others are overwritten before the hand-over.  (Audio on a
   stream of its own arrives so if no copies go out on the main one, since the
   timestamps of the two would take turns handing the sound over, and if the
   audio of a frame leaves a packet unfilled, as for StampedAudio.) *)
SoundsArrive ==
  /\ Undisturbed /\ "NO_AUDIO_STREAM" \notin flags
  /\ "SEPARATED_AUDIO_STREAM" \in flags => redundancy = 0 /\ Cardinality(Sound) % PerPkt # 0
  => /\ \A k \in 2 .. Len(sounds) : sounds[k] = [i \in Sound |-> k - 1]
     /\ Rested => Len(sounds) = src - 1

(* Where sound was lost, what is heard is the sound of N hand-overs ago at that
   place; all the rest is of one frame, which is newer than any before.  (Unless
   the copies bring blocks of two frames, or blocks were sent under the timestamp
   of another frame: Stamped says when they are not.) *)
Heard == Append(sounds, aring[acur])
Newest(k) == CHOOSE m \in Range(Heard[k]) : \A n \in Range(Heard[k]) : n <= m
SoundsKept ==
  late = 0 /\ redundancy = 0 /\ OwnTs(s.sent, 1) /\ OwnTs(s.asent, Apart) =>
    \A k \in 2 .. Len(Heard) :
      /\ Newest(k) > Newest(k - 1)
      /\ \A i \in Sound : \/ Heard[k][i] = Newest(k)
                          \/ Heard[k][i] = IF k > N THEN Heard[k - N][i] ELSE 0

(* However many packets and blocks get lost, a picture is never older, at any
   place, than the picture before it: the slot patched from is the right one. *)
NeverBack ==
  late = 0 => \A k \in 2 .. Len(pictures) : \A i \in Shown :
                pictures[k][i] >= pictures[k - 1][i]

(* Every sequence number skipped is a packet the network lost or the end of a
   frame that left nothing in the buffer (rtp.c:313 counts a packet it does
   not send): a receiver with one stream reports no other losses. *)
EvenEnds == {f \in 1 .. src - 1 :
               Cardinality({n \in DOMAIN kept : kept[n].f = f}) % PerPkt = 0}
LossExplained ==
  late = 0 /\ "SEPARATED_AUDIO_STREAM" \notin flags
    /\ (\A b \in missed : b.i # Len(Frame)) =>
      pktLossSum <= lost + Cardinality(EvenEnds)

(* A packet that comes after one of the next frame has a timestamp that looks
   new (read.c:195), and so has the packet after it: it costs two hand-overs
   and no more. *)
HandOvers ==
  Len(pictures) <= Cardinality({p.ts : p \in Range(s.sent)}) + 2 * late
=============================================================================
