------------------------------- MODULE PlayOut ------------------------------
(***************************************************************************)
(* Sound and picture in dvrecv.  read.c keeps two rings, one of pictures   *)
(* and one of sound, and hands each over when the RTP timestamp of its own *)
(* blocks changes; once per frame the IEEE1394 process advances each ring  *)
(* by at most one and mixes the sound into the picture (write-linux.c,     *)
(* write-freebsd4.c, write-macosX.c).  Here both rings are the queues that *)
(* FrameRing shows them to be, and the contents of a slot is the source    *)
(* frame it came from.                                                     *)
(***************************************************************************)
EXTENDS Integers, Sequences

CONSTANTS Platforms,  \* of linux, freebsd4 and macosX
          Jitter,     \* by how many frames source and bus may get apart
          Ready,      \* frames a ring has room for between its two pointers
          MaxFrame    \* bound on the source frames

ASSUME PlatformAssumption == Platforms \subseteq {"linux", "freebsd4", "macosX"}
ASSUME BoundAssumption == Jitter \in Nat /\ Ready \in Nat \ {0} /\ MaxFrame \in Nat

VARIABLES
  platform,
  lossOf,            \* of video and audio: what can lose whole frames
  f, ended,          \* source: frames begun; has the stream stopped for good?
  got,               \* source frame f: which of video and audio has arrived
  polls,             \* rounds of the write loop that count as frames
  vcur, vq,          \* video ring: frame being received, frames handed over
  acur, aq,          \* the same for audio
  vshow, ashow,      \* the frames the write loop is at
  same, silent,      \* same_audio_count, silent_audio_flag
  mix,               \* what was written to the bus
  misses             \* history: rounds in a row without new sound, up to 7
source == <<f, ended, got>>
rings  == <<vcur, vq, acur, aq>>
bus    == <<polls, vshow, ashow, same, silent, mix, misses>>
vars   == <<platform, lossOf, source, rings, bus>>

Silence == 0            \* as a frame of sound; no source frame has number 0

Init == /\ platform \in Platforms /\ lossOf \in SUBSET {"video", "audio"}
        /\ f = 1 /\ ended = FALSE /\ got = {} /\ polls = 0
        /\ vcur = 0 /\ vq = <<>> /\ acur = 0 /\ aq = <<>>
        /\ vshow = 0 /\ ashow = 0
        /\ same = 0 /\ silent = FALSE
        /\ mix = [video |-> 0, audio |-> Silence]
        /\ misses = 0
-----------------------------------------------------------------------------
(* The reading process *)

(* What the first block of frame f adds to a ring that is receiving frame c.
   The slot handed over by the very first packet is not seen by the writer,
   which looks at the slot after it. *)
HandedOver(q, c) == IF c = 0 THEN q ELSE Append(q, c)

(* The pace FrameRing assumes: a round of the writer in between. *)
Paced(q) == Len(q) < Ready

(* The first header, subcode, VAUX or video block of frame f to arrive. *)
VideoArrives == /\ "video" \notin got /\ ~ended /\ Paced(vq)
                /\ got' = got \cup {"video"}
                /\ vq' = HandedOver(vq, vcur) /\ vcur' = f
                /\ UNCHANGED <<platform, lossOf, f, ended, acur, aq, bus>>

(* The first audio block of frame f.  If nothing is lost it comes after the
   header of that frame, in a single stream. *)
AudioArrives == /\ "audio" \notin got /\ ~ended /\ Paced(aq)
                /\ lossOf = {} => "video" \in got
                /\ got' = got \cup {"audio"}
                /\ aq' = HandedOver(aq, acur) /\ acur' = f
                /\ UNCHANGED <<platform, lossOf, f, ended, vcur, vq, bus>>

(* The source goes on.  What has not come by now never will. *)
NextSource == /\ f < MaxFrame /\ ~ended
              /\ {"video", "audio"} \ lossOf \subseteq got
              /\ f < polls + Jitter
              /\ f' = f + 1 /\ got' = {}
              /\ UNCHANGED <<platform, lossOf, ended, rings, bus>>

Stop == /\ ~ended
        /\ ended' = TRUE
        /\ UNCHANGED <<platform, lossOf, f, got, rings, bus>>
-----------------------------------------------------------------------------
(* The writing process *)

(* write-linux.c starts every round with silent_audio_flag = 0,
   write-freebsd4.c keeps it, write-macosX.c has no counter at all. *)
Quiet(count) == \/ count > 5
                \/ platform = "freebsd4" /\ silent
                \/ platform = "macosX"

(* The counter after a round without new sound: once above 5 it stays there. *)
Counted(count) == IF count > 5 THEN 10 ELSE count

BadTakeAudio ==   \* forgets same_audio_count = 0
  IF aq # <<>>
  THEN ashow' = Head(aq) /\ aq' = Tail(aq) /\ silent' = FALSE /\ UNCHANGED same
  ELSE same' = Counted(same + 1) /\ silent' = Quiet(same + 1) /\ UNCHANGED <<ashow, aq>>
BadTakeAudioMute ==   \* tests for equality with 6 where the counter skips it
  IF aq # <<>>
  THEN ashow' = Head(aq) /\ aq' = Tail(aq) /\ same' = 0 /\ silent' = FALSE
  ELSE same' = Counted(same + 1) /\ silent' = (same + 1 = 6) /\ UNCHANGED <<ashow, aq>>
TakeAudio ==
  IF aq # <<>>
  THEN ashow' = Head(aq) /\ aq' = Tail(aq) /\ same' = 0 /\ silent' = FALSE
  ELSE same' = Counted(same + 1) /\ silent' = Quiet(same + 1) /\ UNCHANGED <<ashow, aq>>

BadTakeVideo == IF Len(vq) > 1 THEN vshow' = Head(vq) /\ vq' = Tail(vq)
                               ELSE UNCHANGED <<vshow, vq>>
TakeVideo == IF vq # <<>> THEN vshow' = Head(vq) /\ vq' = Tail(vq)
                          ELSE UNCHANGED <<vshow, vq>>

(* write-macosX.c moves its pointers on but mixes the slots they came from. *)
MixedSlot(before, after) == IF platform = "macosX" THEN before ELSE after

(* One frame for the bus. *)
WriteFrame ==
  /\ ended \/ polls < f + Jitter
  /\ polls' = IF ended THEN polls ELSE polls + 1
  /\ TakeVideo
  /\ TakeAudio
  /\ mix' = [video |-> MixedSlot(vshow, vshow'),
             audio |-> IF silent' THEN Silence ELSE MixedSlot(ashow, ashow')]
  /\ misses' = IF aq # <<>> THEN 0 ELSE IF misses < 7 THEN misses + 1 ELSE misses
  /\ UNCHANGED <<platform, lossOf, source, vcur, acur>>

Next == VideoArrives \/ AudioArrives \/ NextSource \/ Stop \/ WriteFrame

(* The bus takes frames at its own rate for ever. *)
Spec == Init /\ [][Next]_vars /\ WF_vars(WriteFrame)
-----------------------------------------------------------------------------
TypeOK == /\ platform \in Platforms /\ lossOf \in SUBSET {"video", "audio"}
          /\ f \in 1 .. MaxFrame /\ ended \in BOOLEAN
          /\ got \in SUBSET {"video", "audio"} /\ polls \in 0 .. MaxFrame + Jitter
          /\ {vcur, acur, vshow, ashow} \subseteq 0 .. MaxFrame
          /\ vq \in Seq(1 .. MaxFrame) /\ aq \in Seq(1 .. MaxFrame)
          /\ same \in 0 .. 10 /\ silent \in BOOLEAN
          /\ mix \in [video : 0 .. MaxFrame, audio : 0 .. MaxFrame]
          /\ misses \in 0 .. 7

(* Sound is left out on the sixth round without new sound and no earlier, and
   comes back at once, although the three files keep the count differently. *)
MuteRule == platform # "macosX" => (silent <=> misses > 5)

(* Nothing resynchronises the two rings.  Yet while only frames of sound are
   lost, the sound never runs further ahead of the picture than a ring holds,
   and the other way round; without loss they are the same frame or the
   sound is one behind. *)
LipSync == /\ lossOf = {"audio"} => ashow - vshow <= Ready
           /\ lossOf = {"video"} => vshow - ashow <= Ready
           /\ lossOf = {} => vshow - ashow \in {0, 1}

(* A standing picture does not repeat its last sound for ever. *)
FallsSilent == ended ~> [](mix.audio = Silence)
=============================================================================
