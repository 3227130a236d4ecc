----------------------------- MODULE DvsendRtp -----------------------------
(***************************************************************************)
(* The packetiser of dvsend (dvsend/rtp.c): DIF blocks read from the       *)
(* IEEE1394 bus are gathered into RTP packets, frames are left out to      *)
(* reduce the rate, and SIGUSR1/SIGUSR2 change that rate at any moment.    *)
(*                                                                         *)
(* A block is its source frame and its place in that frame.  Timestamps    *)
(* and sequence numbers count from 1 and not from a random number: only    *)
(* differences between them matter to anyone, and LossReport deals with    *)
(* the wrap and with 0.                                                    *)
(***************************************************************************)
EXTENDS Integers, Sequences, FiniteSets, SequencesExt

CONSTANTS Frame,         \* the sections of the blocks of a frame, in bus order
          DIFblocks_in_pkt,    \* the -s option, any number
          MAX_PACKET_LENGTH,   \* bytes of outbuf, r_outbuf and audiobuf: 1500
          Redundancies,  \* values of audio_redundancy, the -r option
          FlagSets,      \* values of flags: sets of NO_AUDIO_STREAM,
                         \* NO_VIDEO_STREAM, SEPARATED_AUDIO_STREAM
          Rates,         \* values of frame_drop, the -f option
          MaxFrame,      \* bound on the source frames
          MaxTrouble     \* bound on the signals and the blocks lost on the bus

Section == {"header", "subcode", "vaux", "audio", "video"}
FlagSet == {"NO_AUDIO_STREAM", "NO_VIDEO_STREAM", "SEPARATED_AUDIO_STREAM"}

ASSUME FrameAssumption == /\ Frame \in Seq(Section) /\ Frame # <<>>
                          /\ Frame[Len(Frame)] = "video"
ASSUME SizeAssumption == DIFblocks_in_pkt \in Int /\ MAX_PACKET_LENGTH \in Nat
ASSUME OptionAssumption == /\ Redundancies \subseteq Nat
                           /\ FlagSets \subseteq SUBSET FlagSet
                           /\ Rates \subseteq Nat \ {0}
                           /\ {MaxFrame, MaxTrouble} \subseteq Nat

(* The blocks of a full packet.  A buffer is sent when it is longer than
   DIFblocks_in_pkt - 1 blocks, which with -s 0 or less any block makes it. *)
PerPkt == IF DIFblocks_in_pkt < 1 THEN 1 ELSE DIFblocks_in_pkt

(* So many blocks of 80 bytes fit into a buffer behind the RTP header of 12.  For
   a -s of more dvsend prints "MUST be,  3 < DIFblocks < 18" and goes on: the
   buffers are overrun, and from the first block stored outside the behaviours of
   this module are no longer those of dvsend. *)
Holds(blocks) == 12 + 80 * blocks <= MAX_PACKET_LENGTH

VARIABLES
  flags, redundancy,  \* the options, chosen once
  src, pos,           \* the bus: frame and place of the next block
  drop,               \* frame_drop
  s,                  \* the static variables of rtp.c, and the packets sent
  kept, akept,        \* history: the blocks rtp.c decided to send on the main
                      \* and on the separate audio stream
  usr, missed         \* history: how many signals, which blocks the bus lost
options == <<flags, redundancy>>
vars == <<options, src, pos, drop, s, kept, akept, usr, missed>>

(* The audio stream counts from numbers of its own. *)
Apart == 2 * MaxFrame + 2

Init == /\ flags \in FlagSets /\ redundancy \in Redundancies
        /\ src = 1 /\ pos = 1 /\ drop \in Rates
        /\ s = [frame |-> 1,
                out |-> <<>>, seq |-> 1, ts |-> 1,
                red |-> <<>>,
                aud |-> <<>>, aseq |-> Apart, ats |-> Apart,
                sent |-> <<>>, asent |-> <<>>]
        /\ kept = <<>> /\ akept = <<>> /\ usr = 0 /\ missed = {}
-----------------------------------------------------------------------------
(* Steps of the packetiser, as functions of its state.  Mistakes named Bad...,
   each above the definition it would replace, are what the runs notice. *)

Packet(seq, ts, blocks, copy) ==
  [seq |-> seq, ts |-> ts, blocks |-> blocks, copy |-> copy]

(* send_pkt of outbuf; the length and the sequence number follow. *)
SendOut(t) == [t EXCEPT !.sent = Append(@, Packet(t.seq, t.ts, t.out, FALSE)),
                        !.out = <<>>, !.seq = @ + 1]

BadAddOut(t, b) == LET u == [t EXCEPT !.out = Append(@, b)]   \* one too many
                   IN  IF Len(u.out) > PerPkt THEN SendOut(u) ELSE u
AddOut(t, b) == LET u == [t EXCEPT !.out = Append(@, b)]
                IN  IF Len(u.out) > PerPkt - 1 THEN SendOut(u) ELSE u

(* The redundant copies go out with the header of outbuf, as many as asked. *)
AddRedundant(t, b) ==
  LET u == [t EXCEPT !.red = Append(@, b)]
  IN  IF Len(u.red) > PerPkt - 1
      THEN [u EXCEPT !.sent = @ \o [i \in 1 .. redundancy |->
                                      Packet(u.seq + i - 1, u.ts, u.red, TRUE)],
                     !.seq = @ + redundancy,
                     !.red = <<>>]
      ELSE u

SendAudio(t) == [t EXCEPT !.asent = Append(@, Packet(t.aseq, t.ats, t.aud, FALSE)),
                          !.aud = <<>>, !.aseq = @ + 1]

AddAudio(t, b) == LET u == [t EXCEPT !.aud = Append(@, b)]
                  IN  IF Len(u.aud) > PerPkt - 1 THEN SendAudio(u) ELSE u

(* The end of a frame: the sequence number grows whether or not there was
   anything left to send, the audio timestamp only if there was. *)
BadFlushFrame(t) ==
  IF t.out # <<>> THEN [SendOut(t) EXCEPT !.ts = @ + 1, !.frame = @ + 1]
                  ELSE [t EXCEPT !.seq = @ + 1, !.ts = @ + 1]
BadFlushTs(t) ==
  LET u == IF t.out # <<>> THEN SendOut(t) ELSE [t EXCEPT !.seq = @ + 1]
  IN  [u EXCEPT !.frame = @ + 1]
BadFlushSeq(t) ==
  LET u == IF t.out # <<>> THEN SendOut(t) ELSE t
  IN  [u EXCEPT !.seq = @ + 1, !.ts = @ + 1, !.frame = @ + 1]
Flush(t) ==
  LET u == IF t.out # <<>> THEN SendOut(t) ELSE [t EXCEPT !.seq = @ + 1]
      v == [u EXCEPT !.ts = @ + 1, !.frame = @ + 1]
  IN  IF "SEPARATED_AUDIO_STREAM" \in flags /\ v.aud # <<>>
      THEN [SendAudio(v) EXCEPT !.ats = @ + 1]
      ELSE v
-----------------------------------------------------------------------------
(* The handlers of the five sections. *)

Dropping == drop > 1 /\ s.frame % drop # 0

(* Does a block of this section go into the main stream? *)
Keeps(section) ==
  IF section = "audio"
  THEN flags \cap {"NO_AUDIO_STREAM", "SEPARATED_AUDIO_STREAM"} = {}
  ELSE ~Dropping /\ (section = "video" => "NO_VIDEO_STREAM" \notin flags)

(* Does it go into the separate audio stream? *)
Separates(section) == /\ section = "audio" /\ "SEPARATED_AUDIO_STREAM" \in flags
                      /\ "NO_AUDIO_STREAM" \notin flags

ProcDvdif(b, section, last) ==
  LET t == IF Keeps(section) THEN AddOut(s, b)
           ELSE IF Separates(section) THEN AddAudio(s, b) ELSE s
      u == IF section = "audio" /\ redundancy > 0 THEN AddRedundant(t, b) ELSE t
  IN  IF last THEN Flush(u) ELSE u

(* The bus moves on to the next block. *)
Advance == /\ src <= MaxFrame
           /\ IF pos = Len(Frame) THEN pos' = 1 /\ src' = src + 1
                                  ELSE pos' = pos + 1 /\ src' = src

(* main_loop hands the next block to proc_dvdif. *)
Block == LET b == [f |-> src, i |-> pos]
         IN  /\ Advance
             /\ s' = ProcDvdif(b, Frame[pos], pos = Len(Frame))
             /\ kept' = IF Keeps(Frame[pos]) THEN Append(kept, b) ELSE kept
             /\ akept' = IF Separates(Frame[pos]) THEN Append(akept, b) ELSE akept
             /\ UNCHANGED <<options, drop, usr, missed>>

Trouble == usr + Cardinality(missed) < MaxTrouble

(* A block never gets out of the driver. *)
Missing == /\ Trouble
           /\ Advance
           /\ missed' = missed \cup {[f |-> src, i |-> pos]}
           /\ UNCHANGED <<options, drop, s, kept, akept, usr>>

(* _sigusr1 and _sigusr2, between any two blocks. *)
Signal == /\ Trouble
          /\ usr' = usr + 1
          /\ UNCHANGED <<options, src, pos, s, kept, akept, missed>>
Usr1 == Signal /\ drop > 1 /\ drop - 1 \in Rates /\ drop' = drop - 1
Usr2 == Signal /\ drop + 1 \in Rates /\ drop' = drop + 1

Next == Block \/ Missing \/ Usr1 \/ Usr2

Spec == Init /\ [][Next]_vars
-----------------------------------------------------------------------------
BlockOf == [f : 1 .. MaxFrame, i : 1 .. Len(Frame)]
PacketOf == [seq : Nat, ts : Nat, blocks : Seq(BlockOf), copy : BOOLEAN]

TypeOK ==
  /\ flags \in FlagSets /\ redundancy \in Redundancies
  /\ src \in 1 .. MaxFrame + 1 /\ pos \in 1 .. Len(Frame) /\ drop \in Rates
  /\ s \in [frame : Nat, out : Seq(BlockOf), seq : Nat, ts : Nat,
            red : Seq(BlockOf), aud : Seq(BlockOf), aseq : Nat, ats : Nat,
            sent : Seq(PacketOf), asent : Seq(PacketOf)]
  /\ kept \in Seq(BlockOf) /\ akept \in Seq(BlockOf)
  /\ usr \in Nat /\ missed \in SUBSET BlockOf

(* rtp.c:304: "In RTP, the data from different frame can not be included in a
   single packet", and the timestamp tells the frames apart: as long as the bus
   delivers the ends of frames, every block carries the timestamp of its own
   frame, whatever the rate does; on the audio stream, whose timestamp grows
   only if audio is left over at that end, as long as it delivers the audio too
   and the audio of a frame does not fill its packets exactly.
   (Not so the redundant copies, which are gathered across frames.) *)
EndsSeen == \A b \in missed : b.i # Len(Frame)
OwnTs(packets, first) ==
  \A n \in DOMAIN packets : LET p == packets[n] IN
    ~p.copy => \A m \in DOMAIN p.blocks : p.blocks[m].f - 1 = p.ts - first
StampedMain == EndsSeen => OwnTs(s.sent, 1)
StampedAudio ==
  /\ EndsSeen /\ \A b \in missed : Frame[b.i] # "audio"
  /\ Cardinality({i \in 1 .. Len(Frame) : Frame[i] = "audio"}) % PerPkt # 0
  => OwnTs(s.asent, Apart)
Stamped == StampedMain /\ StampedAudio

(* On each stream the packets sent, copies aside, and the one being filled hold
   the blocks the handlers let through: all of them, none twice, in the order of
   the bus, nothing lost in a full or flushed buffer; and no block is ever stored
   past the end of outbuf, r_outbuf or audiobuf (rtp.c:19-30), if the packets the
   -s option asks for fit into them (18 blocks in 1500 bytes), whatever the rate
   and the bus do.  What a buffer ever held is what it holds or what was sent. *)
Before(b, c) == b.f < c.f \/ (b.f = c.f /\ b.i < c.i)
Rising(q) == \A m \in 1 .. Len(q) - 1 : Before(q[m], q[m + 1])
Behind(q, r) == q # <<>> /\ r # <<>> => Before(Last(q), Head(r))
InTurn(packets, buffer, all) ==
  LET Originals == {n \in DOMAIN packets : ~packets[n].copy}
      Of(n)     == packets[n].blocks
  IN  /\ Range(all) = Range(buffer) \cup UNION {Range(Of(n)) : n \in Originals}
      /\ Rising(buffer)
      /\ \A n \in Originals :
           /\ Rising(Of(n)) /\ Behind(Of(n), buffer)
           /\ \A m \in Originals : n < m => Behind(Of(n), Of(m))
InBuffer(packets, buffer) ==
  Holds(Len(buffer)) /\ \A n \in DOMAIN packets : Holds(Len(packets[n].blocks))
PacketsFit == Holds(PerPkt) => /\ InBuffer(s.sent, s.out)
                              /\ InBuffer(s.asent, s.aud)
                              /\ Holds(Len(s.red))
NothingLost == Holds(PerPkt) => /\ InTurn(s.sent, s.out, kept)
                               /\ InTurn(s.asent, s.aud, akept)
                               /\ PacketsFit

(* dvsend.1: "The DV/RTP stream will be sent by the rate of 1/rate", and rtp.c:154
   drops frames.  With the rate left alone and nothing lost, any window of that
   many frames has exactly one whose picture was sent, and all of it. *)
Picture == {i \in 1 .. Len(Frame) : Frame[i] # "audio"}
PictureSent(f) == Picture \cap {kept[n].i : n \in {m \in DOMAIN kept : kept[m].f = f}}
OneInRate ==
  usr = 0 /\ missed = {} /\ "NO_VIDEO_STREAM" \notin flags =>
    \A f \in drop .. src - 1 :
      \E g \in f - drop + 1 .. f : \A h \in f - drop + 1 .. f :
        PictureSent(h) = IF h = g THEN Picture ELSE {}
=============================================================================
