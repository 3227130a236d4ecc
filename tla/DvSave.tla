------------------------------- MODULE DvSave -------------------------------
(***************************************************************************)
(* dvsave: what the camera puts on IEEE1394 goes to a file, until -f       *)
(* frames are saved.  The main loops differ: NetBSD and FreeBSD 4 read the *)
(* bus packets and count a frame when the sequence number of a packet is   *)
(* not the one before; Linux reads frames; on Mac OS X a callback gets     *)
(* them.                                                                   *)
(*                                                                         *)
(* A frame is Parts bus packets, the first of them the one that starts     *)
(* with the header block.  What an earlier recording left in the file is   *)
(* frame OldFrame, over and over.                                          *)
(***************************************************************************)
EXTENDS Integers, Sequences, FiniteSets

CONSTANTS Platforms, Parts,
          Cycle,        \* sequence numbers a camera counts through (12)
          MaxFrame,     \* frames the camera sends
          Asked,        \* values of -f, 0 when it is not given
          Numbering,    \* which packets have the number of their frame, and not 15
          OldLengths,   \* bus packets already in the output file
          MaxMissing    \* bound on the packets the driver loses

ASSUME SaveAssumption ==
  /\ Platforms \subseteq {"netbsd", "freebsd4", "linux", "macosX"}
  /\ Parts \in Nat \ {0, 1} /\ Cycle \in 2..12 /\ Asked \subseteq Nat
  /\ Numbering \subseteq {"all", "body", "none"} /\ OldLengths \subseteq Nat
  /\ {MaxFrame, MaxMissing} \subseteq Nat

VARIABLES platform, frameMax, numbers, offset,  \* chosen once; offset of the camera's numbers
          frame, part,    \* the packet the camera sends next
          seqPrev, frameCount,
          pos,            \* offset in the output file
          file,           \* the output file, a sequence of bus packets
          torn,           \* whether the last of them is cut short
          missing,        \* history: how many packets the driver lost
          pc
chosen == <<platform, frameMax, numbers, offset>>
vars == <<platform, frameMax, numbers, offset, frame, part, seqPrev, frameCount, pos, file, torn, missing, pc>>

OldFrame == MaxFrame + 1
Packet == [f : 1..OldFrame, p : 1..Parts]

TypeOK ==
  /\ frame \in 1..(MaxFrame + 1) /\ part \in 1..Parts
  /\ seqPrev \in 0..(Cycle - 1) /\ frameCount \in 0..(Parts * MaxFrame)
  /\ file \in Seq(Packet) /\ pos \in 0..Len(file)
  /\ torn \in BOOLEAN /\ missing \in 0..MaxMissing
  /\ pc \in {"run", "done", "failed", "asleep"}

\* main opens the file without O_TRUNC: what was in it stays.
Old(n) == [i \in 1..n |-> [f |-> OldFrame, p |-> ((i - 1) % Parts) + 1]]
OpenFile(n) == 0

Init ==
  /\ platform \in Platforms /\ frameMax \in Asked /\ frame = 1
  /\ IF platform \in {"linux", "macosX"}    \* whole frames, whatever their numbers
       THEN part = 1 /\ numbers = "body" /\ offset = 0
       ELSE part \in 1..Parts /\ numbers \in Numbering /\ offset \in 0..(Cycle - 1)
  /\ seqPrev = 0 /\ frameCount = 0 /\ torn = FALSE /\ missing = 0 /\ pc = "run"
  /\ \E n \in OldLengths : file = Old(n) /\ pos = OpenFile(n)

\* The number in the first block of packet p: of a camera that numbers its frames
\* those of header blocks are arbitrary, 15 or the number of the frame.
Seq4(p) == IF numbers = "all" \/ (numbers = "body" /\ p # 1)
             THEN (frame + offset) % Cycle ELSE 15

NextPacket ==
  IF part = Parts THEN part' = 1 /\ frame' = frame + 1
                  ELSE part' = part + 1 /\ UNCHANGED frame

\* write() at the current offset of the file.
Overwrite(at, data) ==
  [i \in 1..(IF Len(file) > at + Len(data) THEN Len(file) ELSE at + Len(data)) |->
     IF i \in (at + 1)..(at + Len(data)) THEN data[i - at] ELSE file[i]]
Write(at, data) == file' = Overwrite(at, data) /\ pos' = at + Len(data)

(***************************************************************************)
(* NetBSD and FreeBSD 4: count a new frame at its first packet that is not *)
(* a header, then write the packet.                                        *)
(***************************************************************************)
NewFrame(p) == p # 1 /\ Seq4(p) # seqPrev
Counted(p) == IF NewFrame(p) THEN frameCount + 1 ELSE frameCount
BadRemember(p) == seqPrev
Remember(p) == IF Seq4(p) # 15 THEN Seq4(p) ELSE seqPrev
Enough(n) == frameMax # 0 /\ n > frameMax

BadSave(p) == IF p = 1 THEN UNCHANGED <<file, pos>> ELSE Write(pos, <<[f |-> frame, p |-> p]>>)
SaveOne(p) == Write(pos, <<[f |-> frame, p |-> p]>>)

ByPacket == pc = "run" /\ platform \in {"netbsd", "freebsd4"} /\ frame <= MaxFrame

SavePacket ==
  /\ ByPacket
  /\ NextPacket
  /\ frameCount' = Counted(part)
  /\ IF Enough(Counted(part))
       THEN pc' = "done" /\ UNCHANGED <<seqPrev, file, pos>>
       ELSE /\ seqPrev' = Remember(part)
            /\ SaveOne(part)
            /\ UNCHANGED pc
  /\ UNCHANGED <<chosen, torn, missing>>

\* A packet never gets out of the driver.
Missing ==
  /\ ByPacket /\ missing < MaxMissing
  /\ NextPacket
  /\ missing' = missing + 1
  /\ UNCHANGED <<chosen, seqPrev, frameCount, pos, file, torn, pc>>

Frame == [i \in 1..Parts |-> [f |-> frame, p |-> i]]

\* Linux: the limit tested is dvsave_param->frame_count, which nothing sets.
SaveFrame ==
  /\ pc = "run" /\ platform = "linux" /\ frame <= MaxFrame
  /\ frame' = frame + 1 /\ frameCount' = frameCount + 1
  /\ Write(pos, Frame)
  /\ UNCHANGED <<chosen, part, seqPrev, torn, missing, pc>>

\* Mac OS X: the completion routine of IDHRead.
BadAllRead(n) == frameMax # 0 /\ n > frameMax
AllRead(n) == frameMax # 0 /\ n >= frameMax

IdhRead ==
  /\ pc = "run" /\ platform = "macosX" /\ frame <= MaxFrame
  /\ frame' = frame + 1 /\ frameCount' = frameCount + 1
  /\ Write(pos, Frame)
  /\ pc' = IF AllRead(frameCount + 1) THEN "done" ELSE "run"
  /\ UNCHANGED <<chosen, part, seqPrev, torn, missing>>

\* The device or the disk fails, and the loop is left; on Mac OS X only the
\* completion routine is left: nobody sets `finished', and main_loop sleeps on.
AfterFailure == IF platform = "macosX" THEN "asleep" ELSE "failed"

Fail ==
  /\ pc = "run"
  /\ pc' = AfterFailure
  /\ UNCHANGED <<chosen, frame, part, seqPrev, frameCount, pos, file, torn, missing>>

\* The disk is full: a write beyond the end of the file puts down what fits,
\* which is not an error, and the next one fails.
DiskFull ==
  /\ pc = "run" /\ frame <= MaxFrame /\ pos = Len(file)
  /\ \E n \in IF ByPacket THEN {1} ELSE 1..Parts :
       Write(pos, IF ByPacket THEN <<[f |-> frame, p |-> part]>> ELSE SubSeq(Frame, 1, n))
  /\ torn' = TRUE /\ pc' = AfterFailure
  /\ UNCHANGED <<chosen, frame, part, seqPrev, frameCount, missing>>

\* Ctrl-C, between two writes.
Interrupt ==
  /\ pc \in {"run", "asleep"}
  /\ pc' = "failed"
  /\ UNCHANGED <<chosen, frame, part, seqPrev, frameCount, pos, file, torn, missing>>

Save == SavePacket \/ SaveFrame \/ IdhRead
Next == Save \/ Missing \/ Fail \/ DiskFull \/ Interrupt
Spec == Init /\ [][Next]_vars /\ WF_vars(Save)

(***************************************************************************)
(* Properties                                                              *)
(***************************************************************************)
Has(f, p) == \E i \in DOMAIN file : file[i] = [f |-> f, p |-> p] /\ (torn => i < Len(file))
WholeFrames == {f \in 1..MaxFrame : \A p \in 1..Parts : Has(f, p)}

\* On Mac OS X a recording with -f comes to an end by itself, and then the file
\* has that many whole frames, as dvsave's "saving %d DV frames" says; unless
\* something fails, after which it sleeps until it is interrupted.
SavesAsked ==
  platform = "macosX" /\ frameMax # 0 /\ MaxFrame > frameMax ~>
    \/ pc \in {"failed", "asleep"}
    \/ pc = "done" /\ Cardinality(WholeFrames) = frameMax

\* Where frames are counted by their numbers (netbsd.c:112), a recording that
\* ends by itself has the number of frames asked for, give or take one: one less
\* when it starts in the middle of a frame, one more when the first frame has the
\* number 0, which seq_prev has from the start.
SavesNearly ==
  pc = "done" /\ numbers = "body" /\ missing = 0 =>
    Cardinality(WholeFrames) \in frameMax - 1 .. frameMax + 1
=============================================================================
