------------------------------- MODULE DvPlay -------------------------------
(***************************************************************************)
(* dvplay: the DIF blocks of a DV file are put at their places in one      *)
(* frame buffer, and the block with dseq 9 and dbn 134 has the buffer      *)
(* written to IEEE1394.  That block ends a frame of NTSC; one of PAL has   *)
(* two more DIF sequences.                                                 *)
(*                                                                         *)
(* The file is a sequence of pieces, each with the frame f it belongs to   *)
(* and its place p there, the last of them possibly cut short.  What is in *)
(* the file is for others to say: Recording has dvsave write it.           *)
(***************************************************************************)
EXTENDS Integers, Sequences

CONSTANTS Parts,       \* pieces in a frame
          EndParts,    \* which of them may be the one with dseq 9, dbn 134
          MaxData      \* frames are numbered 1..MaxData

VARIABLES file, torn,     \* torn: the last piece is cut short
          endPart,        \* the piece with dseq 9, dbn 134, by the format
          stdin,          \* DVPLAY_FLAG_STDIN
          next,           \* the piece to read next
          pkt,            \* dvframe.pkt
          shown,          \* the frames written
          pc
chosen == <<file, torn, endPart, stdin>>
vars == <<chosen, next, pkt, shown, pc>>

Position == 1..Parts
Torn == MaxData + 1       \* the rest of a cut block is that of an older one
Data == 0..Torn

TypeOK ==
  /\ next \in 1..Len(file) + 1
  /\ pkt \in [Position -> Data] /\ shown \in Seq([Position -> Data])
  /\ pc \in {"read", "write", "end"}

Init == /\ endPart \in EndParts /\ stdin \in BOOLEAN
        /\ next = 1 /\ pc = "read" /\ shown = <<>>
        /\ pkt = [p \in Position |-> 0]

(***************************************************************************)
(* read_dv_data_from_file                                                  *)
(***************************************************************************)
Cut(i) == torn /\ i = Len(file)

\* From the standard input a block is read until it is complete, and a cut one
\* is not used; from a file a cut block is used like any other.
Refused(i) == stdin /\ Cut(i)

Contents(i) == IF Cut(i) THEN Torn ELSE file[i].f

EndsFrame(i) == file[i].p = endPart

ReadBlock ==
  /\ pc = "read" /\ next <= Len(file) /\ ~Refused(next)
  /\ pkt' = [pkt EXCEPT ![file[next].p] = Contents(next)]
  /\ next' = next + 1
  /\ pc' = IF EndsFrame(next) THEN "write" ELSE "read"
  /\ UNCHANGED <<chosen, shown>>

\* read() returns nothing, or not the rest of a block.
BadEndOfFile ==
  /\ pc = "read" /\ next <= Len(file) /\ Refused(next)
  /\ pc' = "end"
  /\ UNCHANGED <<chosen, next, pkt, shown>>
EndOfFile ==
  /\ pc = "read" /\ (next > Len(file) \/ Refused(next))
  /\ pc' = "end"
  /\ UNCHANGED <<chosen, next, pkt, shown>>

\* write_ieee1394: the buffer is written, and its contents stay.
BadAfterWrite == [p \in Position |-> 0]
AfterWrite == pkt

WriteFrame ==
  /\ pc = "write"
  /\ pc' = "read"
  /\ shown' = Append(shown, pkt)
  /\ pkt' = AfterWrite
  /\ UNCHANGED <<chosen, next>>

Next == ReadBlock \/ EndOfFile \/ WriteFrame

\* dvplay conceals lost blocks the way dvrecv does: a frame written shows the
\* newest block read for every position.
C == INSTANCE Concealer
       WITH Blk <- Position, Zero <- 0, latest <- pkt,
            shown <- IF shown = <<>> THEN [p \in Position |-> 0] ELSE shown[Len(shown)]
Conceals == C!Spec
=============================================================================
