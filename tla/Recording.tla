----------------------------- MODULE Recording ------------------------------
(***************************************************************************)
(* A recording made by dvsave and played by dvplay, once dvsave has ended  *)
(* in whatever way.  The two meet in the file only.                        *)
(***************************************************************************)
EXTENDS DvSave

CONSTANT EndParts    \* the part with dseq 9, dbn 134: Parts for NTSC, less for PAL

ASSUME EndAssumption == EndParts \subseteq 1..Parts

VARIABLES endPart, stdin, next, pkt, shown,
          playing            \* dvplay's pc
player == <<endPart, stdin, next, pkt, shown, playing>>

D == INSTANCE DvPlay WITH MaxData <- OldFrame, pc <- playing

RecordingInit == Init /\ D!Init

Record == Next /\ UNCHANGED player

Ended == pc \in {"done", "failed"}

Play == Ended /\ D!Next /\ UNCHANGED vars

RecordingNext == Record \/ Play

RecordingSpec == /\ RecordingInit /\ [][RecordingNext]_<<vars, player>>
                 /\ WF_<<vars, player>>(Save /\ UNCHANGED player)
                 /\ WF_<<vars, player>>(Play)

(***************************************************************************)
(* Properties                                                              *)
(***************************************************************************)
Uniform(f) == [p \in 1..Parts |-> f]

\* The frames this recording saved to their end.
Whole == Cardinality({i \in 1..pos : file[i].p = Parts /\ ~D!Cut(i)})

\* What was recorded is what is played: the frames the camera sent (NTSC, none
\* lost in the driver), whole but for the start of the first, each once, in
\* order, whichever way dvsave ended.  What is left of an older and longer file,
\* which nobody truncates (dvsave/main.c:170), follows, and at most one
\* frame mixes the two.
PlaysBack ==
  missing = 0 /\ endPart = Parts =>
    \A k \in DOMAIN shown :
      /\ k <= Whole => \A p \in 1..Parts :
           shown[k][p] = IF k = 1 /\ p < file[1].p THEN 0 ELSE k
      /\ k > Whole + 1 => shown[k] = Uniform(OldFrame)

\* dvplay comes to the end of any file dvsave leaves behind, cut short or not,
\* having written a frame for every end of a frame in it.
PlaysAll ==
  Ended ~>
    /\ playing = "end"
    /\ Len(shown) = Cardinality({i \in DOMAIN file : D!EndsFrame(i) /\ ~D!Refused(i)})

\* Blocks lost on the way are concealed as dvrecv does it.
Conceals == D!Conceals
=============================================================================
