---------------------------- MODULE RtcpExchange ----------------------------
(***************************************************************************)
(* The RTCP dialogue of one dvsend and its dvrecvs: the sender's main loop *)
(* multicasts DV/RTP packets and, when more than Interval whole seconds    *)
(* have passed, a sender report (SR); each dvrecv takes what select()      *)
(* shows, RTP first, and answers an SR with a receiver report (RR), which  *)
(* the sender's loop reads one at a time from a non-blocking socket.       *)
(*                                                                         *)
(* Time is discrete.  In each second the camera makes the sender's loop    *)
(* run Blocks times.  A dvrecv that keeps up with the stream has its       *)
(* sockets empty before the second is over.  No code makes it keep up, so  *)
(* any of them may be slow: then packets and SRs wait and are dropped, and *)
(* since RTP is read first (read.c:121) the SRs may wait for ever.         *)
(*                                                                         *)
(* On Mac OS X the stream is sent from a callback (_macosX_idh_read_next), *)
(* and main_loop does nothing but RTCP, in turn after turn; it goes on     *)
(* when the camera does not, and tv_prev has no value to begin with.       *)
(***************************************************************************)
EXTENDS Integers, Sequences, FiniteSets

CONSTANTS Receivers,    \* the dvrecvs the stream goes to
          Interval,     \* RTCP_SR_INTERVAL
          Period,       \* 6000 on Linux, 1000 elsewhere
          Blocks,       \* iterations of the sender's loop in a second
          Cap           \* datagrams a receiver's socket buffer holds

ASSUME RtcpAssumption ==
  /\ Interval \in Nat \ {0} /\ Period \in Nat \ {0, 1}
  /\ Blocks \in Nat \ {0} /\ Cap \in Nat \ {0}

VARIABLES since,     \* tv.tv_sec - tv_prev.tv_sec, up to Interval + 1, or Never
          count,     \* readcount modulo Period
          left,      \* iterations the camera still asks for in this second
          camera,    \* the IEEE1394 device works
          reports,   \* the RRs waiting at the sender, by the dvrecv that sent them
          shown,     \* the dvrecv whose RR the last iteration read, or "none"
          rtp,       \* the DV/RTP packets waiting at each dvrecv
          sr,        \* the SRs waiting at each dvrecv
          heard,     \* pkt_count is not 0
          stuck,     \* the dvrecvs inside recvfrom(audio_soc)
          lossy,     \* whether the network may lose a datagram
          separated, \* SEPARATED_AUDIO_STREAM is set at the dvrecvs
          macosX,    \* dvsend runs on Mac OS X
          slow       \* the dvrecvs that may fall behind the stream
chosen == <<lossy, separated, macosX, slow>>    \* fixed when the programs start
senderVars == <<since, count, left, camera, chosen>>
rtcpVars == <<senderVars, reports, shown, rtp, sr, heard, stuck>>

\* A tv_prev so far in the future that its time does not come.
Never == -1

RtcpTypeOK ==
  /\ since \in 0..(Interval + 1) \cup {Never} /\ count \in 0..(Period - 1)
  /\ left \in 0..Blocks /\ camera \in BOOLEAN
  /\ reports \in Seq(Receivers) /\ shown \in Receivers \cup {"none"}
  /\ rtp \in [Receivers -> 0..Cap] /\ sr \in [Receivers -> 0..Cap]
  /\ heard \in [Receivers -> BOOLEAN] /\ stuck \subseteq Receivers
  /\ {lossy, separated, macosX} \subseteq BOOLEAN /\ slow \subseteq Receivers

RtcpInit ==
  /\ lossy \in BOOLEAN /\ separated \in BOOLEAN /\ macosX \in BOOLEAN
  /\ slow \in SUBSET Receivers
  /\ since \in IF macosX THEN 0..(Interval + 1) \cup {Never} ELSE {0}
  /\ count = 0 /\ left = Blocks /\ camera = TRUE
  /\ reports = <<>> /\ shown = "none"
  /\ rtp = [r \in Receivers |-> 0] /\ sr = [r \in Receivers |-> 0]
  /\ heard = [r \in Receivers |-> FALSE] /\ stuck = {}

(***************************************************************************)
(* The network.  A datagram sent to the group reaches every dvrecv or,     *)
(* when the network loses datagrams, some of them; a full socket buffer    *)
(* drops it.                                                               *)
(***************************************************************************)
Deliveries == IF lossy THEN SUBSET Receivers ELSE {Receivers}

Arrive(q, to) ==
  [r \in Receivers |-> IF r \in to /\ q[r] < Cap THEN q[r] + 1 ELSE q[r]]

(***************************************************************************)
(* The sender.  "just do RTCP process sometimes": the RTCP part runs when  *)
(* readcount % Period is not zero.  Mac OS X has no such counter.          *)
(***************************************************************************)
RtcpTurn(n) == n # 0 \/ macosX

Due(n) == RtcpTurn(n) /\ since > Interval

BadAfterSR(n) == since
AfterSR(n) == IF Due(n) THEN 0 ELSE since

ProcessRtcp(n) ==
  IF RtcpTurn(n) /\ reports # <<>>
    THEN reports' = Tail(reports) /\ shown' = Head(reports)
    ELSE UNCHANGED reports /\ shown' = "none"

\* Has the loop not been left?
Looping == camera \/ macosX

\* One turn of the loop: a report sent and one read when it is their turn,
\* and the blocks read from IEEE1394 (on Mac OS X those the callback got since
\* the turn before) handed to the RTP packer, which may or may not fill a packet
\* with them.
Iterate ==
  /\ Looping /\ left > 0
  /\ left' = left - 1
  /\ LET n == IF macosX THEN 0 ELSE (count + 1) % Period IN
     /\ count' = n
     /\ since' = AfterSR(n)
     /\ \E to \in Deliveries : sr' = IF Due(n) THEN Arrive(sr, to) ELSE sr
     /\ ProcessRtcp(n)
  /\ \E to \in IF camera THEN Deliveries \cup {{}} ELSE {{}} : rtp' = Arrive(rtp, to)
  /\ UNCHANGED <<camera, heard, stuck, chosen>>

\* read() or recv() on the IEEE1394 device fails and the loop is left.  FreeBSD 4
\* first reopens the device: when that works the turn is an Iterate without a
\* packet, when it fails the loop is left as elsewhere.  On Mac OS X the device
\* is not opened, or the callback cannot ask for the next frame, and nobody looks.
DeviceFails ==
  /\ camera /\ left > 0
  /\ camera' = FALSE
  /\ UNCHANGED <<since, count, left, reports, shown, rtp, sr, heard, stuck, chosen>>

(***************************************************************************)
(* A dvrecv: what one return of select() leads to.                         *)
(***************************************************************************)
Idle(r) == r \notin stuck

ReadRtp(r) ==
  /\ Idle(r) /\ rtp[r] > 0
  /\ rtp' = [rtp EXCEPT ![r] = @ - 1]
  /\ heard' = [heard EXCEPT ![r] = TRUE]
  /\ UNCHANGED <<senderVars, reports, shown, sr, stuck>>

\* The branch is chosen by the flag, not by FD_ISSET(audio_soc): when only an
\* SR woke select(), recvfrom(audio_soc) waits.
BadWaitAudio(r) ==
  /\ separated /\ Idle(r) /\ sr[r] > 0
  /\ stuck' = stuck \cup {r}
  /\ UNCHANGED <<senderVars, reports, shown, rtp, sr, heard>>
WaitAudio(r) ==
  /\ separated /\ Idle(r) /\ rtp[r] = 0 /\ sr[r] > 0
  /\ stuck' = stuck \cup {r}
  /\ UNCHANGED <<senderVars, reports, shown, rtp, sr, heard>>

\* An audio packet arrives at a dvrecv, which is or soon will be waiting for it.
ReadAudio(r) ==
  /\ separated /\ (r \in stuck \/ rtp[r] = 0)
  /\ stuck' = stuck \ {r}
  /\ heard' = [heard EXCEPT ![r] = TRUE]
  /\ UNCHANGED <<senderVars, reports, shown, rtp, sr>>

\* An SR is answered when RTP packets came since the last RR.
BadReply(r, lost) ==
  IF ~heard[r] /\ ~lost THEN Append(reports, r) ELSE reports
Reply(r, lost) ==
  IF heard[r] /\ ~lost THEN Append(reports, r) ELSE reports

BadReadSR(r) ==
  /\ ~separated /\ Idle(r) /\ rtp[r] = 0 /\ sr[r] > 0 /\ heard[r]
  /\ sr' = [sr EXCEPT ![r] = @ - 1]
  /\ \E lost \in IF lossy THEN BOOLEAN ELSE {FALSE} : reports' = Reply(r, lost)
  /\ heard' = [heard EXCEPT ![r] = FALSE]
  /\ UNCHANGED <<senderVars, shown, rtp, stuck>>
ReadSR(r) ==
  /\ ~separated /\ Idle(r) /\ rtp[r] = 0 /\ sr[r] > 0
  /\ sr' = [sr EXCEPT ![r] = @ - 1]
  /\ \E lost \in IF lossy THEN BOOLEAN ELSE {FALSE} : reports' = Reply(r, lost)
  /\ heard' = [heard EXCEPT ![r] = FALSE]
  /\ UNCHANGED <<senderVars, shown, rtp, stuck>>

\* The next second begins; who keeps up has read what came in this one.
Second ==
  /\ Looping => left = 0
  /\ \A r \in Receivers \ slow : Idle(r) => rtp[r] = 0 /\ (sr[r] = 0 \/ separated)
  /\ left' = IF Looping THEN Blocks ELSE 0
  /\ since' = IF since \in 0..Interval THEN since + 1 ELSE since
  /\ UNCHANGED <<count, camera, reports, shown, rtp, sr, heard, stuck, chosen>>

Selected(r) == ReadRtp(r) \/ WaitAudio(r) \/ ReadSR(r)

RtcpNext ==
  \/ Iterate \/ DeviceFails \/ Second
  \/ \E r \in Receivers : Selected(r) \/ ReadAudio(r)

\* Both programs are scheduled; a dvsend with a separate audio stream goes on
\* sending it, and the network does not lose all of it.
Fairness ==
  /\ WF_rtcpVars(Iterate) /\ WF_rtcpVars(Second)
  /\ \A r \in Receivers : WF_rtcpVars(Selected(r)) /\ WF_rtcpVars(ReadAudio(r))

RtcpSpec == RtcpInit /\ [][RtcpNext]_rtcpVars /\ Fairness

(***************************************************************************)
(* Properties                                                              *)
(***************************************************************************)
Of(r) == {i \in DOMAIN reports : reports[i] = r}

\* At most one RR of a dvrecv waits at the sender if all dvrecvs keep up: the SRs
\* are far enough apart that the loop, which reads one RR a turn, has read the
\* answers to one before it sends the next (dvsend's loop and process_rtcp,
\* dvrecv's send_rtcp_rr).
OneReportEach == slow = {} => \A r \in Receivers : Cardinality(Of(r)) <= 1

\* What dvsend -L promises: when nothing is lost, the RRs of a dvrecv that keeps up
\* and keeps getting the stream are read by the sender again and again, whatever
\* the slow ones do; on Mac OS X too, if what tv_prev holds before anything is
\* stored in it is no time to come.
ReportsKeepComing ==
  ~lossy /\ ~separated /\ since # Never =>
    \A r \in Receivers : r \notin slow => ([]<>heard[r] => []<>(shown = r \/ ~camera))

\* With separated streams a dvrecv blocks on the audio socket; while audio packets
\* come one that keeps up still reads the DV/RTP packets that wait.
StreamRead ==
  separated => \A r \in Receivers : r \notin slow => (rtp[r] > 0 ~> rtp[r] = 0)

\* Without them an SR that reached a dvrecv is read there, as long as that dvrecv
\* keeps up with the stream, which goes first (read.c:121); lossy network or not,
\* and however slow the others.
SRsRead ==
  ~separated => \A r \in Receivers : r \notin slow => (sr[r] > 0 ~> sr[r] = 0)
=============================================================================
