----------------------------- MODULE DvrecvProofs ----------------------------
(***************************************************************************)
(* dvrecv around its loops: its processes kill each other and nobody else, *)
(* whatever fails and whatever the user interrupts, but for the two cases  *)
(* that KillsOther names; and it selects on exactly the sockets its        *)
(* options ask for, whatever their order and number, the ports and the     *)
(* groups.                                                                 *)
(***************************************************************************)
EXTENDS DvrecvProcs, DvrecvSockets, FiniteSetTheorems, TLAPS

(***************************************************************************)
(* The processes                                                           *)
(***************************************************************************)
(* What is known of the two processes at each step. *)
Early == {"socket", "shmget video", "shmget audio", "remember", "fork"}
Types == /\ pc \in [Proc -> Pc]
         /\ readPid \in {"unset", "child", "all"}
         /\ pending \subseteq Proc
         /\ target \in {"terminal", "parent", "child"}

(* Before the fork there is one process; past it the result of fork is known. *)
ForkKnown ==
  /\ pc["parent"] \in Early => pc["child"] = "none" /\ readPid = "unset"
  /\ pc["parent"] \in {"device", "attach video", "attach audio", "loop", "kill"}
       => readPid # "unset"
  /\ pc["child"] \in Early \cup {"device"} => FALSE

(* Who is signalled: both or one, and a handler runs for a signal only. *)
SignalKnown ==
  /\ \A p \in Proc : p \in pending => Alive(p) /\ target \in {"terminal", p}
  /\ \A p \in Proc : pc[p] = "handled" => p \in pending

(* The child does not survive its parent by more than its own end: a parent
   that leaves has killed it, or has been interrupted together with it, or was
   killed by it.  Then nobody is left to use the pid that the parent had. *)
Leaving == pc["child"] = "exit" \/ "child" \in pending \/ ~Alive("child")
NoOrphan ==
  /\ recycled => pc["parent"] = "gone"
  /\ target # "parent" =>
       /\ pc["parent"] = "exit" => ~Alive("child")
       /\ "parent" \in pending => "child" \in pending \/ ~Alive("child")
       /\ pc["parent"] = "gone" => Leaving

ProcsInv == Types /\ ForkKnown /\ SignalKnown /\ NoOrphan /\ KillsOther

(* One process ends: it is gone and has no signal to handle any more, and
   nothing is different for the other one. *)
LEMMA Ends ==
  ASSUME Types, NEW p \in Proc, NEW goto \in [Proc -> Pc], End({p}, goto)
  PROVE  /\ pc' \in [Proc -> Pc] /\ pending' = pending \ {p}
         /\ pc'[p] = IF Alive(p) THEN "gone" ELSE goto[p]
         /\ \A q \in Proc \ {p} : pc'[q] = goto[q]
  BY DEF Types, End, Pc

(* Whichever pid a process kills, it is that of the other one, unless fork
   failed or the parent alone was interrupted (main.c:278, 291, 301, 309). *)
THEOREM KillsOnlyEachOther == Spec => []KillsOther
<1>1. Init => ProcsInv
  BY SignalsAssumption DEF Init, ProcsInv, Types, ForkKnown, SignalKnown, NoOrphan,
     KillsOther, Proc, Pc, Alive, Early, Leaving
<1>2. ProcsInv /\ [Next]_vars => ProcsInv'
  <2> SUFFICES ASSUME ProcsInv, [Next]_vars PROVE ProcsInv'
    OBVIOUS
  <2> USE DEF ProcsInv
  <2>0. Types
    OBVIOUS
  <2>1. CASE PrepareSocket
    BY <2>1 DEF PrepareSocket, At, Goto, Types, ForkKnown, SignalKnown, NoOrphan, KillsOther,
       Proc, Pc, Alive, Early, Leaving, kernel, signal, others
  <2>2. CASE Shmget("video", "shmget audio") \/ Shmget("audio", "remember")
    <3>1. PICK from \in {"shmget video", "shmget audio"},
               to \in {"shmget audio", "remember", "exit"} :
            /\ pc["parent"] = from /\ pc' = [pc EXCEPT !["parent"] = to]
            /\ UNCHANGED <<readPid, signal, others>>
      BY <2>2 DEF Shmget, At, Goto
    <3> QED
      BY <3>1 DEF Types, ForkKnown, SignalKnown, NoOrphan, KillsOther,
         Proc, Pc, Alive, Early, Leaving, signal, others
  <2>3. CASE RememberIds
    BY <2>3 DEF RememberIds, At, Goto, Types, ForkKnown, SignalKnown, NoOrphan, KillsOther,
       Proc, Pc, Alive, Early, Leaving, kernel, signal, others
  <2>4. CASE Fork
    <3>1. /\ pc["parent"] = "fork" /\ "parent" \notin pending
          /\ UNCHANGED <<signal, others>>
      BY <2>4 DEF Fork, At
    <3>2. /\ pc' \in [Proc -> Pc] /\ readPid' \in {"child", "all"}
          /\ pc'["parent"] = "device" /\ pc'["child"] \in {pc["child"], "attach video"}
      BY <2>4, <3>1 DEF Fork, Goto, Types, Proc, Pc
    <3>3. target' # "parent" => strangers'
      BY <3>1 DEF others, ForkKnown, Early, KillsOther
    <3> QED
      BY <3>1, <3>2, <3>3 DEF Types, ForkKnown, SignalKnown, NoOrphan, KillsOther,
         Proc, Pc, Alive, Early, Leaving, signal, others
  <2>5. CASE PrepareIeee1394
    BY <2>5 DEF PrepareIeee1394, At, Goto, Types, ForkKnown, SignalKnown, NoOrphan, KillsOther,
       Proc, Pc, Alive, Early, Leaving, kernel, signal, others
  <2>6. ASSUME NEW p \in Proc, Exit(p) PROVE ProcsInv'
    <3>1. /\ pc' \in [Proc -> Pc] /\ pending' = pending \ {p} /\ pc[p] = "exit"
          /\ pc'[p] = "gone" /\ \A q \in Proc \ {p} : pc'[q] = pc[q]
          /\ UNCHANGED <<readPid, others>>
      BY <2>6, Ends DEF Exit, At, Types, Alive
    <3> QED
      BY <3>1 DEF Types, ForkKnown, SignalKnown, NoOrphan, KillsOther,
         Proc, Pc, Alive, Early, Leaving, others
  <2>7. ASSUME NEW p \in Proc, Attach(p, "video", "attach audio") \/ Attach(p, "audio", "loop")
        PROVE  ProcsInv'
    <3>1. PICK from \in {"attach video", "attach audio"},
               to \in {"attach audio", "loop", "kill", "exit"} :
            /\ pc[p] = from /\ pc' = [pc EXCEPT ![p] = to]
            /\ p = "parent" => to # "exit"
            /\ UNCHANGED <<readPid, signal, recycled, strangers, target>>
      BY <2>7 DEF Attach, At, Goto
    <3> QED
      BY <3>1 DEF Types, ForkKnown, SignalKnown, NoOrphan, KillsOther,
         Proc, Pc, Alive, Early, Leaving, signal
  <2>8. ASSUME NEW p \in Proc, LoopEnds(p) PROVE ProcsInv'
    BY <2>8 DEF LoopEnds, At, Goto, Types, ForkKnown, SignalKnown, NoOrphan, KillsOther,
       Proc, Pc, Alive, Early, Leaving, kernel, signal, others
  <2>9. ASSUME NEW p \in Proc, Kill(p) PROVE ProcsInv'
    <3> DEFINE other == IF p = "parent" THEN "child" ELSE "parent"
    <3>1. /\ other \in Proc /\ p # other /\ Proc = {p, other}
          /\ [pc EXCEPT ![p] = "exit"] \in [Proc -> Pc]
      BY DEF Proc, Types, Pc
    <3>2. /\ pc[p] = "kill" /\ p \notin pending
          /\ End({other}, [pc EXCEPT ![p] = "exit"])
          /\ UNCHANGED <<readPid, recycled, target>>
          /\ strangers' = (strangers /\ ~(p = "parent" /\ readPid # "child")
                                    /\ ~(p = "child" /\ recycled))
      BY <2>9 DEF Kill, At
    <3>3. /\ pc' \in [Proc -> Pc] /\ pending' = pending \ {other}
          /\ pc'[other] = IF Alive(other) THEN "gone" ELSE pc[other]
          /\ pc'[p] = "exit"
      BY <3>1, <3>2, Ends DEF Types
    <3>4. CASE p = "parent"
      BY <3>2, <3>3, <3>4 DEF Types, ForkKnown, SignalKnown, NoOrphan, KillsOther,
         Proc, Pc, Alive, Early, Leaving
    <3>5. CASE p = "child"
      <4>1. recycled => target = "parent"
        BY <3>2, <3>5 DEF NoOrphan, Leaving, Alive
      <4> QED
        BY <3>2, <3>3, <3>5, <4>1 DEF Types, ForkKnown, SignalKnown, NoOrphan, KillsOther,
           Proc, Pc, Alive, Early, Leaving
    <3> QED
      BY <3>4, <3>5 DEF Proc
  <2>10. ASSUME NEW p \in Proc, Handle(p) PROVE ProcsInv'
    BY <2>10 DEF Handle, Goto, Types, ForkKnown, SignalKnown, NoOrphan, KillsOther,
       Proc, Pc, Alive, Early, Leaving, others
  <2>11. ASSUME NEW p \in Proc, HandlerExit(p) PROVE ProcsInv'
    <3>1. /\ pc' \in [Proc -> Pc] /\ pending' = pending \ {p} /\ p \in pending
          /\ pc'[p] = "gone" /\ \A q \in Proc \ {p} : pc'[q] = pc[q]
          /\ pc[p] = "handled" /\ UNCHANGED <<readPid, others>>
      BY <2>11, Ends DEF HandlerExit, Types, Alive
    <3> QED
      BY <3>1 DEF Types, ForkKnown, SignalKnown, NoOrphan, KillsOther,
         Proc, Pc, Alive, Early, Leaving, others
  <2>12. CASE Signal
    BY <2>12 DEF Signal, Types, ForkKnown, SignalKnown, NoOrphan, KillsOther,
       Proc, Pc, Alive, Early, Leaving, others
  <2>13. CASE Recycle
    BY <2>13 DEF Recycle, Types, ForkKnown, SignalKnown, NoOrphan, KillsOther,
       Alive, Leaving, signal
  <2>14. CASE UNCHANGED vars
    BY <2>14 DEF vars, signal, others, Types, ForkKnown, SignalKnown, NoOrphan, KillsOther,
       Alive, Leaving
  <2> QED
    BY <2>1, <2>2, <2>3, <2>4, <2>5, <2>6, <2>7, <2>8, <2>9, <2>10, <2>11, <2>12, <2>13, <2>14
       DEF Next, Start, Run, Work
<1>3. ProcsInv => KillsOther
  BY DEF ProcsInv
<1> QED
  BY <1>1, <1>2, <1>3, PTL DEF Spec

(***************************************************************************)
(* The sockets                                                             *)
(***************************************************************************)
(* The sockets to be read, and those of them that are open by now. *)
Wanted == {"rtp"} \cup (IF separated THEN {"audio"} ELSE {})
                  \cup (IF rtcp THEN {"rtcpIn"} ELSE {})
Opened == IF step \in {"options", "rtp"} THEN {}
          ELSE IF step = "audio" THEN {"rtp"}
          ELSE IF step = "rtcpIn" THEN Wanted \ {"rtcpIn"}
          ELSE Wanted

Watched(S) == /\ fds = {soc[t] : t \in S}
              /\ \A t \in S : soc[t] < maxfds /\ soc[t] \in DOMAIN bound

SocketTypes == /\ soc \in [Socket -> Nat] /\ maxfds \in Nat
               /\ separated \in BOOLEAN /\ rtcp \in BOOLEAN

(* What the order of the steps makes sure of. *)
Course == /\ step \in {"options", "group", "ready", "failed"} \cup Socket
          /\ step = "audio" => separated
          /\ step \in {"rtcpIn", "rtcpOut"} => rtcp

OneFamily == /\ \A t \in Socket : family[t] = family["rtp"]
             /\ step = "ready" /\ group # "none" => GroupFamily[group] = family["rtp"]

SelectInv == SocketTypes /\ Course /\ OneFamily /\ (step # "failed" => Watched(Opened))

(* A descriptor is a number. *)
LEMMA NewFdType == NewFd \in Nat
<1>1. IsFiniteSet(Socket)
  <2>1. IsFiniteSet({}) /\ Socket = {} \cup {"rtp"} \cup {"audio"} \cup {"rtcpIn"} \cup {"rtcpOut"}
    BY FS_EmptySet DEF Socket
  <2> QED
    BY <2>1, FS_AddElement
<1>2. IsFiniteSet({t \in Socket : soc[t] # 0})
  BY <1>1, FS_Subset
<1> QED
  BY <1>2, FS_CardinalityType DEF NewFd

(* Opening a socket to be read adds it to those watched, or fails. *)
LEMMA Opens ==
  ASSUME NEW t \in Socket, NEW port1, NEW next, NEW S \in SUBSET (Socket \ {t}),
         SocketTypes, Watched(S), PrepareReadSocket(t, port1, next), step' # "failed"
  PROVE  /\ fds' = {soc'[u] : u \in S \cup {t}}
         /\ \A u \in S \cup {t} : soc'[u] < maxfds' /\ soc'[u] \in DOMAIN bound'
<1> DEFINE fd == NewFd
<1>1. /\ soc' = [soc EXCEPT ![t] = fd]
      /\ DOMAIN bound' = DOMAIN bound \cup {fd}
      /\ fds' = fds \cup {fd}
      /\ maxfds' = MaxAfter(fd)
  BY DEF PrepareReadSocket
<1>2. fd \in Nat
  BY NewFdType
<1> HIDE DEF fd
<1>3. soc'[t] = fd /\ \A u \in S : soc'[u] = soc[u]
  BY <1>1 DEF SocketTypes
<1>4. fds' = {soc'[u] : u \in S \cup {t}}
  BY <1>1, <1>3 DEF Watched
<1>5. fd < maxfds' /\ maxfds <= maxfds'
  BY <1>1, <1>2 DEF MaxAfter, SocketTypes
<1>6. ASSUME NEW u \in S PROVE soc'[u] < maxfds' /\ soc'[u] \in DOMAIN bound'
  <2>1. soc[u] < maxfds /\ soc[u] \in Nat /\ soc[u] \in DOMAIN bound
    BY DEF Watched, SocketTypes
  <2>2. maxfds' \in Nat
    BY <1>1, <1>2 DEF MaxAfter, SocketTypes
  <2> QED
    BY <1>1, <1>3, <1>5, <2>1, <2>2 DEF SocketTypes
<1> QED
  BY <1>1, <1>3, <1>4, <1>5, <1>6 DEF Watched

(* The descriptors given to select() are those of the sockets the options ask
   for, all bound, all below its first argument, all of one family. *)
THEOREM SelectsAll == SocketsSpec => []SelectSees
<1>1. SocketsInit => SelectInv
  <2> SUFFICES ASSUME SocketsInit PROVE SelectInv
    OBVIOUS
  <2>1. SocketTypes /\ Course
    BY DEF SocketsInit, SocketTypes, Course
  <2>2. OneFamily
    BY DEF SocketsInit, OneFamily, Socket
  <2>3. Opened = {} /\ fds = {}
    BY DEF SocketsInit, Opened
  <2>4. Watched({})
    BY <2>3 DEF Watched
  <2> QED
    BY <2>1, <2>2, <2>3, <2>4 DEF SelectInv
<1>2. SelectInv /\ [SocketsNext]_socketsVars => SelectInv'
  <2> SUFFICES ASSUME SelectInv, [SocketsNext]_socketsVars PROVE SelectInv'
    OBVIOUS
  <2> USE DEF SelectInv
  <2>1. CASE Option
    <3>1. /\ step = "options" /\ UNCHANGED <<step, soc, bound, fds, maxfds>>
      BY <2>1 DEF Option
    <3>2. separated' \in BOOLEAN /\ rtcp' \in BOOLEAN
      BY <2>1 DEF Option, SocketTypes
    <3>3. \A t \in Socket : family'[t] = family'["rtp"]
      BY <2>1 DEF Option, OneFamily, AllFamilies, Socket
    <3> QED
      BY <3>1, <3>2, <3>3 DEF SocketTypes, Course, OneFamily, Watched, Opened, Socket
  <2>2. CASE OptionsEnd
    BY <2>2 DEF OptionsEnd, optionVars, SocketTypes, Course, OneFamily, Watched, Opened, Socket
  <2>3. ASSUME NEW t \in Socket, NEW port1, NEW next \in Socket \cup {"group"},
               PrepareReadSocket(t, port1, next),
               next = "audio" => separated, next = "rtcpIn" => rtcp,
               next = "rtcpOut" => rtcp, next # "rtp",
               step' # "failed" => Opened' = Opened \cup {t}, t \notin Opened
        PROVE  SelectInv'
    <3>1. /\ soc' = [soc EXCEPT ![t] = NewFd] /\ maxfds' \in {maxfds, MaxAfter(NewFd)}
          /\ UNCHANGED optionVars /\ step' \in {next, "failed"} /\ step = t
      BY <2>3 DEF PrepareReadSocket
    <3>2. SocketTypes'
      BY <3>1, NewFdType DEF optionVars, SocketTypes, MaxAfter
    <3>3. Course'
      BY <2>3, <3>1 DEF optionVars, Course, Socket
    <3>4. OneFamily'
      BY <2>3, <3>1 DEF optionVars, OneFamily, Socket
    <3>5. PICK S : S = Opened
      OBVIOUS
    <3>6. S \in SUBSET (Socket \ {t}) /\ Watched(S)
      BY <2>3, <3>1, <3>5 DEF Opened, Wanted, Socket
    <3>7. ASSUME step' # "failed" PROVE Watched(Opened)'
      <4>1. Opened' = S \cup {t}
        BY <2>3, <3>5, <3>7
      <4> QED
        BY <2>3, <3>6, <3>7, <4>1, Opens DEF Watched
    <3> QED
      BY <3>2, <3>3, <3>4, <3>7
  <2>4. CASE PrepareRtp
    <3> DEFINE next == IF separated THEN "audio" ELSE AfterAudio
    <3>1. /\ step = "rtp" /\ UNCHANGED optionVars /\ step' \in {next, "failed"}
          /\ next \in Socket \cup {"group"} /\ next # "rtp" /\ next # "rtcpOut"
          /\ next = "audio" => separated
          /\ next = "rtcpIn" => rtcp
          /\ PrepareReadSocket("rtp", port, next)
      BY <2>4 DEF PrepareRtp, PrepareReadSocket, AfterAudio, Socket
    <3>2. "rtp" \notin Opened /\ (step' # "failed" => Opened' = Opened \cup {"rtp"})
      BY <3>1 DEF Opened, Wanted, AfterAudio, optionVars
    <3> QED
      BY <2>3, <3>1, <3>2 DEF Socket
  <2>5. CASE PrepareAudio
    <3>1. /\ step = "audio" /\ UNCHANGED optionVars /\ step' \in {AfterAudio, "failed"}
          /\ AfterAudio \in {"rtcpIn", "group"}
          /\ AfterAudio = "rtcpIn" => rtcp
          /\ PrepareReadSocket("audio", audioPort, AfterAudio)
      BY <2>5 DEF PrepareAudio, PrepareReadSocket, AfterAudio
    <3>2. "audio" \notin Opened /\ (step' # "failed" => Opened' = Opened \cup {"audio"})
      BY <3>1 DEF Opened, Wanted, Course, optionVars, AfterAudio
    <3>3. AfterAudio \in Socket \cup {"group"} /\ AfterAudio # "audio"
          /\ AfterAudio # "rtcpOut" /\ AfterAudio # "rtp" /\ "audio" \in Socket
      BY <3>1 DEF Socket
    <3> QED
      BY <2>3, <3>1, <3>2, <3>3
  <2>6. CASE PrepareRtcpRead
    <3>1. /\ step = "rtcpIn" /\ UNCHANGED optionVars /\ step' \in {"rtcpOut", "failed"}
          /\ PrepareReadSocket("rtcpIn", RtcpPort, "rtcpOut")
      BY <2>6 DEF PrepareRtcpRead, PrepareReadSocket
    <3>2. rtcp /\ "rtcpIn" \notin Opened
          /\ (step' # "failed" => Opened' = Opened \cup {"rtcpIn"})
      BY <3>1 DEF Opened, Wanted, Course, optionVars
    <3> QED
      BY <2>3, <3>1, <3>2 DEF Socket
  <2>7. CASE PrepareRtcpWrite
    <3>1. /\ step = "rtcpOut" /\ step' = "group" /\ soc' = [soc EXCEPT !["rtcpOut"] = NewFd]
          /\ UNCHANGED <<optionVars, bound, fds, maxfds>>
      BY <2>7 DEF PrepareRtcpWrite
    <3>2. SocketTypes' /\ Course' /\ OneFamily'
      BY <3>1, NewFdType DEF optionVars, SocketTypes, Course, OneFamily
    <3>3. Opened = Wanted /\ Opened' = Wanted /\ Wanted \subseteq Socket \ {"rtcpOut"}
      BY <3>1 DEF Opened, Wanted, optionVars, Socket
    <3>4. \A u \in Wanted : soc'[u] = soc[u]
      BY <3>1, <3>3 DEF SocketTypes
    <3>5. Watched(Opened)'
      BY <3>1, <3>3, <3>4 DEF Watched
    <3> QED
      BY <3>2, <3>5
  <2>8. CASE MulticastSettings
    <3>1. /\ step = "group" /\ step' \in {"ready", "failed"}
          /\ UNCHANGED <<optionVars, soc, bound, fds, maxfds>>
          /\ step' = "ready" /\ group # "none" => family["rtp"] = GroupFamily[group]
      BY <2>8 DEF MulticastSettings, Accepts
    <3> QED
      BY <3>1 DEF optionVars, SocketTypes, Course, OneFamily, Watched, Opened, Wanted
  <2>9. CASE UNCHANGED socketsVars
    BY <2>9 DEF socketsVars, SocketTypes, Course, OneFamily, Watched, Opened, Wanted
  <2> QED
    BY <2>1, <2>2, <2>4, <2>5, <2>6, <2>7, <2>8, <2>9 DEF SocketsNext
<1>3. SelectInv => SelectSees
  BY DEF SelectInv, OneFamily, Watched, Opened, Wanted, SelectSees, SocketTypes
<1> QED
  BY <1>1, <1>2, <1>3, PTL DEF SocketsSpec
=============================================================================
