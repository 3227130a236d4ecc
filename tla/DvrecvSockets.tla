---------------------------- MODULE DvrecvSockets ----------------------------
(***************************************************************************)
(* How dvrecv goes from its command line to the sockets its read loop      *)
(* selects on, and joins the multicast group: prepare_udp_socket and       *)
(* multicast_settings.  The RTCP port is the DV/RTP port plus one, in the  *)
(* 16 bits of a port number.                                               *)
(***************************************************************************)
EXTENDS Naturals, FiniteSets, Functions

CONSTANTS Groups,        \* names -j may be given
          GroupFamily,   \* name |-> the family it resolves to, or "none"
          IsGroup,       \* those of the names that are multicast addresses
          Ports,         \* ports -P and -d may give
          MaxPort,       \* 65535
          Inet6          \* built with ENABLE_INET6

ASSUME DvrecvSocketsAssumption ==
  /\ Ports \subseteq 1..MaxPort /\ Inet6 \in BOOLEAN
  /\ \A g \in Groups : GroupFamily[g] \in {"inet", "inet6", "none"}

VARIABLES step,        \* of the start-up
          family,      \* socket |-> the family it is to be opened in
          port, audioPort, rtcp, separated, group, ifname,    \* the options
          busy,        \* ports other programs are bound to
          soc,         \* socket |-> its descriptor, 0 before it is opened
          bound,       \* descriptor |-> port
          fds, maxfds,
          joined       \* the membership of the DV/RTP socket: group and interface
optionVars == <<family, port, audioPort, rtcp, separated, group, ifname, busy>>
socketsVars == <<step, family, port, audioPort, rtcp, separated, group, ifname, busy,
                 soc, bound, fds, maxfds, joined>>

Socket == {"rtp", "audio", "rtcpIn", "rtcpOut"}
Refused == [group |-> "none", ifname |-> ""]

SocketsTypeOK ==
  /\ family \in [Socket -> {"inet", "inet6"}]
  /\ port \in 1..MaxPort /\ audioPort \in 0..MaxPort
  /\ soc \in [Socket -> {0} \cup 3..6]
  /\ DOMAIN bound \subseteq 3..6 /\ Range(bound) \subseteq 0..MaxPort
  /\ fds \subseteq 3..6 /\ maxfds \in {0} \cup 4..7
  /\ group \in Groups \cup {"none"} /\ joined.group \in {"none", group}

SocketsInit ==
  /\ step = "options"
  /\ family = [s \in Socket |-> IF Inet6 THEN "inet6" ELSE "inet"]
  /\ port \in Ports /\ audioPort = 0 /\ rtcp = TRUE /\ separated = FALSE
  /\ group = "none" /\ ifname = ""
  /\ busy \in SUBSET Ports
  /\ soc = [s \in Socket |-> 0] /\ bound = <<>> /\ fds = {} /\ maxfds = 0
  /\ joined = Refused

AllFamilies(f) == [s \in Socket |-> f]

\* -4 and -6, -P, -d, -R, -j and -M, in any order and number.
Option ==
  /\ step = "options"
  /\ \/ /\ Inet6
        /\ \E f \in {"inet", "inet6"} : family' = AllFamilies(f)
        /\ UNCHANGED <<port, audioPort, rtcp, separated, group, ifname>>
     \/ /\ port' \in Ports
        /\ UNCHANGED <<family, audioPort, rtcp, separated, group, ifname>>
     \/ /\ separated' = TRUE /\ audioPort' \in Ports \ {MaxPort}
        /\ UNCHANGED <<family, port, rtcp, group, ifname>>
     \/ /\ rtcp' = FALSE
        /\ UNCHANGED <<family, port, audioPort, separated, group, ifname>>
     \/ /\ group' \in Groups
        /\ UNCHANGED <<family, port, audioPort, rtcp, separated, ifname>>
     \/ /\ ifname' = "fxp0"
        /\ UNCHANGED <<family, port, audioPort, rtcp, separated, group>>
  /\ UNCHANGED <<step, busy, soc, bound, fds, maxfds, joined>>

OptionsEnd ==
  /\ step = "options"
  /\ step' = "rtp"
  /\ UNCHANGED <<optionVars, soc, bound, fds, maxfds, joined>>

(***************************************************************************)
(* A socket: opened, bound, and entered in the set select() is given.      *)
(***************************************************************************)
NewFd == 3 + Cardinality({s \in Socket : soc[s] # 0})
RtcpPort == (port + 1) % (MaxPort + 1)

\* Port 0 has the kernel choose a free port; a port in use is refused.
CanBind(p) == p = 0 \/ (p \notin busy /\ p \notin Range(bound))

BadMaxAfter(fd) == IF maxfds < fd THEN fd ELSE maxfds
MaxAfter(fd) == IF maxfds < fd + 1 THEN fd + 1 ELSE maxfds

PrepareReadSocket(s, p, next) ==
  /\ step = s
  /\ soc' = [soc EXCEPT ![s] = NewFd]
  /\ IF CanBind(p)
       THEN /\ bound' = [d \in DOMAIN bound \cup {NewFd} |-> IF d = NewFd THEN p ELSE bound[d]]
            /\ fds' = fds \cup {NewFd}
            /\ maxfds' = MaxAfter(NewFd)
            /\ step' = next
       ELSE step' = "failed" /\ UNCHANGED <<bound, fds, maxfds>>
  /\ UNCHANGED <<optionVars, joined>>

AfterAudio == IF rtcp THEN "rtcpIn" ELSE "group"

PrepareRtp == PrepareReadSocket("rtp", port, IF separated THEN "audio" ELSE AfterAudio)
PrepareAudio == PrepareReadSocket("audio", audioPort, AfterAudio)
PrepareRtcpRead == PrepareReadSocket("rtcpIn", RtcpPort, "rtcpOut")

\* The socket receiver reports leave from; it is not bound.
PrepareRtcpWrite ==
  /\ step = "rtcpOut"
  /\ soc' = [soc EXCEPT !["rtcpOut"] = NewFd]
  /\ step' = "group"
  /\ UNCHANGED <<optionVars, bound, fds, maxfds, joined>>

\* The interface of the membership: the one named by -M for IPv6 only.
Interface == IF GroupFamily[group] = "inet6" THEN ifname ELSE ""

Accepts ==
  /\ GroupFamily[group] # "none" /\ group \in IsGroup
  /\ family["rtp"] = GroupFamily[group]

\* A refusal of the kernel is reported and not an error.
MulticastSettings ==
  /\ step = "group"
  /\ \/ group = "none" /\ step' = "ready" /\ UNCHANGED joined
     \/ /\ group # "none" /\ Accepts
        /\ joined' \in {Refused, [group |-> group, ifname |-> Interface]}
        /\ step' = "ready"
     \/ group # "none" /\ ~Accepts /\ step' = "failed" /\ UNCHANGED joined
  /\ UNCHANGED <<optionVars, soc, bound, fds, maxfds>>

SocketsNext ==
  \/ Option \/ OptionsEnd
  \/ PrepareRtp \/ PrepareAudio \/ PrepareRtcpRead \/ PrepareRtcpWrite
  \/ MulticastSettings

SocketsSpec == SocketsInit /\ [][SocketsNext]_socketsVars

(***************************************************************************)
(* Properties                                                              *)
(***************************************************************************)
\* Whatever sockets the options ask for, select() is given exactly the bound
\* ones, and its first argument covers them: none is left out, so none that is
\* read is unwatched (the RTCP socket is read only when select() returns).  They
\* are all of one family, whatever -4 and -6 came last, and so is the group: an
\* RR is sent from the socket of rtcpOut to the address an SR on rtcpIn came from.
SelectSees ==
  step = "ready" =>
    /\ fds = {soc[s] : s \in {"rtp"} \cup (IF separated THEN {"audio"} ELSE {})
                                     \cup (IF rtcp THEN {"rtcpIn"} ELSE {})}
    /\ \A fd \in fds : fd < maxfds /\ fd \in DOMAIN bound
    /\ \A s \in Socket : family[s] = family["rtp"]
    /\ group # "none" => GroupFamily[group] = family["rtp"]
=============================================================================
