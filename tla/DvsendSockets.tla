---------------------------- MODULE DvsendSockets ----------------------------
(***************************************************************************)
(* How dvsend goes from its command line to its sockets: the options are   *)
(* taken one after the other, each destination with the defaults that hold *)
(* at that moment; then one socket per destination for DV/RTP and one for  *)
(* RTCP is opened, the socket the receiver reports will be read from is    *)
(* bound, and multicast destinations get their TTL and interface.          *)
(* A file descriptor is a number; 0 is the standard input, which is also   *)
(* what a socket field holds before it is set.                             *)
(***************************************************************************)
EXTENDS Naturals, Sequences

CONSTANTS Dests,        \* destination strings [host, port, ttl, ifname], 0 or "" for a part left out
          Family,       \* host |-> the families it resolves to, the preferred one first
          Multicast,    \* the hosts that are multicast groups
          Ports, Ttls,  \* what -P and -t may give
          Interfaces,   \* what -m and -M may give
          Addresses,    \* the interface strings that inet_addr makes an address of
          Options,      \* the flag options that may be given
          MaxDest,      \* -h destinations on a command line
          MaxAudio,     \* -d destinations on a command line
          MaxFd         \* the largest file descriptor the process can open

Families == {"inet", "inet6"}

\* Every name given resolves to something, and none is empty.
ASSUME SocketsAssumption ==
  /\ MaxDest \in Nat /\ MaxAudio \in Nat /\ MaxFd \in Nat /\ MaxFd > 2 * MaxDest + 2
  /\ "" \notin DOMAIN Family
  /\ \A h \in DOMAIN Family : Family[h] # <<>> /\ Family[h] \in Seq(Families)
  /\ Dests \subseteq [host : DOMAIN Family, port : Nat, ttl : Nat, ifname : STRING]
  /\ Ports \subseteq Nat /\ Ttls \subseteq Nat /\ Interfaces \subseteq STRING

VARIABLES pc,        \* "options", then the step of the start-up, then "loop" or an end
          at,        \* the list element the current step works on
          flags, default,    \* dvsend_param.flags and the default_ fields
          dests, outs,       \* dest_list and rtcp_out_list
          adests, aouts,     \* audio_dest_list and rtcp_out_audio_list
          recv,      \* rtcp_recv_list: empty or its one entry
          nextFd,    \* the next free file descriptor
          bound,     \* file descriptor |-> port it is bound to
          mopts      \* file descriptor |-> its multicast options and the calls refused
socketsVars == <<pc, at, flags, default, dests, outs, adests, aouts, recv, nextFd, bound, mopts>>
options == <<flags, default, adests, aouts>>
sockets == <<recv, nextFd, bound, mopts>>

Ends == {"failed", "crashed"}
None == [ttl |-> 1, ifname |-> "", refused |-> {}]      \* the kernel's defaults

SocketsTypeOK ==
  /\ pc \in {"options", "rtp", "audio", "rtcp", "rtcpAudio", "multicast", "multicastRtcp", "loop"}
            \cup Ends
  /\ \A q \in {dests, outs} : Len(q) <= MaxDest
  /\ \A q \in {adests, aouts} : Len(q) <= MaxAudio
  /\ at \in 1..(MaxDest + MaxAudio + 1)
  /\ nextFd \in 3..(MaxFd + 1)
  /\ \A i \in DOMAIN dests : dests[i].soc < nextFd
  /\ DOMAIN bound \subseteq 3..(nextFd - 1)
  /\ DOMAIN mopts \subseteq 0..(nextFd - 1)
  /\ Len(recv) <= 1

DEFAULT_DVTS_UDP_PORT == 8000

SocketsInit ==
  /\ pc = "options" /\ at = 1 /\ flags = {"USE_RTCP"}
  /\ default = [port |-> DEFAULT_DVTS_UDP_PORT, ttl |-> 1, ifname |-> "", ifname6 |-> ""]
  /\ dests = <<>> /\ outs = <<>> /\ adests = <<>> /\ aouts = <<>>
  /\ recv = <<>> /\ nextFd = 3 /\ bound = <<>> /\ mopts = <<>>

(***************************************************************************)
(* The options                                                             *)
(***************************************************************************)
Hint == CASE "USE_IPV4_ONLY" \in flags -> "inet"
          [] "USE_IPV6_ONLY" \in flags -> "inet6"
          [] OTHER -> "unspec"

\* _add_dest: what the string leaves out comes from the defaults.
AddDest(d) ==
  [host |-> d.host, port |-> IF d.port < 1 THEN default.port ELSE d.port,
   ttl |-> IF d.ttl < 1 THEN default.ttl ELSE d.ttl,
   ifname |-> IF d.ifname = "" THEN default.ifname ELSE d.ifname,
   ifname6 |-> "", family |-> Hint, soc |-> 0]

\* _add_rtcp_out: the same on the next port.
BadAddRtcpOut(d) ==
  [AddDest(d) EXCEPT !.port = IF d.port < 1 THEN @ + 1 ELSE @]
AddRtcpOut(d) == [AddDest(d) EXCEPT !.port = @ + 1]

AddDestination(d) ==
  /\ pc = "options" /\ Len(dests) < MaxDest
  /\ dests' = Append(dests, AddDest(d))
  /\ outs' = IF "USE_RTCP" \in flags THEN Append(outs, AddRtcpOut(d)) ELSE outs
  /\ UNCHANGED <<pc, at, options, sockets>>

\* -d: the audio destination itself stays empty; only the RTCP entry gets the
\* string.
AddAudioOnlyDestination(d) ==
  /\ pc = "options" /\ "d" \in Options /\ Len(adests) < MaxAudio
  /\ flags' = flags \cup {"SEPARATED_AUDIO_STREAM"}
  /\ adests' = Append(adests, [host |-> "", port |-> 0, family |-> "unspec", soc |-> 0])
  /\ aouts' = IF "USE_RTCP" \in flags
                THEN Append(aouts, [host |-> d.host, port |-> default.port + 1,
                                    family |-> Hint, soc |-> 0])
                ELSE aouts
  /\ UNCHANGED <<pc, at, default, dests, outs, sockets>>

\* -P, -t, -m and -M
SetDefault ==
  /\ pc = "options"
  /\ default' \in {[default EXCEPT !.port = p] : p \in Ports}
            \cup {[default EXCEPT !.ttl = t] : t \in Ttls}
            \cup {[default EXCEPT !.ifname = i] : i \in IF "m" \in Options THEN Interfaces ELSE {}}
            \cup {[default EXCEPT !.ifname6 = i] : i \in IF "M" \in Options THEN Interfaces ELSE {}}
  /\ UNCHANGED <<pc, at, flags, dests, outs, adests, aouts, sockets>>

\* -R, -4 and -6
SetFlag ==
  /\ pc = "options"
  /\ \E o \in Options \cap {"R", "4", "6"} :
       flags' = CASE o = "R" -> flags \ {"USE_RTCP"}
                  [] o = "4" -> flags \cup {"USE_IPV4_ONLY"}
                  [] o = "6" -> flags \cup {"USE_IPV6_ONLY"}
  /\ UNCHANGED <<pc, at, default, dests, outs, adests, aouts, sockets>>

OptionsEnd ==
  /\ pc = "options"
  /\ pc' = "rtp"
  /\ UNCHANGED <<at, flags, default, dests, outs, adests, aouts, sockets>>

(***************************************************************************)
(* prepare_udp_socket                                                      *)
(***************************************************************************)
\* getaddrinfo: the families a name may get under a hint.
Resolved(host, hint) ==
  IF host = "" THEN Families
  ELSE IF hint = "unspec" THEN {Family[host][1]}
  ELSE {f \in {hint} : \E i \in DOMAIN Family[host] : Family[host][i] = f}

Separated == "SEPARATED_AUDIO_STREAM" \in flags
AfterRtp == CASE Separated -> "audio" [] "USE_RTCP" \in flags -> "rtcp" [] OTHER -> "multicast"
AfterAudio == IF "USE_RTCP" \in flags THEN "rtcp" ELSE "multicast"
AfterRtcp == IF Separated THEN "rtcpAudio" ELSE "multicast"

Finish(step, list, next) ==
  /\ pc = step /\ at > Len(list)
  /\ pc' = next /\ at' = 1
  /\ UNCHANGED <<options, dests, outs, sockets>>

Fail(step, list) ==
  /\ pc = step /\ at <= Len(list)
  /\ \/ Resolved(list[at].host, list[at].family) = {}
     \/ list[at].host = ""      \* most resolvers refuse an empty name
  /\ pc' = "failed"
  /\ UNCHANGED <<at, options, dests, outs, sockets>>

\* _prepare_rtp_send: resolve, open a socket.
PrepareRtpSend ==
  \/ /\ pc = "rtp" /\ at <= Len(dests)
     /\ \E f \in Resolved(dests[at].host, dests[at].family) :
          dests' = [dests EXCEPT ![at].family = f, ![at].soc = nextFd]
     /\ nextFd' = nextFd + 1 /\ at' = at + 1
     /\ UNCHANGED <<pc, options, outs, recv, bound, mopts>>
  \/ Finish("rtp", dests, AfterRtp) \/ Fail("rtp", dests)

\* _prepare_rtp_audio_send resolves and opens nothing.
PrepareRtpAudioSend ==
  \/ /\ pc = "audio" /\ at <= Len(adests)
     /\ \E f \in Resolved(adests[at].host, adests[at].family) :
          adests' = [adests EXCEPT ![at].family = f]
     /\ at' = at + 1
     /\ UNCHANGED <<pc, flags, default, aouts, dests, outs, sockets>>
  \/ Finish("audio", adests, AfterAudio) \/ Fail("audio", adests)

(***************************************************************************)
(* _prepare_rtcp_send with _add_rtcp_recv: the first RTCP destination's    *)
(* socket is bound and made the one reports are read from.  A later one    *)
(* with the same family and port opens no socket: its empty socket field   *)
(* replaces the one of the receive list.  new->next is never set: what the *)
(* block from malloc holds there is null, or wild.                         *)
(***************************************************************************)
SamePort(f) == recv # <<>> /\ recv[1].family = f /\ recv[1].port = outs[at].port

BadOpenRtcp(f) ==
  IF SamePort(f)
    THEN outs' = [outs EXCEPT ![at].family = f, ![at].soc = recv[1].soc] /\ UNCHANGED nextFd
    ELSE outs' = [outs EXCEPT ![at].family = f, ![at].soc = nextFd] /\ nextFd' = nextFd + 1
OpenRtcp(f) ==
  IF SamePort(f)
    THEN outs' = [outs EXCEPT ![at].family = f] /\ UNCHANGED nextFd
    ELSE outs' = [outs EXCEPT ![at].family = f, ![at].soc = nextFd] /\ nextFd' = nextFd + 1

AddRtcpRecv(f) ==
  IF recv # <<>>
    THEN recv' = (IF SamePort(f) THEN <<[recv[1] EXCEPT !.soc = outs[at].soc]>> ELSE recv)
         /\ UNCHANGED bound
    ELSE \/ /\ \E n \in {"null", "wild"} :
                 recv' = <<[family |-> f, port |-> outs[at].port, soc |-> nextFd, next |-> n]>>
            /\ bound' = [s \in DOMAIN bound \cup {nextFd} |->
                           IF s = nextFd THEN outs[at].port ELSE bound[s]]
         \/ UNCHANGED <<recv, bound>>     \* another program holds the port

\* Walking the receive list goes through the next field: at once when the
\* first entry is not the one looked for, and in _add_rtcp_recv always.
WildWalk == recv # <<>> /\ recv[1].next = "wild"

PrepareRtcpSend ==
  \/ /\ pc = "rtcp" /\ at <= Len(outs) /\ ~WildWalk
     /\ \E f \in Resolved(outs[at].host, outs[at].family) : OpenRtcp(f) /\ AddRtcpRecv(f)
     /\ at' = at + 1
     /\ UNCHANGED <<pc, options, dests, mopts>>
  \/ /\ pc = "rtcp" /\ at <= Len(outs) /\ WildWalk
     /\ pc' = "crashed"
     /\ UNCHANGED <<at, options, dests, outs, sockets>>
  \/ Finish("rtcp", outs, AfterRtcp)     \* a name that got here resolves

BadNoDescriptor ==
  /\ pc = "rtcpAudio" /\ at <= Len(aouts) /\ nextFd > MaxFd
  /\ UNCHANGED <<pc, at, options, dests, outs, sockets>>
NoDescriptor ==
  /\ pc = "rtcpAudio" /\ at <= Len(aouts) /\ nextFd > MaxFd
  /\ pc' = "failed"
  /\ UNCHANGED <<at, options, dests, outs, sockets>>

\* _prepare_rtcp_audio_send never goes on to the next element: it opens
\* sockets for the first one, and there always is one, until the process has no
\* descriptor left.
PrepareRtcpAudioSend ==
  \/ /\ pc = "rtcpAudio" /\ at <= Len(aouts) /\ nextFd <= MaxFd
     /\ \E f \in Resolved(aouts[at].host, aouts[at].family) :
          aouts' = [aouts EXCEPT ![at].family = f, ![at].soc = nextFd]
     /\ nextFd' = nextFd + 1
     /\ UNCHANGED <<pc, at, flags, default, adests, dests, outs, recv, bound, mopts>>
  \/ NoDescriptor
  \/ Fail("rtcpAudio", aouts)

\* getaddrinfo, socket, setsockopt or bind fails for a reason of its own; the
\* calls that fail in multicast_settings end nothing and are in its steps.
SystemCallFails ==
  /\ pc \in {"rtp", "audio", "rtcp", "rtcpAudio"}
  /\ at <= CASE pc = "rtp" -> Len(dests) [] pc = "audio" -> Len(adests)
             [] pc = "rtcp" -> Len(outs) [] OTHER -> Len(aouts)
  /\ pc' = "failed"
  /\ UNCHANGED <<at, options, dests, outs, sockets>>

(***************************************************************************)
(* multicast_settings, then the main loop.                                 *)
(***************************************************************************)
Groups(list) == {i \in DOMAIN list : list[i].host \in Multicast}

\* What a group's socket is asked for: the IPv4 TTL is cut to a u_char, and
\* nothing ever sets multi_ifname6, so that no interface is asked for in IPv6.
Wanted(d) ==
  [ttl |-> IF d.family = "inet" THEN d.ttl % 256 ELSE d.ttl,
   ifname |-> IF d.family = "inet" THEN d.ifname ELSE d.ifname6]

\* The setsockopt calls that may be refused together.  A hop limit above 255 is
\* always refused, and so is the interface that inet_addr makes no address of,
\* its name for example; without an interface there is no call.
Refusals(d) ==
  {r \in SUBSET {"ttl", "ifname"} :
     /\ d.family = "inet6" /\ d.ttl > 255 => "ttl" \in r
     /\ Wanted(d).ifname = "" => "ifname" \notin r
     /\ Wanted(d).ifname \notin Addresses \cup {""} => "ifname" \in r}

\* A refused call is reported by perror and leaves what the socket had.
Set(had, wanted, r) ==
  [ttl |-> IF "ttl" \in r THEN had.ttl ELSE wanted.ttl,
   ifname |-> IF "ifname" \in r \/ wanted.ifname = "" THEN had.ifname ELSE wanted.ifname,
   refused |-> r]

\* _IPv4_multicast_settings and _IPv6_multicast_settings; a socket field that is
\* still 0 is no socket, and its calls do nothing.
SetOptions(d) ==
  IF d.host \notin Multicast \/ d.soc = 0 THEN UNCHANGED mopts
  ELSE \E r \in Refusals(d) :
         LET had == IF d.soc \in DOMAIN mopts THEN mopts[d.soc] ELSE None IN
         mopts' = [s \in DOMAIN mopts \cup {d.soc} |->
                     IF s = d.soc THEN Set(had, Wanted(d), r) ELSE mopts[s]]

MulticastSettings ==
  \/ /\ pc = "multicast" /\ at <= Len(dests) /\ SetOptions(dests[at])
     /\ at' = at + 1
     /\ UNCHANGED <<pc, options, dests, outs, recv, nextFd, bound>>
  \/ Finish("multicast", dests, "multicastRtcp")
  \/ /\ pc = "multicastRtcp" /\ at <= Len(outs) /\ SetOptions(outs[at])
     /\ at' = at + 1
     /\ UNCHANGED <<pc, options, dests, outs, recv, nextFd, bound>>
  \/ Finish("multicastRtcp", outs, "loop")

\* process_rtcp walks the receive list on almost every turn of the loop.
LoopWalks ==
  /\ pc = "loop" /\ "USE_RTCP" \in flags /\ WildWalk
  /\ pc' = "crashed"
  /\ UNCHANGED <<at, options, dests, outs, sockets>>

StartUp ==
  \/ PrepareRtpSend \/ PrepareRtpAudioSend \/ PrepareRtcpSend \/ PrepareRtcpAudioSend
  \/ MulticastSettings \/ LoopWalks

SocketsNext ==
  \/ \E d \in Dests : AddDestination(d) \/ AddAudioOnlyDestination(d)
  \/ SetDefault \/ SetFlag \/ OptionsEnd
  \/ StartUp \/ SystemCallFails

SocketsSpec == SocketsInit /\ [][SocketsNext]_socketsVars /\ WF_socketsVars(StartUp)

(***************************************************************************)
(* Properties                                                              *)
(***************************************************************************)
\* The reports of destination i are heard: dvrecv sends them to the port after
\* the one it receives on, and the socket the loop reads is bound to it.
Heard(i) ==
  \E q \in DOMAIN recv :
    /\ recv[q].soc \in DOMAIN bound
    /\ bound[recv[q].soc] = dests[i].port + 1
    /\ recv[q].family = dests[i].family

\* Whatever the order of the options, with one destination the socket that was
\* bound, if it could be, is the one its reports go to.
HeardAlone ==
  pc = "loop" /\ recv # <<>> /\ Len(dests) = 1 => Heard(1)

\* A group's packets and reports leave with the TTL and on the interface of its
\* own destination, or where a call was refused with the kernel's defaults, and
\* never with those of another destination.
OwnOptions ==
  pc = "loop" =>
    \A list \in {dests, outs} : \A i \in Groups(list) :
      list[i].soc # 0 =>
        \E r \in Refusals(list[i]) : mopts[list[i].soc] = Set(None, Wanted(list[i]), r)

\* Every start-up comes to an end, also the one that opens sockets in a loop.
Settles == pc = "rtp" ~> pc \in {"loop"} \cup Ends
=============================================================================
