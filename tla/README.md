# A TLA+ model of dvts

dvts sends digital video over RTP. `dvsend` reads DIF blocks from an IEEE1394
bus and sends them in RTP packets, `dvrecv` receives the packets and puts the
frames on its own IEEE1394 bus, `dvsave` records a bus into a file, and
`dvplay` plays such a file on a bus. This directory holds TLA+ modules that
model those programs, TLC configurations that check them on small instances,
and proofs that TLAPS checks for every value of the constants. `PROJECT.json`
says which lines of the source each definition models.

Run, in this directory, `tlc -config X.cfg M` for a run and `tlapm M.tla` for a
module of proofs.

## 1. The system

| component | state it keeps | operations | modules |
|---|---|---|---|
| dvsend, packetiser (`dvsend/rtp.c`) | three buffers of blocks (main, redundant audio, separate audio), their sequence numbers and timestamps, a frame counter, `frame_drop` | a handler for each section of a frame, the flush at the end of a frame | `DvsendRtp`, `Stream` |
| dvsend, main loops (`ieee1394-*.c`) | `readcount`, the time of the last report | read blocks, hand them to the packetiser, do RTCP on some turns; on Mac OS X a callback does the one and the loop the other | `RtcpExchange` |
| dvsend, RTCP (`rtcp.c`) | nothing of its own | send SRs, read and display RRs | `RtcpExchange`, `LossReport` |
| dvsend, destinations, sockets, multicast (`udp.c`, `multicast.c`, `main.c`) | lists of destinations for DV/RTP, RTCP and audio, the defaults of the options, the receive list | options, opening and binding sockets, multicast options | `DvsendSockets` |
| dvsend, signals (`sig-behavior.c`) | `frame_drop` | SIGUSR1 and SIGUSR2 change the rate | `DvsendRtp` |
| dvrecv, reading process (`read.c`) | the slot being filled, the flags of received positions, the last timestamp, two pairs of loss counters | a `select()` loop, one handler per section, hand-over of a frame | `VideoAssembly`, `FrameRing`, `LossReport`, `RtcpExchange`, `Stream` |
| dvrecv, shared rings (`shm.c`) | two rings of slots with a `lock` word in shared memory | create, attach, remove | `FrameRing`, `DvrecvProcs` |
| dvrecv, writers (`write-*.c`) | the slot being shown in each ring, counters that mute the sound | take a slot or repeat one, mix sound into the picture, lay it out in bus packets, write | `FrameRing`, `PlayOut`, `IsochPacking` |
| dvrecv, processes and signals (`main.c`, `sig-behavior.c`) | two processes, two segments, `read_loop_pid` | fork, kill the other process, remove the segments | `DvrecvProcs` |
| dvrecv, RTCP (`rtcp.c`) | loss counters | answer an SR with an RR | `LossReport`, `RtcpExchange` |
| dvrecv, sockets and multicast (`udp.c`, `multicast.c`) | four sockets, the set given to `select()` | open, bind, join a group | `DvrecvSockets` |
| dvsave (`dvsave/*.c`) | a file, a frame count, the previous frame number | three kinds of main loop | `DvSave`, `Recording` |
| dvplay (`dvplay/file.c`, `ieee1394-freebsd4.c`) | one frame buffer, a buffer of bus packets | read blocks, write a frame | `DvPlay`, `Recording`, `IsochPacking` |

How they interact. The bus feeds dvsend's loop, which calls the packetiser and,
on most turns, RTCP. Datagrams go over a network that may lose, delay and
repeat them. In dvrecv one process (the child of a fork) stores blocks in
shared memory and the other copies frames to the bus; they share nothing but
the two rings, and synchronise by plain loads and stores of a word per slot.
Each kills the other when it fails. SRs of dvsend are answered by RRs of
dvrecv. dvsave and dvplay meet in a file.

What is hard about it, and which properties are about it:

* **No atomic operation guards the rings.** The reader never looks for the
  writer's mark before it claims a slot; only distance keeps them apart.
  `Exclusive`, `InOrder`, `EveryFrameShown`, `HandlerEnds`, `MarkIsWriters`.
* **Lost blocks are concealed** by the slot before, while flags are cleared and
  the ring comes round. `SealedKept`, `Conceals`, `NeverBack`.
* **Nothing but timestamps tells frames apart**, and nothing but sequence numbers
  tells losses; both come from a sender that drops frames, repeats sound and
  loses blocks, over a network that loses and holds back packets.
  `PicturesArrive`, `SoundsArrive`, `SoundsKept`, `LossExplained`, `HandOvers`.
* **Two rings advance on their own**, and counters that differ from platform to
  platform mute the sound. `LipSync`, `MuteRule`, `FallsSilent`.
* **The same losses are counted twice**, in counters reset on different
  occasions, from sequence numbers that wrap. `CountersAgree`,
  `LossesCounted`, `ScreenAccurate`.
* **Signals and lost blocks hit the packetiser between any two blocks.**
  `NothingLost`, `Stamped`, `OneInRate`.
* **Two processes end each other** from any point, by failure or signal.
  `KillsOther`, `InterruptCleans`, `NeverAlone`.
* **Reports must go on** from loops that skip turns and read one report a turn.
  `ReportsKeepComing`, `OneReportEach`, `SRsRead`, `StreamRead`.
* **Options come in any order**, and lists filled in two passes must agree.
  `HeardAlone`, `OwnOptions`, `Settles`, `SelectSees`.
* **Frames are counted by numbers that wrap**, recordings begin and end anywhere,
  and over an older file. `SavesNearly`, `SavesAsked`, `PlaysBack`, `PlaysAll`.
* **One buffer is used again for every frame** on its way to the FreeBSD 4
  driver, with empty packets at places that depend on a running count.
  `IsochPacking`'s `InOrder` and `Fits`.

The full list, each at its line, is under "hazards" in `PROJECT.json`.

## 2. The modules

Two abstract specifications:

* `Concealer`: what a picture shows. A receiver keeps the newest block ever
  received for every video position and hands that over as a frame.
* `FrameQueue`: what the shared ring promises. Complete frames are counted on
  one side and shown on the other, whole, one after the other.

The modules of the code:

* `VideoAssembly` is the reading process of dvrecv by itself, an action per DIF
  block: a block of the present frame (`SameFrame`) or one with another
  timestamp (`NewFrame`), which patches the slot, hands it over and moves on.
  `Conceals` is its refinement of `Concealer`: the newest block of a position is
  in the present slot if its flag is set, and in the slot before if not.
* `FrameRing` is the ring with both processes, every load and store of a lock
  word and every piece copied being a step, those that a new timestamp makes the
  reader copy from the slot before (`Patch`) included. `InOrder` is its refinement of
  `FrameQueue`. `Paced` is the pace of the sender relative to the bus. The code
  does not enforce it; the frame rate of DV does. So a behaviour chooses
  once whether the stream is `steady`: if it is, it keeps at most `Lead` frames
  ahead of the bus and the parent attached first; if not, neither is assumed.
* `PlayOut` composes the video ring, the audio ring and the writer's loop. The
  rings are the queues `FrameRing` shows them to be, `Platforms` selects one of
  three writers, `Jitter` bounds how far bus and source get apart and `Ready`
  how many frames a ring holds.
* `LossReport` has the two pairs of loss counters of dvrecv, the RR built from
  one of them and what dvsend makes of it, over a network that loses packets
  and holds them back and repeats them; `late` counts those it ever held back. `SeqMod` is the 2^16 of
  the source and `LostHalf` the 2^23 of the signed field.
* `RtcpExchange` has dvsend's loop and several dvrecvs exchanging SRs and RRs.
  Time is a whole number of seconds, as in the code's comparison of `tv_sec`.
  On Mac OS X (`macosX`) the loop does RTCP in every turn, from a `tv_prev` with
  any value, and goes on when the camera does not; the callback that sends the
  stream is the second half of `Iterate`. A dvrecv that keeps up has its sockets
  empty before the second is over. Nothing in the code makes it keep up, so any
  of them may be `slow`: its packets and SRs wait, are dropped when its socket
  buffers are full, and may wait for ever.
* `DvsendRtp` has the packetiser: one action per block read from the bus, the
  whole handler with the flush in it, and SIGUSR1/SIGUSR2 between any two.
  `DIFblocks_in_pkt` is what `-s` says, any number, and `PerPkt` how many blocks that
  makes a full packet. `Holds` says what fits into a buffer: `outbuf`, `r_outbuf` and
  `audiobuf` have `MAX_PACKET_LENGTH` bytes each.
* `Stream` composes `DvsendRtp`, a network and the reading process of dvrecv. The
  video half of the reader is `VideoAssembly` itself (an instance, with the
  number of a source frame for the contents of a block and the packetiser's
  timestamps); sound has the second ring, which has no flags, is not patched and
  has a timestamp of its own. What the network does not hold back is
  delivered before the next block is read: dvsend does not learn when a packet
  arrives, so no behaviour of either end is lost by that. `pictures` and `sounds`
  record what is handed over.
* `DvsendSockets` goes from the command line of dvsend to its sockets; a step
  per option, then per socket. File descriptor 0 is the value a field has before
  it is set, as in the code. A `next` field never written is "wild" or null.
  The multicast options are set by a step per destination. A refused
  `setsockopt` is a message and nothing else, so what the socket had stays. An
  interface is a string and `Addresses` are those that `inet_addr` makes an address
  of; the others, names of interfaces among them, are refused. An IPv4 TTL
  is cut to a byte, and an IPv6 hop limit above 255 refused.
* `DvrecvSockets` does the same for dvrecv, with the `select()` set.
* `DvrecvProcs` has dvrecv's two processes, each system call that may fail a
  step, signals at any point, and the kernel's segments and process ids.
* `DvSave` has the main loops of dvsave on four platforms, with packets lost in
  the driver, failures, a full disk and Ctrl-C. `DvPlay` is the file reader of
  dvplay; its `Conceals` is a second refinement of `Concealer`, since a block lost
  in a recording is concealed by the frame before. `Recording` composes the two
  over the file: `DvPlay` has no file of its own but what `DvSave` leaves behind.
* `IsochPacking` lays a frame out in the buffer given to the FreeBSD 4 driver, as
  dvrecv and, with the counter increased elsewhere, dvplay do it. A slot has
  the label of its header and the body last copied to it.

What a program is told when it starts (options, the platform, whom the user
will signal, whether the network loses anything) is a variable chosen in `Init`
and then left alone, so that one run covers every choice and properties can
name the ones they are about.

The `MC...` modules give values to constants a `.cfg` cannot express.
Definitions named `Bad...` stand before the one they would replace. They are
plausible mistakes, each of which makes TLC find the property it is paired with
in `PROJECT.json` violated; nothing else uses them.

What is abstracted. The contents of a block is a member of a small set, or the
frame it comes from. The place of a block in a frame is a member of a set or a
small number: the handlers treat all places of a section alike. Addresses are
names with a family. Layout of headers, texts and options that only set a
variable printed later are left out.

## 3. The runs

Deadlock is checked in `video_assembly`,
`frame_ring` and `play_out`, where some process can always go on. The others
turn it off since the program does stop (dvsave has its frames, dvplay its
file, the processes are gone, the sockets are open) or since the bound on
packets, frames or options is reached.

| run | what it shows | instance, and why it is enough |
|---|---|---|
| `video_assembly` | A frame handed over is not touched while the next is received (`SealedKept`); concealment is `Concealer`'s (`Conceals`). | 3 slots, 2 video positions and one that has no flag, 2 values, 2 timestamps: a block of the slot before last and one of the present slot differ, and the ring comes round. Unbounded behaviours. |
| `frame_ring` | At the pace of the bus the processes exclude each other (`Exclusive`) and frames reach the bus whole, in order, and all of them (`InOrder`, `EveryFrameShown`). At any pace, and with a late `attach`, the writer's mark is only where the writer is (`MarkIsWriters`) and no handler spins (`HandlerEnds`). | 3 slots, as dvrecv has, and 2 pieces, the least that can be torn. A steady stream of 7 frames comes round twice; `Lead` = 2 = N - 1 is the largest for which `InOrder` holds. Any other stream has 4 frames, one more than the ring, so that the reader meets the writer. |
| `loss_report` | The pairs of counters agree and no loss waits for a report that would be skipped, whatever the network does (`CountersAgree`). If it only loses packets, losses are not invented nor, before a wrap, missed (`LossesCounted`). The percentage shown is at most one below the share of the packets that was lost, and above it by no more than dividing by the packets received, and rounding, makes it (`ScreenAccurate`). | `SeqMod` 5 and 7 packets: one wrap from any first number, and losses of the numbers 0 and 4. The field `lost` at its real width, which 7 packets do not fill. |
| `stream` | What gets to the packetiser is sent once, in order, and no buffer is written past its end, if a packet of the size asked for fits into one (`NothingLost`), under the timestamp of its frame as long as the bus does not lose its end (`Stamped`); with the rate left alone one whole picture in `frame_drop` is sent (`OneInRate`). Undisturbed and at a constant rate, dvrecv hands over every `drop`-th picture of the camera, whole, once and in order (`PicturesArrive`), and all the sound, redundant copies or not (`SoundsArrive`). With losses no picture goes back in time (`NeverBack`), sound that is missing is that of N hand-overs ago and all other sound of one newer frame, unless copies or an end of frame lost on the bus mix frames in a packet (`SoundsKept`), and the losses reported are losses or full last packets (`LossExplained`). A late packet costs two hand-overs and no more (`HandOvers`). | 4 frames of 7 blocks with every section, 3 blocks per packet in buffers of 300 bytes, which hold 3 and no more: a frame is more than two packets and not a multiple of one, and redundant copies straddle frames. Rates 1 to 3, so windows of 3 frames slide, and the ring of 3 comes round. Up to 2 faults, anywhere: a signal, a block lost on the bus, a packet lost or held back. Sound with the picture, apart, or alone; with one redundant copy or none. |
| `play_out` | When sound is muted and when it is not (`MuteRule`, `FallsSilent`); sound and picture stay together within a slot unless one ring alone loses frames (`LipSync`). | 7 frames, more than the 5 rounds of the counter; every choice of what can lose frames; three platforms; jitter of a frame. |
| `dvrecv_procs` | The processes end together (`NeverAlone`), Ctrl-C leaves no segment (`InterruptCleans`), nobody else is killed (`KillsOther`). | The whole state space, every failing call, signals to both processes or either. |
| `rtcp_exchange` | If all dvrecvs keep up with the stream a dvrecv's RR is read before the next SR (`OneReportEach`). For each dvrecv that keeps up, however slow the others are: SRs are read (`SRsRead`), on a network without loss RRs get to dvsend for ever (`ReportsKeepComing`), and with separate audio DV/RTP is still read (`StreamRead`). | `Interval` 1, 2 dvrecvs, 3 turns a second, every third without RTCP (one in 6000 or 1000 in the code), socket buffers of 2; lossy or not, separate audio or not, any of the dvrecvs slow, dvsend on Mac OS X with any `tv_prev` or elsewhere. Unbounded behaviours. |
| `dvsend_sockets` | The one destination's reports are heard (`HeardAlone`), each group has its own TTL and interface, or the kernel's default for what was refused, and never those of another destination (`OwnOptions`); start-up ends (`Settles`). | Up to 2 destinations (a host that has IPv4 only, which `-6` makes fail, and a group of either family with an interface of its own, by name, or without) and one for audio; the options in every order and number, among them a TTL of 300 and an interface given by its address; every system call failing, the `setsockopt` calls of multicast one by one; 7 descriptors, so that the loop that opens sockets runs out of them. |
| `dvrecv_sockets` | A dvrecv that runs selects on exactly the sockets it bound, all of one family (`SelectSees`). | Every order of the options, every set of busy ports of three, port numbers that wrap at 10. |
| `recording` | What was recorded is played, whole, in order, each frame once, whatever ended dvsave (`PlaysBack`). With numbered frames `-f` saves the number asked for, give or take one (`SavesNearly`), and on Mac OS X exactly (`SavesAsked`). dvplay comes to the end of any such file, having written every end of a frame in it (`PlaysAll`), and conceals losses as `Concealer` does (`Conceals`). | Four platforms, 4 frames of 3 parts from any part on, frame numbers that wrap at 3 from any offset, in all blocks, in all but header blocks, or in none (0xf), an old file of 8 parts or none, `-f` 1, 2 or none, a packet lost anywhere, every end of dvsave at every point, dvplay's end of frame at the last part (NTSC) or before (PAL). |
| `isoch_packing` | A frame is laid out whole and in order, empty packets evenly between, nothing left of the frame before (`InOrder`), in the slots there are (`Fits`). | The numbers of the source: 25 packets a DIF sequence, 10 or 12 sequences, `frac` 15 or 17, 400 or 300 slots. 2 frames, so that the second finds the first in the buffer. |

Bounds on histories (`MaxSent`, `MaxFrame`, `MaxBurst`, `MaxTrouble`, `MaxMissing`,
`MaxDest`, `MaxAudio`, `MaxFd`, `Cap`) only stop the input; no action is disabled
by one for any other reason. `Apart` is where the audio stream's numbers begin,
far enough from the main stream's that they never meet, as two random numbers
hardly ever do. Symmetry is used for none of the runs: most check refinement or
liveness, and the rest are small.

Some modules have a `TypeOK` that no run checks: it says what values the
variables take.

### Fairness

Weak fairness is assumed of what a scheduler or the bus makes go on, and never
of the network: of the reader and the writer in `FrameRing`, of `WriteFrame` in
`PlayOut` (the bus takes a frame each frame time), of start-up and of every
process in `DvrecvProcs` (but not of a loop's failing), of the loop, the clock, the
receivers and the audio stream of each dvrecv in `RtcpExchange`, of the steps of
`DvsendSockets`, and in `Recording` of the packets or frames that come from
the camera and of dvplay's steps. The audio stream matters only where it is separate: a
dvrecv then waits for it, and `StreamRead` is about a stream that goes on. That a
second ends does not depend on the dvrecvs that are slow; for the others it is
assumed that they are fast enough for the stream, which the scheduler does not
give: the properties of `rtcp_exchange` say whom they are about. A
system call that fails is never assumed to, nor a device.

### Where the code and its documents differ

`dvrecv_procs_fork` checks `KillsOnlyOther`: that a `kill` of dvrecv never
reaches a process that is not dvrecv's. It is violated. The result of `fork` is
compared with 0 only, so after a failed `fork` and a device that fails
`kill(-1, SIGKILL)` is called (`dvrecv/main.c:292`), where the comment says
"kill the other process".

Other disagreements met while modelling, which the modules contain as the code
has them. The properties above hold with them, or state the condition under
which they hold.

dvrecv and dvsend's reports:

* `dvrecv/rtcp.c:87`: `fraction` divides the losses by the packets received,
  where `include/rtpvar.h:81` has "fraction lost since last SR/RR", so what is shown
  is too high: with one packet lost for two received it is 50 percent. At one lost
  for each received it wraps at 256. `ScreenAccurate` is about fewer lost than
  received, and `Excess` in it says how far off the percentage may be.
* `dvrecv/rtcp.c:98`: the sum in `lost` is reset with each report, where
  `include/rtpvar.h:82` has "cumul. no. pkts lost (signed!)".
* `dvrecv/read.c:121`: the RTP socket goes first, so a stream that keeps it
  readable keeps dvrecv from the SRs for ever. Hence `r \notin slow` in `SRsRead`
  and the rest.
* `dvrecv/read.c:158`: a packet that is late stays counted as lost. Hence
  `late = 0` in `LossesCounted`.
* `dvrecv/read.c:129`: with separate audio the RTCP socket is never read, and no
  report sent. Hence `~separated` in `SRsRead`.
* `dvrecv/read.c:158`: one `rtp_seq_prev` serves the main and the separate audio
  stream, which number their packets from different random numbers: losses are
  reported that never were. Hence the one stream in `LossExplained`.
* `dvrecv/read.c:188`: sound is not concealed; a block of it that is lost leaves that of
  as many frames ago as the ring has slots, which `SoundsKept` states; redundant copies, that mix the sound of two
  frames, and a frame whose end the bus lost are left out there.
* `dvrecv/read.c:195`: another timestamp is taken to mean the next frame, so a
  late packet makes dvrecv hand over a picture before it is complete, and again
  when the stream goes on. `HandOvers` counts what that costs.
* `dvrecv/write-macosX.c:126` and `dvplay/ieee1394-macosX.c:225`: 120000 bytes are
  copied whatever the format; of a PAL frame, which has 144000, the last two DIF
  sequences are missing.
* `dvsend/ieee1394-linux.c:134`: `readcount % 6000` is true but for one turn in
  6000, where the comment has "just do RTCP process sometimes".
* `dvrecv/main.c:279`: a child that outlives an interrupted parent kills by a
  pid that may be another process's by then. Hence `target # "parent"` in
  `KillsOther`.
* `dvsend/ieee1394-macosX.c:117`: `tv_prev` has no value when it is first read. Hence
  `since # Never` in `ReportsKeepComing`. In line 119 the result of opening the
  device is stored and not looked at: dvsend goes on without a stream, as it does
  when the callback fails.

* `dvrecv/sig-behavior.c:64`: before the segments exist the handler calls `shmctl`
  with the identifier 0, which may be a segment of somebody else's.
  `DvrecvProcs` has no segments but dvrecv's, so `InterruptCleans` says nothing of it.

dvsend's packets:

* `dvsend/main.c:211`: a `-s` above 17 or below 4 makes dvsend print "MUST be,  3 <
  DIFblocks < 18", and go on. 18 blocks still fit into the buffers of
  `dvsend/rtp.c:19`; with 19 or more they are overrun. What happens then no module
  says; hence `Holds(PerPkt)` in `NothingLost` and `PacketsFit`. With 0 or less each
  packet has one block, and the properties hold.
* `dvsend/sig-behavior.c:75`: a signal in mid-frame leaves half a picture sent.
* `dvsend/rtp.c:264`: redundant audio of several frames goes out in one packet,
  where `dvsend/rtp.c:305` has "data from different frame can not be included in
  a single packet". `Stamped` leaves the copies out, and `SoundsArrive` shows that
  they do no harm as long as the sound has no stream of its own (`SoundsComplete` for
  every layout and number of copies). If it has one,
  the copies still go out on the main stream, and their timestamps and those of
  the audio stream take turns handing over half a sound each.
* `dvsend/rtp.c:223`: the same, when the bus loses the last block of a frame.
* `dvsend/rtp.c:313`: when the packets of a frame are exactly full the sequence
  number still grows at its end, where line 312 has "RTP sequence number will
  increase every time a RTP packet is sent", and dvrecv counts a loss. Hence
  `EvenEnds` in `LossExplained`.
* `dvsend/rtp.c:330`: the timestamp of separate audio does not grow when no block
  of it is left at the end of a frame. Hence the last hypothesis of `Stamped`.

The command lines:

* `dvsend/udp.c:733`: a second destination on the same port makes dvsend deaf to
  the reports of both. Hence the one destination in `HeardAlone`.
* `dvsend/udp.c:228`: `-t` behind `-h`, as in `dvsend/dvsend.1:73`, has no effect.
* `dvsend/multicast.c:184`: `-M` has no effect at all. It sets `default_multi_ifname6`
  (`dvsend/main.c:202`), which nothing copies to a destination, where
  `dvsend/dvsend.1:67` has "Use interface "ifname" for sending multicast packets".
  `Wanted` has an IPv6 group without interface accordingly.
* `dvsend/multicast.c:159`: the interface of an IPv4 group goes through `inet_addr`,
  so a name like that of the example in `dvsend/dvsend.1:69`, `fxp0`, is no interface.
* `dvsend/multicast.c:149`, `160`, `177` and `187`: a refused call is reported and dvsend
  goes on with the kernel's default; hence `Refusals` in `OwnOptions`.
* `dvsend/multicast.c:146`: the TTL of an IPv4 group is cut to a byte, so that `-t 300`
  sets 44.
* `dvsend/udp.c:777`: with `-d` dvsend does not start.
* `dvrecv/multicast.c:157`: where IPv6 is built in, the example of `-j` in
  `dvrecv/dvrecv.1:48` fails; `dvrecv/multicast.c:227`: `-M` is not used for an
  IPv4 group.

dvsave and dvplay:

* `dvsave/linux.c:116`: the limit tested is a field nothing sets, so `-f` does not
  stop a recording. `dvsave/netbsd.c:112`: one that begins at frame number 0 or
  in mid-frame has another number of frames. With a
  camera that numbers them 0xf each packet counts as one, and with one that numbers
  header blocks too no frame does but perhaps the first: the number of the header
  is remembered (line 120), so that the blocks behind it bring no new one, and `-f`
  never stops the recording. `SavesAsked` is about Mac OS X, and `SavesNearly`
  about cameras that number all blocks but those of headers.
* `dvsave/macosX.c:317`: after a failed write nobody sets `finished`, and dvsave
  sleeps until it is interrupted (`pc = "asleep"`).
* `dvsave/main.c:170`: without `O_TRUNC` the tail of a longer old file stays, and is
  played (`PlaysBack` says what of it).
* `dvplay/file.c:136`: a PAL frame is written at DIF sequence 9 of 0..11, so two
  sequences of it are shown with the next frame. Hence `endPart = Parts` in
  `PlaysBack`; `PlaysAll` and `Conceals` hold all the same.
* `dvplay/ieee1394-freebsd4.c:54`: the buffer of 300 slots is too small for a PAL
  frame, which takes 319. Hence the exception in `Fits`.

## 4. The proofs

`VideoAssemblyProofs`, from `NAssumption` (the ring has a slot),
`PosAssumption` (a position with a flag is not one without), `DataAssumption`
(the zeroed block is a block) and `TsAssumption` (0, the initial
`rtp_ts_prev`, is a timestamp):

* `TypeCorrect`: `TypeOK` is an invariant; it is inductive.
* `FramesKept`: `SealedKept` is an invariant, inductive together with `TypeOK`.
* `Implements`: the specification implies `Conceals`. Each step is taken to a
  step of `Concealer`: a block of the present frame to `Receive` (or to no
  step, if its position has no flag), a new timestamp to `HandOver` or
  `HandOverOnly`. The lemmas `StoreIsReceive` and `HandOverIsReceive` say what a
  step does to `Newest`; the second needs that the slot the ring moves on from
  is the one before the slot it moves on to (`RingPointers`).

`FrameRingProofs`, from `NAssumption`, `PartAssumption` and `LeadAssumption` (there
is a slot, there is a piece, the bounds are numbers):

* `TypeCorrect`: `TypeOK`, strengthened by what a frame handed over leaves room
  for (`Numbered`), for any pace and any start.
* `MarkStays`: `MarkIsWriters`, again for any pace. The reader's stores and the
  late `attach` can only take the mark away.
* `Excludes`: `Exclusive`, and `Implements`: `InOrder`, the refinement of
  `FrameQueue`; both for every ring and every number of pieces, as long as
  `Lead < N`. Without that the theorems are false: TLC finds a torn picture.

  Neither follows from the locks, which exclude nobody, so the invariant has to
  say where everything is. `Pointers`: the reader is `Ahead` slots in front of
  the writer, less than a ring, and the two meet before the first frame only.
  `Marks`: the slots marked `DATA_READY` are exactly those between the two, but
  for the first slot, which the first packet marks with nothing in it.
  `Contents`: each of these slots holds its frame, whole, and so does the
  writer's; so do the pieces received of the present frame and, once the next
  has begun, those patched so far (`PatchKeeps`).
  `Pictures`: what the writer has copied, and what is on the bus, is of its
  frame or the one before. `At(d)`, the slot `d` places ahead of the writer, ties
  slots to frame numbers, and `Places` says that for `d` below `N` these are
  different slots; the lemmas `...Keeps` go through the steps. A frame can only
  begin when `Paced`, which keeps `Ahead` below `N`, and that is where the
  hypothesis is used.

`ReportProofs`, about the counters (from `SeqAssumption`, `LostAssumption`,
`BoundAssumption`), the exchange (`RtcpAssumption`) and dvsend's sockets
(`SocketsAssumption`):

* `TypeCorrect`: `TypeOK`, in particular that a fraction fits in its 8 bits and
  a `lost` in its signed field, whatever the counters are.
* `Bookkeeping`: `CountersAgree`. It is inductive together with the type.
* `LossCounted`: `LossesCounted`, that is `NoFalseLoss` and `CountsAll`. Neither is inductive: both
  speak of sums, and a gap between two sequence numbers says how many packets
  were lost only if the numbers have not been used up in between. `LossInv`
  adds what ties numbers to losses: `InOrder` bounds the gap that the next
  packet would show by the losses since the last one, wrap or not; `Unwrapped`
  says that before a wrap it is exactly them and that what is counted is all
  but what was lost before the receiver had anything to compare with.
* `ScreenRight`: `ScreenAccurate`, until so many losses have been reported that the
  signed field `lost` may be full (2^23 of them: the bound of the run is never
  near). `RatioKept` says what an RR carries, `PercentOfByte` that dividing by
  256 and back loses no more than one percent, and `PercentOfShare` how far the lost
  by the received are from the lost by the sent, for every two numbers.
* `ReportsDoNotPileUp`: `OneReportEach`, and so for dvrecvs that keep up, under
  `TurnsForAll`: there are finitely many dvrecvs, and the turns of a second, less those without RTCP, are at least as many.
  Without it the theorem is false, since a turn reads one report. `Answered` says
  that a dvrecv with an SR still to answer has no RR under way, `Single` that none
  has two, and `ReadInTime` that the turns left before the next SR suffice for the
  reports that wait and those still to be sent.
* `HeardByOne`: `HeardAlone`, and `OptionsOwn`: `OwnOptions`, for any order of options,
  any resolver and any failing call. Both rest on `SocketInv`: no two places in the
  lists hold the same descriptor, and all are below the next one to be opened.
  `HeardInv` follows the RTCP socket of a single destination from its opening to
  its binding. `MulticastInv` says that the groups whose turn has been, and no other
  descriptors, have what was asked for or the kernel's default where it was refused
  (`GivenUpTo`); since each descriptor is one group's, no turn undoes an earlier
  one, and a socket that is set has had the default before.

`WriterProofs`, about `PlayOut` (from `PlatformAssumption` and `BoundAssumption`) and
`IsochPacking` (`PackingAssumption`):

* `Mutes`: `MuteRule`, from `MuteInv`: the counter of either file is the number of
  rounds without sound up to five and 10 from then on, and the flag that FreeBSD 4
  keeps is the one Linux computes anew.
* `StaysInSync`: `LipSync`, for every size of the rings. It speaks of the frames
  shown, and those come out of the queues, so the invariant (`Streams`) says what is
  in them: in a ring that loses no whole frame the queue holds consecutive numbers
  up to the frame before the one being received (`Gapless`), in any other nothing
  newer (`Ring`). `HandsOver` and `Takes` are what the two ends do to a ring.
* `LaidOutInOrder`: `IsochPacking`'s `InOrder`, for any number of packets and any
  places the empty ones fall at, the buffer being used again for each frame.
* `StaysInBuffer`: `Fits`, under `Room`: the buffer holds the packets of a frame and
  the empty ones that can come between. `RoomInSource` says that the numbers of the
  source are such, those of PAL in dvplay excepted.

`DvrecvProofs`, about `DvrecvProcs` (from `SignalsAssumption`) and `DvrecvSockets`
(`Ports`, `Groups` and the rest arbitrary):

* `KillsOnlyEachOther`: `KillsOther`, whatever fails and in whatever order the
  processes are signalled. What makes it inductive is `NoOrphan`: a child whose
  parent is gone is on its way out too and will not kill any more. For that one has
  to know who can have a signal to handle (`SignalKnown`) and that a parent with a
  signal to handle does not fork (`ForkKnown`).
* `SelectsAll`: `SelectSees`. The invariant follows the sockets one by one: at each
  step those open so far (`Opened`), and no others, are watched (`Watched`). That
  two descriptors differ is not needed.

`DvsendRtpProofs`, from `FrameAssumption`, `SizeAssumption` (`-s` is an integer, the
size of the buffers a number) and `OptionAssumption`,
for every layout of a frame, packet size, number of copies and rate, and with any
number of signals and lost blocks:

* `Fits`: `PacketsFit`, which `NothingLost` includes: if a full packet fits into a buffer
  no block is stored behind its end. Each of the three has fewer blocks than a full
  packet whenever a block comes (`Room`). `EighteenBlocks`: with 1500 bytes the
  hypothesis is a `-s` of 18 or less.
* `OneFramePerPacket`: `StampedMain`, the half of `Stamped` about the main stream.
  Until the end of a frame is lost the timestamp is the number of the frame on
  the bus and all that waits in the buffer is of it (`OfFrame`).

  A lemma for each function of the packetiser (`AddOutWell`, ... `FlushWell`) says
  that it keeps both. Another set (`...Fields`) says what it does to each field
  of the state, and all further proofs, those about the stream included, use it.
* `SentOnce`: `NothingLost`, under the same hypothesis. Without taking sequences apart: what the packets of a
  stream carry, with what waits in its buffer, is the set of all the blocks kept
  for it (`Turn`), packets are in the order of the bus and the buffer is behind
  them, and the block read next is behind everything (`Behindhand`). A copy is
  another packet and brings no block of its own.
* `OwnTimestamps`: `Stamped`. The hard half is separate audio, whose timestamp grows
  at the end of a frame only if something of it is left in the buffer
  (`rtp.c:330`). So the invariant has to know how full the buffer is: as full as
  the number of audio blocks of the frame so far leaves it (`Filled`).
* `RateKept`: `OneInRate`. The frames whose pictures are sent are the multiples of
  the rate (`Undropped`), and `OneMultiple` says that of any `drop` numbers in a row
  exactly one is.

`StreamProofs`, from the same and `SlotAssumption`, about the whole way from one bus
to the other, for every ring as well:

* `SenderKept`: a step of the stream is a step of the packetiser or none
  (`SenderStep`), so what is proved of dvsend alone holds here.
* `StreamConceals`: the reader here implements `Concealer` on anything dvsend and
  the network give it. `ReaderIs` says that it behaves as `VideoAssembly`; for that
  it must never be given a position that is none, which rests on the types of
  what is under way (`NetInv`).
* `HandOversBounded`: `HandOvers`. `NetInv` says that what is under way is the end of
  what was sent on either stream (`Wired`, with the two numbers of packets that
  left the network). `Paid` adds to the
  pictures handed over those that may have to follow without a new timestamp
  (`Owed`, from the packet at hand and the newest timestamp that left the
  network) and two for every packet still held back, and bounds the sum by the
  timestamps that left the network and two for every packet ever held back.
* `NeverOlder`: `NeverBack`. What is still to come (`Soon`), from the packet at hand
  to the camera, comes after what the reader has newest of every place, in the
  order of the bus (`BehindSoon`).
* `LossesCounted`: `LossExplained`. At the sender, numbers skipped are the ends of
  frames that left an empty buffer (`SkipInv`, from the remainder of blocks by
  packets); at the receiver, losses counted are packets lost and numbers skipped
  in what has left the network (`Counted`).
* `PicturesComplete`: `PicturesArrive`. Every block of a picture sent is handed over,
  or read (`IsRead`), or among those on the way (`Unread`); the pictures handed over
  are those of the multiples of `drop` before the present one (`Arrived`). That a
  new timestamp comes only once everything before it is read is `NextFrame`.
* `SoundIsFramewise`: `SoundsKept`. The ring of sound has no flags, so its history
  has to be tied to its slots: `Rolled` says that slot `c + d` holds what was heard
  `N - d` hand-overs ago, and each sound is of one frame but where it is still
  what its slot had (`Single`). `RolledFill` and `RolledOn` are about rings alone. `InTime` is
  the order of what is under way by frame, from `OwnTimestamps`.
* `SoundsComplete`: `SoundsArrive`, if a frame has sound at all (`Sound # {}`; without
  any there is nothing to hand over). A copy may bring blocks of the frame before
  under the timestamp of this one, and they do go into the slot of this one, so the
  invariant (`Heeded`) is about what will still overwrite them. `Gapless`: the copies
  are gathered without a gap, so behind a block of the frame before there is, in the
  same packet, the block of this frame at the same place, unless that is still to
  come from the bus (`Sane`). `Due`: each block of sound that has left the bus is on
  its way or in its slot. So at the end of a frame, with nothing on the way, all of
  it is in the slot (`AllHeard`), and the next timestamp hands it over.

`RecordingProofs`, from `SaveAssumption` and `EndAssumption`, for frames of any number
of packets, an old file of any length and every end of dvsave:

* `SavesNearlyAsked`: `SavesNearly`. `PiecesInv` says which packets are in the file: all
  that the camera sent from the first on, so its whole frames are an interval
  (`WholeRange`). `CountInv` ties the counter to the camera: once a numbered packet
  was sent it is the number of its frame, less one if the first frame had the number
  that `seq_prev` starts with. `NextRemainder` says that frames that follow each
  other have different numbers, which needs a cycle of two at least.
* `RecordingPlaysBack`: `PlaysBack`. `FileInv` is what the two programs have between
  them: the pieces of the recording follow each other, then those of the old file
  do; `WholeInv` counts the ends of frames. `PlayInv` says what dvplay has made of as
  much as it has read: within the recording (`GoodInv`) the buffer has the frame of
  the last piece up to it and then the frame before; behind it (`RestInv`) it fills
  up with the old file, and is full of it when the second frame is written.
* `PlayConceals`: `Conceals`. A block read is `Receive`, a frame written `HandOverOnly`,
  and everything dvsave does is no step.

A theorem is about every number of slots, every set of positions, any modulus,
any number of packets, every set of ports; a run is about the instance of its `.cfg`.

Only model-checked: liveness, which needs fairness and `ENABLED`, and the prover
treats neither. Every safety invariant of the runs is proved.

## 5. What is not modelled

* FreeBSD 5 (`*-freebsd5.c` of dvrecv, dvsave, dvplay): these files do not
  compile as they stand. The NetBSD writers of dvrecv and dvplay are stubs.
* On Mac OS X dvsend's callback is fed by a framework that is not in the
  repository. `RtcpExchange` has it send in turn with the loop; the two share the
  destination lists, which neither changes but for a counter nobody reads.
* IEEE1394 devices: opening, `ioctl`s and enumeration are calls that work or fail.
* `info.c`, version texts, the build system.
* `free_shared_memory` is never called. A dvrecv that ends otherwise than by
  its signal handler leaves its two segments in the system: no step of the
  code removes them, and `InterruptCleans` is accordingly about Ctrl-C.
* A child of dvrecv that cannot attach returns and leaves the parent alone,
  showing the same frame for ever: `NeverAlone` excepts that case (`deserted`).
* No option of dvsend sets `NO_AUDIO_STREAM`; `DvsendRtp` has the flag, and no
  run sets it.
* A failing `sendto` is a packet that the network lost; the loop over the
  destinations goes on with the next.
* The number of bytes in a frame, and so what Mac OS X leaves out of a PAL frame.
* How a port of 65535 plus one is chosen by the kernel (`DvrecvSockets` has the
  wrap to 0).

## 6. Plan

Done: the modules above; the compositions `Stream` (dvsend, network, dvrecv) and
`Recording` (dvsave, file, dvplay); the layout of bus packets; and proofs of their
safety invariants.

Next: the separate audio stream in `LossExplained`, that is, what `rtp_seq_prev` counts
when two streams take turns at it.
