---------------------------- MODULE StreamProofs ----------------------------
(***************************************************************************)
(* From the bus to the other end, for every layout of a frame, every size  *)
(* of a packet and of the ring, all options and any number of faults: what *)
(* dvsend keeps up alone it keeps up before the network, and what dvrecv   *)
(* hands over is bounded by what was sent.                                 *)
(***************************************************************************)
EXTENDS Stream, DvsendRtpProofs

(* The pictures are assembled as in VideoAssembly, whose lemmas hold here. *)
VP == INSTANCE VideoAssemblyProofs
        WITH Blk <- Shown, Sys <- Places({"header", "subcode", "vaux"}),
             Data <- 0 .. MaxFrame, Zero <- 0, Ts <- Nat, frame <- ring

LEMMA RingAssumptions ==
  /\ N \in Nat \ {0} /\ 0 \in 0 .. MaxFrame /\ 0 \in Nat
  /\ Shown \cap Places({"header", "subcode", "vaux"}) = {}
  BY SlotAssumption, OptionAssumption DEF Shown, Places
-----------------------------------------------------------------------------
(* dvsend does not know of the network: its steps are those of DvsendRtp, so
   all its theorems hold here. *)
LEMMA SenderStep == [StreamNext]_<<vars, network, reader>> => [Next]_vars
<1>1. ASSUME Done1 PROVE UNCHANGED vars
  BY <1>1 DEF Done1
<1>2. ASSUME NEW p, Recv(p) PROVE UNCHANGED vars
  BY <1>2 DEF Recv
<1> QED
  BY <1>1, <1>2 DEF StreamNext, Send, Lose, Hold, RecvNext, RecvLate, ReadPicture, ReadSound

(* rtp.c, before any network and any receiver: blocks sent once and in turn,
   under the timestamps of their frames, at the rate asked for. *)
THEOREM SenderKept == StreamSpec => [](NothingLost /\ Stamped /\ OneInRate)
<1>1. StreamInit => Init
  BY DEF StreamInit
<1>2. StreamSpec => Spec
  BY <1>1, SenderStep, PTL DEF StreamSpec, Spec
<1> QED
  BY <1>2, SentOnce, OwnTimestamps, RateKept, PTL
-----------------------------------------------------------------------------
(* Packets are numbered and stamped in the order they are sent; a step of the
   packetiser adds to them and takes nothing back.  Only sound is copied or
   goes out on the audio stream. *)
Grown(q, r) == Len(q) <= Len(r) /\ \A n \in 1 .. Len(q) : r[n] = q[n]
Follows(t, v) == Grown(t.sent, v.sent) /\ Grown(t.asent, v.asent)

Ranked(q, ts, seq, first) ==
  /\ \A n \in 1 .. Len(q) : q[n].ts \in first .. ts /\ q[n].seq \in 1 .. seq - 1
  /\ \A m, n \in 1 .. Len(q) : m < n => q[m].ts <= q[n].ts /\ q[m].seq < q[n].seq

OnlySound(q) == \A m \in 1 .. Len(q) : q[m].i \in Sound
SoundCopied(packets) ==
  \A n \in 1 .. Len(packets) : packets[n].copy => OnlySound(packets[n].blocks)
SoundSent(packets) == \A n \in 1 .. Len(packets) : OnlySound(packets[n].blocks)

Ranks(t) == /\ t.ts \in Nat \ {0} /\ t.seq \in Nat \ {0}
            /\ t.ats \in Nat /\ Apart <= t.ats /\ t.aseq \in Nat \ {0}
            /\ Ranked(t.sent, t.ts, t.seq, 1) /\ Ranked(t.asent, t.ats, t.aseq, Apart)
            /\ OnlySound(t.red) /\ OnlySound(t.aud)
            /\ SoundCopied(t.sent) /\ SoundSent(t.asent)

LEMMA AppendIs ==
  ASSUME NEW S, NEW q \in Seq(S), NEW x \in S
  PROVE  /\ Append(q, x) \in Seq(S) /\ Len(Append(q, x)) = Len(q) + 1 /\ Len(q) \in Nat
         /\ Append(q, x)[Len(q) + 1] = x
         /\ \A n \in 1 .. Len(q) : Append(q, x)[n] = q[n]
  OBVIOUS

LEMMA RankedAppend ==
  ASSUME NEW q \in Seq(PacketOf), NEW p \in PacketOf, NEW ts \in Nat, NEW seq \in Nat \ {0},
         NEW first \in Nat, first <= ts, p.ts = ts, p.seq = seq, Ranked(q, ts, seq, first)
  PROVE  Ranked(Append(q, p), ts, seq + 1, first) /\ Grown(q, Append(q, p))
<1> DEFINE r == Append(q, p)
<1>1. /\ Len(r) = Len(q) + 1 /\ Len(q) \in Nat /\ r[Len(q) + 1] = p
      /\ \A n \in 1 .. Len(q) : r[n] = q[n]
  BY AppendIs
<1> HIDE DEF r
<1>2. \A n \in 1 .. Len(r) : r[n].ts \in first .. ts /\ r[n].seq \in 1 .. seq + 1 - 1
  <2> TAKE n \in 1 .. Len(r)
  <2>1. CASE n \in 1 .. Len(q)
    BY <1>1, <2>1 DEF Ranked
  <2>2. CASE n = Len(q) + 1
    BY <1>1, <2>2
  <2> QED
    BY <1>1, <2>1, <2>2
<1>3. ASSUME NEW m \in 1 .. Len(r), NEW n \in 1 .. Len(r), m < n
      PROVE  r[m].ts <= r[n].ts /\ r[m].seq < r[n].seq
  <2>1. m \in 1 .. Len(q) /\ r[m] = q[m]
    BY <1>1, <1>3
  <2>2. CASE n \in 1 .. Len(q)
    BY <1>1, <1>3, <2>1, <2>2 DEF Ranked
  <2>3. CASE n = Len(q) + 1
    <3>1. q[m].ts \in first .. ts /\ q[m].seq \in 1 .. seq - 1
      BY <2>1 DEF Ranked
    <3> QED
      BY <1>1, <2>1, <2>3, <3>1
  <2> QED
    BY <1>1, <2>2, <2>3
<1>4. Ranked(r, ts, seq + 1, first)
  BY <1>2, <1>3 DEF Ranked
<1> QED
  BY <1>1, <1>4 DEF Grown, r

LEMMA RankedCopies ==
  ASSUME NEW q \in Seq(PacketOf), NEW c \in Seq(PacketOf), NEW ts \in Nat,
         NEW seq \in Nat \ {0}, NEW first \in Nat, first <= ts, Ranked(q, ts, seq, first),
         \A i \in 1 .. Len(c) : c[i].ts = ts /\ c[i].seq = seq + i - 1
  PROVE  Ranked(q \o c, ts, seq + Len(c), first) /\ Grown(q, q \o c)
<1> DEFINE r == q \o c
<1>1. /\ Len(r) = Len(q) + Len(c) /\ Len(q) \in Nat /\ Len(c) \in Nat
      /\ \A n \in 1 .. Len(q) : r[n] = q[n]
      /\ \A n \in 1 .. Len(r) : n > Len(q) => r[n] = c[n - Len(q)] /\ n - Len(q) \in 1 .. Len(c)
  OBVIOUS
<1> HIDE DEF r
<1>2. \A n \in 1 .. Len(r) : n > Len(q) => r[n].ts = ts /\ r[n].seq = seq + (n - Len(q)) - 1
  BY <1>1
<1>3. \A n \in 1 .. Len(r) : r[n].ts \in first .. ts /\ r[n].seq \in 1 .. seq + Len(c) - 1
  <2> TAKE n \in 1 .. Len(r)
  <2>1. CASE n \in 1 .. Len(q)
    <3>1. r[n].ts \in first .. ts /\ r[n].seq \in 1 .. seq - 1
      BY <1>1, <2>1 DEF Ranked
    <3> QED
      BY <1>1, <3>1
  <2>2. CASE n > Len(q)
    BY <1>1, <1>2, <2>2
  <2> QED
    BY <1>1, <2>1, <2>2
<1>4. ASSUME NEW m \in 1 .. Len(r), NEW n \in 1 .. Len(r), m < n
      PROVE  r[m].ts <= r[n].ts /\ r[m].seq < r[n].seq
  <2>1. CASE n \in 1 .. Len(q)
    <3>1. m \in 1 .. Len(q) /\ r[m] = q[m] /\ r[n] = q[n]
      BY <1>1, <1>4, <2>1
    <3> QED
      BY <1>4, <2>1, <3>1 DEF Ranked
  <2>2. CASE n > Len(q) /\ m \in 1 .. Len(q)
    <3>1. r[m].ts \in first .. ts /\ r[m].seq \in 1 .. seq - 1
      BY <1>1, <2>2 DEF Ranked
    <3> QED
      BY <1>1, <1>2, <2>2, <3>1
  <2>3. CASE n > Len(q) /\ m > Len(q)
    BY <1>1, <1>2, <1>4, <2>3
  <2> QED
    BY <1>1, <2>1, <2>2, <2>3
<1> QED
  BY <1>1, <1>3, <1>4 DEF Ranked, Grown, r

LEMMA RankedLater ==
  ASSUME NEW q, NEW ts \in Nat, NEW seq \in Nat, NEW first \in Nat, Ranked(q, ts, seq, first)
  PROVE  /\ Ranked(q, ts + 1, seq, first) /\ Ranked(q, ts, seq + 1, first)
         /\ Ranked(q, ts + 1, seq + 1, first)
<1>1. \A n \in 1 .. Len(q) : q[n].ts \in first .. ts + 1 /\ q[n].seq \in 1 .. seq + 1 - 1
      /\ q[n].seq \in 1 .. seq - 1 /\ q[n].ts \in first .. ts
  BY DEF Ranked
<1> QED
  BY <1>1 DEF Ranked

LEMMA GrownTrans ==
  ASSUME NEW q \in Seq(PacketOf), NEW r \in Seq(PacketOf), NEW x \in Seq(PacketOf),
         Grown(q, r), Grown(r, x)
  PROVE  Grown(q, x)
  BY DEF Grown

LEMMA SoundAppend ==
  ASSUME NEW q \in Seq(BlockOf), NEW b \in BlockOf, b.i \in Sound, OnlySound(q)
  PROVE  OnlySound(Append(q, b))
<1> DEFINE r == Append(q, b)
<1>1. /\ Len(r) = Len(q) + 1 /\ Len(q) \in Nat /\ r[Len(q) + 1] = b
      /\ \A n \in 1 .. Len(q) : r[n] = q[n]
  BY AppendIs
<1> HIDE DEF r
<1>2. ASSUME NEW m \in 1 .. Len(r) PROVE r[m].i \in Sound
  <2>1. CASE m \in 1 .. Len(q)
    BY <1>1, <2>1 DEF OnlySound
  <2>2. CASE m = Len(q) + 1
    BY <1>1, <2>2
  <2> QED
    BY <1>1, <2>1, <2>2
<1> QED
  BY <1>2 DEF OnlySound, r

LEMMA SoundEmpty == OnlySound(<<>>)
<1>1. Len(<<>>) = 0
  OBVIOUS
<1> QED
  BY <1>1 DEF OnlySound

LEMMA SoundSentAppend ==
  ASSUME NEW q \in Seq(PacketOf), NEW p \in PacketOf
  PROVE  /\ SoundCopied(q) /\ ~p.copy => SoundCopied(Append(q, p))
         /\ SoundSent(q) /\ OnlySound(p.blocks) => SoundSent(Append(q, p))
<1> DEFINE r == Append(q, p)
<1>1. /\ Len(r) = Len(q) + 1 /\ Len(q) \in Nat /\ r[Len(q) + 1] = p
      /\ \A n \in 1 .. Len(q) : r[n] = q[n]
  BY AppendIs
<1> HIDE DEF r
<1>2. \A n \in 1 .. Len(r) : n \in 1 .. Len(q) \/ n = Len(q) + 1
  BY <1>1
<1>3. SoundCopied(q) /\ ~p.copy => SoundCopied(r)
  BY <1>1, <1>2 DEF SoundCopied
<1>4. SoundSent(q) /\ OnlySound(p.blocks) => SoundSent(r)
  BY <1>1, <1>2 DEF SoundSent
<1> QED
  BY <1>3, <1>4 DEF r

(* The steps of the packetiser, one after the other. *)
Ordered(t, v) == Ranks(v) /\ Follows(t, v)

LEMMA AddOutRanks ==
  ASSUME NEW t \in State, Ranks(t), NEW b \in BlockOf
  PROVE  Ordered(t, AddOut(t, b))
<1> DEFINE v == AddOut(t, b)
           x == Append(t.out, b)
           p == Packet(t.seq, t.ts, x, FALSE)
<1>1. /\ v.aud = t.aud /\ v.asent = t.asent /\ v.ats = t.ats /\ v.aseq = t.aseq
      /\ v.ts = t.ts /\ v.red = t.red
      /\ \/ v.sent = t.sent /\ v.seq = t.seq
         \/ v.sent = Append(t.sent, p) /\ v.seq = t.seq + 1
  BY AddOutFields
<1>2. /\ t.sent \in Seq(PacketOf) /\ t.asent \in Seq(PacketOf) /\ x \in Seq(BlockOf)
      /\ t.seq \in Nat \ {0} /\ t.ts \in Nat \ {0}
  BY DEF State, Ranks
<1>3. p \in PacketOf /\ p.ts = t.ts /\ p.seq = t.seq /\ ~p.copy
  BY <1>2 DEF Packet, PacketOf
<1> HIDE DEF v, x, p
<1>4. Grown(t.sent, t.sent) /\ Grown(t.asent, t.asent)
  BY <1>2 DEF Grown
<1>5. /\ Ranked(Append(t.sent, p), t.ts, t.seq + 1, 1) /\ Grown(t.sent, Append(t.sent, p))
      /\ SoundCopied(Append(t.sent, p))
  BY <1>2, <1>3, RankedAppend, SoundSentAppend DEF Ranks
<1>6. Ranked(v.sent, v.ts, v.seq, 1) /\ Grown(t.sent, v.sent) /\ SoundCopied(v.sent)
  BY <1>1, <1>4, <1>5 DEF Ranks
<1>7. v.ts \in Nat \ {0} /\ v.seq \in Nat \ {0}
  BY <1>1, <1>2
<1> QED
  BY <1>1, <1>4, <1>6, <1>7 DEF Ordered, Ranks, Follows, v

LEMMA AddAudioRanks ==
  ASSUME NEW t \in State, Ranks(t), NEW b \in BlockOf, b.i \in Sound
  PROVE  Ordered(t, AddAudio(t, b))
<1> DEFINE v == AddAudio(t, b)
           x == Append(t.aud, b)
           p == Packet(t.aseq, t.ats, x, FALSE)
<1>1. /\ v.sent = t.sent /\ v.ats = t.ats /\ v.ts = t.ts /\ v.seq = t.seq /\ v.red = t.red
      /\ \/ v.asent = t.asent /\ v.aud = x /\ v.aseq = t.aseq
         \/ v.asent = Append(t.asent, p) /\ v.aud = <<>> /\ v.aseq = t.aseq + 1
  BY AddAudioFields
<1>2. /\ t.sent \in Seq(PacketOf) /\ t.asent \in Seq(PacketOf) /\ t.aud \in Seq(BlockOf)
      /\ x \in Seq(BlockOf) /\ t.aseq \in Nat \ {0} /\ t.ats \in Nat /\ Apart <= t.ats
      /\ Apart \in Nat
  BY ApartType DEF State, Ranks
<1>3. p \in PacketOf /\ p.ts = t.ats /\ p.seq = t.aseq /\ ~p.copy /\ p.blocks = x
  BY <1>2 DEF Packet, PacketOf
<1>4. OnlySound(x)
  BY <1>2, SoundAppend DEF Ranks
<1> HIDE DEF v, x, p
<1>5. Grown(t.sent, t.sent) /\ Grown(t.asent, t.asent)
  BY <1>2 DEF Grown
<1>6. /\ Ranked(Append(t.asent, p), t.ats, t.aseq + 1, Apart)
      /\ Grown(t.asent, Append(t.asent, p)) /\ SoundSent(Append(t.asent, p))
  BY <1>2, <1>3, <1>4, RankedAppend, SoundSentAppend DEF Ranks
<1>7. /\ Ranked(v.asent, v.ats, v.aseq, Apart) /\ Grown(t.asent, v.asent)
      /\ SoundSent(v.asent) /\ OnlySound(v.aud)
  BY <1>1, <1>4, <1>5, <1>6, SoundEmpty DEF Ranks
<1>8. v.aseq \in Nat \ {0}
  BY <1>1, <1>2
<1> QED
  BY <1>1, <1>5, <1>7, <1>8 DEF Ordered, Ranks, Follows, v

LEMMA AddRedundantRanks ==
  ASSUME NEW t \in State, Ranks(t), NEW b \in BlockOf, b.i \in Sound, redundancy \in Nat
  PROVE  Ordered(t, AddRedundant(t, b))
<1> DEFINE v == AddRedundant(t, b)
           x == Append(t.red, b)
<1>1. /\ v.aud = t.aud /\ v.asent = t.asent /\ v.ats = t.ats /\ v.aseq = t.aseq
      /\ v.ts = t.ts /\ (v.red = x \/ v.red = <<>>)
  BY AddRedundantFields
<1>2. PICK c \in Seq(PacketOf) :
         /\ v.sent = t.sent \o c /\ v.seq = t.seq + Len(c)
         /\ \A i \in 1 .. Len(c) :
              /\ c[i].copy = TRUE /\ c[i].blocks = x
              /\ c[i].ts = t.ts /\ c[i].seq = t.seq + i - 1
  BY AddRedundantFields
<1>3. /\ t.sent \in Seq(PacketOf) /\ t.asent \in Seq(PacketOf) /\ t.red \in Seq(BlockOf)
      /\ t.seq \in Nat \ {0} /\ t.ts \in Nat \ {0} /\ 1 <= t.ts
  BY DEF State, Ranks
<1>4. OnlySound(x)
  BY <1>3, SoundAppend DEF Ranks
<1> HIDE DEF v, x
<1>5. Grown(t.asent, t.asent)
  BY <1>3 DEF Grown
<1>6. Ranked(v.sent, v.ts, v.seq, 1) /\ Grown(t.sent, v.sent)
  <2>1. Ranked(t.sent, t.ts, t.seq, 1)
    BY DEF Ranks
  <2>2. Ranked(t.sent \o c, t.ts, t.seq + Len(c), 1) /\ Grown(t.sent, t.sent \o c)
    BY <1>2, <1>3, <2>1, RankedCopies
  <2> QED
    BY <1>1, <1>2, <2>2
<1>7. SoundCopied(v.sent)
  <2>1. /\ Len(v.sent) = Len(t.sent) + Len(c) /\ Len(t.sent) \in Nat /\ Len(c) \in Nat
        /\ \A n \in 1 .. Len(v.sent) :
             v.sent[n] = IF n <= Len(t.sent) THEN t.sent[n] ELSE c[n - Len(t.sent)]
    BY <1>2, <1>3
  <2> SUFFICES ASSUME NEW n \in 1 .. Len(v.sent), v.sent[n].copy
               PROVE  OnlySound(v.sent[n].blocks)
    BY DEF SoundCopied
  <2>2. CASE n <= Len(t.sent)
    <3>1. n \in 1 .. Len(t.sent) /\ v.sent[n] = t.sent[n]
      BY <2>1, <2>2
    <3> QED
      BY <3>1 DEF Ranks, SoundCopied
  <2>3. CASE n > Len(t.sent)
    <3>1. n - Len(t.sent) \in 1 .. Len(c) /\ v.sent[n] = c[n - Len(t.sent)]
      BY <2>1, <2>3
    <3> QED
      BY <1>2, <1>4, <3>1
  <2> QED
    BY <2>1, <2>2, <2>3
<1>8. v.seq \in Nat \ {0}
  BY <1>2, <1>3
<1> QED
  BY <1>1, <1>3, <1>4, <1>5, <1>6, <1>7, <1>8, SoundEmpty DEF Ordered, Ranks, Follows, v

LEMMA FlushRanks ==
  ASSUME NEW t, Room(t), Ranks(t)
  PROVE  Ordered(t, Flush(t))
<1> DEFINE v == Flush(t)
           p == Packet(t.seq, t.ts, t.out, FALSE)
           a == Packet(t.aseq, t.ats, t.aud, FALSE)
<1>1. /\ v.ts = t.ts + 1 /\ v.seq = t.seq + 1 /\ v.red = t.red
      /\ v.sent = t.sent \/ v.sent = Append(t.sent, p)
      /\ \/ v.aud = t.aud /\ v.asent = t.asent /\ v.ats = t.ats /\ v.aseq = t.aseq
         \/ /\ v.aud = <<>> /\ v.ats = t.ats + 1 /\ v.aseq = t.aseq + 1
            /\ v.asent = Append(t.asent, a)
  BY FlushFields
<1>2. /\ t.sent \in Seq(PacketOf) /\ t.asent \in Seq(PacketOf)
      /\ t.aud \in Seq(BlockOf) /\ t.out \in Seq(BlockOf)
      /\ t.seq \in Nat \ {0} /\ t.ts \in Nat \ {0}
      /\ t.aseq \in Nat \ {0} /\ t.ats \in Nat /\ Apart <= t.ats /\ Apart \in Nat
  BY ApartType DEF Room, State, Ranks
<1>3. p \in PacketOf /\ p.ts = t.ts /\ p.seq = t.seq /\ ~p.copy
  BY <1>2 DEF Packet, PacketOf
<1>4. a \in PacketOf /\ a.ts = t.ats /\ a.seq = t.aseq /\ ~a.copy /\ a.blocks = t.aud
  BY <1>2 DEF Packet, PacketOf
<1> HIDE DEF v, p, a
<1>5. Grown(t.sent, t.sent) /\ Grown(t.asent, t.asent)
  BY <1>2 DEF Grown
<1>6. /\ Ranked(Append(t.sent, p), t.ts, t.seq + 1, 1) /\ Grown(t.sent, Append(t.sent, p))
      /\ SoundCopied(Append(t.sent, p))
  BY <1>2, <1>3, RankedAppend, SoundSentAppend DEF Ranks
<1>7. /\ Ranked(Append(t.asent, a), t.ats, t.aseq + 1, Apart)
      /\ Grown(t.asent, Append(t.asent, a)) /\ SoundSent(Append(t.asent, a))
  BY <1>2, <1>4, RankedAppend, SoundSentAppend DEF Ranks
<1>8. /\ Ranked(v.sent, v.ts, v.seq, 1) /\ Grown(t.sent, v.sent) /\ SoundCopied(v.sent)
  <2>1. Ranked(t.sent, t.ts + 1, t.seq + 1, 1)
    BY <1>2, RankedLater DEF Ranks
  <2>2. Ranked(Append(t.sent, p), t.ts + 1, t.seq + 1, 1)
    <3>1. t.seq + 1 \in Nat
      BY <1>2
    <3> QED
      BY <1>2, <1>6, <3>1, RankedLater
  <2> QED
    BY <1>1, <1>5, <1>6, <2>1, <2>2 DEF Ranks
<1>9. /\ Ranked(v.asent, v.ats, v.aseq, Apart) /\ Grown(t.asent, v.asent)
      /\ SoundSent(v.asent) /\ OnlySound(v.aud)
      /\ v.ats \in Nat /\ Apart <= v.ats /\ v.aseq \in Nat \ {0}
  <2>1. Ranked(Append(t.asent, a), t.ats + 1, t.aseq + 1, Apart)
    <3>1. t.aseq + 1 \in Nat
      BY <1>2
    <3> QED
      BY <1>2, <1>7, <3>1, RankedLater
  <2>2. /\ Ranked(v.asent, v.ats, v.aseq, Apart) /\ Grown(t.asent, v.asent)
        /\ SoundSent(v.asent) /\ OnlySound(v.aud)
    BY <1>1, <1>5, <1>7, <2>1, SoundEmpty DEF Ranks
  <2>3. v.ats \in Nat /\ Apart <= v.ats /\ v.aseq \in Nat \ {0}
    BY <1>1, <1>2
  <2> QED
    BY <2>2, <2>3
<1>10. v.ts \in Nat \ {0} /\ v.seq \in Nat \ {0} /\ OnlySound(v.red)
  BY <1>1, <1>2 DEF Ranks
<1> QED
  BY <1>8, <1>9, <1>10 DEF Ordered, Ranks, Follows, v

LEMMA OrderedTrans ==
  ASSUME NEW t \in State, NEW u \in State, NEW v \in State, Ordered(t, u), Ordered(u, v)
  PROVE  Ordered(t, v)
<1>1. /\ t.sent \in Seq(PacketOf) /\ u.sent \in Seq(PacketOf) /\ v.sent \in Seq(PacketOf)
      /\ t.asent \in Seq(PacketOf) /\ u.asent \in Seq(PacketOf) /\ v.asent \in Seq(PacketOf)
  BY DEF State
<1> QED
  BY <1>1, GrownTrans DEF Ordered, Follows

LEMMA OrderedSelf ==
  ASSUME NEW t \in State, Ranks(t)
  PROVE  Ordered(t, t)
  BY DEF Ordered, Follows, Grown, State

LEMMA ProcDvdifRanks ==
  ASSUME NEW b \in BlockOf, NEW last \in BOOLEAN, Room(s), redundancy \in Nat, Ranks(s)
  PROVE  Ordered(s, ProcDvdif(b, Frame[b.i], last))
<1> DEFINE section == Frame[b.i]
           t == IF Keeps(section) THEN AddOut(s, b)
                ELSE IF Separates(section) THEN AddAudio(s, b) ELSE s
           u == IF section = "audio" /\ redundancy > 0 THEN AddRedundant(t, b) ELSE t
<1>1. ProcDvdif(b, section, last) = IF last THEN Flush(u) ELSE u
  BY DEF ProcDvdif
<1>2. s \in State
  BY DEF Room
<1>3. section = "audio" => b.i \in Sound
  BY FrameAssumption DEF Sound, Places, BlockOf
<1>4. Separates(section) => section = "audio"
  BY DEF Separates
<1>5. Room(t) /\ Ordered(s, t)
  <2>1. Ordered(s, s)
    BY <1>2, OrderedSelf
  <2>2. Room(AddOut(s, b)) /\ Ordered(s, AddOut(s, b))
    BY <1>2, AddOutWell, AddOutRanks
  <2>3. b.i \in Sound => Room(AddAudio(s, b)) /\ Ordered(s, AddAudio(s, b))
    BY <1>2, AddAudioWell, AddAudioRanks
  <2> QED
    BY <1>3, <1>4, <2>1, <2>2, <2>3
<1> HIDE DEF t, section
<1>6. Room(u) /\ Ordered(s, u)
  <2>1. t \in State /\ Ranks(t)
    BY <1>5 DEF Room, Ordered
  <2>2. b.i \in Sound => Room(AddRedundant(t, b)) /\ Ordered(t, AddRedundant(t, b))
    BY <1>5, <2>1, AddRedundantWell, AddRedundantRanks
  <2>3. b.i \in Sound => Ordered(s, AddRedundant(t, b))
    BY <1>2, <1>5, <2>1, <2>2, OrderedTrans DEF Room
  <2> QED
    BY <1>3, <1>5, <2>2, <2>3
<1> HIDE DEF u
<1>7. Room(Flush(u))
  BY <1>6, FlushWell
<1>8. Ordered(u, Flush(u))
  BY <1>6, FlushRanks DEF Ordered
<1>9. Ordered(s, Flush(u))
  BY <1>2, <1>6, <1>7, <1>8, OrderedTrans DEF Room
<1> QED
  BY <1>1, <1>6, <1>9 DEF section

LEMMA SenderGrows == RtpInv /\ Ranks(s) /\ [Next]_vars => Ordered(s, s')
<1> SUFFICES ASSUME RtpInv, Ranks(s), [Next]_vars PROVE Ordered(s, s')
  OBVIOUS
<1>1. CASE Block
  <2> DEFINE b == [f |-> src, i |-> pos]
             last == pos = Len(Frame)
  <2>1. s' = ProcDvdif(b, Frame[b.i], last) /\ Advance
    BY <1>1 DEF Block
  <2>2. b \in BlockOf /\ last \in BOOLEAN /\ Room(s) /\ redundancy \in Nat
    BY <2>1, OptionAssumption DEF Advance, RtpInv, BlockOf
  <2> HIDE DEF b, last
  <2> QED
    BY <2>1, <2>2, ProcDvdifRanks
<1>2. CASE s' = s
  BY <1>2, OrderedSelf DEF RtpInv, Room
<1> QED
  BY <1>1, <1>2 DEF Next, Missing, Usr1, Usr2, Signal, vars

LEMMA RanksHold == Spec => []Ranks(s)
<1>1. Init => Ranks(s)
  <2> SUFFICES ASSUME Init PROVE Ranks(s)
    OBVIOUS
  <2>1. /\ s.red = <<>> /\ s.aud = <<>> /\ s.sent = <<>> /\ s.asent = <<>>
        /\ s.ts = 1 /\ s.seq = 1 /\ s.ats = Apart /\ s.aseq = Apart
    BY DEF Init
  <2>2. Apart \in Nat \ {0}
    BY OptionAssumption DEF Apart
  <2>3. Len(<<>>) = 0
    OBVIOUS
  <2>4. /\ Ranked(<<>>, 1, 1, 1) /\ Ranked(<<>>, Apart, Apart, Apart)
        /\ SoundCopied(<<>>) /\ SoundSent(<<>>)
    BY <2>3 DEF Ranked, SoundCopied, SoundSent
  <2> QED
    BY <2>1, <2>2, <2>4, SoundEmpty DEF Ranks
<1>2. RtpInv /\ Ranks(s) /\ [Next]_vars => Ranks(s)'
  BY SenderGrows DEF Ordered
<1> QED
  BY <1>1, <1>2, RtpInvHolds, PTL DEF Spec
-----------------------------------------------------------------------------
(* The network: what is on the wire are the last of the packets sent, all but
   the first k of the main stream and the first j of the audio stream. *)
Messages == [stream : {"main", "audio"}, seq : Nat, ts : Nat, blocks : Seq(BlockOf)]
Msg(stream, p) == [stream |-> stream, seq |-> p.seq, ts |-> p.ts, blocks |-> p.blocks]

Wired(w, t, k, j) ==
  /\ w \in Seq(Messages)
  /\ k \in 0 .. Len(t.sent) /\ j \in 0 .. Len(t.asent)
  /\ Len(w) = (Len(t.sent) - k) + (Len(t.asent) - j)
  /\ \A n \in 1 .. Len(t.sent) - k : w[n] = Msg("main", t.sent[k + n])
  /\ \A n \in 1 .. Len(t.asent) - j :
       w[Len(t.sent) - k + n] = Msg("audio", t.asent[j + n])

LEMMA MsgType ==
  ASSUME NEW p \in PacketOf, NEW stream \in {"main", "audio"}
  PROVE  Msg(stream, p) \in Messages
  BY DEF Msg, Messages, PacketOf

(* The first packet leaves the wire. *)
LEMMA WireTakes ==
  ASSUME NEW t \in State, NEW w, NEW k, NEW j, Wired(w, t, k, j), w # <<>>
  PROVE  \/ /\ k + 1 \in 1 .. Len(t.sent) /\ Head(w) = Msg("main", t.sent[k + 1])
            /\ Wired(Tail(w), t, k + 1, j)
         \/ /\ j + 1 \in 1 .. Len(t.asent) /\ Head(w) = Msg("audio", t.asent[j + 1])
            /\ Wired(Tail(w), t, k, j + 1)
<1> DEFINE M == Len(t.sent)
           A == Len(t.asent)
           r == Tail(w)
<1>1. /\ w \in Seq(Messages) /\ M \in Nat /\ A \in Nat /\ k \in 0 .. M /\ j \in 0 .. A
      /\ Len(w) = (M - k) + (A - j)
      /\ \A n \in 1 .. M - k : w[n] = Msg("main", t.sent[k + n])
      /\ \A n \in 1 .. A - j : w[M - k + n] = Msg("audio", t.asent[j + n])
  <2>1. t.sent \in Seq(PacketOf) /\ t.asent \in Seq(PacketOf)
    BY DEF State
  <2> QED
    BY <2>1 DEF Wired
<1>2. /\ Head(w) = w[1] /\ r \in Seq(Messages) /\ Len(w) \in Nat \ {0} /\ Len(r) = Len(w) - 1
      /\ \A n \in 1 .. Len(r) : r[n] = w[n + 1]
  BY <1>1
<1> HIDE DEF M, A, r
<1>3. CASE k < M
  <2>1. Head(w) = Msg("main", t.sent[k + 1]) /\ k + 1 \in 1 .. M
    BY <1>1, <1>2, <1>3
  <2>2. \A n \in 1 .. M - (k + 1) : r[n] = Msg("main", t.sent[(k + 1) + n])
    <3> TAKE n \in 1 .. M - (k + 1)
    <3>1. n + 1 \in 1 .. M - k /\ n \in 1 .. Len(r) /\ k + (n + 1) = (k + 1) + n
      BY <1>1, <1>2, <1>3
    <3> QED
      BY <1>1, <1>2, <3>1
  <2>3. \A n \in 1 .. A - j : r[M - (k + 1) + n] = Msg("audio", t.asent[j + n])
    <3> TAKE n \in 1 .. A - j
    <3> DEFINE x == M - (k + 1) + n
    <3>1. x \in 1 .. Len(r) /\ x + 1 = M - k + n
      BY <1>1, <1>2, <1>3
    <3> HIDE DEF x
    <3>2. r[x] = Msg("audio", t.asent[j + n])
      BY <1>1, <1>2, <3>1
    <3> QED
      BY <3>2 DEF x
  <2>4. Len(r) = (M - (k + 1)) + (A - j)
    BY <1>1, <1>2
  <2>5. Wired(r, t, k + 1, j)
    BY <1>1, <1>2, <2>1, <2>2, <2>3, <2>4 DEF Wired, M, A
  <2> QED
    BY <2>1, <2>5 DEF M, r
<1>4. CASE k = M
  <2>1. j < A
    BY <1>1, <1>2, <1>4
  <2>2. Head(w) = Msg("audio", t.asent[j + 1]) /\ j + 1 \in 1 .. A
    <3>1. 1 \in 1 .. A - j /\ M - k + 1 = 1
      BY <1>1, <1>4, <2>1
    <3>2. w[M - k + 1] = Msg("audio", t.asent[j + 1])
      BY <1>1, <3>1
    <3> QED
      BY <1>1, <1>2, <2>1, <3>1, <3>2
  <2>3. \A n \in 1 .. M - k : r[n] = Msg("main", t.sent[k + n])
    BY <1>1, <1>4
  <2>4. \A n \in 1 .. A - (j + 1) : r[M - k + n] = Msg("audio", t.asent[(j + 1) + n])
    <3> TAKE n \in 1 .. A - (j + 1)
    <3>1. n + 1 \in 1 .. A - j /\ n \in 1 .. Len(r) /\ j + (n + 1) = (j + 1) + n
          /\ M - k + n = n /\ M - k + (n + 1) = n + 1
      BY <1>1, <1>2, <1>4, <2>1
    <3>2. w[M - k + (n + 1)] = Msg("audio", t.asent[j + (n + 1)])
      BY <1>1, <3>1
    <3> QED
      BY <1>2, <3>1, <3>2
  <2>5. Len(r) = (M - k) + (A - (j + 1))
    BY <1>1, <1>2
  <2>6. Wired(r, t, k, j + 1)
    BY <1>1, <1>2, <2>2, <2>3, <2>4, <2>5 DEF Wired, M, A
  <2> QED
    BY <2>2, <2>6 DEF A, r
<1> QED
  BY <1>1, <1>3, <1>4

(* dvsend sends when all it sent has left the wire. *)
LEMMA WireSends ==
  ASSUME NEW t \in State, NEW v \in State, NEW k, NEW j, Wired(<<>>, t, k, j), Follows(t, v)
  PROVE  /\ k = Len(t.sent) /\ j = Len(t.asent)
         /\ Wired(New("main", t.sent, v.sent) \o New("audio", t.asent, v.asent), v, k, j)
<1>1. /\ t.sent \in Seq(PacketOf) /\ t.asent \in Seq(PacketOf)
      /\ v.sent \in Seq(PacketOf) /\ v.asent \in Seq(PacketOf)
  BY DEF State
<1>2. k = Len(t.sent) /\ j = Len(t.asent) /\ Len(<<>>) = 0
  BY <1>1 DEF Wired
<1>3. Len(t.sent) <= Len(v.sent) /\ Len(t.asent) <= Len(v.asent)
  BY DEF Follows, Grown
<1>4. ASSUME NEW q \in Seq(PacketOf), NEW r \in Seq(PacketOf), Len(q) <= Len(r),
             NEW stream \in {"main", "audio"}
      PROVE  /\ New(stream, q, r) \in Seq(Messages)
             /\ Len(New(stream, q, r)) = Len(r) - Len(q)
             /\ \A n \in 1 .. Len(r) - Len(q) :
                  New(stream, q, r)[n] = Msg(stream, r[Len(q) + n])
  <2> DEFINE x == New(stream, q, r)
  <2>1. x = [n \in 1 .. Len(r) - Len(q) |-> Msg(stream, r[Len(q) + n])]
    BY DEF New, Msg
  <2>2. \A n \in 1 .. Len(r) - Len(q) : Msg(stream, r[Len(q) + n]) \in Messages
    <3> TAKE n \in 1 .. Len(r) - Len(q)
    <3>1. Len(q) + n \in 1 .. Len(r)
      BY <1>4
    <3> QED
      BY <3>1, MsgType
  <2> HIDE DEF x
  <2> DEFINE n == Len(r) - Len(q)
  <2>3. x \in [1 .. n -> Messages] /\ n \in Nat
    <3>1. n \in Nat
      BY <1>4
    <3> QED
      BY <2>1, <2>2, <3>1
  <2> HIDE DEF n
  <2>4. x \in Seq(Messages) /\ Len(x) = n
    BY <2>3, SeqOfMap
  <2> QED
    BY <2>1, <2>4 DEF x, n
<1> DEFINE m == New("main", t.sent, v.sent)
           a == New("audio", t.asent, v.asent)
           w == m \o a
<1>5. /\ m \in Seq(Messages) /\ Len(m) = Len(v.sent) - Len(t.sent)
      /\ \A n \in 1 .. Len(v.sent) - Len(t.sent) : m[n] = Msg("main", v.sent[Len(t.sent) + n])
  BY <1>1, <1>3, <1>4
<1>6. /\ a \in Seq(Messages) /\ Len(a) = Len(v.asent) - Len(t.asent)
      /\ \A n \in 1 .. Len(v.asent) - Len(t.asent) :
           a[n] = Msg("audio", v.asent[Len(t.asent) + n])
  BY <1>1, <1>3, <1>4
<1> HIDE DEF m, a
<1>7. /\ w \in Seq(Messages) /\ Len(w) = Len(m) + Len(a)
      /\ \A n \in 1 .. Len(m) : w[n] = m[n]
      /\ \A n \in 1 .. Len(a) : w[Len(m) + n] = a[n]
  <2>1. m \in Seq(Messages) /\ a \in Seq(Messages)
    BY <1>5, <1>6
  <2> QED
    BY <2>1
<1> HIDE DEF w
<1>8. k \in 0 .. Len(v.sent) /\ j \in 0 .. Len(v.asent)
  BY <1>1, <1>2, <1>3
<1>9. Wired(w, v, k, j)
  BY <1>2, <1>5, <1>6, <1>7, <1>8 DEF Wired
<1> QED
  BY <1>2, <1>9 DEF w, m, a
-----------------------------------------------------------------------------
(* What is on the wire, held back or being read was sent. *)
AudioIsSound(p) == p.stream = "audio" => OnlySound(p.blocks)
NetInv == /\ \E k, j : Wired(wire, s, k, j)
          /\ held \in SUBSET Messages /\ IsFiniteSet(held) /\ (late = 0 => held = {})
          /\ hand \in Messages /\ \A p \in held \cup {hand} : AudioIsSound(p)
          /\ lost \in Nat /\ late \in Nat /\ seqPrev \in Nat /\ pktLossSum \in Nat

(* The packet at the head of the wire. *)
LEMMA HeadSent ==
  ASSUME RtpInv, Ranks(s), NEW k, NEW j, Wired(wire, s, k, j), wire # <<>>
  PROVE  Head(wire) \in Messages /\ AudioIsSound(Head(wire))
<1>1. s.asent \in Seq(PacketOf) /\ s.sent \in Seq(PacketOf) /\ s \in State
  BY DEF RtpInv, Room, State
<1>2. wire \in Seq(Messages)
  BY DEF Wired
<1>3. CASE Head(wire) = Msg("main", s.sent[k + 1])
  BY <1>2, <1>3 DEF AudioIsSound, Msg
<1>4. CASE j + 1 \in 1 .. Len(s.asent) /\ Head(wire) = Msg("audio", s.asent[j + 1])
  BY <1>2, <1>4 DEF AudioIsSound, Msg, Ranks, SoundSent
<1> QED
  BY <1>1, <1>3, <1>4, WireTakes

(* A block less in hand. *)
LEMMA BlockRead ==
  ASSUME NEW p \in Messages, p.blocks # <<>>
  PROVE  LET q == [p EXCEPT !.blocks = Tail(@)]
             b == Head(p.blocks)
         IN  /\ q \in Messages /\ (OnlySound(p.blocks) => OnlySound(q.blocks))
             /\ q.ts = p.ts /\ q.stream = p.stream /\ q.seq = p.seq
             /\ b \in BlockOf /\ q.blocks = Tail(p.blocks)
             /\ OnlySound(p.blocks) => b.i \in Sound
<1> DEFINE q == [p EXCEPT !.blocks = Tail(@)]
           x == p.blocks
<1>1. /\ x \in Seq(BlockOf) /\ Head(x) \in BlockOf /\ Tail(x) \in Seq(BlockOf)
      /\ Len(x) \in Nat \ {0} /\ Head(x) = x[1]
      /\ Len(Tail(x)) = Len(x) - 1 /\ \A m \in 1 .. Len(Tail(x)) : Tail(x)[m] = x[m + 1]
  BY DEF Messages
<1>2. /\ q \in Messages /\ q.blocks = Tail(x) /\ q.ts = p.ts /\ q.stream = p.stream
      /\ q.seq = p.seq
  BY <1>1 DEF Messages
<1>3. OnlySound(x) => OnlySound(Tail(x)) /\ Head(x).i \in Sound
  <2>1. \A m \in 1 .. Len(Tail(x)) : m + 1 \in 1 .. Len(x)
    BY <1>1
  <2> QED
    BY <1>1, <2>1 DEF OnlySound
<1> QED
  BY <1>1, <1>2, <1>3

LEMMA GapType ==
  ASSUME NEW x \in Nat, seqPrev \in Nat
  PROVE  Gap(x) \in Nat
  BY DEF Gap

LEMMA NetStep == RtpInv /\ Ranks(s) /\ NetInv /\ [StreamNext]_<<vars, network, reader>> => NetInv'
<1> SUFFICES ASSUME RtpInv, Ranks(s), NetInv, [StreamNext]_<<vars, network, reader>>
             PROVE  NetInv'
  OBVIOUS
<1>1. PICK k, j : Wired(wire, s, k, j)
  BY DEF NetInv
<1>2. s \in State
  BY DEF RtpInv, Room
<1>3. wire # <<>> => Head(wire) \in Messages /\ AudioIsSound(Head(wire))
  BY <1>1, HeadSent
<1>4. ASSUME wire # <<>>, wire' = Tail(wire), s' = s
      PROVE  \E x, y : Wired(wire', s', x, y)
  BY <1>1, <1>2, <1>4, WireTakes
<1>5. CASE Send
  <2>1. /\ wire = <<>> /\ Next
        /\ wire' = New("main", s.sent, s'.sent) \o New("audio", s.asent, s'.asent)
        /\ UNCHANGED <<held, lost, late, hand, seqPrev, pktLossSum>>
    BY <1>5 DEF Send, Quiet, reader
  <2>2. Follows(s, s')
    BY <2>1, SenderGrows DEF Ordered
  <2>3. s' \in State
    <3>1. RtpInv'
      BY <2>1, RtpStep
    <3> QED
      BY <3>1 DEF RtpInv, Room
  <2>4. Wired(wire', s', k, j)
    BY <1>1, <1>2, <2>1, <2>2, <2>3, WireSends
  <2> QED
    BY <2>1, <2>4 DEF NetInv
<1>6. CASE Lose
  <2>1. /\ wire # <<>> /\ wire' = Tail(wire) /\ lost' = lost + 1
        /\ UNCHANGED <<s, held, late, hand, seqPrev, pktLossSum>>
    BY <1>6 DEF Lose, reader, vars
  <2>2. \E x, y : Wired(wire', s', x, y)
    BY <1>4, <2>1
  <2> QED
    BY <2>1, <2>2 DEF NetInv
<1>7. CASE Hold
  <2>1. /\ wire # <<>> /\ wire' = Tail(wire) /\ late' = late + 1
        /\ held' = held \cup {Head(wire)}
        /\ UNCHANGED <<s, lost, hand, seqPrev, pktLossSum>>
    BY <1>7 DEF Hold, reader, vars
  <2>2. \E x, y : Wired(wire', s', x, y)
    BY <1>4, <2>1
  <2>3. IsFiniteSet(held')
    BY <2>1, FS_AddElement DEF NetInv
  <2> QED
    BY <1>3, <2>1, <2>2, <2>3 DEF NetInv
<1>8. ASSUME NEW p \in Messages, AudioIsSound(p), Recv(p)
      PROVE  /\ s' = s /\ lost' = lost /\ late' = late /\ hand' = p
             /\ seqPrev' \in Nat /\ pktLossSum' \in Nat
  <2>1. p.seq \in Nat
    BY DEF Messages
  <2>2. Gap(p.seq) \in Nat
    BY <2>1, GapType DEF NetInv
  <2> QED
    BY <1>8, <2>1, <2>2 DEF Recv, vars, NetInv
<1>9. CASE RecvNext
  <2>1. wire # <<>> /\ Recv(Head(wire)) /\ wire' = Tail(wire) /\ held' = held
    BY <1>9 DEF RecvNext
  <2>2. \E x, y : Wired(wire', s', x, y)
    BY <1>3, <1>4, <1>8, <2>1
  <2> QED
    BY <1>3, <1>8, <2>1, <2>2 DEF NetInv
<1>10. CASE RecvLate
  <2>1. PICK p \in held : Recv(p) /\ held' = held \ {p} /\ wire' = wire
    BY <1>10 DEF RecvLate
  <2>2. IsFiniteSet(held')
    BY <2>1, FS_RemoveElement DEF NetInv
  <2>3. p \in Messages /\ AudioIsSound(p)
    BY <2>1 DEF NetInv
  <2> QED
    BY <1>8, <2>1, <2>2, <2>3 DEF NetInv
<1>11. CASE Done1
  <2>1. /\ hand.blocks # <<>> /\ hand' = [hand EXCEPT !.blocks = Tail(@)]
        /\ UNCHANGED <<s, wire, held, lost, late, seqPrev, pktLossSum>>
    BY <1>11 DEF Done1, vars, network
  <2>2. hand' \in Messages /\ AudioIsSound(hand')
    BY <2>1, BlockRead DEF NetInv, AudioIsSound
  <2> QED
    BY <2>1, <2>2 DEF NetInv
<1>12. CASE UNCHANGED <<vars, network, reader>>
  BY <1>12 DEF vars, network, reader, NetInv
<1> QED
  BY <1>5, <1>6, <1>7, <1>9, <1>10, <1>11, <1>12 DEF StreamNext, ReadPicture, ReadSound

LEMMA NetHolds == StreamSpec => [](RtpInv /\ Ranks(s) /\ NetInv)
<1>1. StreamInit => Init /\ NetInv
  <2> SUFFICES ASSUME StreamInit PROVE NetInv
    BY DEF StreamInit
  <2>1. /\ wire = <<>> /\ held = {} /\ lost = 0 /\ late = 0 /\ hand = NoPacket
        /\ seqPrev = 0 /\ pktLossSum = 0 /\ s.sent = <<>> /\ s.asent = <<>>
    BY DEF StreamInit, Init
  <2>2. <<>> \in Seq(Messages) /\ Len(<<>>) = 0 /\ <<>> \in Seq(BlockOf)
    OBVIOUS
  <2>3. Wired(wire, s, 0, 0)
    BY <2>1, <2>2 DEF Wired
  <2>4. NoPacket \in Messages /\ AudioIsSound(NoPacket)
    BY <2>2 DEF NoPacket, Messages, AudioIsSound
  <2>5. IsFiniteSet({})
    BY FS_EmptySet
  <2> QED
    BY <2>1, <2>3, <2>4, <2>5 DEF NetInv
<1>2. StreamSpec => Spec
  BY <1>1, SenderStep, PTL DEF StreamSpec, Spec
<1> QED
  BY <1>1, <1>2, NetStep, RtpInvHolds, RanksHold, PTL DEF StreamSpec
-----------------------------------------------------------------------------
(* dvrecv's pictures: every step of the reader is one of VideoAssembly. *)
LEMMA BlockPlaced ==
  ASSUME NEW b \in BlockOf, b.i \notin Sound
  PROVE  b.i \in VP!Pos /\ b.f \in 0 .. MaxFrame
<1>1. b.i \in DOMAIN Frame /\ Frame[b.i] \in Section /\ b.f \in 1 .. MaxFrame
  BY FrameAssumption DEF BlockOf
<1>2. b.f \in 0 .. MaxFrame
  BY <1>1, OptionAssumption
<1>3. Frame[b.i] # "audio"
  BY <1>1 DEF Sound, Places
<1> QED
  BY <1>1, <1>2, <1>3 DEF VP!Pos, Shown, Places, Section

LEMMA PictureStep ==
  ASSUME NetInv, ReadPicture
  PROVE  LET b == Block1
         IN  /\ b \in BlockOf /\ b.i \in VP!Pos /\ b.f \in 0 .. MaxFrame /\ hand.ts \in Nat
             /\ \/ /\ hand.ts = tsPrev /\ VP!SameFrame(b.i, b.f) /\ pictures' = pictures
                \/ /\ hand.ts # tsPrev /\ VP!NewFrame(hand.ts, b.i, b.f)
                   /\ pictures' = Append(pictures, [i \in Shown |-> sealed'[cur][i]])
<1>1. hand.blocks # <<>> /\ Block1.i \notin Sound /\ hand \in Messages
  BY DEF ReadPicture, Done1, NetInv
<1>2. Block1 \in BlockOf /\ hand.ts \in Nat
  BY <1>1, BlockRead DEF Block1, Messages
<1>3. Block1.i \in VP!Pos /\ Block1.f \in 0 .. MaxFrame
  BY <1>1, <1>2, BlockPlaced
<1>4. CASE hand.ts = tsPrev
  <2>1. V!SameFrame(Block1.i, Block1.f) /\ pictures' = pictures
    BY <1>4 DEF ReadPicture
  <2>2. VP!SameFrame(Block1.i, Block1.f)
    BY <2>1 DEF V!SameFrame, VP!SameFrame, V!Marked, VP!Marked
  <2> QED
    BY <1>2, <1>3, <1>4, <2>1, <2>2
<1>5. CASE hand.ts # tsPrev
  <2>1. /\ V!NewFrame(hand.ts, Block1.i, Block1.f)
        /\ pictures' = Append(pictures, [i \in Shown |-> sealed'[cur][i]])
    BY <1>5 DEF ReadPicture
  <2>2. VP!NewFrame(hand.ts, Block1.i, Block1.f)
    BY <2>1 DEF V!NewFrame, VP!NewFrame, V!Marked, VP!Marked, V!NextOf, VP!NextOf,
                V!PrevOf, VP!PrevOf, V!Patched, VP!Patched, V!Pos, VP!Pos
  <2> QED
    BY <1>2, <1>3, <1>5, <2>1, <2>2
<1> QED
  BY <1>4, <1>5

LEMMA ReaderStep ==
  NetInv /\ [StreamNext]_<<vars, network, reader>> => [VP!Next]_VP!vars
<1> SUFFICES ASSUME NetInv, [StreamNext]_<<vars, network, reader>>
             PROVE  VP!Next \/ UNCHANGED VP!vars
  OBVIOUS
<1>1. CASE ReadPicture
  <2> DEFINE b == Block1
             p == b.i
             d == b.f
  <2>1. /\ p \in VP!Pos /\ d \in 0 .. MaxFrame /\ hand.ts \in Nat
        /\ VP!SameFrame(p, d) \/ VP!NewFrame(hand.ts, p, d)
    BY <1>1, PictureStep
  <2> HIDE DEF p, d
  <2> QED
    BY <2>1 DEF VP!Next
<1>2. CASE UNCHANGED video
  BY <1>2 DEF video, VP!vars
<1> QED
  BY <1>1, <1>2 DEF StreamNext, Send, Lose, Hold, RecvNext, RecvLate, Recv, ReadSound,
                    reader

LEMMA ReaderIs == StreamSpec => VP!Spec
<1>1. StreamInit => VP!Init
  BY DEF StreamInit, V!Init, VP!Init, V!Slot, VP!Slot, V!Pos, VP!Pos
<1> QED
  BY <1>1, ReaderStep, NetHolds, PTL DEF StreamSpec, VP!Spec

LEMMA ReaderType == StreamSpec => []VP!TypeOK
  BY ReaderIs, VP!TypeCorrect, RingAssumptions, PTL

(* Whatever the network does, what dvrecv hands over is the newest block of each
   place (read.c:195-217): it implements Concealer. *)
THEOREM StreamConceals == StreamSpec => VP!Conceals
  BY ReaderIs, VP!Implements, RingAssumptions, PTL
-----------------------------------------------------------------------------
(* A picture is a number for each place. *)
Pictures == Seq([Shown -> 0 .. MaxFrame])

LEMMA PicturesType == StreamSpec => [](pictures \in Pictures)
<1>1. StreamInit => pictures \in Pictures
  BY DEF StreamInit, Pictures
<1>2. NetInv /\ VP!TypeOK /\ VP!TypeOK' /\ pictures \in Pictures
        /\ [StreamNext]_<<vars, network, reader>> => (pictures \in Pictures)'
  <2> SUFFICES ASSUME NetInv, VP!TypeOK, VP!TypeOK', pictures \in Pictures,
                      [StreamNext]_<<vars, network, reader>>
               PROVE  pictures' \in Pictures
    OBVIOUS
  <2>1. CASE ReadPicture
    <3> DEFINE new == [i \in Shown |-> sealed'[cur][i]]
    <3>1. pictures' = pictures \/ pictures' = Append(pictures, new)
      BY <2>1, PictureStep
    <3>2. new \in [Shown -> 0 .. MaxFrame]
      <4>1. cur \in VP!Slot /\ sealed'[cur] \in [VP!Pos -> 0 .. MaxFrame]
        BY DEF VP!TypeOK
      <4>2. \A i \in Shown : i \in VP!Pos
        BY DEF VP!Pos
      <4> QED
        BY <4>1, <4>2
    <3> DEFINE P == [Shown -> 0 .. MaxFrame]
    <3>3. pictures \in Seq(P) /\ new \in P
      BY <3>2 DEF Pictures
    <3> HIDE DEF new, P
    <3>4. pictures' \in Seq(P)
      BY <3>1, <3>3
    <3> QED
      BY <3>4 DEF Pictures, P
  <2>2. CASE UNCHANGED video
    BY <2>2 DEF video
  <2> QED
    BY <2>1, <2>2 DEF StreamNext, Send, Lose, Hold, RecvNext, RecvLate, Recv, ReadSound,
                      reader
<1> QED
  BY <1>1, <1>2, NetHolds, ReaderType, PTL DEF StreamSpec
-----------------------------------------------------------------------------
(* Hand-overs.  Each new timestamp among the packets that have left the wire
   pays for one, each packet held back for two: the one that it makes itself,
   and the one by which the next packet of the present frame comes after it. *)
Stamps(q, k) == {q[n].ts : n \in 1 .. k}
Latest(q, k) == IF k = 0 THEN 0 ELSE q[k].ts
Owed(latest, ts, p) ==
  (IF ts = latest THEN 0 ELSE 1)
    + (IF OnlySound(p.blocks) \/ p.ts \in {ts, latest} THEN 0 ELSE 2)
Paid(k) == Len(pictures) + Owed(Latest(s.sent, k), tsPrev, hand) + 2 * Cardinality(held)
             <= Cardinality(Stamps(s.sent, k)) + 2 * late
HandOverInv == \E k, j : Wired(wire, s, k, j) /\ Paid(k)

LEMMA StampsGrow ==
  ASSUME NEW q \in Seq(PacketOf), NEW k \in Nat, k + 1 <= Len(q), NEW ts, NEW seq,
         Ranked(q, ts, seq, 1)
  PROVE  /\ IsFiniteSet(Stamps(q, k)) /\ Cardinality(Stamps(q, k)) \in Nat
         /\ Cardinality(Stamps(q, k + 1)) =
              Cardinality(Stamps(q, k)) + IF Latest(q, k + 1) = Latest(q, k) THEN 0 ELSE 1
<1> DEFINE S == Stamps(q, k)
           x == q[k + 1].ts
<1>1. IsFiniteSet(S)
  <2> DEFINE g == [n \in 1 .. k |-> q[n].ts]
  <2>1. IsFiniteSet(1 .. k)
    BY FS_Interval
  <2>2. g \in Surjection(1 .. k, S)
    BY DEF Surjection, Stamps
  <2> QED
    BY <2>1, <2>2, FS_Surjection DEF ExistsSurjection
<1>2. Cardinality(S) \in Nat
  BY <1>1, FS_CardinalityType
<1>3. Stamps(q, k + 1) = S \cup {x}
  <2>1. 1 .. k + 1 = (1 .. k) \cup {k + 1}
    OBVIOUS
  <2> QED
    BY <2>1 DEF Stamps
<1>0. \A n \in 1 .. Len(q) : q[n].ts \in Nat
  <2>1. \A n \in 1 .. Len(q) : q[n] \in PacketOf
    OBVIOUS
  <2> QED
    BY <2>1 DEF PacketOf
<1>4. Latest(q, k + 1) = x /\ x \in Nat /\ k + 1 \in 1 .. Len(q)
  BY <1>0 DEF Latest
<1>5. x >= 1
  BY <1>4 DEF Ranked
<1>6. CASE x = Latest(q, k)
  <2>1. k \in 1 .. k /\ x = q[k].ts
    BY <1>5, <1>6 DEF Latest
  <2>2. x \in S
    BY <2>1 DEF Stamps
  <2>3. Stamps(q, k + 1) = S
    BY <1>3, <2>2
  <2> QED
    BY <1>1, <1>2, <1>4, <1>6, <2>3
<1>7. CASE x # Latest(q, k)
  <2>1. ASSUME NEW n \in 1 .. k PROVE q[n].ts # x
    <3>1. /\ k \in 1 .. Len(q) /\ n \in 1 .. Len(q) /\ k + 1 \in 1 .. Len(q)
          /\ q[n].ts \in Nat /\ q[k].ts \in Nat /\ n <= k /\ k < k + 1
      <4>1. k \in 1 .. Len(q) /\ n \in 1 .. Len(q) /\ k + 1 \in 1 .. Len(q) /\ n <= k
        OBVIOUS
      <4> QED
        BY <1>0, <4>1
    <3>2. q[k].ts <= x /\ q[k].ts # x
      BY <1>4, <1>7, <3>1 DEF Ranked, Latest
    <3>3. q[n].ts <= q[k].ts
      BY <3>1 DEF Ranked
    <3> QED
      BY <1>4, <3>1, <3>2, <3>3
  <2>2. x \notin S
    BY <2>1 DEF Stamps
  <2>3. Cardinality(S \cup {x}) = Cardinality(S) + 1
    BY <1>1, <2>2, FS_AddElement
  <2> QED
    BY <1>1, <1>2, <1>3, <1>4, <1>7, <2>3
<1> QED
  BY <1>6, <1>7 DEF S

LEMMA StampsKept ==
  ASSUME NEW q, NEW r, NEW k \in 0 .. Len(q), Grown(q, r), Len(q) \in Nat
  PROVE  Stamps(r, k) = Stamps(q, k) /\ Latest(r, k) = Latest(q, k)
<1>1. \A n \in 1 .. k : r[n] = q[n]
  BY DEF Grown
<1> QED
  BY <1>1 DEF Stamps, Latest

(* A packet of the main stream leaves the wire. *)
LEMMA OwedGrows ==
  ASSUME NEW q \in Seq(PacketOf), NEW k \in Nat, k + 1 <= Len(q), NEW ts, NEW seq,
         Ranked(q, ts, seq, 1), NEW prev, NEW p
  PROVE  /\ Cardinality(Stamps(q, k)) \in Nat /\ Cardinality(Stamps(q, k + 1)) \in Nat
         /\ p.ts = Latest(q, k + 1) \/ OnlySound(p.blocks) =>
              Owed(Latest(q, k + 1), prev, p) - Cardinality(Stamps(q, k + 1))
                <= (IF prev = Latest(q, k) THEN 0 ELSE 1) - Cardinality(Stamps(q, k))
<1>1. /\ Cardinality(Stamps(q, k)) \in Nat
      /\ Cardinality(Stamps(q, k + 1)) =
           Cardinality(Stamps(q, k)) + IF Latest(q, k + 1) = Latest(q, k) THEN 0 ELSE 1
  BY StampsGrow
<1> QED
  BY <1>1 DEF Owed

LEMMA Twice == \A x \in Nat : 2 * x \in Nat
  OBVIOUS

LEMMA HandOverStep ==
  RtpInv /\ Ranks(s) /\ NetInv /\ VP!TypeOK /\ pictures \in Pictures /\ HandOverInv
    /\ [StreamNext]_<<vars, network, reader>> => HandOverInv'
<1> SUFFICES ASSUME RtpInv, Ranks(s), NetInv, VP!TypeOK, pictures \in Pictures, HandOverInv,
                    [StreamNext]_<<vars, network, reader>>
             PROVE  HandOverInv'
  OBVIOUS
<1>1. PICK k, j : Wired(wire, s, k, j) /\ Paid(k)
  BY DEF HandOverInv
<1> DEFINE q == s.sent
           D(x) == Cardinality(Stamps(q, x))
           O == Owed(Latest(q, k), tsPrev, hand)
           X == IF tsPrev = Latest(q, k) THEN 0 ELSE 1
<1>2. /\ s \in State /\ q \in Seq(PacketOf) /\ s.asent \in Seq(PacketOf)
      /\ k \in 0 .. Len(q) /\ k \in Nat /\ Len(q) \in Nat
  BY <1>1 DEF RtpInv, Room, State, Wired
<1>3. /\ tsPrev \in Nat /\ Len(pictures) \in Nat /\ late \in Nat
      /\ IsFiniteSet(held) /\ Cardinality(held) \in Nat /\ hand \in Messages
  BY FS_CardinalityType DEF VP!TypeOK, Pictures, NetInv
<1>4. Ranked(q, s.ts, s.seq, 1)
  BY DEF Ranks
<1>5. D(k) \in Nat
  <2>1. IsFiniteSet(Stamps(q, k))
    <3> DEFINE g == [n \in 1 .. k |-> q[n].ts]
    <3>1. IsFiniteSet(1 .. k)
      BY <1>2, FS_Interval
    <3>2. g \in Surjection(1 .. k, Stamps(q, k))
      BY DEF Surjection, Stamps
    <3> QED
      BY <3>1, <3>2, FS_Surjection
  <2> QED
    BY <2>1, FS_CardinalityType
<1>6. Len(pictures) + O + 2 * Cardinality(held) <= D(k) + 2 * late
  BY <1>1 DEF Paid
<1>7. O \in Nat /\ X \in Nat /\ X <= O
  BY DEF Owed
(* The network and the next packet: what the head of the wire leaves to pay. *)
<1>8. ASSUME wire # <<>>, wire' = Tail(wire), s' = s, tsPrev' = tsPrev, pictures' = pictures,
             hand' = Head(wire) \/ OnlySound(hand'.blocks),
             2 * Cardinality(held') - 2 * late' <= 2 * Cardinality(held) - 2 * late,
             Cardinality(held') \in Nat, late' \in Nat
      PROVE  HandOverInv'
  <2>1. CASE /\ k + 1 \in 1 .. Len(q) /\ Head(wire) = Msg("main", q[k + 1])
             /\ Wired(Tail(wire), s, k + 1, j)
    <3>1. hand'.ts = Latest(q, k + 1) \/ OnlySound(hand'.blocks)
      BY <1>2, <1>8, <2>1 DEF Latest, Msg
    <3> DEFINE P == Owed(Latest(q, k + 1), tsPrev, hand')
    <3>2. /\ D(k + 1) \in Nat
          /\ P - D(k + 1) <= X - D(k)
      BY <1>2, <1>4, <2>1, <3>1, OwedGrows
    <3>3. P \in Nat
      BY DEF Owed
    <3> DEFINE d == D(k)
               e == D(k + 1)
               h == 2 * Cardinality(held)
               g == 2 * Cardinality(held')
               l == 2 * late
               m == 2 * late'
    <3> HIDE DEF P, d, e, h, g, l, m, O, X
    <3>4. Len(pictures) + O + h <= d + l
      BY <1>6 DEF d, h, l
    <3>5. e \in Nat /\ d \in Nat /\ P - e <= X - d
      BY <1>5, <3>2 DEF d, e
    <3>6. /\ h \in Nat /\ g \in Nat /\ l \in Nat /\ m \in Nat
          /\ g - m <= h - l
      <4>1. g - m <= h - l
        BY <1>8 DEF h, g, l, m
      <4>2. h \in Nat /\ l \in Nat
        BY <1>3 DEF h, l
      <4>3. g \in Nat /\ m \in Nat
        <5>1. Cardinality(held') \in Nat /\ late' \in Nat
          BY <1>8
        <5> QED
          BY <5>1, Twice DEF g, m
      <4> QED
        BY <4>1, <4>2, <4>3
    <3>7. Len(pictures) + P + g <= e + m
      BY <1>3, <1>7, <3>3, <3>4, <3>5, <3>6
    <3>8. Len(pictures) + P + 2 * Cardinality(held') <= D(k + 1) + 2 * late'
      BY <3>7 DEF e, g, m
    <3>9. Paid(k + 1)'
      BY <1>8, <3>8 DEF Paid, P
    <3>10. Wired(wire, s, k + 1, j)'
      BY <1>8, <2>1
    <3> QED
      BY <3>9, <3>10 DEF HandOverInv
  <2>2. CASE /\ j + 1 \in 1 .. Len(s.asent) /\ Head(wire) = Msg("audio", s.asent[j + 1])
             /\ Wired(Tail(wire), s, k, j + 1)
    <3>1. OnlySound(hand'.blocks)
      BY <1>8, <2>2 DEF Msg, Ranks, SoundSent
    <3> DEFINE P == Owed(Latest(q, k), tsPrev, hand')
    <3>2. P = X
      BY <3>1 DEF Owed
    <3> DEFINE d == D(k)
               h == 2 * Cardinality(held)
               g == 2 * Cardinality(held')
               l == 2 * late
               m == 2 * late'
    <3> HIDE DEF P, d, h, g, l, m, O, X
    <3>3. d \in Nat /\ Len(pictures) + O + h <= d + l
      BY <1>5, <1>6 DEF d, h, l
    <3>4. /\ h \in Nat /\ g \in Nat /\ l \in Nat /\ m \in Nat
          /\ g - m <= h - l
      <4>1. g - m <= h - l
        BY <1>8 DEF h, g, l, m
      <4>2. h \in Nat /\ l \in Nat
        BY <1>3 DEF h, l
      <4>3. g \in Nat /\ m \in Nat
        <5>1. Cardinality(held') \in Nat /\ late' \in Nat
          BY <1>8
        <5> QED
          BY <5>1, Twice DEF g, m
      <4> QED
        BY <4>1, <4>2, <4>3
    <3>5. Len(pictures) + P + g <= d + m
      BY <1>3, <1>7, <3>2, <3>3, <3>4
    <3>6. Paid(k)'
      BY <1>8, <3>5 DEF Paid, P, d, g, m
    <3>7. Wired(wire, s, k, j + 1)'
      BY <1>8, <2>2
    <3> QED
      BY <3>6, <3>7 DEF HandOverInv
  <2> QED
    BY <1>1, <1>2, <1>8, <2>1, <2>2, WireTakes
(* No packet moves. *)
<1>9. ASSUME wire' = wire, s' = s, NEW P \in Nat,
             P = Owed(Latest(q, k), tsPrev', hand'),
             late' = late, Cardinality(held') \in Nat, Len(pictures') \in Nat,
             Len(pictures') + P + 2 * Cardinality(held')
               <= Len(pictures) + O + 2 * Cardinality(held)
      PROVE  HandOverInv'
  <2> HIDE DEF O, D
  <2>1. Len(pictures') + P + 2 * Cardinality(held') <= D(k) + 2 * late
    BY <1>3, <1>5, <1>6, <1>7, <1>9
  <2>2. Paid(k)'
    BY <1>9, <2>1 DEF Paid, D
  <2>3. Wired(wire, s, k, j)'
    BY <1>1, <1>9
  <2> QED
    BY <2>2, <2>3 DEF HandOverInv
<1>10. CASE Send
  <2>1. /\ wire = <<>> /\ Next
        /\ wire' = New("main", s.sent, s'.sent) \o New("audio", s.asent, s'.asent)
        /\ UNCHANGED <<held, late, hand, tsPrev, pictures>>
    BY <1>10 DEF Send, Quiet, reader, video
  <2>2. Follows(s, s') /\ s' \in State
    BY <2>1, SenderGrows, RtpStep DEF Ordered, RtpInv, Room
  <2>3. Wired(wire', s', k, j)
    BY <1>1, <1>2, <2>1, <2>2, WireSends
  <2>4. Stamps(s'.sent, k) = Stamps(q, k) /\ Latest(s'.sent, k) = Latest(q, k)
    BY <1>2, <2>2, StampsKept DEF Follows
  <2>5. Paid(k)'
    BY <1>1, <2>1, <2>4 DEF Paid
  <2> QED
    BY <2>3, <2>5 DEF HandOverInv
<1>11. CASE Lose \/ Hold
  <2>1. /\ wire # <<>> /\ wire' = Tail(wire) /\ hand.blocks = <<>>
        /\ UNCHANGED <<s, hand, tsPrev, pictures>>
    BY <1>11 DEF Lose, Hold, reader, video, vars
  <2>2. /\ 2 * Cardinality(held') - 2 * late' <= 2 * Cardinality(held) - 2 * late
        /\ Cardinality(held') \in Nat /\ late' \in Nat
    <3>1. CASE Lose
      BY <1>3, <3>1 DEF Lose
    <3>2. CASE Hold
      <4>1. late' = late + 1 /\ held' = held \cup {Head(wire)}
        BY <3>2 DEF Hold
      <4>2. /\ IsFiniteSet(held')
            /\ Cardinality(held') = Cardinality(held) \/ Cardinality(held') = Cardinality(held) + 1
        BY <1>3, <4>1, FS_AddElement
      <4> QED
        BY <1>3, <4>1, <4>2
    <3> QED
      BY <1>11, <3>1, <3>2
  <2>3. OnlySound(hand'.blocks)
    BY <2>1, SoundEmpty
  <2> QED
    BY <1>8, <2>1, <2>2, <2>3
<1>12. CASE RecvNext
  <2>1. /\ wire # <<>> /\ wire' = Tail(wire) /\ hand' = Head(wire)
        /\ UNCHANGED <<s, held, late, tsPrev, pictures>>
    BY <1>12 DEF RecvNext, Recv, video, vars
  <2>2. /\ 2 * Cardinality(held') - 2 * late' <= 2 * Cardinality(held) - 2 * late
        /\ Cardinality(held') \in Nat /\ late' \in Nat
    BY <1>3, <2>1
  <2> QED
    BY <1>8, <2>1, <2>2
<1>13. CASE RecvLate
  <2>1. PICK p \in held : /\ hand' = p /\ held' = held \ {p}
                          /\ UNCHANGED <<s, wire, late, tsPrev, pictures>>
    BY <1>13 DEF RecvLate, Recv, video, vars
  <2>2. Cardinality(held') = Cardinality(held) - 1 /\ Cardinality(held') \in Nat
    BY <1>3, <2>1, FS_RemoveElement, FS_CardinalityType
  <2> DEFINE P == Owed(Latest(q, k), tsPrev', hand')
  <2>3. P \in Nat /\ P <= O + 2
    BY <2>1 DEF Owed
  <2> HIDE DEF O, P
  <2>4. Len(pictures') + P + 2 * Cardinality(held')
          <= Len(pictures) + O + 2 * Cardinality(held)
    BY <1>3, <1>7, <2>1, <2>2, <2>3
  <2> QED
    BY <1>3, <1>9, <2>1, <2>2, <2>3, <2>4 DEF P
<1>14. CASE ReadPicture
  <2>1. /\ hand.blocks # <<>> /\ hand' = [hand EXCEPT !.blocks = Tail(@)]
        /\ UNCHANGED <<s, wire, held, late>> /\ Block1.i \notin Sound
    BY <1>14 DEF ReadPicture, Done1, vars, network
  <2>2. hand'.ts = hand.ts /\ ~OnlySound(hand.blocks)
    BY <1>3, <2>1, BlockRead DEF Block1
  <2> DEFINE P == Owed(Latest(q, k), tsPrev', hand')
  <2>3. P \in Nat
    BY DEF Owed
  <2>4. /\ Len(pictures') \in Nat
        /\ \/ hand.ts = tsPrev /\ tsPrev' = tsPrev /\ Len(pictures') = Len(pictures)
           \/ hand.ts # tsPrev /\ tsPrev' = hand.ts /\ Len(pictures') = Len(pictures) + 1
    <3>1. \/ hand.ts = tsPrev /\ tsPrev' = tsPrev /\ pictures' = pictures
          \/ /\ hand.ts # tsPrev /\ tsPrev' = hand.ts
             /\ pictures' = Append(pictures, [i \in Shown |-> sealed'[cur][i]])
      BY <1>14, PictureStep DEF VP!SameFrame, VP!NewFrame
    <3>2. pictures \in Pictures
      OBVIOUS
    <3> QED
      BY <1>3, <3>1, <3>2 DEF Pictures
  <2>5. Len(pictures') + P <= Len(pictures) + O
    <3>1. CASE hand.ts = tsPrev
      BY <1>3, <2>2, <2>4, <3>1 DEF Owed
    <3>2. CASE hand.ts # tsPrev
      BY <1>3, <2>2, <2>4, <3>2 DEF Owed
    <3> QED
      BY <3>1, <3>2
  <2> HIDE DEF O, P
  <2>6. /\ Cardinality(held') \in Nat
        /\ Len(pictures') + P + 2 * Cardinality(held')
             <= Len(pictures) + O + 2 * Cardinality(held)
    BY <1>3, <1>7, <2>1, <2>3, <2>4, <2>5
  <2> QED
    BY <1>9, <2>1, <2>3, <2>4, <2>6 DEF P
<1>15. CASE ReadSound
  <2>1. /\ hand.blocks # <<>> /\ hand' = [hand EXCEPT !.blocks = Tail(@)]
        /\ UNCHANGED <<s, wire, held, late, tsPrev, pictures>>
    BY <1>15 DEF ReadSound, Done1, vars, network, video
  <2>2. hand'.ts = hand.ts /\ (OnlySound(hand.blocks) => OnlySound(hand'.blocks))
    BY <1>3, <2>1, BlockRead
  <2> DEFINE P == Owed(Latest(q, k), tsPrev', hand')
  <2>3. P \in Nat /\ P <= O
    BY <2>1, <2>2 DEF Owed
  <2> HIDE DEF O, P
  <2>4. Len(pictures') + P + 2 * Cardinality(held')
          <= Len(pictures) + O + 2 * Cardinality(held)
    BY <1>3, <1>7, <2>1, <2>3
  <2> QED
    BY <1>3, <1>9, <2>1, <2>3, <2>4 DEF P
<1>16. CASE UNCHANGED <<vars, network, reader>>
  BY <1>1, <1>16 DEF vars, network, reader, video, HandOverInv, Paid
<1> QED
  BY <1>10, <1>11, <1>12, <1>13, <1>14, <1>15, <1>16 DEF StreamNext

(* read.c:195: a picture is handed over for each timestamp sent and for at most
   two more with each packet that the network delivers late. *)
THEOREM HandOversBounded == StreamSpec => []HandOvers
<1>1. StreamInit => HandOverInv
  <2> SUFFICES ASSUME StreamInit PROVE HandOverInv
    OBVIOUS
  <2>1. /\ wire = <<>> /\ held = {} /\ late = 0 /\ hand = NoPacket /\ pictures = <<>>
        /\ tsPrev = 0 /\ s.sent = <<>> /\ s.asent = <<>>
    BY DEF StreamInit, Init, V!Init
  <2>2. <<>> \in Seq(Messages) /\ Len(<<>>) = 0
    OBVIOUS
  <2>3. Wired(wire, s, 0, 0)
    BY <2>1, <2>2 DEF Wired
  <2>4. Cardinality({}) = 0 /\ Stamps(<<>>, 0) = {}
    BY FS_EmptySet DEF Stamps
  <2>5. Owed(Latest(<<>>, 0), 0, NoPacket) = 0
    BY SoundEmpty DEF Owed, Latest, NoPacket
  <2>6. /\ Latest(s.sent, 0) = Latest(<<>>, 0) /\ Stamps(s.sent, 0) = {}
        /\ Len(pictures) = 0 /\ Cardinality(held) = 0
    BY <2>1, <2>2, <2>4
  <2>7. Paid(0)
    BY <2>1, <2>4, <2>5, <2>6 DEF Paid
  <2> QED
    BY <2>3, <2>7 DEF HandOverInv
<1>2. RtpInv /\ NetInv /\ pictures \in Pictures /\ HandOverInv => HandOvers
  <2> SUFFICES ASSUME RtpInv, NetInv, pictures \in Pictures, HandOverInv PROVE HandOvers
    OBVIOUS
  <2>1. PICK k, j : Wired(wire, s, k, j) /\ Paid(k)
    BY DEF HandOverInv
  <2> DEFINE S == {p.ts : p \in Range(s.sent)}
             T == Stamps(s.sent, k)
             O == Owed(Latest(s.sent, k), tsPrev, hand)
  <2>2. s.sent \in Seq(PacketOf) /\ k \in 0 .. Len(s.sent) /\ Len(s.sent) \in Nat
    BY <2>1 DEF RtpInv, Room, State, Wired
  <2>3. IsFiniteSet(S)
    <3> DEFINE g == [n \in 1 .. Len(s.sent) |-> s.sent[n].ts]
    <3>1. IsFiniteSet(1 .. Len(s.sent))
      BY <2>2, FS_Interval
    <3>2. g \in [1 .. Len(s.sent) -> S] /\ \A n \in 1 .. Len(s.sent) : g[n] = s.sent[n].ts
      BY <2>2 DEF Range
    <3>3. \A x \in S : \E n \in 1 .. Len(s.sent) : s.sent[n].ts = x
      BY <2>2 DEF Range
    <3> HIDE DEF g, S
    <3>4. g \in Surjection(1 .. Len(s.sent), S)
      BY <3>2, <3>3 DEF Surjection
    <3> QED
      BY <3>1, <3>4, FS_Surjection
  <2>4. T \subseteq S
    BY <2>2 DEF Stamps, Range
  <2>5. /\ Cardinality(S) \in Nat /\ Cardinality(T) \in Nat
        /\ Cardinality(T) <= Cardinality(S)
    BY <2>3, <2>4, FS_Subset, FS_CardinalityType
  <2>6. O \in Nat
    BY DEF Owed
  <2>7. Len(pictures) \in Nat /\ late \in Nat /\ Cardinality(held) \in Nat
    BY FS_CardinalityType DEF Pictures, NetInv
  <2>8. Len(pictures) + O + 2 * Cardinality(held) <= Cardinality(T) + 2 * late
    BY <2>1 DEF Paid
  <2> HIDE DEF S, T, O
  <2>9. Len(pictures) <= Cardinality(S) + 2 * late
    BY <2>5, <2>6, <2>7, <2>8
  <2> QED
    BY <2>9 DEF HandOvers, S
<1> QED
  BY <1>1, <1>2, HandOverStep, NetHolds, ReaderType, PicturesType, PTL DEF StreamSpec
-----------------------------------------------------------------------------
(* Nothing held back: what is still to come of the pictures, in the packets on
   the wire but for the copies, in the buffer and on the bus. *)
Here == [f |-> src, i |-> pos]
ComingOf(t, here, k) ==
  {here} \cup Range(t.out)
    \cup UNION {Range(t.sent[n].blocks) : n \in {m \in Orig(t.sent) : m > k}}
Coming(k) == ComingOf(s, Here, k)
Soon(k) == {b \in Range(hand.blocks) : b.i \notin Sound} \cup Coming(k)

(* The packet in hand comes before all that, and what is shown before both. *)
InHand(k) == \/ OnlySound(hand.blocks)
             \/ Climbs(hand.blocks) /\ Precede(Range(hand.blocks), Coming(k))
Shown1(i) == [f |-> VP!Newest[i], i |-> i]
BehindSoon(k) == \A i \in Shown : VP!Newest[i] # 0 => Precede({Shown1(i)}, Soon(k))

Rises == /\ \A n \in 1 .. Len(pictures), i \in Shown : pictures[n][i] <= VP!Newest[i]
         /\ \A n \in 2 .. Len(pictures), i \in Shown : pictures[n][i] >= pictures[n - 1][i]
BackInv == late = 0 => /\ Rises
                       /\ \E k, j : Wired(wire, s, k, j) /\ InHand(k) /\ BehindSoon(k)

LEMMA ComingIs ==
  ASSUME NEW t, NEW here, NEW k, NEW c
  PROVE  c \in ComingOf(t, here, k)
           <=> \/ c \in Range(t.out) \/ c = here
               \/ \E n \in Orig(t.sent) : n > k /\ c \in Range(t.sent[n].blocks)
<1> DEFINE S == {m \in Orig(t.sent) : m > k}
           U == UNION {Range(t.sent[n].blocks) : n \in S}
<1>1. ComingOf(t, here, k) = {here} \cup Range(t.out) \cup U
  BY DEF ComingOf
<1>2. \A n : n \in S <=> n \in Orig(t.sent) /\ n > k
  OBVIOUS
<1> HIDE DEF S
<1>3. c \in U <=> \E n \in S : c \in Range(t.sent[n].blocks)
  OBVIOUS
<1> HIDE DEF U
<1> QED
  BY <1>1, <1>2, <1>3

LEMMA HeadTail ==
  ASSUME NEW x \in Seq(BlockOf), x # <<>>
  PROVE  /\ Range(x) = {Head(x)} \cup Range(Tail(x)) /\ Head(x) \in BlockOf
         /\ Climbs(x) => Climbs(Tail(x)) /\ Precede({Head(x)}, Range(Tail(x)))
<1> DEFINE r == Tail(x)
<1>1. /\ Len(x) \in Nat \ {0} /\ Head(x) = x[1] /\ Head(x) \in BlockOf /\ Len(r) = Len(x) - 1
      /\ DOMAIN x = 1 .. Len(x) /\ DOMAIN r = 1 .. Len(r)
      /\ \A n \in 1 .. Len(r) : r[n] = x[n + 1]
  OBVIOUS
<1> HIDE DEF r
<1>2. Range(x) = {x[n] : n \in 1 .. Len(x)} /\ Range(r) = {r[n] : n \in 1 .. Len(r)}
  BY <1>1 DEF Range
<1>3. \A n \in 1 .. Len(x) : n = 1 \/ (n - 1 \in 1 .. Len(r) /\ x[n] = r[n - 1])
  BY <1>1
<1>4. \A n \in 1 .. Len(r) : n + 1 \in 1 .. Len(x) /\ r[n] = x[n + 1] /\ 1 < n + 1
  BY <1>1
<1>5. Range(x) = {Head(x)} \cup Range(r)
  <2>1. ASSUME NEW y \in Range(x) PROVE y \in {Head(x)} \cup Range(r)
    BY <1>1, <1>2, <1>3
  <2>2. ASSUME NEW y \in Range(r) PROVE y \in Range(x)
    BY <1>2, <1>4
  <2>3. Head(x) \in Range(x)
    BY <1>1, <1>2
  <2> QED
    BY <2>1, <2>2, <2>3
<1>6. ASSUME Climbs(x) PROVE Climbs(r) /\ Precede({Head(x)}, Range(r))
  <2>1. ASSUME NEW m \in 1 .. Len(r), NEW n \in 1 .. Len(r), m < n
        PROVE  Before(r[m], r[n])
    <3>1. m + 1 \in 1 .. Len(x) /\ n + 1 \in 1 .. Len(x) /\ m + 1 < n + 1
      BY <1>1, <2>1
    <3> QED
      BY <1>1, <1>6, <3>1 DEF Climbs
  <2>2. ASSUME NEW n \in 1 .. Len(r) PROVE Before(x[1], r[n])
    <3>1. 1 \in 1 .. Len(x) /\ n + 1 \in 1 .. Len(x) /\ 1 < n + 1 /\ r[n] = x[n + 1]
      BY <1>1, <1>4
    <3> QED
      BY <1>6, <3>1 DEF Climbs
  <2> QED
    BY <1>1, <1>2, <2>1, <2>2 DEF Climbs, Precede
<1> QED
  BY <1>1, <1>5, <1>6 DEF r

(* A packet of the main stream leaves the wire. *)
LEMMA ComingTakes ==
  ASSUME RtpInv, TurnInv, NEW k \in Nat, k + 1 \in 1 .. Len(s.sent)
  PROVE  /\ Coming(k + 1) \subseteq Coming(k)
         /\ ~s.sent[k + 1].copy =>
              /\ Range(s.sent[k + 1].blocks) \subseteq Coming(k)
              /\ Climbs(s.sent[k + 1].blocks)
              /\ Precede(Range(s.sent[k + 1].blocks), Coming(k + 1))
<1> DEFINE p == s.sent[k + 1]
<1>1. Coming(k + 1) \subseteq Coming(k)
  <2> SUFFICES ASSUME NEW c \in ComingOf(s, Here, k + 1) PROVE c \in ComingOf(s, Here, k)
    BY DEF Coming
  <2>1. \A n \in Orig(s.sent) : n > k + 1 => n > k
    BY DEF Orig
  <2> QED
    BY <2>1, ComingIs
<1>2. ASSUME ~p.copy
      PROVE  /\ Range(p.blocks) \subseteq Coming(k) /\ Climbs(p.blocks)
             /\ Precede(Range(p.blocks), Coming(k + 1))
  <2>1. k + 1 \in Orig(s.sent) /\ k + 1 > k
    BY <1>2 DEF Orig
  <2>2. Range(p.blocks) \subseteq Coming(k)
    BY <2>1, ComingIs DEF Coming
  <2>3. Turn(s.sent, s.out, kept) /\ Behindhand(kept)
    BY DEF TurnInv
  <2>4. Range(p.blocks) \subseteq Carry(s.sent)
    BY <2>1 DEF Carry
  <2>5. Range(p.blocks) \subseteq Range(kept)
    BY <2>3, <2>4 DEF Turn
  <2>6. Precede(Range(p.blocks), Range(s.out) \cup {Here})
    BY <2>3, <2>4, <2>5 DEF Turn, Precede, Behindhand, Here
  <2>7. ASSUME NEW n \in Orig(s.sent), n > k + 1
        PROVE  Precede(Range(p.blocks), Range(s.sent[n].blocks))
    <3>1. k + 1 < n
      BY <2>7 DEF Orig
    <3> QED
      BY <2>1, <2>3, <3>1 DEF Turn, Sorted
  <2>8. Precede(Range(p.blocks), Coming(k + 1))
    <3> SUFFICES ASSUME NEW a \in Range(p.blocks), NEW c \in ComingOf(s, Here, k + 1)
                 PROVE  Before(a, c)
      BY DEF Precede, Coming
    <3> HIDE DEF p
    <3> QED
      BY <2>6, <2>7, ComingIs DEF Precede
  <2> QED
    BY <2>1, <2>2, <2>3, <2>8 DEF Turn, Sorted
<1> QED
  BY <1>1, <1>2

(* What the packetiser adds comes from its buffer or from the bus. *)
LEMMA ComingSends ==
  ASSUME RtpInv, TurnInv, Next, RtpInv', TurnInv', Grown(s.sent, s'.sent),
         NEW k, k = Len(s.sent)
  PROVE  \A c \in Coming(k)' : c \in Range(s.out) \cup {Here} \/ c = Here'
<1> DEFINE q == s.sent
           r == s'.sent
<1>1. /\ q \in Seq(PacketOf) /\ r \in Seq(PacketOf) /\ k \in Nat
      /\ Len(q) \in Nat /\ Len(r) \in Nat
  <2>1. s \in State /\ s' \in State
    BY DEF RtpInv, Room
  <2>2. q \in Seq(PacketOf) /\ r \in Seq(PacketOf)
    BY <2>1 DEF State
  <2> QED
    BY <2>2
<1>2. /\ Turn(q, s.out, kept) /\ Turn(r, s'.out, kept')
      /\ kept \in Seq(BlockOf) /\ kept' \in Seq(BlockOf)
  BY DEF TurnInv
<1>3. Range(kept') \subseteq Range(kept) \cup {Here}
  <2>1. CASE Block
    <3>1. /\ (kept' = kept \/ kept' = Append(kept, Here)) /\ Advance
      BY <2>1 DEF Block, Here
    <3>2. Here \in BlockOf
      BY <2>1 DEF Block, Advance, RtpInv, BlockOf, Here
    <3> HIDE DEF Here
    <3> QED
      BY <1>2, <3>1, <3>2, RangeAppend
  <2>2. CASE kept' = kept
    BY <2>2
  <2> QED
    BY <2>1, <2>2 DEF Next, Missing, Usr1, Usr2, Signal
<1>4. ASSUME NEW c \in Range(kept') PROVE c \in BlockOf /\ ~Before(c, c)
  <2>1. c \in BlockOf
    BY <1>2 DEF Range
  <2> QED
    BY <2>1, OptionAssumption DEF Before, BlockOf
<1>5. ASSUME NEW c \in Range(kept'), c \notin Range(s.out), c # Here
      PROVE  \E m \in Orig(r) : m <= k /\ c \in Range(r[m].blocks)
  <2>1. c \in Carry(q)
    BY <1>2, <1>3, <1>5 DEF Turn
  <2>2. PICK m \in Orig(q) : c \in Range(q[m].blocks)
    BY <2>1 DEF Carry
  <2>3. m \in 1 .. Len(q) /\ r[m] = q[m] /\ m \in 1 .. Len(r)
    BY <1>1, <2>2 DEF Orig, Grown
  <2> QED
    BY <2>2, <2>3 DEF Orig
<1>6. SUFFICES ASSUME NEW c \in Coming(k)', c # Here', c \notin Range(s.out), c # Here
               PROVE  FALSE
  OBVIOUS
<1>7. CASE c \in Range(s'.out)
  <2>1. c \in Range(kept')
    BY <1>2, <1>7 DEF Turn
  <2>2. PICK m \in Orig(r) : m <= k /\ c \in Range(r[m].blocks)
    BY <1>5, <1>6, <2>1
  <2>3. c \in Carry(r)
    BY <2>2 DEF Carry
  <2>4. Before(c, c)
    BY <1>2, <1>7, <2>3 DEF Turn, Precede
  <2> QED
    BY <1>4, <2>1, <2>4
<1>8. CASE \E n \in Orig(r) : n > k /\ c \in Range(r[n].blocks)
  <2>1. PICK n \in Orig(r) : n > k /\ c \in Range(r[n].blocks)
    BY <1>8
  <2>2. c \in Range(kept')
    BY <1>2, <2>1 DEF Turn, Carry
  <2>3. PICK m \in Orig(r) : m <= k /\ c \in Range(r[m].blocks)
    BY <1>5, <1>6, <2>2
  <2>4. m < n
    BY <1>1, <2>1, <2>3 DEF Orig
  <2>5. Before(c, c)
    BY <1>2, <2>1, <2>3, <2>4 DEF Turn, Sorted, Precede
  <2> QED
    BY <1>4, <2>2, <2>5
<1>9. c \in ComingOf(s', Here', k)
  BY DEF Coming
<1> QED
  BY <1>6, <1>7, <1>8, <1>9, ComingIs

LEMMA BeforeTrans ==
  ASSUME NEW a, NEW b, NEW c, a.f \in Nat, b.f \in Nat, c.f \in Nat,
         a.i \in Nat, b.i \in Nat, c.i \in Nat, Before(a, b), Before(b, c)
  PROVE  Before(a, c)
  BY DEF Before

LEMMA NewestType ==
  ASSUME VP!TypeOK, NEW i \in Shown
  PROVE  VP!Newest[i] \in 0 .. MaxFrame
<1>1. /\ cur \in VP!Slot /\ VP!PrevOf(cur) \in VP!Slot
  BY VP!RingPointers, RingAssumptions DEF VP!TypeOK
<1>2. /\ ring[cur] \in [VP!Pos -> 0 .. MaxFrame]
      /\ ring[VP!PrevOf(cur)] \in [VP!Pos -> 0 .. MaxFrame] /\ i \in VP!Pos
  BY <1>1 DEF VP!TypeOK, VP!Pos
<1> QED
  BY <1>2 DEF VP!Newest

LEMMA Shown1Type ==
  ASSUME VP!TypeOK, NEW i \in Shown, VP!Newest[i] # 0
  PROVE  Shown1(i) \in BlockOf /\ Shown1(i).f = VP!Newest[i] /\ Shown1(i).i = i
<1>1. VP!Newest[i] \in 1 .. MaxFrame
  BY NewestType, OptionAssumption
<1>2. i \in 1 .. Len(Frame)
  BY FrameAssumption DEF Shown, Places
<1> QED
  BY <1>1, <1>2 DEF Shown1, BlockOf

(* What is handed over. *)
LEMMA PictureIsNewest ==
  ASSUME VP!TypeOK, NEW ts \in Nat, NEW p, NEW d, VP!NewFrame(ts, p, d), p \in VP!Pos,
         d \in 0 .. MaxFrame
  PROVE  \A i \in Shown : sealed'[cur][i] = VP!Newest[i]
<1>1. [i \in Shown |-> sealed'[VP!PrevOf(cur')][i]] = VP!Newest
  BY VP!HandOverIsReceive, RingAssumptions
<1>2. VP!PrevOf(cur') = cur
  BY VP!RingPointers, RingAssumptions DEF VP!NewFrame, VP!TypeOK
<1> QED
  BY <1>1, <1>2

(* The reader takes a block of a picture. *)
LEMMA NewestReads ==
  ASSUME NetInv, VP!TypeOK, ReadPicture, NEW k, InHand(k), BehindSoon(k), Rises,
         pictures \in Pictures
  PROVE  /\ Precede({Block1}, Range(Tail(hand.blocks)) \cup Coming(k))
         /\ Climbs(Tail(hand.blocks))
         /\ \A i \in Shown : VP!Newest'[i] = IF i = Block1.i THEN Block1.f ELSE VP!Newest[i]
         /\ Rises'
<1> DEFINE b == Block1
           x == hand.blocks
<1>1. /\ b \in BlockOf /\ b.i \in VP!Pos /\ b.f \in 0 .. MaxFrame /\ hand.ts \in Nat
      /\ \/ /\ hand.ts = tsPrev /\ VP!SameFrame(b.i, b.f) /\ pictures' = pictures
         \/ /\ hand.ts # tsPrev /\ VP!NewFrame(hand.ts, b.i, b.f)
            /\ pictures' = Append(pictures, [i \in Shown |-> sealed'[cur][i]])
  BY PictureStep
<1>2. /\ x \in Seq(BlockOf) /\ x # <<>> /\ b = Head(x) /\ b.i \notin Sound
  BY DEF ReadPicture, Done1, Block1, NetInv, Messages
<1>3. Range(x) = {b} \cup Range(Tail(x))
  BY <1>2, HeadTail
<1>4. ~OnlySound(x)
  BY <1>2 DEF OnlySound
<1>5. Climbs(x) /\ Precede(Range(x), Coming(k))
  BY <1>4 DEF InHand
<1>6. Climbs(Tail(x)) /\ Precede({b}, Range(Tail(x)) \cup Coming(k))
  <2>1. Climbs(Tail(x)) /\ Precede({b}, Range(Tail(x)))
    BY <1>2, <1>5, HeadTail
  <2>2. \A c \in Coming(k) : Before(b, c)
    BY <1>3, <1>5 DEF Precede
  <2>3. \A c \in Range(Tail(x)) : Before(b, c)
    BY <2>1 DEF Precede
  <2>4. Precede({b}, Range(Tail(x)) \cup Coming(k))
    BY <2>2, <2>3 DEF Precede
  <2> QED
    BY <2>1, <2>4
<1>7. VP!Newest' = [i \in Shown |-> IF i = b.i THEN b.f ELSE VP!Newest[i]]
  BY <1>1, VP!StoreIsReceive, VP!HandOverIsReceive, RingAssumptions
<1>8. \A i \in Shown : VP!Newest'[i] = IF i = b.i THEN b.f ELSE VP!Newest[i]
  BY <1>7
<1>9. ASSUME NEW i \in Shown
      PROVE  /\ VP!Newest[i] \in Nat /\ VP!Newest'[i] \in Nat
             /\ VP!Newest[i] <= VP!Newest'[i]
  <2>1. VP!Newest[i] \in Nat /\ b.f \in Nat
    BY <1>1, NewestType, OptionAssumption
  <2>2. CASE i = b.i /\ VP!Newest[i] # 0
    <3>1. b \in Soon(k)
      BY <1>2, <1>3 DEF Soon
    <3>2. Before(Shown1(i), b)
      BY <2>2, <3>1 DEF BehindSoon, Precede
    <3>3. Shown1(i).f = VP!Newest[i] /\ Shown1(i).i = i /\ i \in Nat
      BY <2>2, Shown1Type DEF BlockOf
    <3>4. VP!Newest[i] < b.f
      BY <2>1, <2>2, <3>2, <3>3 DEF Before
    <3> QED
      BY <1>8, <2>1, <2>2, <3>4
  <2> QED
    BY <1>8, <2>1, <2>2
<1>10. \A n \in 1 .. Len(pictures), i \in Shown : pictures[n][i] \in Nat
  <2> DEFINE P == [Shown -> 0 .. MaxFrame]
  <2>1. pictures \in Seq(P)
    BY DEF Pictures
  <2> HIDE DEF P
  <2>2. \A n \in 1 .. Len(pictures) : pictures[n] \in P
    BY <2>1
  <2> QED
    BY <2>2, OptionAssumption DEF P
<1>11. CASE pictures' = pictures
  <2>1. \A n \in 1 .. Len(pictures), i \in Shown : pictures[n][i] <= VP!Newest'[i]
    BY <1>9, <1>10 DEF Rises
  <2>2. Rises'
    BY <1>11, <2>1 DEF Rises
  <2> QED
    BY <1>6, <1>8, <2>2
<1>12. CASE /\ hand.ts # tsPrev /\ VP!NewFrame(hand.ts, b.i, b.f)
            /\ pictures' = Append(pictures, [i \in Shown |-> sealed'[cur][i]])
  <2> DEFINE new == [i \in Shown |-> sealed'[cur][i]]
             P == [Shown -> 0 .. MaxFrame]
  <2>1. \A i \in Shown : new[i] = VP!Newest[i]
    BY <1>1, <1>12, PictureIsNewest
  <2>2. pictures \in Seq(P) /\ new \in P
    <3>1. \A i \in Shown : new[i] \in 0 .. MaxFrame
      BY <2>1, NewestType
    <3>2. new = [i \in Shown |-> new[i]]
      OBVIOUS
    <3> QED
      BY <3>1, <3>2 DEF Pictures
  <2>3. pictures' = Append(pictures, new)
    BY <1>12
  <2> HIDE DEF new, P
  <2>4. /\ Len(pictures') = Len(pictures) + 1 /\ Len(pictures) \in Nat
        /\ pictures'[Len(pictures) + 1] = new
        /\ \A n \in 1 .. Len(pictures) : pictures'[n] = pictures[n]
    BY <2>2, <2>3
  <2>5. ASSUME NEW n \in 1 .. Len(pictures'), NEW i \in Shown
        PROVE  pictures'[n][i] <= VP!Newest'[i]
    <3>1. CASE n = Len(pictures) + 1
      BY <1>9, <2>1, <2>4, <3>1
    <3>2. CASE n \in 1 .. Len(pictures)
      <4>1. pictures[n][i] <= VP!Newest[i] /\ pictures[n][i] \in Nat
        BY <1>10, <3>2 DEF Rises
      <4> QED
        BY <1>9, <2>4, <3>2, <4>1
    <3> QED
      BY <2>4, <3>1, <3>2
  <2>6. ASSUME NEW n \in 2 .. Len(pictures'), NEW i \in Shown
        PROVE  pictures'[n][i] >= pictures'[n - 1][i]
    <3>1. CASE n = Len(pictures) + 1
      <4>1. /\ n - 1 \in 1 .. Len(pictures) /\ pictures'[n - 1] = pictures[n - 1]
            /\ pictures'[n] = new
        BY <2>4, <3>1
      <4>2. pictures[n - 1][i] <= VP!Newest[i] /\ pictures[n - 1][i] \in Nat
        BY <1>10, <4>1 DEF Rises
      <4> QED
        BY <1>9, <2>1, <4>1, <4>2
    <3>2. CASE n \in 2 .. Len(pictures)
      <4>1. n - 1 \in 1 .. Len(pictures) /\ n \in 1 .. Len(pictures)
        BY <2>4, <3>2
      <4> QED
        BY <2>4, <3>2, <4>1 DEF Rises
    <3> QED
      BY <2>4, <3>1, <3>2
  <2>7. Rises'
    BY <2>5, <2>6 DEF Rises
  <2> QED
    BY <1>6, <1>8, <2>7
<1> QED
  BY <1>1, <1>11, <1>12

LEMMA NewestKept ==
  ASSUME UNCHANGED video
  PROVE  /\ VP!Newest' = VP!Newest /\ (Rises => Rises')
         /\ \A i \in Shown : Shown1(i)' = Shown1(i)
<1>1. UNCHANGED <<ring, flag, cur, pictures>>
  BY DEF video
<1>2. VP!Newest' = VP!Newest
  BY <1>1 DEF VP!Newest, VP!PrevOf
<1> QED
  BY <1>1, <1>2 DEF Rises, Shown1

(* The bus moves on; a packet holds no picture. *)
LEMMA HereMoves ==
  ASSUME RtpInv, RtpInv', Next
  PROVE  /\ Here.f \in Nat /\ Here.i \in Nat /\ Here'.f \in Nat /\ Here'.i \in Nat
         /\ Here' = Here \/ Before(Here, Here')
<1>1. /\ src \in Nat /\ pos \in Nat /\ src' \in Nat /\ pos' \in Nat
  BY DEF RtpInv
<1>2. CASE Advance
  BY <1>1, <1>2, AdvanceBefore DEF Here, RtpInv, Advance, Before
<1>3. CASE UNCHANGED <<src, pos>>
  BY <1>1, <1>3 DEF Here
<1> QED
  BY <1>1, <1>2, <1>3 DEF Next, Block, Missing, Usr1, Usr2, Signal, Here

LEMMA NoPicture ==
  ASSUME NEW x \in Seq(BlockOf), OnlySound(x)
  PROVE  {b \in Range(x) : b.i \notin Sound} = {}
<1>1. DOMAIN x = 1 .. Len(x)
  OBVIOUS
<1> QED
  BY <1>1 DEF OnlySound, Range

LEMMA BackStep ==
  /\ RtpInv /\ TurnInv /\ Ranks(s) /\ NetInv /\ VP!TypeOK /\ pictures \in Pictures
  /\ RtpInv' /\ TurnInv' /\ BackInv /\ [StreamNext]_<<vars, network, reader>>
  => BackInv'
<1> SUFFICES ASSUME RtpInv, TurnInv, Ranks(s), NetInv, VP!TypeOK, pictures \in Pictures,
                    RtpInv', TurnInv', BackInv, [StreamNext]_<<vars, network, reader>>,
                    late' = 0
             PROVE  /\ Rises'
                    /\ \E k, j : Wired(wire', s', k, j) /\ InHand(k)' /\ BehindSoon(k)'
  BY DEF BackInv
<1>1. late = 0 /\ held = {} /\ ~Hold
  <2>1. late \in Nat /\ (late = 0 => held = {})
    BY DEF NetInv
  <2>2. ~Hold
    BY <2>1 DEF Hold
  <2>3. late' = late
    BY <2>2 DEF StreamNext, Send, Lose, RecvNext, RecvLate, Recv, ReadPicture, ReadSound,
                Done1, network
  <2> QED
    BY <2>1, <2>2, <2>3
<1>2. Rises /\ \E k, j : Wired(wire, s, k, j) /\ InHand(k) /\ BehindSoon(k)
  BY <1>1 DEF BackInv
<1>3. PICK k, j : Wired(wire, s, k, j) /\ InHand(k) /\ BehindSoon(k)
  BY <1>2
<1>4. /\ s \in State /\ s.sent \in Seq(PacketOf) /\ s.asent \in Seq(PacketOf)
      /\ hand \in Messages /\ hand.blocks \in Seq(BlockOf)
      /\ k \in Nat /\ Len(<<>>) = 0
  BY <1>3 DEF RtpInv, Room, State, NetInv, Messages, Wired
<1>5. Here \in Coming(k) /\ Range(s.out) \subseteq Coming(k) /\ Coming(k) \subseteq Soon(k)
  BY ComingIs DEF Coming, Soon
<1>6. CASE Send
  <2>1. /\ wire = <<>> /\ Next /\ hand.blocks = <<>> /\ hand' = hand
        /\ wire' = New("main", s.sent, s'.sent) \o New("audio", s.asent, s'.asent)
        /\ UNCHANGED video
    BY <1>6 DEF Send, Quiet, reader
  <2>2. Follows(s, s')
    BY <2>1, SenderGrows DEF Ordered
  <2>3. s' \in State
    BY DEF RtpInv, Room
  <2>4. Wired(wire', s', k, j) /\ k = Len(s.sent)
    BY <1>3, <1>4, <2>1, <2>2, <2>3, WireSends
  <2>5. InHand(k)'
    BY <2>1, SoundEmpty DEF InHand
  <2>6. \A c \in Coming(k)' : c \in Coming(k) \/ c = Here'
    BY <1>5, <2>1, <2>2, <2>4, ComingSends DEF Follows
  <2>7. Soon(k)' = Coming(k)'
    <3>1. {b \in Range(hand'.blocks) : b.i \notin Sound} = {}
      BY <1>4, <2>1, SoundEmpty, NoPicture
    <3> QED
      BY <3>1 DEF Soon
  <2>8. ASSUME NEW i \in Shown, VP!Newest'[i] # 0 PROVE Precede({Shown1(i)'}, Soon(k)')
    <3>1. VP!Newest[i] # 0 /\ Shown1(i)' = Shown1(i)
      BY <2>1, <2>8, NewestKept
    <3>2. \A c \in Coming(k) : Before(Shown1(i), c)
      BY <1>3, <1>5, <3>1 DEF BehindSoon, Precede
    <3>3. Shown1(i).f \in Nat /\ Shown1(i).i \in Nat
      BY <3>1, Shown1Type DEF BlockOf
    <3>4. Before(Shown1(i), Here')
      <4>1. Before(Shown1(i), Here)
        BY <1>5, <3>2
      <4> QED
        BY <2>1, <3>3, <4>1, HereMoves, BeforeTrans
    <3>5. \A c \in Coming(k)' : Before(Shown1(i), c)
      BY <2>6, <3>2, <3>4
    <3> QED
      BY <2>7, <3>1, <3>5 DEF Precede
  <2>9. BehindSoon(k)'
    BY <2>8 DEF BehindSoon
  <2> QED
    BY <1>2, <2>1, <2>4, <2>5, <2>9, NewestKept
<1>7. ASSUME UNCHANGED vars PROVE s' = s /\ Here' = Here /\ \A x \in Nat : Coming(x)' = Coming(x)
  BY <1>7 DEF vars, Here, Coming
<1>8. ASSUME UNCHANGED <<vars, video>>, wire # <<>>, wire' = Tail(wire),
             hand' = Head(wire) \/ hand' = hand, hand.blocks = <<>>
      PROVE  \E x, y : Wired(wire', s', x, y) /\ InHand(x)' /\ BehindSoon(x)'
  <2>0. s' = s /\ \A x \in Nat : Coming(x)' = Coming(x)
    BY <1>7, <1>8
  <2>a. ASSUME NEW x \in Nat, NEW y, Wired(Tail(wire), s, x, y), Coming(x) \subseteq Coming(k),
               hand'.blocks \in Seq(BlockOf),
               \/ OnlySound(hand'.blocks)
               \/ /\ Climbs(hand'.blocks) /\ Range(hand'.blocks) \subseteq Coming(k)
                  /\ Precede(Range(hand'.blocks), Coming(x))
        PROVE  Wired(wire', s', x, y) /\ InHand(x)' /\ BehindSoon(x)'
    <3>1. InHand(x)'
      BY <2>0, <2>a DEF InHand
    <3>2. Soon(x)' \subseteq Coming(k)
      BY <2>0, <2>a, NoPicture DEF Soon
    <3>3. ASSUME NEW i \in Shown, VP!Newest'[i] # 0
          PROVE  Precede({Shown1(i)'}, Soon(x)')
      <4>1. VP!Newest[i] # 0 /\ Shown1(i)' = Shown1(i)
        BY <1>8, <3>3, NewestKept
      <4>2. Precede({Shown1(i)}, Soon(k))
        BY <1>3, <4>1 DEF BehindSoon
      <4> QED
        BY <1>5, <3>2, <4>1, <4>2 DEF Precede
    <3> QED
      BY <1>8, <2>0, <2>a, <3>1, <3>3 DEF BehindSoon
  <2>b. hand' = hand => hand'.blocks \in Seq(BlockOf) /\ OnlySound(hand'.blocks)
    BY <1>4, <1>8, SoundEmpty
  <2>1. CASE /\ k + 1 \in 1 .. Len(s.sent) /\ Head(wire) = Msg("main", s.sent[k + 1])
             /\ Wired(Tail(wire), s, k + 1, j)
    <3> DEFINE p == s.sent[k + 1]
    <3>1. /\ Coming(k + 1) \subseteq Coming(k)
          /\ ~p.copy => /\ Range(p.blocks) \subseteq Coming(k) /\ Climbs(p.blocks)
                        /\ Precede(Range(p.blocks), Coming(k + 1))
      BY <1>4, <2>1, ComingTakes
    <3>2. p.copy => OnlySound(p.blocks)
      BY <2>1 DEF Ranks, SoundCopied
    <3>3. p \in PacketOf
      BY <1>4, <2>1
    <3>4. p.blocks \in Seq(BlockOf)
      BY <3>3 DEF PacketOf
    <3>5. hand' = Head(wire) => hand'.blocks = p.blocks
      BY <2>1 DEF Msg
    <3>6. k + 1 \in Nat
      BY <1>4
    <3> HIDE DEF p
    <3>7. Wired(wire', s', k + 1, j) /\ InHand(k + 1)' /\ BehindSoon(k + 1)'
      BY <1>8, <2>1, <2>a, <2>b, <3>1, <3>2, <3>4, <3>5, <3>6
    <3> QED
      BY <3>7
  <2>2. CASE /\ j + 1 \in 1 .. Len(s.asent) /\ Head(wire) = Msg("audio", s.asent[j + 1])
             /\ Wired(Tail(wire), s, k, j + 1)
    <3> DEFINE p == s.asent[j + 1]
    <3>1. p \in PacketOf /\ OnlySound(p.blocks)
      BY <1>4, <2>2 DEF Ranks, SoundSent
    <3>2. p.blocks \in Seq(BlockOf)
      BY <3>1 DEF PacketOf
    <3>3. hand' = Head(wire) => hand'.blocks = p.blocks
      BY <2>2 DEF Msg
    <3> HIDE DEF p
    <3>4. Wired(wire', s', k, j + 1) /\ InHand(k)' /\ BehindSoon(k)'
      BY <1>4, <1>8, <2>2, <2>a, <2>b, <3>1, <3>2, <3>3
    <3> QED
      BY <3>4
  <2> QED
    BY <1>3, <1>4, <1>8, <2>1, <2>2, WireTakes
<1>9. CASE Lose
  <2>1. /\ UNCHANGED <<vars, video>> /\ wire # <<>> /\ wire' = Tail(wire)
        /\ hand' = hand /\ hand.blocks = <<>>
    BY <1>9 DEF Lose, reader
  <2> QED
    BY <1>2, <1>8, <2>1, NewestKept
<1>10. CASE RecvNext
  <2>1. /\ UNCHANGED <<vars, video>> /\ wire # <<>> /\ wire' = Tail(wire)
        /\ hand' = Head(wire) /\ hand.blocks = <<>>
    BY <1>10 DEF RecvNext, Recv
  <2> QED
    BY <1>2, <1>8, <2>1, NewestKept
<1>11. ASSUME Done1
       PROVE  /\ Wired(wire', s', k, j) /\ hand'.blocks = Tail(hand.blocks)
              /\ \A x \in Nat : Coming(x)' = Coming(x)
              /\ Range(hand'.blocks) \subseteq Range(hand.blocks)
              /\ InHand(k)' /\ Soon(k)' \subseteq Soon(k)
  <2>1. /\ hand.blocks # <<>> /\ hand' = [hand EXCEPT !.blocks = Tail(@)]
        /\ UNCHANGED vars /\ wire' = wire
    BY <1>11 DEF Done1, network
  <2>2. /\ hand'.blocks = Tail(hand.blocks)
        /\ OnlySound(hand.blocks) => OnlySound(hand'.blocks)
    BY <1>4, <2>1, BlockRead
  <2>3. /\ Range(hand.blocks) = {Head(hand.blocks)} \cup Range(hand'.blocks)
        /\ Climbs(hand.blocks) => Climbs(hand'.blocks)
    BY <1>4, <2>1, <2>2, HeadTail
  <2>4. s' = s /\ \A x \in Nat : Coming(x)' = Coming(x)
    BY <1>7, <2>1
  <2>5. InHand(k)'
    BY <1>3, <1>4, <2>2, <2>3, <2>4 DEF InHand, Precede
  <2>6. Soon(k)' \subseteq Soon(k)
    BY <1>4, <2>3, <2>4 DEF Soon
  <2> QED
    BY <1>3, <2>1, <2>2, <2>3, <2>4, <2>5, <2>6
<1>12. CASE ReadPicture
  <2>1. Done1
    BY <1>12 DEF ReadPicture
  <2>2. /\ Precede({Block1}, Range(Tail(hand.blocks)) \cup Coming(k))
        /\ \A i \in Shown : VP!Newest'[i] = IF i = Block1.i THEN Block1.f ELSE VP!Newest[i]
        /\ Rises'
    BY <1>2, <1>3, <1>12, NewestReads
  <2>3. Soon(k)' \subseteq Range(Tail(hand.blocks)) \cup Coming(k)
    BY <1>4, <1>11, <2>1 DEF Soon
  <2>4. ASSUME NEW i \in Shown, VP!Newest'[i] # 0 PROVE Precede({Shown1(i)'}, Soon(k)')
    <3>1. Shown1(i)' = [f |-> VP!Newest'[i], i |-> i]
      BY DEF Shown1
    <3>2. CASE i = Block1.i
      <4>1. Shown1(i)'.f = Block1.f /\ Shown1(i)'.i = Block1.i
        BY <2>2, <3>1, <3>2
      <4> QED
        BY <2>2, <2>3, <4>1 DEF Precede, Before
    <3>3. CASE i # Block1.i
      <4>1. VP!Newest[i] # 0 /\ Shown1(i)' = Shown1(i)
        BY <2>2, <2>4, <3>1, <3>3 DEF Shown1
      <4>2. Precede({Shown1(i)}, Soon(k))
        BY <1>3, <4>1 DEF BehindSoon
      <4>3. Soon(k)' \subseteq Soon(k)
        BY <1>11, <2>1
      <4> QED
        BY <4>1, <4>2, <4>3 DEF Precede
    <3> QED
      BY <3>2, <3>3
  <2> QED
    BY <1>11, <2>1, <2>2, <2>4 DEF BehindSoon
<1>13. CASE ReadSound
  <2>1. Done1 /\ UNCHANGED video
    BY <1>13 DEF ReadSound
  <2>2. ASSUME NEW i \in Shown, VP!Newest'[i] # 0 PROVE Precede({Shown1(i)'}, Soon(k)')
    <3>1. VP!Newest[i] # 0 /\ Shown1(i)' = Shown1(i)
      BY <2>1, <2>2, NewestKept
    <3>2. Precede({Shown1(i)}, Soon(k)) /\ Soon(k)' \subseteq Soon(k)
      BY <1>3, <1>11, <2>1, <3>1 DEF BehindSoon
    <3> QED
      BY <3>1, <3>2 DEF Precede
  <2> QED
    BY <1>2, <1>11, <2>1, <2>2, NewestKept DEF BehindSoon
<1>14. CASE RecvLate
  BY <1>1, <1>14 DEF RecvLate
<1>15. CASE UNCHANGED <<vars, network, reader>>
  <2>1. UNCHANGED <<vars, video>> /\ wire' = wire /\ hand' = hand
    BY <1>15 DEF network, reader
  <2>2. Coming(k)' = Coming(k) /\ s' = s
    BY <1>4, <1>7, <2>1
  <2>3. InHand(k)' /\ Soon(k)' = Soon(k)
    BY <1>3, <2>1, <2>2 DEF InHand, Soon
  <2>4. BehindSoon(k)'
    BY <1>3, <2>1, <2>3, NewestKept DEF BehindSoon
  <2> QED
    BY <1>2, <1>3, <2>1, <2>2, <2>3, <2>4, NewestKept
<1> QED
  BY <1>1, <1>6, <1>9, <1>10, <1>12, <1>13, <1>14, <1>15 DEF StreamNext

LEMMA BackInvHolds == StreamSpec => [](BackInv /\ TurnInv)
<1>1. StreamInit => BackInv
  <2> SUFFICES ASSUME StreamInit PROVE BackInv
    OBVIOUS
  <2>1. /\ wire = <<>> /\ hand = NoPacket /\ pictures = <<>> /\ s.sent = <<>>
        /\ s.asent = <<>> /\ VP!Init
    BY DEF StreamInit, Init, V!Init, VP!Init, V!Slot, VP!Slot, V!Pos, VP!Pos
  <2>2. <<>> \in Seq(Messages) /\ Len(<<>>) = 0
    OBVIOUS
  <2>3. Wired(wire, s, 0, 0)
    BY <2>1, <2>2 DEF Wired
  <2>4. InHand(0)
    BY <2>1, SoundEmpty DEF InHand, NoPacket
  <2>5. \A i \in Shown : VP!Newest[i] = 0
    <3>1. VP!PrevOf(0) \in VP!Slot /\ 0 \in VP!Slot
      BY SlotAssumption DEF VP!PrevOf, VP!Slot
    <3> QED
      BY <2>1, <3>1 DEF VP!Init, VP!Newest, VP!Pos
  <2>6. BehindSoon(0)
    BY <2>5 DEF BehindSoon
  <2>7. Rises
    BY <2>1, <2>2 DEF Rises
  <2> QED
    BY <2>3, <2>4, <2>6, <2>7 DEF BackInv
<1>2. StreamSpec => []TurnInv
  <2>1. StreamInit => Init
    BY DEF StreamInit
  <2>2. StreamSpec => Spec
    BY <2>1, SenderStep, PTL DEF StreamSpec, Spec
  <2> QED
    BY <2>2, TurnInvHolds, PTL
<1> QED
  BY <1>1, <1>2, BackStep, NetHolds, ReaderType, PicturesType, PTL DEF StreamSpec

(* read.c:195-217: what is copied from the slot before fills only what is
   missing, so no place of a picture ever goes back in time. *)
THEOREM NeverOlder == StreamSpec => []NeverBack
<1>1. BackInv => NeverBack
  BY DEF BackInv, Rises, NeverBack
<1> QED
  BY <1>1, BackInvHolds, PTL
-----------------------------------------------------------------------------
(* Losses.  The sequence numbers skipped are the ends of frames that left
   nothing in the buffer: what is in it is what the blocks of the present frame
   leave over when they fill packets. *)
Skipped(t) == t.seq - 1 - Len(t.sent)
Spaced(packets, gap) == \A n \in 1 .. Len(packets) : packets[n].seq - n <= gap
KeptOf(all, f) == {n \in DOMAIN all : all[n].f = f}
Count(all, f) == Cardinality(KeptOf(all, f))
Ends(all, next) == {f \in 1 .. next - 1 : Count(all, f) % PerPkt = 0}
SkipInv == /\ Spaced(s.sent, Skipped(s))
           /\ EndsSeen => /\ Skipped(s) = Cardinality(Ends(kept, src))
                          /\ Len(s.out) = Count(kept, src) % PerPkt

LEMMA SpacedAppend ==
  ASSUME NEW q \in Seq(PacketOf), NEW c \in Seq(PacketOf), NEW seq \in Nat,
         Spaced(q, seq - 1 - Len(q)), \A i \in 1 .. Len(c) : c[i].seq = seq + i - 1
  PROVE  /\ Len(q \o c) = Len(q) + Len(c)
         /\ Spaced(q \o c, seq - 1 - Len(q))
<1> DEFINE r == q \o c
<1>1. /\ Len(r) = Len(q) + Len(c) /\ Len(q) \in Nat /\ Len(c) \in Nat
      /\ \A n \in 1 .. Len(q) : r[n] = q[n]
      /\ \A n \in 1 .. Len(r) : n > Len(q) => r[n] = c[n - Len(q)] /\ n - Len(q) \in 1 .. Len(c)
  OBVIOUS
<1> HIDE DEF r
<1>2. ASSUME NEW n \in 1 .. Len(r) PROVE r[n].seq - n <= seq - 1 - Len(q)
  <2>1. CASE n \in 1 .. Len(q)
    BY <1>1, <2>1 DEF Spaced
  <2>2. CASE n > Len(q)
    <3>1. r[n].seq = seq + (n - Len(q)) - 1
      BY <1>1, <2>2
    <3> QED
      BY <1>1, <3>1
  <2> QED
    BY <1>1, <2>1, <2>2
<1> QED
  BY <1>1, <1>2 DEF Spaced, r

LEMMA SpacedOne ==
  ASSUME NEW q \in Seq(PacketOf), NEW p \in PacketOf, NEW seq \in Nat,
         Spaced(q, seq - 1 - Len(q)), p.seq = seq
  PROVE  /\ Len(Append(q, p)) = Len(q) + 1
         /\ Spaced(Append(q, p), seq - 1 - Len(q))
<1> DEFINE r == Append(q, p)
<1>1. /\ Len(r) = Len(q) + 1 /\ Len(q) \in Nat /\ r[Len(q) + 1] = p
      /\ \A n \in 1 .. Len(q) : r[n] = q[n]
  BY AppendIs
<1> HIDE DEF r
<1>2. ASSUME NEW n \in 1 .. Len(r) PROVE r[n].seq - n <= seq - 1 - Len(q)
  <2>1. CASE n \in 1 .. Len(q)
    BY <1>1, <2>1 DEF Spaced
  <2>2. CASE n = Len(q) + 1
    BY <1>1, <2>2
  <2> QED
    BY <1>1, <2>1, <2>2
<1> QED
  BY <1>1, <1>2 DEF Spaced, r

(* What a block, and then perhaps the end of a frame, does to that. *)
Even(t) == Spaced(t.sent, Skipped(t))

LEMMA AddOutSkips ==
  ASSUME NEW t \in State, NEW b \in BlockOf, Even(t)
  PROVE  LET v == AddOut(t, b)
         IN  /\ Skipped(v) = Skipped(t) /\ Even(v)
             /\ Len(v.out) = IF Len(t.out) + 1 <= PerPkt - 1 THEN Len(t.out) + 1 ELSE 0
<1> DEFINE v == AddOut(t, b)
           x == Append(t.out, b)
           p == Packet(t.seq, t.ts, x, FALSE)
           r == Append(t.sent, p)
<1>1. /\ t.sent \in Seq(PacketOf) /\ t.seq \in Nat /\ t.ts \in Nat /\ x \in Seq(BlockOf)
      /\ Len(x) = Len(t.out) + 1 /\ Len(t.sent) \in Nat /\ Len(t.out) \in Nat
  BY DEF State
<1>2. p \in PacketOf /\ p.seq = t.seq
  BY <1>1 DEF Packet, PacketOf
<1>3. \/ /\ Len(t.out) + 1 <= PerPkt - 1
         /\ v.sent = t.sent /\ v.out = x /\ v.seq = t.seq
      \/ /\ Len(t.out) + 1 > PerPkt - 1
         /\ v.sent = r /\ v.out = <<>> /\ v.seq = t.seq + 1
  BY AddOutFields
<1> HIDE DEF v, x, p
<1>4. Len(r) = Len(t.sent) + 1 /\ Spaced(r, Skipped(t))
  BY <1>1, <1>2, SpacedOne DEF Even, Skipped
<1> HIDE DEF r
<1>5. Skipped(v) = Skipped(t) /\ Spaced(v.sent, Skipped(t))
  <2>1. Skipped(v) = Skipped(t)
    <3>1. \/ v.seq = t.seq /\ Len(v.sent) = Len(t.sent)
          \/ v.seq = t.seq + 1 /\ Len(v.sent) = Len(t.sent) + 1
      BY <1>3, <1>4
    <3>2. v.seq - 1 - Len(v.sent) = t.seq - 1 - Len(t.sent)
      <4>1. t.seq \in Int /\ Len(t.sent) \in Int
        BY <1>1
      <4>2. CASE v.seq = t.seq + 1 /\ Len(v.sent) = Len(t.sent) + 1
        BY <4>1, <4>2
      <4> QED
        BY <3>1, <4>2
    <3> QED
      BY <3>2 DEF Skipped
  <2>2. Spaced(v.sent, Skipped(t))
    BY <1>3, <1>4 DEF Even
  <2> QED
    BY <2>1, <2>2
<1>6. Len(v.out) = IF Len(t.out) + 1 <= PerPkt - 1 THEN Len(t.out) + 1 ELSE 0
  <2>1. Len(<<>>) = 0
    OBVIOUS
  <2> QED
    BY <1>1, <1>3, <2>1, PerPktType
<1> QED
  BY <1>5, <1>6 DEF Even, v

LEMMA AddRedundantSkips ==
  ASSUME NEW t \in State, NEW b \in BlockOf, Even(t), redundancy \in Nat
  PROVE  LET v == AddRedundant(t, b)
         IN  Skipped(v) = Skipped(t) /\ Even(v) /\ v.out = t.out
<1> DEFINE v == AddRedundant(t, b)
           x == Append(t.red, b)
<1>1. v.out = t.out
  BY AddRedundantFields
<1>2. PICK c \in Seq(PacketOf) :
         /\ v.sent = t.sent \o c /\ v.seq = t.seq + Len(c)
         /\ \A i \in 1 .. Len(c) :
              /\ c[i].copy = TRUE /\ c[i].blocks = x
              /\ c[i].ts = t.ts /\ c[i].seq = t.seq + i - 1
  BY AddRedundantFields
<1> HIDE DEF v, x
<1>3. t.sent \in Seq(PacketOf) /\ t.seq \in Nat /\ Len(t.sent) \in Nat /\ Len(c) \in Nat
  BY DEF State
<1>4. Len(v.sent) = Len(t.sent) + Len(c) /\ Spaced(v.sent, t.seq - 1 - Len(t.sent))
  BY <1>2, <1>3, SpacedAppend DEF Even, Skipped
<1>5. Skipped(v) = Skipped(t)
  BY <1>2, <1>3, <1>4 DEF Skipped
<1> QED
  BY <1>1, <1>4, <1>5 DEF Even, Skipped, v

LEMMA FlushSkips ==
  ASSUME NEW t, Room(t), Even(t)
  PROVE  LET v == Flush(t)
         IN  /\ Skipped(v) = Skipped(t) + (IF t.out = <<>> THEN 1 ELSE 0) /\ Even(v)
             /\ Len(v.out) = 0
<1> DEFINE v == Flush(t)
           p == Packet(t.seq, t.ts, t.out, FALSE)
           r == Append(t.sent, p)
<1>1. /\ v.out = <<>> /\ v.seq = t.seq + 1
      /\ \/ t.out = <<>> /\ v.sent = t.sent
         \/ t.out # <<>> /\ v.sent = r
  BY FlushFields
<1>2. /\ t.sent \in Seq(PacketOf) /\ t.seq \in Nat /\ t.ts \in Nat
      /\ t.out \in Seq(BlockOf) /\ Len(t.sent) \in Nat
  BY DEF Room, State
<1>3. p \in PacketOf /\ p.seq = t.seq
  BY <1>2 DEF Packet, PacketOf
<1> HIDE DEF v, p
<1>4. Len(r) = Len(t.sent) + 1 /\ Spaced(r, Skipped(t))
  BY <1>2, <1>3, SpacedOne DEF Even, Skipped
<1> HIDE DEF r
<1>5. CASE t.out = <<>>
  <2>1. Skipped(v) = Skipped(t) + 1
    BY <1>1, <1>2, <1>5 DEF Skipped
  <2>2. \A n \in 1 .. Len(t.sent) : t.sent[n].seq - n <= Skipped(t)
    BY DEF Even, Spaced
  <2>3. \A n \in 1 .. Len(t.sent) : t.sent[n].seq \in Nat
    <3>1. \A n \in 1 .. Len(t.sent) : t.sent[n] \in PacketOf
      BY <1>2
    <3> QED
      BY <3>1 DEF PacketOf
  <2>4. \A n \in 1 .. Len(t.sent) : t.sent[n].seq - n <= Skipped(t) + 1
    BY <1>2, <2>2, <2>3 DEF Skipped
  <2> QED
    BY <1>1, <1>5, <2>1, <2>4 DEF Even, Spaced, v
<1>6. CASE t.out # <<>>
  <2>1. Skipped(v) = Skipped(t)
    BY <1>1, <1>2, <1>4, <1>6 DEF Skipped
  <2> QED
    <3>1. Skipped(t) \in Int /\ Len(<<>>) = 0
      BY <1>2 DEF Skipped
    <3>2. Spaced(v.sent, Skipped(v)) /\ Len(v.out) = 0
      BY <1>1, <1>4, <1>6, <2>1, <3>1
    <3> QED
      BY <1>6, <2>1, <3>1, <3>2 DEF Even, v
<1> QED
  BY <1>5, <1>6

LEMMA ProcDvdifSkips ==
  ASSUME NEW b \in BlockOf, NEW section, NEW last \in BOOLEAN, Room(s), redundancy \in Nat,
         Even(s)
  PROVE  \E u : /\ Room(u) /\ Skipped(u) = Skipped(s) /\ Even(u)
                /\ Len(u.out) = IF ~Keeps(section) THEN Len(s.out)
                                ELSE IF Len(s.out) + 1 <= PerPkt - 1
                                THEN Len(s.out) + 1 ELSE 0
                /\ ProcDvdif(b, section, last) = IF last THEN Flush(u) ELSE u
<1> DEFINE t == IF Keeps(section) THEN AddOut(s, b)
                ELSE IF Separates(section) THEN AddAudio(s, b) ELSE s
           u == IF section = "audio" /\ redundancy > 0 THEN AddRedundant(t, b) ELSE t
           n == IF ~Keeps(section) THEN Len(s.out)
                ELSE IF Len(s.out) + 1 <= PerPkt - 1 THEN Len(s.out) + 1 ELSE 0
<1>1. ProcDvdif(b, section, last) = IF last THEN Flush(u) ELSE u
  BY DEF ProcDvdif
<1>2. s \in State
  BY DEF Room
<1>3. Room(t) /\ Skipped(t) = Skipped(s) /\ Even(t) /\ Len(t.out) = n
  <2>1. CASE Keeps(section)
    <3>1. t = AddOut(s, b)
      BY <2>1
    <3> HIDE DEF t
    <3> QED
      BY <1>2, <2>1, <3>1, AddOutSkips, AddOutWell
  <2>2. CASE ~Keeps(section) /\ Separates(section)
    <3>1. t = AddAudio(s, b)
      BY <2>2
    <3>2. AddAudio(s, b).out = s.out /\ AddAudio(s, b).sent = s.sent
          /\ AddAudio(s, b).seq = s.seq
      BY <1>2, AddAudioFields
    <3> HIDE DEF t
    <3> QED
      BY <2>2, <3>1, <3>2, AddAudioWell DEF Skipped, Even
  <2>3. CASE ~Keeps(section) /\ ~Separates(section)
    BY <2>3
  <2> QED
    BY <2>1, <2>2, <2>3
<1> HIDE DEF t, n
<1>4. Room(u) /\ Skipped(u) = Skipped(s) /\ Even(u) /\ Len(u.out) = n
  <2>1. t \in State
    BY <1>3 DEF Room
  <2> QED
    BY <1>3, <2>1, AddRedundantWell, AddRedundantSkips
<1> HIDE DEF u
<1> QED
  BY <1>1, <1>4 DEF n

LEMMA KeptCount ==
  ASSUME NEW all \in Seq(BlockOf), NEW b \in BlockOf, NEW f
  PROVE  /\ Count(all, f) \in Nat
         /\ Count(Append(all, b), f) = Count(all, f) + (IF b.f = f THEN 1 ELSE 0)
<1> DEFINE S == KeptOf(all, f)
           r == Append(all, b)
           T == KeptOf(r, f)
           m == Len(all) + 1
<1>1. /\ Len(r) = m /\ Len(all) \in Nat /\ r[m] = b /\ \A n \in 1 .. Len(all) : r[n] = all[n]
      /\ DOMAIN r = 1 .. Len(r) /\ DOMAIN all = 1 .. Len(all)
  OBVIOUS
<1> HIDE DEF r
<1>2. IsFiniteSet(S) /\ Cardinality(S) \in Nat
  <2>1. IsFiniteSet(1 .. Len(all)) /\ S \subseteq 1 .. Len(all)
    BY <1>1, FS_Interval DEF KeptOf
  <2> QED
    BY <2>1, FS_Subset, FS_CardinalityType
<1>3. m \notin S
  BY <1>1 DEF KeptOf
<1>4. T = IF b.f = f THEN S \cup {m} ELSE S
  <2>1. ASSUME NEW n PROVE n \in T <=> n \in S \/ (n = m /\ b.f = f)
    <3>1. n \in 1 .. m <=> n \in 1 .. Len(all) \/ n = m
      BY <1>1
    <3> HIDE DEF m
    <3> QED
      BY <1>1, <3>1 DEF KeptOf
  <2> QED
    BY <2>1
<1> HIDE DEF S, T, m
<1>5. Cardinality(S \cup {m}) = Cardinality(S) + 1
  BY <1>2, <1>3, FS_AddElement
<1>6. Cardinality(T) = Cardinality(S) + (IF b.f = f THEN 1 ELSE 0)
  BY <1>2, <1>4, <1>5
<1> QED
  BY <1>2, <1>6 DEF Count, S, T, r

LEMMA RemainderIs ==
  ASSUME NEW x \in Int, NEW d \in Nat \ {0}, NEW r \in 0 .. d - 1
  PROVE  ((x * d) + r) % d = r
<1> DEFINE n == (x * d) + r
           y == n \div d
           z == n % d
<1>1. n \in Int
  OBVIOUS
<1>2. y \in Int /\ z \in 0 .. d - 1 /\ n = (y * d) + z
  <2> HIDE DEF n
  <2> QED
    BY <1>1, DivMod
<1> HIDE DEF y, z
<1>3. (x - y) * d = z - r
  BY <1>2
<1>4. ~(x - y >= 1)
  <2>1. SUFFICES ASSUME x - y >= 1 PROVE FALSE
    OBVIOUS
  <2>2. (x - y) * d >= 1 * d
    BY <1>2, <2>1
  <2> QED
    BY <1>2, <1>3, <2>2
<1>5. ~(x - y <= -1)
  <2>1. SUFFICES ASSUME x - y <= -1 PROVE FALSE
    OBVIOUS
  <2>2. (x - y) * d <= (-1) * d
    BY <1>2, <2>1
  <2> QED
    BY <1>2, <1>3, <2>2
<1>6. x - y = 0
  BY <1>2, <1>4, <1>5
<1> QED
  BY <1>2, <1>3, <1>6 DEF z

LEMMA NextRemainder ==
  ASSUME NEW c \in Nat, NEW d \in Nat \ {0}
  PROVE  (c + 1) % d = IF (c % d) + 1 <= d - 1 THEN (c % d) + 1 ELSE 0
<1> DEFINE x == c \div d
           r == c % d
<1>1. x \in Int /\ r \in 0 .. d - 1 /\ c = x * d + r
  BY DivMod
<1> HIDE DEF x, r
<1>2. CASE r + 1 <= d - 1
  <2>1. c + 1 = x * d + (r + 1) /\ r + 1 \in 0 .. d - 1 /\ x * d \in Int
    BY <1>1, <1>2
  <2>2. ((x * d) + (r + 1)) % d = r + 1
    BY <1>1, <2>1, RemainderIs
  <2> QED
    BY <1>2, <2>1, <2>2 DEF r
<1>3. CASE ~(r + 1 <= d - 1)
  <2>1. c + 1 = (x + 1) * d /\ x + 1 \in Int
    BY <1>1, <1>3
  <2>2. ((x + 1) * d) % d = 0
    BY <2>1, WholeMultiple
  <2> QED
    BY <1>3, <2>1, <2>2 DEF r
<1> QED
  BY <1>2, <1>3

LEMMA EndsGrow ==
  ASSUME NEW all, NEW next \in Nat \ {0}
  PROVE  /\ IsFiniteSet(Ends(all, next)) /\ Cardinality(Ends(all, next)) \in Nat
         /\ Cardinality(Ends(all, next + 1)) =
              Cardinality(Ends(all, next)) + IF Count(all, next) % PerPkt = 0 THEN 1 ELSE 0
<1> DEFINE S == Ends(all, next)
           T == Ends(all, next + 1)
           even(f) == Count(all, f) % PerPkt = 0
<1>1. IsFiniteSet(S) /\ Cardinality(S) \in Nat
  <2>1. IsFiniteSet(1 .. next - 1) /\ S \subseteq 1 .. next - 1
    BY FS_Interval DEF Ends
  <2> QED
    BY <2>1, FS_Subset, FS_CardinalityType
<1>2. next \notin S
  BY DEF Ends
<1>3. T = IF even(next) THEN S \cup {next} ELSE S
  <2>1. \A f : f \in 1 .. next + 1 - 1 <=> f \in 1 .. next - 1 \/ f = next
    OBVIOUS
  <2>2. S = {f \in 1 .. next - 1 : even(f)} /\ T = {f \in 1 .. next + 1 - 1 : even(f)}
    BY DEF Ends
  <2> HIDE DEF even, S, T
  <2> QED
    BY <2>1, <2>2
<1> HIDE DEF S, T
<1>4. Cardinality(S \cup {next}) = Cardinality(S) + 1
  BY <1>1, <1>2, FS_AddElement
<1> QED
  BY <1>1, <1>3, <1>4 DEF S, T

LEMMA SkipStep == RtpInv /\ TurnInv /\ SkipInv /\ [Next]_vars => SkipInv'
<1> SUFFICES ASSUME RtpInv, TurnInv, SkipInv, [Next]_vars PROVE SkipInv'
  OBVIOUS
<1>0. /\ src \in Nat \ {0} /\ pos \in 1 .. Len(Frame) /\ Room(s) /\ redundancy \in Nat
      /\ kept \in Seq(BlockOf) /\ Even(s) /\ s.out \in Seq(BlockOf)
  BY DEF RtpInv, TurnInv, SkipInv, Even, Room, State
<1>1. ASSUME Advance
      PROVE  src' = IF pos = Len(Frame) THEN src + 1 ELSE src
  BY <1>1 DEF Advance
<1>2. CASE Block
  <2> DEFINE b == [f |-> src, i |-> pos]
             last == pos = Len(Frame)
             section == Frame[pos]
  <2>1. /\ s' = ProcDvdif(b, section, last) /\ Advance /\ missed' = missed
        /\ kept' = IF Keeps(section) THEN Append(kept, b) ELSE kept
    BY <1>2 DEF Block
  <2>2. b \in BlockOf /\ b.f = src /\ last \in BOOLEAN
    BY <1>0, <2>1, OptionAssumption DEF Advance, BlockOf
  <2>3. src' = IF last THEN src + 1 ELSE src
    BY <1>1, <2>1
  <2> HIDE DEF b, last, section
  <2>4. PICK u : /\ Room(u) /\ Skipped(u) = Skipped(s) /\ Even(u)
                 /\ Len(u.out) = IF ~Keeps(section) THEN Len(s.out)
                                 ELSE IF Len(s.out) + 1 <= PerPkt - 1
                                 THEN Len(s.out) + 1 ELSE 0
                 /\ ProcDvdif(b, section, last) = IF last THEN Flush(u) ELSE u
    BY <1>0, <2>2, ProcDvdifSkips
  <2>5. /\ Skipped(Flush(u)) = Skipped(u) + (IF u.out = <<>> THEN 1 ELSE 0)
        /\ Even(Flush(u)) /\ Len(Flush(u).out) = 0
    BY <2>4, FlushSkips
  <2>6. Spaced(s'.sent, Skipped(s'))
    BY <2>1, <2>4, <2>5 DEF Even
  <2>7. EndsSeen' <=> EndsSeen
    BY <2>1 DEF EndsSeen
  <2>8. ASSUME EndsSeen
        PROVE  /\ Skipped(s') = Cardinality(Ends(kept', src'))
               /\ Len(s'.out) = Count(kept', src') % PerPkt
    <3>1. /\ Skipped(s) = Cardinality(Ends(kept, src))
          /\ Len(s.out) = Count(kept, src) % PerPkt
      BY <2>8 DEF SkipInv
    <3>2. ASSUME NEW f
          PROVE  /\ Count(kept, f) \in Nat
                 /\ Count(kept', f) = Count(kept, f)
                                        + (IF Keeps(section) /\ src = f THEN 1 ELSE 0)
      <4>1. Count(kept, f) \in Nat
        BY <1>0, <2>2, KeptCount
      <4>2. CASE Keeps(section)
        BY <1>0, <2>1, <2>2, <4>2, KeptCount
      <4>3. CASE ~Keeps(section)
        BY <2>1, <4>1, <4>3
      <4> QED
        BY <4>1, <4>2, <4>3
    <3>3. Ends(kept', src) = Ends(kept, src)
      <4>1. \A f \in 1 .. src - 1 : Count(kept', f) = Count(kept, f)
        BY <1>0, <3>2
      <4> QED
        BY <4>1 DEF Ends
    <3>4. Len(u.out) = Count(kept', src) % PerPkt
      <4>1. CASE Keeps(section)
        BY <2>4, <3>1, <3>2, <4>1, NextRemainder, PerPktType
      <4>2. CASE ~Keeps(section)
        <5>1. Count(kept', src) = Count(kept, src)
          BY <3>2, <4>2
        <5> QED
          BY <2>4, <3>1, <4>2, <5>1
      <4> QED
        BY <4>1, <4>2
    <3>5. CASE ~last
      BY <2>1, <2>3, <2>4, <3>1, <3>3, <3>4, <3>5
    <3>6. CASE last
      <4>1. u.out = <<>> <=> Count(kept', src) % PerPkt = 0
        <5>1. u.out \in Seq(BlockOf)
          BY <2>4 DEF Room, State
        <5>2. u.out = <<>> <=> Len(u.out) = 0
          BY <5>1
        <5> QED
          BY <3>4, <5>2
      <4>2. Skipped(s') = Skipped(s) + (IF u.out = <<>> THEN 1 ELSE 0)
        BY <2>1, <2>4, <2>5, <3>6
      <4>3. Skipped(s') = Cardinality(Ends(kept', src + 1))
        <5>1. Cardinality(Ends(kept', src + 1)) = Cardinality(Ends(kept', src))
                + IF Count(kept', src) % PerPkt = 0 THEN 1 ELSE 0
          BY <1>0, EndsGrow
        <5> QED
          BY <3>1, <3>3, <4>1, <4>2, <5>1
      <4>4. Count(kept', src + 1) = 0
        <5>1. ASSUME NEW n \in KeptOf(kept, src + 1) PROVE FALSE
          <6>1. kept[n] \in Range(kept) /\ kept[n].f = src + 1
            BY <5>1 DEF KeptOf, Range
          <6>2. Before(kept[n], [f |-> src, i |-> pos])
            BY <6>1 DEF TurnInv, Behindhand
          <6> QED
            BY <1>0, <6>1, <6>2 DEF Before
        <5>2. Count(kept, src + 1) = 0
          <6>1. KeptOf(kept, src + 1) = {}
            BY <5>1
          <6> QED
            BY <6>1, FS_EmptySet DEF Count
        <5>3. src # src + 1
          BY <1>0
        <5> QED
          BY <3>2, <5>2, <5>3
      <4>5. Len(s'.out) = 0 /\ 0 % PerPkt = 0
        <5>1. (0 * PerPkt) % PerPkt = 0 /\ 0 * PerPkt = 0
          BY WholeMultiple, PerPktType
        <5> QED
          BY <2>1, <2>4, <2>5, <3>6, <5>1
      <4> QED
        BY <2>3, <3>6, <4>3, <4>4, <4>5
    <3> QED
      BY <3>5, <3>6
  <2> QED
    BY <2>6, <2>7, <2>8 DEF SkipInv
<1>3. CASE Missing
  <2> DEFINE m == [f |-> src, i |-> pos]
  <2>1. Advance /\ missed' = missed \cup {m} /\ m.i = pos /\ s' = s /\ kept' = kept
    BY <1>3 DEF Missing
  <2> HIDE DEF m
  <2>2. ASSUME EndsSeen' PROVE EndsSeen /\ src' = src
    <3>1. EndsSeen /\ pos # Len(Frame)
      BY <2>1, <2>2 DEF EndsSeen
    <3> QED
      BY <1>1, <2>1, <3>1
  <2> QED
    BY <2>1, <2>2 DEF SkipInv
<1>4. CASE Usr1 \/ Usr2 \/ UNCHANGED vars
  <2>1. UNCHANGED <<s, src, kept, missed>>
    BY <1>4 DEF Usr1, Usr2, Signal, vars
  <2> QED
    BY <2>1 DEF SkipInv, EndsSeen
<1> QED
  BY <1>2, <1>3, <1>4 DEF Next

LEMMA SkipInvHolds == Spec => []SkipInv
<1>1. Init => SkipInv
  <2> SUFFICES ASSUME Init PROVE SkipInv
    OBVIOUS
  <2>1. /\ s.sent = <<>> /\ s.out = <<>> /\ s.seq = 1 /\ kept = <<>> /\ src = 1
    BY DEF Init
  <2>2. Len(<<>>) = 0 /\ DOMAIN <<>> = {}
    OBVIOUS
  <2>3. Skipped(s) = 0
    <3>1. s.seq = 1 /\ Len(s.sent) = 0
      BY <2>1, <2>2
    <3> QED
      BY <3>1 DEF Skipped
  <2>7. Spaced(s.sent, Skipped(s))
    BY <2>1, <2>2 DEF Spaced
  <2>4. Ends(kept, src) = {} /\ KeptOf(kept, src) = {}
    BY <2>1, <2>2 DEF Ends, KeptOf
  <2>5. Cardinality(Ends(kept, src)) = 0 /\ Count(kept, src) = 0
    BY <2>4, FS_EmptySet DEF Count
  <2>6. (0 * PerPkt) % PerPkt = 0 /\ 0 * PerPkt = 0
    BY WholeMultiple, PerPktType
  <2> QED
    BY <2>1, <2>2, <2>3, <2>5, <2>6, <2>7 DEF SkipInv
<1> QED
  BY <1>1, SkipStep, RtpInvHolds, TurnInvHolds, PTL DEF Spec

(* What dvrecv has counted, when k packets have left the wire. *)
Counted(k) ==
  \/ seqPrev = 0 /\ pktLossSum = 0 /\ k = lost
  \/ /\ k >= 1 /\ seqPrev >= 1 /\ seqPrev <= s.sent[k].seq
     /\ pktLossSum <= seqPrev - (k - lost)
OneStream == late = 0 /\ "SEPARATED_AUDIO_STREAM" \notin flags
LossInv == OneStream => \E k : Wired(wire, s, k, 0) /\ Counted(k)

LEMMA GapCounts ==
  ASSUME NEW x \in Nat, NEW k \in Nat, lost \in Nat, seqPrev \in Nat,
         pktLossSum \in Nat, k >= 1 => s.sent[k].seq \in Nat /\ s.sent[k].seq < x, x >= 1,
         Counted(k), s.sent[k + 1].seq = x
  PROVE  /\ pktLossSum + Gap(x) <= x - ((k + 1) - lost)
         /\ k + 1 >= 1 /\ x <= s.sent[k + 1].seq
<1>1. CASE seqPrev = 0 /\ pktLossSum = 0 /\ k = lost
  BY <1>1 DEF Gap
<1>2. CASE /\ k >= 1 /\ seqPrev >= 1 /\ seqPrev <= s.sent[k].seq
           /\ pktLossSum <= seqPrev - (k - lost)
  <2>1. seqPrev < x
    BY <1>2
  <2>2. Gap(x) = x - seqPrev - 1
    BY <1>2, <2>1 DEF Gap
  <2> QED
    BY <1>2, <2>2
<1> QED
  BY <1>1, <1>2 DEF Counted

LEMMA LossStep ==
  RtpInv /\ RtpInv' /\ AudioInv /\ AudioInv' /\ Ranks(s) /\ NetInv /\ LossInv
    /\ [StreamNext]_<<vars, network, reader>> => LossInv'
<1> SUFFICES ASSUME RtpInv, RtpInv', AudioInv, AudioInv', Ranks(s), NetInv, LossInv,
                    [StreamNext]_<<vars, network, reader>>, OneStream'
             PROVE  \E k : Wired(wire', s', k, 0) /\ Counted(k)'
  BY DEF LossInv
<1>0. UNCHANGED flags
  <2>1. [Next]_vars
    BY SenderStep
  <2> QED
    BY <2>1 DEF Next, Block, Missing, Usr1, Usr2, Signal, vars, options
<1>1. late = 0 /\ held = {} /\ ~Hold /\ OneStream
  <2>1. late \in Nat /\ (late = 0 => held = {})
    BY DEF NetInv
  <2>2. ~Hold
    BY <2>1 DEF Hold, OneStream
  <2>3. late' = late
    BY <2>2 DEF StreamNext, Send, Lose, RecvNext, RecvLate, Recv, ReadPicture, ReadSound,
                Done1, network
  <2> QED
    BY <1>0, <2>1, <2>2, <2>3 DEF OneStream
<1>2. PICK k : Wired(wire, s, k, 0) /\ Counted(k)
  BY <1>1 DEF LossInv
<1>3. s.asent = <<>> /\ s'.asent = <<>>
  BY <1>0, <1>1 DEF AudioInv, Separates, OneStream
<1>4. /\ s \in State /\ s' \in State /\ s.sent \in Seq(PacketOf) /\ Len(s.sent) \in Nat
      /\ k \in 0 .. Len(s.sent) /\ Len(<<>>) = 0
      /\ lost \in Nat /\ seqPrev \in Nat /\ pktLossSum \in Nat
  BY <1>2 DEF RtpInv, Room, State, NetInv, Wired
<1>5. CASE Send
  <2>1. /\ wire = <<>> /\ Next
        /\ wire' = New("main", s.sent, s'.sent) \o New("audio", s.asent, s'.asent)
        /\ UNCHANGED <<lost, seqPrev, pktLossSum>>
    BY <1>5 DEF Send, Quiet, reader
  <2>2. Follows(s, s')
    BY <2>1, SenderGrows DEF Ordered
  <2>3. Wired(wire', s', k, 0)
    BY <1>2, <1>4, <2>1, <2>2, WireSends
  <2>4. k >= 1 => s'.sent[k] = s.sent[k]
    BY <1>4, <2>2 DEF Follows, Grown
  <2>5. Counted(k)'
    BY <1>2, <2>1, <2>4 DEF Counted
  <2> QED
    BY <2>3, <2>5
<1>6. ASSUME wire # <<>>, wire' = Tail(wire), s' = s
      PROVE  /\ k + 1 \in 1 .. Len(s.sent) /\ Head(wire) = Msg("main", s.sent[k + 1])
             /\ Wired(wire', s', k + 1, 0)
             /\ s.sent[k + 1].seq \in Nat /\ s.sent[k + 1].seq >= 1
             /\ k >= 1 => s.sent[k].seq \in Nat /\ s.sent[k].seq < s.sent[k + 1].seq
  <2>1. /\ k + 1 \in 1 .. Len(s.sent) /\ Head(wire) = Msg("main", s.sent[k + 1])
        /\ Wired(wire', s', k + 1, 0)
    <3>1. ~(0 + 1 \in 1 .. Len(s.asent))
      BY <1>3, <1>4
    <3> QED
      BY <1>2, <1>4, <1>6, <3>1, WireTakes
  <2>2. Ranked(s.sent, s.ts, s.seq, 1)
    BY DEF Ranks
  <2>3. s.sent[k + 1].seq \in 1 .. s.seq - 1
    BY <2>1, <2>2 DEF Ranked
  <2>4. ASSUME k >= 1
        PROVE  s.sent[k].seq \in Nat /\ s.sent[k].seq < s.sent[k + 1].seq
    <3>1. k \in 1 .. Len(s.sent) /\ k < k + 1
      BY <1>4, <2>4
    <3>2. s.sent[k].seq \in 1 .. s.seq - 1 /\ s.sent[k].seq < s.sent[k + 1].seq
      BY <2>1, <2>2, <3>1 DEF Ranked
    <3> QED
      BY <3>2
  <2> QED
    BY <2>1, <2>3, <2>4
<1>7. CASE Lose
  <2>1. /\ wire # <<>> /\ wire' = Tail(wire) /\ s' = s /\ lost' = lost + 1
        /\ UNCHANGED <<seqPrev, pktLossSum>>
    BY <1>7 DEF Lose, reader, vars
  <2> DEFINE x == s.sent[k].seq
             y == s.sent[k + 1].seq
  <2>2. Wired(wire', s', k + 1, 0) /\ y \in Nat /\ (k >= 1 => x \in Nat /\ x < y)
    BY <1>6, <2>1
  <2>3. \/ seqPrev = 0 /\ pktLossSum = 0 /\ k = lost
        \/ /\ k >= 1 /\ seqPrev >= 1 /\ seqPrev <= x
           /\ pktLossSum <= seqPrev - (k - lost)
    BY <1>2 DEF Counted
  <2> HIDE DEF x, y
  <2>4. \/ seqPrev = 0 /\ pktLossSum = 0 /\ k + 1 = lost + 1
        \/ /\ k + 1 >= 1 /\ seqPrev >= 1 /\ seqPrev <= y
           /\ pktLossSum <= seqPrev - ((k + 1) - (lost + 1))
    BY <1>4, <2>2, <2>3
  <2>5. Counted(k + 1)'
    BY <2>1, <2>4 DEF Counted, y
  <2> QED
    BY <2>2, <2>5
<1>8. CASE RecvNext
  <2>1. /\ wire # <<>> /\ wire' = Tail(wire) /\ s' = s /\ lost' = lost
        /\ seqPrev' = Head(wire).seq /\ pktLossSum' = pktLossSum + Gap(Head(wire).seq)
    BY <1>8 DEF RecvNext, Recv, vars
  <2> DEFINE y == s.sent[k + 1].seq
  <2>2. /\ Wired(wire', s', k + 1, 0) /\ y \in Nat /\ y >= 1 /\ Head(wire).seq = y
        /\ k >= 1 => s.sent[k].seq \in Nat /\ s.sent[k].seq < y
    BY <1>6, <2>1 DEF Msg
  <2>3. pktLossSum + Gap(y) <= y - ((k + 1) - lost) /\ k + 1 >= 1 /\ y <= y
    <3>1. k \in Nat /\ s.sent[k + 1].seq = y
      BY <1>4
    <3> HIDE DEF y
    <3> QED
      BY <1>2, <1>4, <2>2, <3>1, GapCounts
  <2>4. Counted(k + 1)'
    BY <2>1, <2>2, <2>3 DEF Counted
  <2> QED
    BY <2>2, <2>4
<1>9. CASE UNCHANGED <<wire, s, lost, seqPrev, pktLossSum>>
  BY <1>2, <1>9 DEF Counted
<1>10. CASE RecvLate
  BY <1>1, <1>10 DEF RecvLate
<1> QED
  BY <1>1, <1>5, <1>7, <1>8, <1>9, <1>10
     DEF StreamNext, ReadPicture, ReadSound, Done1, vars, network, reader

(* read.c:158, rtp.c:313: with one stream and no reordering, whatever the
   network loses, dvrecv counts no losses but those and the ends of frames. *)
THEOREM LossesCounted == StreamSpec => []LossExplained
<1>1. StreamInit => LossInv
  <2> SUFFICES ASSUME StreamInit PROVE LossInv
    OBVIOUS
  <2>1. /\ wire = <<>> /\ s.sent = <<>> /\ s.asent = <<>> /\ lost = 0 /\ seqPrev = 0
        /\ pktLossSum = 0
    BY DEF StreamInit, Init
  <2>2. <<>> \in Seq(Messages) /\ Len(<<>>) = 0
    OBVIOUS
  <2>3. Wired(wire, s, 0, 0)
    BY <2>1, <2>2 DEF Wired
  <2> QED
    BY <2>1, <2>3 DEF LossInv, Counted
<1>2. StreamSpec => [](AudioInv /\ SkipInv)
  <2>1. StreamInit => Init
    BY DEF StreamInit
  <2>2. StreamSpec => Spec
    BY <2>1, SenderStep, PTL DEF StreamSpec, Spec
  <2> QED
    BY <2>2, AudioInvHolds, SkipInvHolds, PTL
<1>3. RtpInv /\ Ranks(s) /\ NetInv /\ SkipInv /\ LossInv => LossExplained
  <2> SUFFICES ASSUME RtpInv, Ranks(s), NetInv, SkipInv, LossInv, OneStream, EndsSeen
               PROVE  pktLossSum <= lost + Cardinality(EvenEnds)
    BY DEF LossExplained, OneStream, EndsSeen
  <2>1. PICK k : Wired(wire, s, k, 0) /\ Counted(k)
    BY DEF LossInv
  <2>2. /\ k \in 0 .. Len(s.sent) /\ Len(s.sent) \in Nat /\ s.seq \in Nat
        /\ lost \in Nat /\ seqPrev \in Nat /\ pktLossSum \in Nat
    BY <2>1 DEF RtpInv, Room, State, NetInv, Wired
  <2> DEFINE e == Cardinality(Ends(kept, src))
  <2>3. EvenEnds = Ends(kept, src)
    BY DEF EvenEnds, Ends, Count, KeptOf
  <2>4. Skipped(s) = e /\ Spaced(s.sent, Skipped(s))
    BY DEF SkipInv
  <2>5. e \in Nat
    BY EndsGrow DEF RtpInv
  <2> HIDE DEF e
  <2>6. CASE pktLossSum = 0
    BY <2>2, <2>3, <2>5, <2>6 DEF e
  <2>7. CASE /\ k >= 1 /\ seqPrev <= s.sent[k].seq
             /\ pktLossSum <= seqPrev - (k - lost)
    <3>1. k \in 1 .. Len(s.sent)
      BY <2>2, <2>7
    <3>2. s.sent[k].seq \in Nat
      <4>1. s.sent[k].seq \in 1 .. s.seq - 1
        BY <3>1 DEF Ranks, Ranked
      <4> QED
        BY <4>1
    <3>3. s.sent[k].seq - k <= e
      BY <2>4, <3>1 DEF Spaced
    <3>4. pktLossSum <= lost + e
      BY <2>2, <2>5, <2>7, <3>1, <3>2, <3>3
    <3> QED
      BY <2>3, <3>4 DEF e
  <2> QED
    BY <2>1, <2>6, <2>7 DEF Counted
<1> QED
  BY <1>1, <1>2, <1>3, LossStep, NetHolds, PTL DEF StreamSpec
-----------------------------------------------------------------------------
(* Undisturbed, at any rate: the blocks of pictures that are still on the way,
   and what the reader has made of all the others. *)
UnreadOf(h, o, w) ==
  {c \in Range(h) \cup Range(o) \cup UNION {Range(w[n].blocks) : n \in 1 .. Len(w)} :
     c.i \notin Sound}
Unread == UnreadOf(hand.blocks, s.out, wire)
IsRead(c) == c.f <= tsPrev /\ (c.i \in Shown => c.f <= VP!Newest[c.i])

Calm == Undisturbed /\ usr = 0 /\ "NO_VIDEO_STREAM" \notin flags
Arrived ==
  /\ Unread \subseteq Range(kept)
  /\ \A c \in Range(kept) : c.i \notin Sound => c \in Unread \/ IsRead(c)
  /\ \A c \in Unread : tsPrev <= c.f
  /\ tsPrev < src \/ (tsPrev = src /\ pos > 1)
  /\ \A i \in Shown : VP!Newest[i] <= tsPrev
  /\ \A n \in 1 .. Len(hand.blocks) :
       hand.blocks[n].i \notin Sound => hand.blocks[n].f = hand.ts
  /\ tsPrev = drop * Len(pictures)
  /\ \A k \in 1 .. Len(pictures) : pictures[k] = [i \in Shown |-> drop * (k - 1)]
ArriveInv == Calm => Arrived

LEMMA UnreadIs ==
  ASSUME NEW h, NEW o, NEW w, NEW c
  PROVE  c \in UnreadOf(h, o, w)
           <=> /\ c.i \notin Sound
               /\ \/ c \in Range(h) \/ c \in Range(o)
                  \/ \E n \in 1 .. Len(w) : c \in Range(w[n].blocks)
<1> DEFINE S == 1 .. Len(w)
           U == UNION {Range(w[n].blocks) : n \in S}
<1>1. UnreadOf(h, o, w) = {x \in Range(h) \cup Range(o) \cup U : x.i \notin Sound}
  BY DEF UnreadOf
<1> HIDE DEF S
<1>2. c \in U <=> \E n \in S : c \in Range(w[n].blocks)
  OBVIOUS
<1> HIDE DEF U
<1> QED
  BY <1>1, <1>2 DEF S

(* The first packet on the wire is taken. *)
LEMMA UnreadTakes ==
  ASSUME NEW w \in Seq(Messages), w # <<>>, NEW o
  PROVE  UnreadOf(Head(w).blocks, o, Tail(w)) = UnreadOf(<<>>, o, w)
<1> DEFINE r == Tail(w)
<1>1. /\ Len(w) \in Nat \ {0} /\ Head(w) = w[1] /\ Len(r) = Len(w) - 1
      /\ \A n \in 1 .. Len(r) : r[n] = w[n + 1]
  OBVIOUS
<1> HIDE DEF r
<1>2. Range(<<>>) = {}
  BY RangeEmpty
<1>3. ASSUME NEW c
      PROVE  (\E n \in 1 .. Len(w) : c \in Range(w[n].blocks))
               <=> \/ c \in Range(Head(w).blocks)
                   \/ \E n \in 1 .. Len(r) : c \in Range(r[n].blocks)
  <2>1. ASSUME NEW n \in 1 .. Len(w), c \in Range(w[n].blocks), n # 1
        PROVE  \E m \in 1 .. Len(r) : c \in Range(r[m].blocks)
    <3>1. n - 1 \in 1 .. Len(r) /\ (n - 1) + 1 = n
      BY <1>1, <2>1
    <3>2. r[n - 1] = w[n]
      BY <1>1, <3>1
    <3> QED
      BY <2>1, <3>1, <3>2
  <2>2. ASSUME NEW n \in 1 .. Len(r), c \in Range(r[n].blocks)
        PROVE  \E m \in 1 .. Len(w) : c \in Range(w[m].blocks)
    <3>1. n + 1 \in 1 .. Len(w) /\ w[n + 1] = r[n]
      BY <1>1
    <3> QED
      BY <2>2, <3>1
  <2>3. 1 \in 1 .. Len(w)
    BY <1>1
  <2> QED
    BY <1>1, <2>1, <2>2, <2>3
<1>4. ASSUME NEW c
      PROVE  c \in UnreadOf(Head(w).blocks, o, r) <=> c \in UnreadOf(<<>>, o, w)
  BY <1>2, <1>3, UnreadIs
<1> QED
  BY <1>4 DEF r, UnreadOf

(* A block is read. *)
LEMMA UnreadReads ==
  ASSUME NEW h \in Seq(BlockOf), h # <<>>, NEW o, NEW w
  PROVE  \A c : c \in UnreadOf(h, o, w)
                  <=> c \in UnreadOf(Tail(h), o, w) \/ (c = Head(h) /\ c.i \notin Sound)
<1>1. Range(h) = {Head(h)} \cup Range(Tail(h))
  BY HeadTail
<1> QED
  BY <1>1, UnreadIs

(* A picture's block on the wire is in an original of the main stream. *)
LEMMA WireHolds ==
  ASSUME NEW t \in State, SoundCopied(t.sent), SoundSent(t.asent),
         NEW w, NEW k, NEW j, Wired(w, t, k, j),
         NEW n \in 1 .. Len(w), NEW c \in Range(w[n].blocks), c.i \notin Sound
  PROVE  \E m \in Orig(t.sent) : m > k /\ c \in Range(t.sent[m].blocks)
<1> DEFINE M == Len(t.sent)
           A == Len(t.asent)
<1>1. /\ M \in Nat /\ A \in Nat /\ k \in 0 .. M /\ j \in 0 .. A
      /\ Len(w) = (M - k) + (A - j)
      /\ \A x \in 1 .. M - k : w[x] = Msg("main", t.sent[k + x])
      /\ \A x \in 1 .. A - j : w[M - k + x] = Msg("audio", t.asent[j + x])
  <2>1. t.sent \in Seq(PacketOf) /\ t.asent \in Seq(PacketOf)
    BY DEF State
  <2>2. M \in Nat /\ A \in Nat
    BY <2>1
  <2>3. /\ k \in 0 .. M /\ j \in 0 .. A /\ Len(w) = (M - k) + (A - j)
        /\ \A x \in 1 .. M - k : w[x] = Msg("main", t.sent[k + x])
        /\ \A x \in 1 .. A - j : w[M - k + x] = Msg("audio", t.asent[j + x])
    BY DEF Wired
  <2> QED
    BY <2>2, <2>3
<1>2. ASSUME NEW p \in PacketOf, OnlySound(p.blocks) PROVE c \notin Range(p.blocks)
  <2>1. p.blocks \in Seq(BlockOf)
    BY DEF PacketOf
  <2> QED
    BY <1>2, <2>1, NoPicture
<1>3. \A x \in 1 .. M : t.sent[x] \in PacketOf
  BY DEF State
<1>4. \A x \in 1 .. A : t.asent[x] \in PacketOf
  BY DEF State
<1> HIDE DEF M, A
<1>5. CASE n \in 1 .. M - k
  <2>1. w[n].blocks = t.sent[k + n].blocks /\ k + n \in 1 .. M /\ k + n > k
    <3>1. w[n] = Msg("main", t.sent[k + n]) /\ k + n \in 1 .. M /\ k + n > k
      BY <1>1, <1>5
    <3> QED
      BY <3>1 DEF Msg
  <2>2. ~t.sent[k + n].copy
    BY <1>2, <1>3, <2>1 DEF SoundCopied, M
  <2> QED
    BY <2>1, <2>2 DEF Orig, M
<1>6. CASE n > M - k
  <2> DEFINE x == n - (M - k)
  <2>1. x \in 1 .. A - j /\ M - k + x = n /\ j + x \in 1 .. A
    BY <1>1, <1>6
  <2> HIDE DEF x
  <2>2. w[n] = Msg("audio", t.asent[j + x])
    BY <1>1, <2>1
  <2>3. OnlySound(t.asent[j + x].blocks)
    BY <2>1 DEF SoundSent, A
  <2> QED
    BY <1>2, <1>4, <2>1, <2>2, <2>3 DEF Msg
<1> QED
  BY <1>1, <1>5, <1>6

LEMMA UnreadSoon ==
  ASSUME RtpInv, Ranks(s), NEW k, NEW j, Wired(wire, s, k, j), NEW c \in Unread
  PROVE  c \in Soon(k)
<1>1. s \in State /\ SoundCopied(s.sent) /\ SoundSent(s.asent)
  BY DEF RtpInv, Room, Ranks
<1>2. /\ c.i \notin Sound
      /\ \/ c \in Range(hand.blocks) \/ c \in Range(s.out)
         \/ \E n \in 1 .. Len(wire) : c \in Range(wire[n].blocks)
  BY UnreadIs DEF Unread
<1>3. CASE c \in Range(hand.blocks)
  BY <1>2, <1>3 DEF Soon
<1>4. CASE c \in Range(s.out)
  BY <1>4, ComingIs DEF Soon, Coming
<1>5. CASE \E n \in 1 .. Len(wire) : c \in Range(wire[n].blocks)
  <2>1. \E m \in Orig(s.sent) : m > k /\ c \in Range(s.sent[m].blocks)
    BY <1>1, <1>2, <1>5, WireHolds
  <2> QED
    BY <2>1, ComingIs DEF Soon, Coming
<1> QED
  BY <1>2, <1>3, <1>4, <1>5

(* A block is sent: it is on the way now, with all that was in the buffer. *)
LEMMA UnreadSends ==
  ASSUME RtpInv, TurnInv, Ranks(s), NetInv, Send, RtpInv', TurnInv', Ranks(s)',
         NEW c, c.i \notin Sound
  PROVE  /\ c \in Unread' => c \in Range(kept') /\ (c \in Unread \/ c = Here)
         /\ c \in Range(kept') => c \in Unread' \/ (c \in Range(kept) /\ c \notin Unread)
<1> DEFINE q == s.sent
           r == s'.sent
<1>1. PICK k, j : Wired(wire, s, k, j)
  BY DEF NetInv
<1>2. /\ wire = <<>> /\ Next /\ hand.blocks = <<>> /\ hand' = hand
      /\ wire' = New("main", s.sent, s'.sent) \o New("audio", s.asent, s'.asent)
  BY DEF Send, Quiet, reader
<1>3. Follows(s, s')
  BY <1>2, SenderGrows DEF Ordered
<1>4. /\ s \in State /\ s' \in State /\ q \in Seq(PacketOf) /\ r \in Seq(PacketOf)
      /\ SoundCopied(r) /\ SoundSent(s'.asent) /\ Len(<<>>) = 0
  BY DEF RtpInv, Room, State, Ranks
<1>5. Wired(wire', s', k, j) /\ k = Len(q)
  BY <1>1, <1>2, <1>3, <1>4, WireSends
<1>6. /\ Turn(q, s.out, kept) /\ Turn(r, s'.out, kept')
      /\ kept \in Seq(BlockOf) /\ kept' \in Seq(BlockOf)
      /\ Behindhand(kept) /\ \A x \in Range(kept') : Before(x, Here')
  BY DEF TurnInv, Behindhand, Here
<1>7. c \in Unread <=> c \in Range(s.out)
  <2>1. Unread = UnreadOf(<<>>, s.out, <<>>)
    BY <1>2 DEF Unread
  <2>2. \A n \in 1 .. Len(<<>>) : FALSE
    BY <1>4
  <2> QED
    BY <2>1, <2>2, UnreadIs, RangeEmpty
<1>8. c \in Unread' <=> \/ c \in Range(s'.out)
                        \/ \E n \in 1 .. Len(wire') : c \in Range(wire'[n].blocks)
  <2>1. Unread' = UnreadOf(<<>>, s'.out, wire')
    BY <1>2 DEF Unread
  <2> QED
    BY <2>1, UnreadIs, RangeEmpty
<1>9. ASSUME NEW x \in Range(kept) \cup Range(kept') PROVE ~Before(x, x)
  <2>1. x \in BlockOf
    BY <1>6 DEF Range
  <2> QED
    BY <2>1, OptionAssumption DEF Before, BlockOf
<1>10. ASSUME c \in Unread' PROVE c \in Range(kept') /\ (c \in Unread \/ c = Here)
  <2>1. \/ c \in Range(s'.out) \/ \E m \in Orig(r) : m > k /\ c \in Range(r[m].blocks)
    BY <1>4, <1>5, <1>8, <1>10, WireHolds
  <2>2. c \in Range(kept')
    BY <1>6, <2>1 DEF Turn, Carry
  <2>3. c \in Coming(k)'
    BY <2>1, ComingIs DEF Coming
  <2>4. c \in Range(s.out) \cup {Here} \/ c = Here'
    BY <1>2, <1>3, <1>5, <2>3, ComingSends DEF Follows
  <2>5. c # Here'
    BY <1>6, <1>9, <2>2
  <2> QED
    BY <1>7, <2>2, <2>4, <2>5
<1>11. ASSUME c \in Range(kept'), ~(c \in Range(kept) /\ c \notin Unread)
       PROVE  c \in Unread'
  <2>1. c \in Range(s'.out) \/ \E m \in Orig(r) : c \in Range(r[m].blocks)
    BY <1>6, <1>11 DEF Turn, Carry
  <2>2. CASE c \in Range(s'.out)
    BY <1>8, <2>2
  <2>3. CASE \E m \in Orig(r) : c \in Range(r[m].blocks)
    <3>1. PICK m \in Orig(r) : c \in Range(r[m].blocks)
      BY <2>3
    <3>2. m \in 1 .. Len(r) /\ k \in Nat
      BY <1>4, <1>5 DEF Orig
    <3>3. CASE m > k
      <4>1. /\ m - k \in 1 .. Len(r) - k /\ k + (m - k) = m /\ m - k \in 1 .. Len(wire')
        <5>1. Len(wire') = (Len(r) - k) + (Len(s'.asent) - j) /\ j \in 0 .. Len(s'.asent)
          BY <1>5 DEF Wired
        <5>2. Len(s'.asent) \in Nat /\ Len(r) \in Nat
          <6>1. s'.asent \in Seq(PacketOf)
            BY <1>4 DEF State
          <6> QED
            BY <1>4, <6>1
        <5> DEFINE x == Len(r)
                   y == Len(s'.asent)
                   z == Len(wire')
        <5>3. z = (x - k) + (y - j) /\ x \in Nat /\ y \in Nat /\ m \in 1 .. x /\ j \in 0 .. y
          BY <3>2, <5>1, <5>2
        <5> HIDE DEF x, y, z
        <5>4. m - k \in 1 .. x - k /\ k + (m - k) = m /\ m - k \in 1 .. z
          BY <3>2, <3>3, <5>3
        <5> QED
          BY <5>4 DEF x, z
      <4>2. wire'[m - k] = Msg("main", r[m])
        <5>1. wire'[m - k] = Msg("main", r[k + (m - k)])
          BY <1>5, <4>1 DEF Wired
        <5> QED
          BY <4>1, <5>1
      <4> QED
        BY <1>8, <3>1, <4>1, <4>2 DEF Msg
    <3>4. CASE m <= k
      <4>1. m \in Orig(q) /\ q[m] = r[m]
        BY <1>3, <1>5, <3>1, <3>2, <3>4 DEF Orig, Follows, Grown
      <4>2. c \in Carry(q)
        BY <3>1, <4>1 DEF Carry
      <4>3. c \in Range(kept)
        BY <1>6, <4>2 DEF Turn
      <4>4. c \in Range(s.out)
        BY <1>7, <1>11, <4>3
      <4>5. Before(c, c)
        BY <1>6, <4>2, <4>4 DEF Turn, Precede
      <4> QED
        BY <1>9, <4>3, <4>5
    <3> QED
      BY <3>2, <3>3, <3>4 DEF Orig
  <2> QED
    BY <2>1, <2>2, <2>3
<1> QED
  BY <1>10, <1>11

LEMMA TimesOrder ==
  ASSUME NEW d \in Nat \ {0}, NEW x \in Int, NEW y \in Int
  PROVE  /\ d * x \in Int /\ d * (x + 1) = d * x + d /\ d * x = x * d
         /\ d * x <= d * y => x <= y
         /\ d * x < d * y => x < y
<1>1. d * x \in Int /\ d * (x + 1) = d * x + d /\ d * x = x * d
  OBVIOUS
<1>2. ASSUME x >= y + 1 PROVE d * x >= d * y + d
  <2>1. d * x >= d * (y + 1)
    <3>1. (x - (y + 1)) * d >= 0 * d
      BY <1>2
    <3> QED
      BY <3>1
  <2> QED
    BY <2>1
<1>3. ASSUME x >= y PROVE d * x >= d * y
  <2>1. (x - y) * d >= 0 * d
    BY <1>3
  <2> QED
    BY <2>1
<1>4. d * y \in Int
  OBVIOUS
<1>5. ASSUME d * x <= d * y PROVE x <= y
  <2> DEFINE a == d * x
             b == d * y
  <2>1. a \in Int /\ b \in Int /\ (x >= y + 1 => a >= b + d) /\ a <= b
    BY <1>1, <1>2, <1>4, <1>5
  <2> HIDE DEF a, b
  <2> QED
    BY <2>1
<1>6. ASSUME d * x < d * y PROVE x < y
  <2> DEFINE a == d * x
             b == d * y
  <2>1. a \in Int /\ b \in Int /\ (x >= y => a >= b) /\ a < b
    BY <1>1, <1>3, <1>4, <1>6
  <2> HIDE DEF a, b
  <2> QED
    BY <2>1
<1> QED
  BY <1>1, <1>5, <1>6

(* Which blocks of pictures rtp.c has let through. *)
LEMMA KeptPicture ==
  ASSUME RtpInv, TurnInv, RateInv, Calm
  PROVE  /\ \A c \in Range(kept) : c.i \notin Sound =>
              /\ c.f \in Nat \ {0} /\ c.f % drop = 0 /\ c.i \in 1 .. Len(Frame)
              /\ Before(c, Here)
         /\ \A f \in Nat \ {0}, i \in 1 .. Len(Frame) :
              /\ i \notin Sound /\ f % drop = 0 /\ Before([f |-> f, i |-> i], Here)
              => [f |-> f, i |-> i] \in Range(kept)
<1>1. \A i \in 1 .. Len(Frame) : i \in Picture <=> i \notin Sound
  BY FrameAssumption DEF Picture, Sound, Places
<1>2. \A f \in Nat \ {0}, i \in Picture : [f |-> f, i |-> i] \in Range(kept) <=> Undropped(f, i)
  BY DEF RateInv, Calm, Undisturbed
<1>3. ASSUME NEW c \in Range(kept), c.i \notin Sound
      PROVE  /\ c.f \in Nat \ {0} /\ c.f % drop = 0 /\ c.i \in 1 .. Len(Frame)
             /\ Before(c, Here)
  <2>1. c \in BlockOf
    BY DEF TurnInv, Range
  <2>2. /\ c.f \in Nat \ {0} /\ c.i \in 1 .. Len(Frame) /\ c = [f |-> c.f, i |-> c.i]
    BY <2>1, OptionAssumption DEF BlockOf
  <2>3. Undropped(c.f, c.i)
    <3> DEFINE f == c.f
               i == c.i
    <3>1. f \in Nat \ {0} /\ i \in Picture /\ [f |-> f, i |-> i] \in Range(kept)
      BY <1>1, <1>3, <2>2
    <3> HIDE DEF f, i
    <3>2. Undropped(f, i)
      BY <1>2, <3>1
    <3> QED
      BY <3>2 DEF f, i
  <2> QED
    BY <2>2, <2>3 DEF Undropped, Here
<1> QED
  BY <1>1, <1>2, <1>3 DEF Undropped, Here

(* The block the reader takes is of the frame it is at, all of whose other
   blocks before it have come, or of the first of the next frame that is sent. *)
LEMMA NextFrame ==
  ASSUME RtpInv, TurnInv, RateInv, Calm, Arrived, VP!TypeOK, pictures \in Pictures,
         NEW b \in Unread, \A c \in Unread : c = b \/ Before(b, c), b.f # tsPrev
  PROVE  /\ b.f = drop * (Len(pictures) + 1)
         /\ \A i \in Shown : VP!Newest[i] = tsPrev
<1> DEFINE L == Len(pictures)
<1>1. /\ drop \in Nat \ {0} /\ L \in Nat /\ tsPrev = drop * L /\ tsPrev \in Nat
      /\ src \in Nat /\ pos \in Nat
  BY DEF RateInv, Arrived, Pictures, VP!TypeOK, RtpInv
<1>2. /\ b \in Range(kept) /\ b.i \notin Sound /\ tsPrev <= b.f
  BY UnreadIs DEF Arrived, Unread
<1>3. /\ b.f \in Nat \ {0} /\ b.f % drop = 0 /\ b.i \in Nat /\ Before(b, Here)
  BY <1>2, KeptPicture
<1>4. tsPrev < b.f /\ b.f <= src
  BY <1>1, <1>2, <1>3 DEF Before, Here
<1> HIDE DEF L
<1>5. ASSUME NEW f \in Nat \ {0}, NEW i \in 1 .. Len(Frame), i \notin Sound,
             f % drop = 0, f < b.f
      PROVE  f <= tsPrev /\ (i \in Shown => f <= VP!Newest[i])
  <2> DEFINE c == [f |-> f, i |-> i]
  <2>1. c.f = f /\ c.i = i
    OBVIOUS
  <2>2. Before(c, Here)
    BY <1>1, <1>3, <1>4, <1>5, <2>1 DEF Before, Here
  <2>3. c \in Range(kept)
    BY <1>5, <2>2, KeptPicture
  <2> HIDE DEF c
  <2>4. c \notin Unread
    <3>1. c # b /\ ~Before(b, c)
      BY <1>3, <1>5, <2>1 DEF Before
    <3> QED
      BY <3>1
  <2> QED
    BY <1>5, <2>1, <2>3, <2>4 DEF Arrived, IsRead
<1>6. b.f = drop * (L + 1)
  <2> DEFINE y == b.f \div drop
             g == drop * (L + 1)
  <2>1. y \in Int /\ b.f = drop * y
    <3>1. y \in Int /\ b.f = (y * drop) + (b.f % drop)
      <4> DEFINE x == b.f
      <4>1. x \in Int
        BY <1>3
      <4> HIDE DEF x
      <4>2. x \div drop \in Int /\ x = ((x \div drop) * drop) + (x % drop)
        BY <1>1, <4>1, DivMod
      <4> QED
        BY <4>2 DEF x
    <3>2. y * drop = drop * y
      BY <1>1, <3>1, TimesOrder
    <3> HIDE DEF y
    <3> QED
      BY <1>1, <1>3, <3>1, <3>2
  <2> HIDE DEF y
  <2>2. L < y
    <3>1. drop * L < drop * y
      BY <1>1, <1>4, <2>1
    <3> QED
      BY <1>1, <2>1, <3>1, TimesOrder
  <2>3. g \in Int /\ g = tsPrev + drop /\ g % drop = 0
    <3>1. g = drop * L + drop /\ g = (L + 1) * drop /\ g \in Int /\ L + 1 \in Int
      BY <1>1, TimesOrder
    <3>2. ((L + 1) * drop) % drop = 0
      BY <1>1, <3>1, WholeMultiple
    <3> QED
      BY <1>1, <3>1, <3>2
  <2>4. ~(g < b.f)
    <3> SUFFICES ASSUME g < b.f PROVE FALSE
      OBVIOUS
    <3> HIDE DEF g
    <3>1. Len(Frame) \in 1 .. Len(Frame) /\ Len(Frame) \notin Sound
      BY FrameAssumption DEF Sound, Places
    <3>2. g \in Nat \ {0}
      BY <1>1, <2>3
    <3>3. g <= tsPrev
      BY <1>5, <2>3, <3>1, <3>2
    <3> QED
      BY <1>1, <2>3, <3>3
  <2>5. ~(y >= L + 2)
    <3> SUFFICES ASSUME L + 1 < y PROVE FALSE
      BY <1>1, <2>1
    <3>1. ~(drop * (L + 1) >= drop * y)
      <4>1. drop * y <= drop * (L + 1) => y <= L + 1
        BY <1>1, <2>1, TimesOrder
      <4>2. drop * y \in Int /\ drop * (L + 1) \in Int
        BY <1>1, <2>1, TimesOrder
      <4> QED
        BY <1>1, <2>1, <4>1, <4>2
    <3>2. drop * y \in Int
      BY <1>1, <2>1, TimesOrder
    <3> QED
      BY <2>1, <2>3, <2>4, <3>1, <3>2
  <2>6. y = L + 1
    BY <1>1, <2>1, <2>2, <2>5
  <2> QED
    BY <2>1, <2>6
<1>7. ASSUME NEW i \in Shown PROVE VP!Newest[i] = tsPrev
  <2>1. VP!Newest[i] <= tsPrev /\ VP!Newest[i] \in Nat
    BY NewestType, OptionAssumption DEF Arrived
  <2>2. CASE tsPrev = 0
    BY <2>1, <2>2
  <2>3. CASE tsPrev # 0
    <3>1. tsPrev % drop = 0
      <4>1. tsPrev = L * drop
        BY <1>1, TimesOrder
      <4>2. (L * drop) % drop = 0
        BY <1>1, WholeMultiple
      <4> QED
        BY <4>1, <4>2
    <3>2. i \in 1 .. Len(Frame) /\ i \notin Sound
      BY FrameAssumption DEF Shown, Sound, Places
    <3>3. tsPrev <= VP!Newest[i]
      BY <1>1, <1>4, <1>5, <2>3, <3>1, <3>2
    <3> QED
      BY <1>1, <2>1, <3>3
  <2> QED
    BY <2>2, <2>3
<1> QED
  BY <1>6, <1>7 DEF L

LEMMA CalmSteps ==
  ASSUME RtpInv, RateInv, NetInv, [StreamNext]_<<vars, network, reader>>, Calm'
  PROVE  /\ Calm /\ drop' = drop /\ late = 0 /\ held = {} /\ ~Lose /\ ~Hold /\ ~RecvLate
         /\ Send => Block
<1>1. usr \in Nat /\ lost \in Nat /\ late \in Nat /\ (late = 0 => held = {})
  BY DEF RateInv, NetInv
<1>2. missed' = {} /\ lost' = 0 /\ late' = 0 /\ usr' = 0 /\ "NO_VIDEO_STREAM" \notin flags'
  BY DEF Calm, Undisturbed
<1>3. ~Lose /\ ~Hold
  BY <1>1, <1>2 DEF Lose, Hold
<1>4. UNCHANGED <<lost, late>>
  BY <1>3 DEF StreamNext, Send, RecvNext, RecvLate, Recv, ReadPicture, ReadSound, Done1,
              network
<1>5. ~Missing /\ ~Usr1 /\ ~Usr2
  <2>1. ASSUME NEW m, missed' = missed \cup {m} PROVE FALSE
    BY <1>2, <2>1
  <2>2. ~Missing
    BY <2>1 DEF Missing
  <2>3. usr + 1 # 0
    BY <1>1
  <2>4. ~Signal
    BY <1>2, <2>3 DEF Signal
  <2> QED
    BY <2>2, <2>4 DEF Usr1, Usr2
<1>6. Block \/ UNCHANGED vars
  BY <1>5, SenderStep DEF Next
<1>7. UNCHANGED <<missed, usr, drop, flags>>
  BY <1>6 DEF Block, vars, options
<1>8. Calm /\ drop' = drop
  BY <1>2, <1>4, <1>7 DEF Calm, Undisturbed
<1>9. ~RecvLate
  BY <1>1, <1>2, <1>4 DEF RecvLate
<1> QED
  BY <1>1, <1>2, <1>3, <1>4, <1>5, <1>8, <1>9 DEF Send, Next

(* The packet that is received holds a picture under the number of its frame. *)
LEMMA HeadStamped ==
  ASSUME RtpInv, Ranks(s), StampedMain, missed = {}, NEW k, NEW j, Wired(wire, s, k, j),
         wire # <<>>
  PROVE  \A n \in 1 .. Len(Head(wire).blocks) :
           Head(wire).blocks[n].i \notin Sound => Head(wire).blocks[n].f = Head(wire).ts
<1>1. /\ s \in State /\ s.sent \in Seq(PacketOf) /\ OwnTs(s.sent, 1)
  BY DEF RtpInv, Room, State, StampedMain, EndsSeen
<1>2. CASE k + 1 \in 1 .. Len(s.sent) /\ Head(wire) = Msg("main", s.sent[k + 1])
  <2> DEFINE p == s.sent[k + 1]
  <2>1. p \in PacketOf
    BY <1>1, <1>2
  <2>2. p.copy => OnlySound(p.blocks)
    BY <1>2 DEF Ranks, SoundCopied
  <2>3. ~p.copy => \A m \in DOMAIN p.blocks : p.blocks[m].f - 1 = p.ts - 1
    <3>1. k + 1 \in DOMAIN s.sent
      BY <1>1, <1>2
    <3> QED
      BY <1>1, <3>1 DEF OwnTs
  <2>4. Head(wire).blocks = p.blocks /\ Head(wire).ts = p.ts
    BY <1>2 DEF Msg
  <2> HIDE DEF p
  <2>5. p.blocks \in Seq(BlockOf) /\ p.ts \in Nat
    BY <2>1 DEF PacketOf
  <2>6. ASSUME NEW n \in 1 .. Len(p.blocks), p.blocks[n].i \notin Sound
        PROVE  p.blocks[n].f = p.ts
    <3>1. ~p.copy /\ n \in DOMAIN p.blocks
      BY <2>2, <2>5, <2>6 DEF OnlySound
    <3>2. p.blocks[n] \in BlockOf
      BY <2>5, <3>1
    <3>3. p.blocks[n].f \in Nat
      BY <3>2, OptionAssumption DEF BlockOf
    <3> QED
      BY <2>3, <2>5, <3>1, <3>3
  <2> QED
    BY <2>4, <2>6
<1>3. CASE j + 1 \in 1 .. Len(s.asent) /\ Head(wire) = Msg("audio", s.asent[j + 1])
  BY <1>3 DEF Ranks, SoundSent, OnlySound, Msg
<1> QED
  BY <1>1, <1>2, <1>3, WireTakes

LEMMA ArriveStep ==
  /\ RtpInv /\ RtpInv' /\ TurnInv /\ TurnInv' /\ RateInv /\ Ranks(s) /\ Ranks(s)' /\ NetInv
  /\ VP!TypeOK /\ pictures \in Pictures /\ BackInv /\ StampedMain
  /\ ArriveInv /\ [StreamNext]_<<vars, network, reader>>
  => ArriveInv'
<1> SUFFICES ASSUME RtpInv, RtpInv', TurnInv, TurnInv', RateInv, Ranks(s), Ranks(s)', NetInv,
                    VP!TypeOK, pictures \in Pictures, BackInv, StampedMain,
                    ArriveInv, [StreamNext]_<<vars, network, reader>>, Calm'
             PROVE  Arrived'
  BY DEF ArriveInv
<1>1. /\ Calm /\ drop' = drop /\ late = 0 /\ ~Lose /\ ~Hold /\ ~RecvLate /\ (Send => Block)
  BY CalmSteps
<1>2. Arrived
  BY <1>1 DEF ArriveInv
<1>3. PICK k, j : Wired(wire, s, k, j) /\ InHand(k) /\ BehindSoon(k)
  BY <1>1 DEF BackInv
<1>4. /\ src \in Nat \ {0} /\ pos \in Nat \ {0} /\ tsPrev \in Nat
      /\ hand \in Messages /\ hand.blocks \in Seq(BlockOf) /\ Len(<<>>) = 0
  BY DEF RtpInv, VP!TypeOK, NetInv, Messages
<1>5. ASSUME UNCHANGED video
      PROVE  /\ UNCHANGED <<tsPrev, pictures>> /\ VP!Newest' = VP!Newest
             /\ \A c : IsRead(c)' <=> IsRead(c)
  BY <1>5, NewestKept DEF IsRead, video
<1>6. CASE Send
  <2>1. /\ UNCHANGED video /\ hand' = hand /\ hand.blocks = <<>> /\ Block
    BY <1>1, <1>6 DEF Send, Quiet, reader
  <2>2. ASSUME NEW c, c.i \notin Sound
        PROVE  /\ c \in Unread' => c \in Range(kept') /\ (c \in Unread \/ c = Here)
               /\ c \in Range(kept') => c \in Unread' \/ (c \in Range(kept) /\ c \notin Unread)
    BY <1>6, <2>2, UnreadSends
  <2>3. \A c \in Unread' : c.i \notin Sound
    BY DEF Unread, UnreadOf
  <2>4. Unread' \subseteq Range(kept')
    BY <2>2, <2>3
  <2>5. \A c \in Range(kept') : c.i \notin Sound => c \in Unread' \/ IsRead(c)'
    BY <1>2, <1>5, <2>1, <2>2 DEF Arrived
  <2>6. \A c \in Unread' : tsPrev' <= c.f
    <3>1. tsPrev <= Here.f
      BY <1>2, <1>4 DEF Arrived, Here
    <3> QED
      BY <1>2, <1>5, <2>1, <2>2, <2>3, <3>1 DEF Arrived
  <2>7. tsPrev' < src' \/ (tsPrev' = src' /\ pos' > 1)
    <3>1. \/ pos' = 1 /\ src' = src + 1
          \/ pos' = pos + 1 /\ src' = src
      BY <2>1 DEF Block, Advance
    <3> QED
      BY <1>2, <1>4, <1>5, <2>1, <3>1 DEF Arrived
  <2>8. \A n \in 1 .. Len(hand'.blocks) : FALSE
    BY <1>4, <2>1
  <2> QED
    BY <1>1, <1>2, <1>5, <2>1, <2>4, <2>5, <2>6, <2>7, <2>8 DEF Arrived
<1>7. CASE RecvNext
  <2>1. /\ UNCHANGED <<vars, video>> /\ wire # <<>> /\ wire' = Tail(wire)
        /\ hand' = Head(wire) /\ hand.blocks = <<>>
    BY <1>7 DEF RecvNext, Recv
  <2>2. wire \in Seq(Messages) /\ UNCHANGED <<s, kept, src, pos>>
    BY <1>3, <2>1 DEF Wired, vars
  <2>3. Unread' = Unread
    BY <2>1, <2>2, UnreadTakes DEF Unread
  <2>4. \A n \in 1 .. Len(hand'.blocks) :
          hand'.blocks[n].i \notin Sound => hand'.blocks[n].f = hand'.ts
    BY <1>1, <1>3, <2>1, HeadStamped DEF Calm, Undisturbed
  <2> QED
    BY <1>1, <1>2, <1>5, <2>1, <2>2, <2>3, <2>4 DEF Arrived
<1>8. ASSUME Done1
      PROVE  /\ hand.blocks # <<>> /\ hand'.blocks = Tail(hand.blocks) /\ hand'.ts = hand.ts
             /\ Block1 = Head(hand.blocks) /\ Block1 \in BlockOf
             /\ UNCHANGED <<s, kept, src, pos, wire>>
             /\ \A n \in 1 .. Len(hand'.blocks) :
                  hand'.blocks[n].i \notin Sound => hand'.blocks[n].f = hand'.ts
             /\ Block1.i \notin Sound => Block1.f = hand.ts
             /\ \A c : c \in Unread <=> c \in Unread' \/ (c = Block1 /\ c.i \notin Sound)
  <2>1. /\ hand.blocks # <<>> /\ hand' = [hand EXCEPT !.blocks = Tail(@)]
        /\ UNCHANGED <<s, kept, src, pos, wire>>
    BY <1>8 DEF Done1, vars, network
  <2>2. hand'.blocks = Tail(hand.blocks) /\ hand'.ts = hand.ts /\ Block1 \in BlockOf
    BY <1>4, <2>1, BlockRead DEF Block1
  <2>3. \A c : c \in Unread <=> c \in Unread' \/ (c = Block1 /\ c.i \notin Sound)
    BY <1>4, <2>1, <2>2, UnreadReads DEF Unread, Block1
  <2> DEFINE h == hand.blocks
             r == Tail(h)
  <2>4. /\ Len(h) \in Nat \ {0} /\ Len(r) = Len(h) - 1 /\ Head(h) = h[1]
        /\ \A n \in 1 .. Len(r) : r[n] = h[n + 1]
    BY <1>4, <2>1
  <2>5. \A n \in 1 .. Len(h) : h[n].i \notin Sound => h[n].f = hand.ts
    BY <1>2 DEF Arrived
  <2> HIDE DEF h, r
  <2>6. \A n \in 1 .. Len(r) : r[n].i \notin Sound => r[n].f = hand.ts
    <3> TAKE n \in 1 .. Len(r)
    <3>1. n + 1 \in 1 .. Len(h) /\ r[n] = h[n + 1]
      BY <2>4
    <3> QED
      BY <2>5, <3>1
  <2>7. Head(h).i \notin Sound => Head(h).f = hand.ts
    BY <2>4, <2>5
  <2> QED
    BY <2>1, <2>2, <2>3, <2>6, <2>7 DEF Block1, h, r
<1>9. CASE ReadSound
  <2>1. Done1 /\ UNCHANGED video /\ Block1.i \in Sound
    BY <1>9 DEF ReadSound
  <2>2. \A c : c \in Unread <=> c \in Unread'
    BY <1>8, <2>1
  <2> QED
    BY <1>1, <1>2, <1>5, <1>8, <2>1, <2>2 DEF Arrived
<1>10. CASE ReadPicture
  <2> DEFINE b == Block1
             L == Len(pictures)
  <2>1. Done1 /\ b.i \notin Sound
    BY <1>10 DEF ReadPicture
  <2>2. /\ b \in BlockOf /\ b.i \in VP!Pos /\ b.f \in 0 .. MaxFrame /\ hand.ts \in Nat
        /\ \/ /\ hand.ts = tsPrev /\ VP!SameFrame(b.i, b.f) /\ pictures' = pictures
           \/ /\ hand.ts # tsPrev /\ VP!NewFrame(hand.ts, b.i, b.f)
              /\ pictures' = Append(pictures, [i \in Shown |-> sealed'[cur][i]])
    BY <1>10, PictureStep
  <2>3. /\ Precede({b}, Range(Tail(hand.blocks)) \cup Coming(k))
        /\ \A i \in Shown : VP!Newest'[i] = IF i = b.i THEN b.f ELSE VP!Newest[i]
    BY <1>1, <1>3, <1>10, NewestReads DEF BackInv
  <2>4. b.f = hand.ts /\ \A c : c \in Unread <=> c \in Unread' \/ c = b
    BY <1>8, <2>1
  <2>5. ASSUME NEW c \in Unread' PROVE Before(b, c)
    <3>1. \/ c \in Range(Tail(hand.blocks)) \/ c \in Range(s.out)
          \/ \E n \in 1 .. Len(wire) : c \in Range(wire[n].blocks)
      BY <1>8, <2>1, UnreadIs DEF Unread
    <3>2. CASE c \in Range(Tail(hand.blocks))
      BY <2>3, <3>2 DEF Precede
    <3>3. CASE ~(c \in Range(Tail(hand.blocks)))
      <4>1. c.i \notin Sound
        BY DEF Unread, UnreadOf
      <4>2. c \in Coming(k)
        <5>1. s \in State /\ SoundCopied(s.sent) /\ SoundSent(s.asent)
          BY DEF RtpInv, Room, Ranks
        <5>2. c \in Range(s.out) \/ \E m \in Orig(s.sent) : m > k /\ c \in Range(s.sent[m].blocks)
          BY <1>3, <3>1, <3>3, <4>1, <5>1, WireHolds
        <5> QED
          BY <5>2, ComingIs DEF Coming
      <4> QED
        BY <2>3, <4>2 DEF Precede
    <3> QED
      BY <3>2, <3>3
  <2>6. b \in Unread /\ \A c \in Unread : c = b \/ Before(b, c)
    BY <2>4, <2>5
  <2>7. /\ tsPrev <= b.f /\ b \in Range(kept)
    BY <1>2, <2>6 DEF Arrived
  <2>8. Before(b, Here)
    BY <2>3, ComingIs DEF Precede, Coming
  <2>9. b.f \in Nat /\ b.i \in Nat \ {0} /\ src' = src /\ pos' = pos /\ kept' = kept
    BY <1>8, <2>1, <2>2, OptionAssumption DEF BlockOf
  <2> HIDE DEF b
  <2>10. tsPrev' = b.f
    BY <2>2, <2>4 DEF VP!SameFrame, VP!NewFrame
  <2>11. ASSUME NEW c \in Range(kept), c.i \notin Sound PROVE c \in Unread' \/ IsRead(c)'
    <3>1. CASE c = b
      BY <2>3, <2>9, <2>10, <3>1 DEF IsRead
    <3>2. CASE c # b /\ c \notin Unread
      <4>1. IsRead(c)
        BY <1>2, <2>11, <3>2 DEF Arrived
      <4>2. c.f \in Nat
        BY <1>1, <2>11, KeptPicture
      <4>3. ASSUME c.i \in Shown PROVE c.f <= VP!Newest'[c.i]
        <5>1. VP!Newest[c.i] <= tsPrev /\ VP!Newest[c.i] \in Nat /\ c.f <= VP!Newest[c.i]
          BY <1>2, <4>1, <4>3, NewestType, OptionAssumption DEF Arrived, IsRead
        <5> QED
          BY <1>4, <2>3, <2>7, <2>9, <4>2, <4>3, <5>1
      <4>4. c.f <= b.f
        BY <1>4, <2>7, <2>9, <4>1, <4>2 DEF IsRead
      <4> QED
        BY <2>10, <4>3, <4>4 DEF IsRead
    <3> QED
      BY <2>4, <3>1, <3>2
  <2>12. \A c \in Unread' : tsPrev' <= c.f
    <3> SUFFICES ASSUME NEW c \in Unread' PROVE b.f <= c.f
      BY <2>10
    <3>1. Before(b, c)
      BY <2>5
    <3>2. c \in Range(kept) /\ c.i \notin Sound
      BY <1>2, <2>4 DEF Arrived, Unread, UnreadOf
    <3>3. c.f \in Nat
      BY <1>1, <3>2, KeptPicture
    <3> QED
      BY <2>9, <3>1, <3>3 DEF Before
  <2>13. tsPrev' < src' \/ (tsPrev' = src' /\ pos' > 1)
    BY <1>4, <2>8, <2>9, <2>10 DEF Before, Here
  <2>14. \A i \in Shown : VP!Newest'[i] <= tsPrev'
    <3> TAKE i \in Shown
    <3>1. VP!Newest[i] <= tsPrev /\ VP!Newest[i] \in Nat
      BY <1>2, NewestType, OptionAssumption DEF Arrived
    <3> QED
      BY <1>4, <2>3, <2>7, <2>9, <2>10, <3>1
  <2>15. /\ tsPrev' = drop' * Len(pictures')
         /\ \A n \in 1 .. Len(pictures') : pictures'[n] = [i \in Shown |-> drop' * (n - 1)]
    <3>1. CASE hand.ts = tsPrev
      BY <1>1, <1>2, <2>2, <2>4, <2>10, <3>1 DEF Arrived
    <3>2. CASE hand.ts # tsPrev
      <4>1. b.f = drop * (L + 1) /\ \A i \in Shown : VP!Newest[i] = tsPrev
        BY <1>1, <1>2, <2>4, <2>6, <3>2, NextFrame
      <4>2. \A i \in Shown : sealed'[cur][i] = VP!Newest[i]
        BY <2>2, <3>2, PictureIsNewest
      <4> DEFINE new == [i \in Shown |-> sealed'[cur][i]]
                 P == [Shown -> 0 .. MaxFrame]
      <4>3. new = [i \in Shown |-> tsPrev]
        BY <4>1, <4>2
      <4>4. pictures \in Seq(P) /\ new \in P
        <5>1. \A i \in Shown : new[i] \in 0 .. MaxFrame
          BY <4>2, NewestType
        <5>2. new = [i \in Shown |-> new[i]]
          OBVIOUS
        <5> QED
          BY <5>1, <5>2 DEF Pictures
      <4>5. pictures' = Append(pictures, new)
        BY <2>2, <3>2
      <4> HIDE DEF new, P
      <4>6. /\ Len(pictures') = L + 1 /\ L \in Nat /\ pictures'[L + 1] = new
            /\ \A n \in 1 .. L : pictures'[n] = pictures[n]
        BY <4>4, <4>5
      <4>7. tsPrev = drop * L /\ \A n \in 1 .. L : pictures[n] = [i \in Shown |-> drop * (n - 1)]
        BY <1>2 DEF Arrived
      <4> HIDE DEF L
      <4>8. ASSUME NEW n \in 1 .. L + 1
            PROVE  pictures'[n] = [i \in Shown |-> drop' * (n - 1)]
        <5>1. CASE n \in 1 .. L
          BY <1>1, <4>6, <4>7, <5>1
        <5>2. CASE n = L + 1
          <6>1. n - 1 = L
            BY <4>6, <5>2
          <6> QED
            BY <1>1, <4>3, <4>6, <4>7, <5>2, <6>1
        <5> QED
          BY <4>6, <5>1, <5>2
      <4> QED
        BY <1>1, <2>10, <4>1, <4>6, <4>8
    <3> QED
      BY <3>1, <3>2
  <2>16. Unread' \subseteq Range(kept')
    BY <1>2, <2>4, <2>9 DEF Arrived
  <2>17. \A n \in 1 .. Len(hand'.blocks) :
           hand'.blocks[n].i \notin Sound => hand'.blocks[n].f = hand'.ts
    BY <1>8, <2>1
  <2> QED
    BY <2>9, <2>11, <2>12, <2>13, <2>14, <2>15, <2>16, <2>17 DEF Arrived
<1>11. CASE UNCHANGED <<vars, network, reader>>
  <2>1. /\ UNCHANGED video /\ UNCHANGED <<hand, s, wire, kept, src, pos>>
    BY <1>11 DEF vars, network, reader
  <2>2. Unread' = Unread
    BY <2>1 DEF Unread
  <2> QED
    BY <1>1, <1>2, <1>5, <2>1, <2>2 DEF Arrived
<1> QED
  BY <1>1, <1>6, <1>7, <1>9, <1>10, <1>11 DEF StreamNext

(* At the end of a frame with nothing on the way, all has been read. *)
LEMMA AllRead ==
  ASSUME RtpInv, TurnInv, RateInv, Calm, Arrived, Rested, pictures \in Pictures,
         VP!TypeOK
  PROVE  Len(pictures) = (src - 1) \div drop
<1> DEFINE L == Len(pictures)
           z == src - 1
           x == z \div drop
<1>1. /\ drop \in Nat \ {0} /\ L \in Nat /\ tsPrev = drop * L /\ tsPrev \in Nat
      /\ src \in Nat \ {0} /\ pos = 1 /\ wire = <<>> /\ hand.blocks = <<>> /\ tsPrev < src
  BY DEF RateInv, Arrived, Pictures, VP!TypeOK, RtpInv, Rested, Quiet
<1>2. z \in Nat
  BY <1>1
<1>3. x \in Int /\ drop * x <= z /\ z < drop * (x + 1)
  <2> HIDE DEF z
  <2>1. x \in Int /\ z = (x * drop) + (z % drop) /\ z % drop \in 0 .. drop - 1
    <3>1. z \in Int
      BY <1>2
    <3>2. x \in Int /\ z = (x * drop) + (z % drop)
      BY <1>1, <3>1, DivMod
    <3>3. z % drop \in 0 .. drop - 1
      BY <1>1, <3>1
    <3> QED
      BY <3>2, <3>3
  <2> HIDE DEF x
  <2>2. x * drop = drop * x /\ drop * (x + 1) = drop * x + drop /\ drop * x \in Int
    BY <1>1, <2>1, TimesOrder
  <2> DEFINE y == drop * x
             w == z % drop
  <2>3. y \in Int /\ w \in 0 .. drop - 1 /\ z = y + w
    BY <2>1, <2>2
  <2> HIDE DEF y, w
  <2>4. y <= z /\ z < y + drop
    BY <1>1, <1>2, <2>3
  <2> QED
    BY <2>1, <2>2, <2>4 DEF y
<1>4. Unread = {}
  <2>1. s.out = <<>>
    <3>1. s.out \in Seq(BlockOf) /\ kept \in Seq(BlockOf) /\ Range(s.out) \subseteq Range(kept)
      BY DEF RtpInv, Room, State, TurnInv, Turn
    <3>2. OfFrame(s, src)
      BY DEF RtpInv, Calm, Undisturbed, EndsSeen
    <3> SUFFICES ASSUME s.out # <<>> PROVE FALSE
      OBVIOUS
    <3> DEFINE c == s.out[1]
    <3>3. 1 \in 1 .. Len(s.out)
      BY <3>1
    <3>4. c.f = src /\ c \in Range(kept)
      <4>1. c.f = src
        BY <3>2, <3>3 DEF OfFrame
      <4>2. DOMAIN s.out = 1 .. Len(s.out)
        BY <3>1
      <4>3. c \in Range(s.out)
        BY <3>3, <4>2 DEF Range
      <4> QED
        BY <3>1, <4>1, <4>3
    <3>5. Before(c, [f |-> src, i |-> pos])
      BY <3>4 DEF TurnInv, Behindhand
    <3>6. c \in BlockOf
      BY <3>1, <3>3
    <3> HIDE DEF c
    <3>7. c.i \in Nat \ {0}
      BY <3>6 DEF BlockOf
    <3> QED
      BY <1>1, <3>4, <3>5, <3>7 DEF Before
  <2>2. Len(wire) = 0
    BY <1>1
  <2> DEFINE w == wire
  <2>3. \A n \in 1 .. Len(w) : FALSE
    BY <2>2
  <2> HIDE DEF w
  <2>4. \A c : c \notin UnreadOf(hand.blocks, s.out, w)
    BY <1>1, <2>1, <2>3, RangeEmpty, UnreadIs
  <2> QED
    BY <2>4 DEF Unread, w
<1> HIDE DEF L, z, x
<1>5. L <= x
  <2>1. drop * L < drop * (x + 1)
    <3>1. drop * L <= z
      BY <1>1 DEF z
    <3>2. drop * L \in Int /\ drop * (x + 1) \in Int
      BY <1>1, <1>3, TimesOrder
    <3> QED
      BY <1>2, <1>3, <3>1, <3>2
  <2>2. L < x + 1
    BY <1>1, <1>3, <2>1, TimesOrder
  <2> QED
    BY <1>1, <1>3, <2>2
<1>6. CASE x <= 0
  BY <1>1, <1>3, <1>5, <1>6 DEF L, x, z
<1>7. CASE x > 0
  <2> DEFINE g == drop * x
  <2>1. g \in Nat \ {0} /\ g % drop = 0 /\ g <= src - 1
    <3>1. drop * 0 = 0 /\ g \in Int /\ g = x * drop
      BY <1>1, <1>3, TimesOrder
    <3>2. drop * x <= drop * 0 => x <= 0
      BY <1>1, <1>3, TimesOrder
    <3>3. (x * drop) % drop = 0
      BY <1>1, <1>3, <1>7, WholeMultiple
    <3>4. g % drop = 0 /\ g <= z
      BY <1>3, <3>1, <3>3
    <3>5. ~(g <= 0)
      BY <1>1, <1>3, <1>7, <3>1, <3>2
    <3> HIDE DEF g
    <3> QED
      BY <1>2, <3>1, <3>4, <3>5 DEF z
  <2> HIDE DEF g
  <2> DEFINE c == [f |-> g, i |-> Len(Frame)]
  <2>2. Len(Frame) \in 1 .. Len(Frame) /\ Len(Frame) \notin Sound
    BY FrameAssumption DEF Sound, Places
  <2>3. c.f = g /\ c.i = Len(Frame) /\ Before(c, Here)
    BY <1>1, <2>1 DEF Before, Here
  <2>4. c \in Range(kept)
    BY <2>1, <2>2, <2>3, KeptPicture
  <2> HIDE DEF c
  <2>5. g <= tsPrev
    BY <1>4, <2>2, <2>3, <2>4 DEF Arrived, IsRead
  <2>6. drop * x <= drop * L
    BY <1>1, <2>5 DEF g
  <2>7. x <= L
    BY <1>1, <1>3, <2>6, TimesOrder
  <2> QED
    BY <1>1, <1>3, <1>5, <2>7 DEF L, x, z
<1> QED
  BY <1>3, <1>6, <1>7 DEF L, x, z

(* From the camera to the file: with nothing going wrong on the way, at any
   constant rate, the reader hands over whole every picture dvsend did not
   leave out, each once and in order (rtp.c:154, read.c:195). *)
THEOREM PicturesComplete == StreamSpec => []PicturesArrive
<1>1. StreamInit => ArriveInv
  <2> SUFFICES ASSUME StreamInit PROVE Arrived
    BY DEF ArriveInv
  <2>1. /\ wire = <<>> /\ hand = NoPacket /\ pictures = <<>> /\ s.out = <<>>
        /\ kept = <<>> /\ src = 1 /\ tsPrev = 0 /\ drop \in Nat
        /\ VP!Init
    BY OptionAssumption DEF StreamInit, Init, V!Init, VP!Init, V!Slot, VP!Slot, V!Pos, VP!Pos
  <2>2. hand.blocks = <<>> /\ Len(<<>>) = 0
    BY <2>1 DEF NoPacket
  <2>3. \A i \in Shown : VP!Newest[i] = 0
    <3>1. VP!PrevOf(0) \in VP!Slot /\ 0 \in VP!Slot
      BY SlotAssumption DEF VP!PrevOf, VP!Slot
    <3> QED
      BY <2>1, <3>1 DEF VP!Init, VP!Newest, VP!Pos
  <2>4. Unread = {}
    <3>1. Unread = UnreadOf(<<>>, <<>>, <<>>)
      BY <2>1, <2>2 DEF Unread
    <3>2. \A n \in 1 .. Len(<<>>) : FALSE
      BY <2>2
    <3>3. \A c : c \notin UnreadOf(<<>>, <<>>, <<>>)
      BY <3>2, RangeEmpty, UnreadIs
    <3> QED
      BY <3>1, <3>3
  <2>5. drop * Len(pictures) = 0
    BY <2>1, <2>2
  <2>6. \A n \in 1 .. Len(<<>>) : FALSE
    BY <2>2
  <2> QED
    BY <2>1, <2>2, <2>3, <2>4, <2>5, <2>6, RangeEmpty DEF Arrived
<1>2. StreamSpec => [](RateInv /\ StampedMain)
  <2>1. StreamInit => Init
    BY DEF StreamInit
  <2>2. StreamSpec => Spec
    BY <2>1, SenderStep, PTL DEF StreamSpec, Spec
  <2> QED
    BY <2>2, RateInvHolds, OneFramePerPacket, PTL
<1>3. /\ ArriveInv /\ RtpInv /\ TurnInv /\ RateInv /\ VP!TypeOK /\ pictures \in Pictures
      => PicturesArrive
  <2> SUFFICES ASSUME ArriveInv, RtpInv, TurnInv, RateInv, VP!TypeOK, pictures \in Pictures,
                      Calm
               PROVE  /\ \A k \in 1 .. Len(pictures) :
                           pictures[k] = [i \in Shown |-> drop * (k - 1)]
                      /\ Rested => Len(pictures) = (src - 1) \div drop
    BY DEF PicturesArrive, Calm
  <2>1. Arrived
    BY DEF ArriveInv
  <2>2. Rested => Len(pictures) = (src - 1) \div drop
    BY <2>1, AllRead
  <2> QED
    BY <2>1, <2>2 DEF Arrived
<1> QED
  BY <1>1, <1>2, <1>3, ArriveStep, BackInvHolds, NetHolds, ReaderType, PicturesType, PTL
     DEF StreamSpec
-----------------------------------------------------------------------------
(* Where sound travels: in the packets of one stream only, and nowhere else if
   there are no redundant copies. *)
Originals(packets) == \A n \in 1 .. Len(packets) : ~packets[n].copy
Plain == /\ redundancy = 0 => Originals(s.sent) /\ Originals(s.asent)
         /\ "SEPARATED_AUDIO_STREAM" \in flags => \A c \in Range(kept) : c.i \notin Sound

LEMMA OriginalsAppend ==
  ASSUME NEW q \in Seq(PacketOf), NEW p \in PacketOf, Originals(q), ~p.copy
  PROVE  Originals(Append(q, p))
<1> DEFINE r == Append(q, p)
<1>1. /\ Len(r) = Len(q) + 1 /\ Len(q) \in Nat /\ r[Len(q) + 1] = p
      /\ \A n \in 1 .. Len(q) : r[n] = q[n]
  BY AppendIs
<1> HIDE DEF r
<1>2. \A n \in 1 .. Len(r) : n \in 1 .. Len(q) \/ n = Len(q) + 1
  BY <1>1
<1> QED
  BY <1>1, <1>2 DEF Originals, r

LEMMA ProcDvdifOriginals ==
  ASSUME NEW b \in BlockOf, NEW section, NEW last \in BOOLEAN, Room(s),
         redundancy = 0, Originals(s.sent), Originals(s.asent)
  PROVE  LET v == ProcDvdif(b, section, last) IN Originals(v.sent) /\ Originals(v.asent)
<1> DEFINE t == IF Keeps(section) THEN AddOut(s, b)
                ELSE IF Separates(section) THEN AddAudio(s, b) ELSE s
<1>1. ProcDvdif(b, section, last) = IF last THEN Flush(t) ELSE t
  BY DEF ProcDvdif
<1>2. s \in State
  BY DEF Room
<1>3. ASSUME NEW v \in State, NEW x \in Seq(BlockOf), Originals(v.sent), Originals(v.asent)
      PROVE  /\ Originals(Append(v.sent, Packet(v.seq, v.ts, x, FALSE)))
             /\ Originals(Append(v.asent, Packet(v.aseq, v.ats, x, FALSE)))
  <2> DEFINE p == Packet(v.seq, v.ts, x, FALSE)
             a == Packet(v.aseq, v.ats, x, FALSE)
  <2>1. /\ v.sent \in Seq(PacketOf) /\ p \in PacketOf /\ ~p.copy
        /\ v.asent \in Seq(PacketOf) /\ a \in PacketOf /\ ~a.copy
    BY DEF State, Packet, PacketOf
  <2> HIDE DEF p, a
  <2>2. Originals(Append(v.sent, p)) /\ Originals(Append(v.asent, a))
    BY <1>3, <2>1, OriginalsAppend
  <2> QED
    BY <2>2 DEF p, a
<1>4. Room(t) /\ Originals(t.sent) /\ Originals(t.asent)
  <2>1. Append(s.out, b) \in Seq(BlockOf) /\ Append(s.aud, b) \in Seq(BlockOf)
    BY <1>2 DEF State
  <2>2. /\ Room(AddOut(s, b))
        /\ Originals(AddOut(s, b).sent) /\ Originals(AddOut(s, b).asent)
    BY <1>2, <1>3, <2>1, AddOutWell, AddOutFields
  <2>3. /\ Room(AddAudio(s, b))
        /\ Originals(AddAudio(s, b).sent) /\ Originals(AddAudio(s, b).asent)
    BY <1>2, <1>3, <2>1, AddAudioWell, AddAudioFields
  <2> QED
    BY <2>2, <2>3
<1> HIDE DEF t
<1>5. t \in State /\ t.out \in Seq(BlockOf) /\ t.aud \in Seq(BlockOf)
  BY <1>4 DEF Room, State
<1>6. Originals(Flush(t).sent) /\ Originals(Flush(t).asent)
  BY <1>3, <1>4, <1>5, FlushFields
<1> QED
  BY <1>1, <1>4, <1>6

LEMMA PlainHolds == Spec => []Plain
<1>1. Init => Plain
  <2> SUFFICES ASSUME Init PROVE Plain
    OBVIOUS
  <2>1. s.sent = <<>> /\ s.asent = <<>> /\ kept = <<>> /\ Len(<<>>) = 0
    BY DEF Init
  <2> QED
    BY <2>1, RangeEmpty DEF Plain, Originals
<1>2. RtpInv /\ TurnInv /\ Plain /\ [Next]_vars => Plain'
  <2> SUFFICES ASSUME RtpInv, TurnInv, Plain, [Next]_vars PROVE Plain'
    OBVIOUS
  <2>1. flags' = flags /\ redundancy' = redundancy
    BY DEF Next, Block, Missing, Usr1, Usr2, Signal, vars, options
  <2>2. CASE Block
    <3> DEFINE b == [f |-> src, i |-> pos]
               section == Frame[pos]
               last == pos = Len(Frame)
    <3>1. /\ s' = ProcDvdif(b, section, last) /\ Advance
          /\ kept' = IF Keeps(section) THEN Append(kept, b) ELSE kept
      BY <2>2 DEF Block
    <3>2. /\ b \in BlockOf /\ last \in BOOLEAN /\ Room(s) /\ redundancy \in Nat
          /\ kept \in Seq(BlockOf) /\ b.i = pos
      BY <3>1, OptionAssumption DEF Advance, RtpInv, BlockOf, TurnInv
    <3>3. pos \in Sound => section = "audio"
      BY DEF Sound, Places
    <3> HIDE DEF b, last, section
    <3>4. redundancy' = 0 => Originals(s'.sent) /\ Originals(s'.asent)
      BY <2>1, <3>1, <3>2, ProcDvdifOriginals DEF Plain
    <3>5. ASSUME "SEPARATED_AUDIO_STREAM" \in flags, NEW c \in Range(kept')
          PROVE  c.i \notin Sound
      <4>1. CASE c \in Range(kept)
        BY <3>5, <4>1 DEF Plain
      <4>2. CASE c = b /\ Keeps(section)
        BY <3>2, <3>3, <3>5, <4>2 DEF Keeps
      <4>3. Keeps(section) => Range(kept') = Range(kept) \cup {b}
        BY <3>1, <3>2, RangeAppend
      <4> QED
        BY <3>1, <3>5, <4>1, <4>2, <4>3
    <3> QED
      BY <2>1, <3>4, <3>5 DEF Plain
  <2>3. CASE UNCHANGED <<s, kept>>
    BY <2>1, <2>3 DEF Plain
  <2> QED
    BY <2>2, <2>3 DEF Next, Missing, Usr1, Usr2, Signal, vars
<1> QED
  BY <1>1, <1>2, RtpInvHolds, TurnInvHolds, PTL DEF Spec

(* The frame a timestamp under which sound goes out tells, and the timestamp
   last taken from the stream it goes out on. *)
FrameOf(ts) == IF ts = 0 THEN 0 ELSE IF Separates("audio") THEN ts - Apart + 1 ELSE ts
SoundStamp(t, k, j) == IF Separates("audio") THEN Latest(t.asent, j) ELSE Latest(t.sent, k)
Owned == late = 0 /\ redundancy = 0 /\ OwnTs(s.sent, 1) /\ OwnTs(s.asent, Apart)

(* The sound in a packet taken is of the frame its timestamp tells, and of no
   earlier one than that of the packet before it. *)
LEMMA SoundTaken ==
  ASSUME RtpInv, TurnInv, Ranks(s), AudioInv, Plain, Owned, NEW k, NEW j,
         Wired(wire, s, k, j), wire # <<>>
  PROVE  \E x, y : /\ Wired(Tail(wire), s, x, y)
                   /\ SoundStamp(s, k, j) <= SoundStamp(s, x, y)
                   /\ \A n \in 1 .. Len(Head(wire).blocks) :
                        Head(wire).blocks[n].i \in Sound =>
                          /\ Head(wire).blocks[n].f = FrameOf(Head(wire).ts)
                          /\ SoundStamp(s, x, y) = Head(wire).ts
<1>1. /\ s \in State /\ s.sent \in Seq(PacketOf) /\ s.asent \in Seq(PacketOf)
      /\ k \in Nat /\ j \in Nat /\ k <= Len(s.sent) /\ j <= Len(s.asent)
      /\ Apart \in Nat \ {0}
      /\ s.ts \in Nat /\ s.ats \in Nat
      /\ Ranked(s.sent, s.ts, s.seq, 1) /\ Ranked(s.asent, s.ats, s.aseq, Apart)
  <2>1. s \in State
    BY DEF RtpInv, Room
  <2>2. s.sent \in Seq(PacketOf) /\ s.asent \in Seq(PacketOf)
    BY <2>1 DEF State
  <2>3. Len(s.sent) \in Nat /\ Len(s.asent) \in Nat
    BY <2>2
  <2>4. k \in 0 .. Len(s.sent) /\ j \in 0 .. Len(s.asent)
    BY DEF Wired
  <2>5. k \in Nat /\ j \in Nat /\ k <= Len(s.sent) /\ j <= Len(s.asent)
    BY <2>3, <2>4
  <2>6. Apart \in Nat \ {0}
    BY OptionAssumption DEF Apart
  <2>7. s.ts \in Nat /\ s.ats \in Nat
    BY DEF Ranks
  <2> QED
    BY <2>1, <2>2, <2>5, <2>6, <2>7 DEF Ranks
<1>2. ASSUME NEW q, NEW n \in Nat, NEW ts \in Nat, NEW seq, NEW first \in Nat,
             Ranked(q, ts, seq, first), n + 1 \in 1 .. Len(q)
      PROVE  Latest(q, n) <= Latest(q, n + 1) /\ Latest(q, n + 1) = q[n + 1].ts
  <2>1. q[n + 1].ts \in first .. ts /\ n + 1 # 0
    BY <1>2 DEF Ranked
  <2>2. CASE n = 0
    BY <2>1, <2>2 DEF Latest
  <2>3. CASE n # 0
    <3>1. n \in 1 .. Len(q) /\ n < n + 1
      BY <1>2, <2>3
    <3> QED
      BY <1>2, <2>1, <2>3, <3>1 DEF Latest, Ranked
  <2> QED
    BY <2>2, <2>3
<1>3. ASSUME NEW q \in Seq(PacketOf), NEW n \in 1 .. Len(q), NEW first \in Nat \ {0},
             OwnTs(q, first), NEW ts \in Nat, NEW seq, Ranked(q, ts, seq, first),
             ~q[n].copy, NEW m \in 1 .. Len(q[n].blocks)
      PROVE  q[n].blocks[m].f = q[n].ts - first + 1 /\ q[n].ts # 0
  <2> DEFINE p == q[n]
  <2>1. p \in PacketOf /\ p.ts \in first .. ts
    BY <1>3 DEF Ranked
  <2>2. p.blocks \in Seq(BlockOf)
    BY <2>1 DEF PacketOf
  <2>3. p.blocks[m] \in BlockOf
    BY <1>3, <2>2
  <2>4. p.blocks[m].f \in Nat
    BY <2>3, OptionAssumption DEF BlockOf
  <2>5. p.blocks[m].f - 1 = p.ts - first
    <3>1. n \in DOMAIN q /\ m \in DOMAIN p.blocks
      BY <1>3, <2>2
    <3> QED
      BY <1>3, <3>1 DEF OwnTs
  <2> HIDE DEF p
  <2>6. p.blocks[m].f = p.ts - first + 1 /\ p.ts # 0
    BY <2>1, <2>4, <2>5
  <2> QED
    BY <2>6 DEF p
<1>4. CASE /\ k + 1 \in 1 .. Len(s.sent) /\ Head(wire) = Msg("main", s.sent[k + 1])
           /\ Wired(Tail(wire), s, k + 1, j)
  <2> DEFINE p == s.sent[k + 1]
  <2>1. ~p.copy /\ p \in PacketOf
    BY <1>1, <1>4 DEF Plain, Owned, Originals
  <2>2. Head(wire).blocks = p.blocks /\ Head(wire).ts = p.ts /\ p.blocks \in Seq(BlockOf)
    BY <1>4, <2>1 DEF Msg, PacketOf
  <2>3. SoundStamp(s, k, j) <= SoundStamp(s, k + 1, j)
    <3>1. Latest(s.asent, j) \in Nat
      BY <1>1 DEF Latest, Ranked
    <3>2. Latest(s.sent, k) <= Latest(s.sent, k + 1)
      BY <1>1, <1>2, <1>4
    <3> QED
      BY <3>1, <3>2 DEF SoundStamp
  <2>4. ASSUME NEW n \in 1 .. Len(p.blocks), p.blocks[n].i \in Sound
        PROVE  p.blocks[n].f = FrameOf(p.ts) /\ SoundStamp(s, k + 1, j) = p.ts
    <3>1. ~Separates("audio")
      <4>1. k + 1 \in Orig(s.sent)
        BY <1>4, <2>1 DEF Orig
      <4>2. p.blocks[n] \in Range(p.blocks)
        BY <2>2, <2>4 DEF Range
      <4>3. p.blocks[n] \in Range(kept)
        BY <4>1, <4>2 DEF TurnInv, Turn, Carry
      <4> QED
        BY <2>4, <4>3 DEF Plain, Separates
    <3>2. p.blocks[n].f = p.ts - 1 + 1 /\ p.ts # 0 /\ p.ts \in Nat
      <4>1. p.blocks[n].f = p.ts - 1 + 1 /\ p.ts # 0
        <5> DEFINE x == k + 1
        <5>1. /\ x \in 1 .. Len(s.sent) /\ ~s.sent[x].copy /\ n \in 1 .. Len(s.sent[x].blocks)
              /\ 1 \in Nat \ {0} /\ OwnTs(s.sent, 1)
          BY <1>4, <2>1, <2>4 DEF Owned
        <5> HIDE DEF x
        <5>2. s.sent[x].blocks[n].f = s.sent[x].ts - 1 + 1 /\ s.sent[x].ts # 0
          BY <1>1, <1>3, <5>1
        <5> QED
          BY <5>2 DEF x
      <4> QED
        BY <2>1, <4>1 DEF PacketOf
    <3> HIDE DEF p
    <3>3. p.blocks[n].f = p.ts /\ p.ts # 0
      BY <3>2
    <3>4. SoundStamp(s, k + 1, j) = p.ts
      BY <1>1, <1>2, <1>4, <3>1 DEF SoundStamp, p
    <3> QED
      BY <3>1, <3>3, <3>4 DEF FrameOf
  <2> QED
    BY <1>4, <2>2, <2>3, <2>4
<1>5. CASE /\ j + 1 \in 1 .. Len(s.asent) /\ Head(wire) = Msg("audio", s.asent[j + 1])
           /\ Wired(Tail(wire), s, k, j + 1)
  <2> DEFINE p == s.asent[j + 1]
  <2>1. Separates("audio")
    <3>1. Len(<<>>) = 0
      OBVIOUS
    <3> QED
      BY <1>5, <3>1 DEF AudioInv
  <2>2. Head(wire).blocks = p.blocks /\ Head(wire).ts = p.ts
    BY <1>5 DEF Msg
  <2>3. /\ SoundStamp(s, k, j) <= SoundStamp(s, k, j + 1)
        /\ SoundStamp(s, k, j + 1) = p.ts
    BY <1>1, <1>2, <1>5, <2>1 DEF SoundStamp
  <2>4. ASSUME NEW n \in 1 .. Len(p.blocks) PROVE p.blocks[n].f = FrameOf(p.ts)
    <3>1. ~p.copy
      BY <1>5 DEF Plain, Owned, Originals
    <3>2. p.blocks[n].f = p.ts - Apart + 1 /\ p.ts # 0
      BY <1>1, <1>3, <1>5, <2>4, <3>1 DEF Owned
    <3> QED
      BY <2>1, <3>2 DEF FrameOf
  <2> QED
    BY <1>5, <2>2, <2>3, <2>4
<1> QED
  BY <1>1, <1>4, <1>5, WireTakes
-----------------------------------------------------------------------------
(* The ring of the sound: h is what is handed over, with the present slot at
   its end, r the slots, c the present one, m the frame it is filled from.  A
   slot not yet reached holds what was handed over from it the last time. *)
SoundSlot == [Sound -> Nat]
Silence == [i \in Sound |-> 0]
Past(h, n) == IF n > N THEN h[n - N] ELSE Silence
Ahead(c, x) == IF x >= c THEN x - c ELSE (x - c) + N
After(c) == IF c = N - 1 THEN 0 ELSE c + 1

Single(h, n, m) ==
  /\ \E i \in Sound : h[n][i] = m
  /\ \A i \in Sound : h[n][i] <= m /\ h[n][i] \in {m, Past(h, n)[i]} /\ h[n - 1][i] < m
Rolled(h, r, c, m) ==
  /\ h \in Seq(SoundSlot) /\ h # <<>> /\ r \in [0 .. N - 1 -> SoundSlot] /\ c \in 0 .. N - 1
  /\ m \in Nat /\ h[Len(h)] = r[c] /\ \A i \in Sound : h[1][i] = 0
  /\ \A x \in 0 .. N - 1 : x # c => r[x] = Past(h, Len(h) + Ahead(c, x))
  /\ \A i \in Sound : r[c][i] \in {m, Past(h, Len(h))[i]}
  /\ \A n \in 1 .. Len(h), i \in Sound : h[n][i] <= m
  /\ IF Len(h) = 1 THEN m = 0 ELSE Single(h, Len(h), m)
  /\ \A n \in 2 .. Len(h) : \E f \in Nat : Single(h, n, f)

LEMMA AheadIs ==
  ASSUME NEW c \in 0 .. N - 1, NEW x \in 0 .. N - 1
  PROVE  /\ Ahead(c, x) \in 0 .. N - 1 /\ (x # c => Ahead(c, x) # 0)
         /\ After(c) \in 0 .. N - 1 /\ After(c) = (c + 1) % N
         /\ x # c => Ahead(After(c), x) = Ahead(c, x) - 1
         /\ Ahead(After(c), c) = N - 1
         /\ c # After(c) => Ahead(c, After(c)) = 1
<1>1. N \in Nat \ {0} /\ c \in Int /\ x \in Int /\ 0 <= c /\ c <= N - 1 /\ 0 <= x /\ x <= N - 1
  BY SlotAssumption
<1>2. CASE c = N - 1
  BY <1>1, <1>2 DEF Ahead, After
<1>3. CASE c < N - 1
  <2>1. (c + 1) % N = c + 1
    BY <1>1, <1>3
  <2> QED
    BY <1>1, <1>3, <2>1 DEF Ahead, After
<1> QED
  BY <1>1, <1>2, <1>3

(* A block into the present slot. *)
LEMMA RolledFill ==
  ASSUME NEW h, NEW r, NEW c, NEW m, Rolled(h, r, c, m), NEW b \in Sound,
         NEW w, w = [r EXCEPT ![c][b] = m], NEW g, g \in Seq(SoundSlot), Len(g) = Len(h),
         \A n \in 1 .. Len(h) - 1 : g[n] = h[n], g[Len(h)] = w[c]
  PROVE  Rolled(g, w, c, m)
<1> DEFINE L == Len(h)
<1>1. /\ L \in Nat \ {0} /\ N \in Nat \ {0} /\ c \in 0 .. N - 1 /\ m \in Nat
      /\ r \in [0 .. N - 1 -> SoundSlot] /\ h \in Seq(SoundSlot)
  BY SlotAssumption DEF Rolled
<1>2. h[L] = r[c] /\ h[L] \in SoundSlot /\ r[c] \in SoundSlot
  BY <1>1 DEF Rolled
<1>3. /\ w \in [0 .. N - 1 -> SoundSlot] /\ \A x \in 0 .. N - 1 : x # c => w[x] = r[x]
      /\ w[c] = [r[c] EXCEPT ![b] = m]
  <2>1. w[c] = [r[c] EXCEPT ![b] = m] /\ \A x \in 0 .. N - 1 : x # c => w[x] = r[x]
    BY <1>1
  <2>2. [r[c] EXCEPT ![b] = m] \in SoundSlot
    BY <1>1, <1>2 DEF SoundSlot
  <2> QED
    BY <1>1, <2>1, <2>2
<1>4. \A i \in Sound : w[c][i] = IF i = b THEN m ELSE h[L][i]
  BY <1>2, <1>3 DEF SoundSlot
<1>5. \A n \in Nat : n < L + N => Past(g, n) = Past(h, n)
  <2> SUFFICES ASSUME NEW n \in Nat, n < L + N PROVE Past(g, n) = Past(h, n)
    OBVIOUS
  <2> HIDE DEF L
  <2>1. n > N => n - N \in 1 .. L - 1
    BY <1>1
  <2> QED
    BY <2>1 DEF Past, L
<1> HIDE DEF L
<1>6. \A x \in 0 .. N - 1 : x # c => w[x] = Past(g, L + Ahead(c, x))
  <2> TAKE x \in 0 .. N - 1
  <2>1. Ahead(c, x) \in 0 .. N - 1
    BY <1>1, AheadIs
  <2>2. L + Ahead(c, x) \in Nat /\ L + Ahead(c, x) < L + N
    BY <1>1, <2>1
  <2> QED
    BY <1>3, <1>5, <2>2 DEF Rolled, L
<1>7. \A i \in Sound : w[c][i] \in {m, Past(g, L)[i]}
  <2>1. Past(g, L) = Past(h, L)
    BY <1>1, <1>5
  <2>2. \A i \in Sound : h[L][i] \in {m, Past(h, L)[i]}
    BY <1>2 DEF Rolled, L
  <2> QED
    BY <1>4, <2>1, <2>2
<1>8. \A n \in 1 .. L, i \in Sound : g[n][i] <= m
  <2>1. \A n \in 1 .. L, i \in Sound : h[n][i] <= m
    BY DEF Rolled, L
  <2>2. ASSUME NEW i \in Sound PROVE w[c][i] <= m
    <3>1. L \in 1 .. L
      BY <1>1
    <3>2. h[L][i] <= m
      BY <2>1, <3>1
    <3>3. w[c][i] = m \/ w[c][i] = h[L][i]
      BY <1>4
    <3>4. m <= m
      BY <1>1
    <3> QED
      BY <3>2, <3>3, <3>4
  <2>3. \A n \in 1 .. L : n = L \/ n \in 1 .. L - 1
    BY <1>1
  <2> QED
    BY <2>1, <2>2, <2>3 DEF L
<1>9. ASSUME L # 1 PROVE Single(g, L, m)
  <2>1. Single(h, L, m)
    BY <1>9 DEF Rolled, L
  <2>2. g[L] = w[c] /\ g[L - 1] = h[L - 1]
    <3>1. L - 1 \in 1 .. L - 1
      BY <1>1, <1>9
    <3> QED
      BY <3>1 DEF L
  <2>3. \E i \in Sound : g[L][i] = m
    BY <1>4, <2>2
  <2>4. L \in 1 .. L
    BY <1>1
  <2> QED
    BY <1>7, <1>8, <2>1, <2>2, <2>3, <2>4 DEF Single
<1>10. ASSUME NEW n \in 2 .. L PROVE \E f \in Nat : Single(g, n, f)
  <2>1. CASE n = L
    <3>1. L # 1
      BY <1>1, <1>10, <2>1
    <3> QED
      BY <1>1, <1>9, <2>1, <3>1
  <2>2. CASE n # L
    <3>1. n \in 1 .. L - 1 /\ n - 1 \in 1 .. L - 1 /\ n \in Nat /\ n < L + N
      BY <1>1, <1>10, <2>2
    <3>2. PICK f \in Nat : Single(h, n, f)
      BY <1>10 DEF Rolled, L
    <3>3. g[n] = h[n] /\ g[n - 1] = h[n - 1] /\ Past(g, n) = Past(h, n)
      BY <1>5, <3>1 DEF L
    <3> QED
      BY <3>2, <3>3 DEF Single
  <2> QED
    BY <2>1, <2>2
<1>11. Len(g) = L /\ g # <<>> /\ g[L] = w[c]
  <2>1. Len(<<>>) = 0 /\ Len(g) = L
    BY DEF L
  <2> QED
    BY <1>1, <2>1 DEF L
<1>12. L = 1 => m = 0
  BY DEF Rolled, L
<1>13. \A i \in Sound : g[1][i] = 0
  <2>1. \A i \in Sound : h[1][i] = 0
    BY DEF Rolled
  <2>2. CASE L = 1
    BY <1>4, <1>11, <1>12, <2>1, <2>2
  <2>3. CASE L # 1
    <3>1. 1 \in 1 .. L - 1
      BY <1>1, <2>3
    <3> QED
      BY <2>1, <3>1 DEF L
  <2> QED
    BY <2>2, <2>3
<1> QED
  BY <1>1, <1>13, <1>3, <1>6, <1>7, <1>8, <1>9, <1>10, <1>11, <1>12 DEF Rolled

(* The first block of a later frame: the present slot is handed over, and the
   next one of the ring is filled. *)
LEMMA RolledOn ==
  ASSUME NEW h, NEW r, NEW c, NEW m, Rolled(h, r, c, m), NEW b \in Sound,
         NEW f \in Nat, m < f, NEW w, w = [r EXCEPT ![After(c)][b] = f],
         NEW g, g = Append(h, w[After(c)])
  PROVE  Rolled(g, w, After(c), f)
<1> DEFINE L == Len(h)
           d == After(c)
<1>1. /\ L \in Nat \ {0} /\ N \in Nat \ {0} /\ c \in 0 .. N - 1 /\ m \in Nat
      /\ r \in [0 .. N - 1 -> SoundSlot] /\ h \in Seq(SoundSlot) /\ d \in 0 .. N - 1
  <2>1. N \in Nat \ {0} /\ c \in 0 .. N - 1
    BY SlotAssumption DEF Rolled
  <2> QED
    <3>1. After(c) \in 0 .. N - 1
      BY <2>1, AheadIs
    <3>2. h \in Seq(SoundSlot) /\ h # <<>>
      BY DEF Rolled
    <3> QED
      BY <2>1, <3>1, <3>2 DEF Rolled
<1>2. h[L] = r[c] /\ h[L] \in SoundSlot /\ r[c] \in SoundSlot /\ r[d] \in SoundSlot
  BY <1>1 DEF Rolled
<1> HIDE DEF d
<1>3. /\ w \in [0 .. N - 1 -> SoundSlot] /\ \A x \in 0 .. N - 1 : x # d => w[x] = r[x]
      /\ w[d] = [r[d] EXCEPT ![b] = f] /\ w[d] \in SoundSlot
  <2>1. w[d] = [r[d] EXCEPT ![b] = f] /\ \A x \in 0 .. N - 1 : x # d => w[x] = r[x]
    BY <1>1 DEF d
  <2>2. [r[d] EXCEPT ![b] = f] \in SoundSlot
    BY <1>1, <1>2 DEF SoundSlot
  <2> QED
    BY <1>1, <2>1, <2>2 DEF d
<1>4. \A i \in Sound : w[d][i] = IF i = b THEN f ELSE r[d][i]
  BY <1>2, <1>3 DEF SoundSlot
<1>5. /\ g \in Seq(SoundSlot) /\ Len(g) = L + 1 /\ g[L + 1] = w[d]
      /\ \A n \in 1 .. L : g[n] = h[n]
  BY <1>1, <1>3 DEF d
<1>6. \A n \in Nat : n < L + N => Past(g, n) = Past(h, n)
  BY <1>1, <1>5 DEF Past
<1>7. Past(g, L + N) = h[L]
  BY <1>1, <1>5 DEF Past
<1> HIDE DEF L
<1>8. \A x \in 0 .. N - 1 : x # d => w[x] = Past(g, L + 1 + Ahead(d, x))
  <2> SUFFICES ASSUME NEW x \in 0 .. N - 1, x # d PROVE w[x] = Past(g, L + 1 + Ahead(d, x))
    OBVIOUS
  <2>1. CASE x = c
    <3>1. L + 1 + Ahead(d, x) = L + N
      BY <1>1, <2>1, AheadIs DEF d
    <3> QED
      BY <1>2, <1>3, <1>7, <2>1, <3>1 DEF L
  <2>2. CASE x # c
    <3>1. Ahead(c, x) \in 0 .. N - 1 /\ Ahead(d, x) = Ahead(c, x) - 1
      BY <1>1, <2>2, AheadIs DEF d
    <3>2. /\ L + 1 + Ahead(d, x) = L + Ahead(c, x) /\ L + Ahead(c, x) \in Nat
          /\ L + Ahead(c, x) < L + N
      BY <1>1, <3>1
    <3>3. r[x] = Past(h, L + Ahead(c, x))
      BY <2>2 DEF Rolled, L
    <3> QED
      BY <1>3, <1>6, <3>2, <3>3
  <2> QED
    BY <2>1, <2>2
<1>9. r[d] = Past(g, L + 1)
  <2>1. CASE d = c
    <3>1. N = 1
      BY <1>1, <2>1 DEF d, After
    <3> QED
      BY <1>2, <1>7, <2>1, <3>1 DEF L
  <2>2. CASE d # c
    <3>1. Ahead(c, d) = 1
      BY <1>1, <2>2, AheadIs DEF d
    <3>2. r[d] = Past(h, L + 1)
      BY <1>1, <2>2, <3>1 DEF Rolled, L
    <3>3. N # 1 /\ L + 1 \in Nat /\ L + 1 < L + N
      BY <1>1, <2>2
    <3> QED
      BY <1>6, <3>2, <3>3
  <2> QED
    BY <2>1, <2>2
<1>10. \A i \in Sound : w[d][i] \in {f, Past(g, L + 1)[i]}
  BY <1>4, <1>9
<1>11. \A n \in 1 .. L, i \in Sound : h[n][i] <= m /\ h[n][i] \in Nat /\ h[n][i] < f
  <2> SUFFICES ASSUME NEW n \in 1 .. L, NEW i \in Sound
               PROVE  h[n][i] <= m /\ h[n][i] \in Nat /\ h[n][i] < f
    OBVIOUS
  <2>1. h[n] \in SoundSlot
    BY <1>1 DEF L
  <2>2. h[n][i] \in Nat /\ h[n][i] <= m
    BY <2>1 DEF SoundSlot, Rolled, L
  <2> QED
    BY <1>1, <2>2
<1>12. \A i \in Sound : r[d][i] < f
  <2>1. CASE L + 1 > N
    <3>1. (L + 1) - N \in 1 .. L
      BY <1>1, <2>1
    <3>2. r[d] = h[(L + 1) - N]
      BY <1>5, <1>9, <2>1, <3>1 DEF Past
    <3> QED
      BY <1>11, <3>1, <3>2
  <2>2. CASE ~(L + 1 > N)
    <3>1. r[d] = Silence
      BY <1>9, <2>2 DEF Past
    <3> QED
      BY <1>1, <3>1 DEF Silence
  <2> QED
    BY <2>1, <2>2
<1>13. \A i \in Sound : w[d][i] <= f
  BY <1>2, <1>4, <1>12 DEF SoundSlot
<1>14. \A n \in 1 .. L + 1, i \in Sound : g[n][i] <= f
  <2>1. \A n \in 1 .. L + 1 : n = L + 1 \/ n \in 1 .. L
    BY <1>1
  <2>2. \A n \in 1 .. L, i \in Sound : h[n][i] <= f
    BY <1>11
  <2> QED
    BY <1>5, <1>13, <2>1, <2>2
<1>15. Single(g, L + 1, f)
  <2>1. \E i \in Sound : g[L + 1][i] = f
    BY <1>4, <1>5
  <2>2. (L + 1) - 1 = L /\ L \in 1 .. L
    BY <1>1
  <2>3. \A i \in Sound : g[(L + 1) - 1][i] < f
    BY <1>5, <1>11, <2>2
  <2> QED
    BY <1>5, <1>10, <1>13, <2>1, <2>3 DEF Single
<1>16. ASSUME NEW n \in 2 .. L + 1 PROVE \E x \in Nat : Single(g, n, x)
  <2>1. CASE n = L + 1
    BY <1>15, <2>1
  <2>2. CASE n # L + 1
    <3>1. n \in 2 .. L /\ n \in 1 .. L /\ n - 1 \in 1 .. L /\ n \in Nat /\ n < L + N
      BY <1>1, <1>16, <2>2
    <3>2. PICK x \in Nat : Single(h, n, x)
      BY <3>1 DEF Rolled, L
    <3>3. g[n] = h[n] /\ g[n - 1] = h[n - 1] /\ Past(g, n) = Past(h, n)
      BY <1>5, <1>6, <3>1
    <3> QED
      BY <3>2, <3>3 DEF Single
  <2> QED
    BY <2>1, <2>2
<1>17. Len(g) # 1 /\ g # <<>>
  <2>1. Len(<<>>) = 0
    OBVIOUS
  <2> QED
    BY <1>1, <1>5, <2>1
<1>18. \A i \in Sound : g[1][i] = 0
  <2>1. \A i \in Sound : h[1][i] = 0
    BY DEF Rolled
  <2>2. g[1] = h[1]
    BY <1>1, <1>5
  <2> QED
    BY <2>1, <2>2
<1> QED
  BY <1>1, <1>3, <1>5, <1>8, <1>10, <1>14, <1>15, <1>16, <1>17, <1>18 DEF Rolled, d

LEMMA MostIs ==
  ASSUME NEW q \in SoundSlot, NEW f \in Nat, \E i \in Sound : q[i] = f,
         \A i \in Sound : q[i] <= f
  PROVE  (CHOOSE m \in Range(q) : \A n \in Range(q) : n <= m) = f
<1>1. Range(q) = {q[i] : i \in Sound} /\ \A i \in Sound : q[i] \in Nat
  BY DEF Range, SoundSlot
<1>2. f \in Range(q) /\ \A n \in Range(q) : n <= f /\ n \in Nat
  BY <1>1
<1>3. \A m \in Range(q) : (\A n \in Range(q) : n <= m) => m = f
  BY <1>2
<1> QED
  BY <1>2, <1>3

(* Sound, nothing held back, no copies, all under the timestamps of its frames:
   what the reader has in hand is not older than what it has put into the
   present slot. *)
InTime(k, j) ==
  /\ atsPrev <= SoundStamp(s, k, j)
  /\ \A n \in 1 .. Len(hand.blocks) : hand.blocks[n].i \in Sound =>
       /\ hand.blocks[n].f = FrameOf(hand.ts)
       /\ atsPrev <= hand.ts /\ hand.ts <= SoundStamp(s, k, j)
HearInv == Owned => /\ sounds \in Seq(SoundSlot) /\ atsPrev \in Nat
                    /\ Rolled(Heard, aring, acur, FrameOf(atsPrev))
                    /\ \E k, j : Wired(wire, s, k, j) /\ InTime(k, j)

LEMMA OwnedSteps ==
  ASSUME RtpInv, Ranks(s), NetInv, RtpInv', [StreamNext]_<<vars, network, reader>>, Owned'
  PROVE  /\ Owned /\ Follows(s, s') /\ ~Hold /\ ~RecvLate
         /\ (Separates("audio")' <=> Separates("audio"))
         /\ \A x : FrameOf(x)' = FrameOf(x)
<1>1. flags' = flags /\ redundancy' = redundancy
  BY SenderStep DEF Next, Block, Missing, Usr1, Usr2, Signal, vars, options
<1>2. Follows(s, s')
  BY SenderStep, SenderGrows DEF Ordered
<1>3. late \in Nat /\ late' = 0 /\ (late = 0 => held = {})
  BY DEF NetInv, Owned
<1>4. ~Hold
  BY <1>3 DEF Hold
<1>5. late = 0
  BY <1>3, <1>4 DEF StreamNext, Send, Lose, RecvNext, RecvLate, Recv, ReadPicture,
                    ReadSound, Done1, network
<1>6. ~RecvLate
  BY <1>3, <1>5 DEF RecvLate
<1>7. ASSUME NEW q \in Seq(PacketOf), NEW r \in Seq(PacketOf), NEW first, Grown(q, r),
             OwnTs(r, first)
      PROVE  OwnTs(q, first)
  <2>1. DOMAIN q = 1 .. Len(q) /\ DOMAIN r = 1 .. Len(r) /\ Len(q) \in Nat /\ Len(r) \in Nat
    BY <1>7
  <2>2. \A n \in DOMAIN q : n \in DOMAIN r /\ q[n] = r[n]
    BY <1>7, <2>1 DEF Grown
  <2> QED
    BY <1>7, <2>2 DEF OwnTs
<1>8. OwnTs(s.sent, 1) /\ OwnTs(s.asent, Apart)
  <2>1. s \in State /\ s' \in State
    BY DEF RtpInv, Room
  <2>2. /\ s.sent \in Seq(PacketOf) /\ s.asent \in Seq(PacketOf)
        /\ s'.sent \in Seq(PacketOf) /\ s'.asent \in Seq(PacketOf)
    BY <2>1 DEF State
  <2>3. OwnTs(s'.sent, 1) /\ OwnTs(s'.asent, Apart)
    BY DEF Owned
  <2> QED
    BY <1>2, <1>7, <2>2, <2>3 DEF Follows
<1>9. /\ Separates("audio")' <=> Separates("audio")
      /\ \A x : FrameOf(x)' = FrameOf(x)
  BY <1>1 DEF Separates, FrameOf
<1>10. Owned
  BY <1>1, <1>5, <1>8 DEF Owned
<1> QED
  BY <1>2, <1>4, <1>6, <1>9, <1>10

LEMMA StampType ==
  ASSUME RtpInv, Ranks(s), NEW k, NEW j, NEW w, Wired(w, s, k, j)
  PROVE  SoundStamp(s, k, j) \in Nat
<1>1. s \in State
  BY DEF RtpInv, Room
<1>2. s.sent \in Seq(PacketOf) /\ s.asent \in Seq(PacketOf)
  BY <1>1 DEF State
<1>3. k \in 0 .. Len(s.sent) /\ j \in 0 .. Len(s.asent)
  BY DEF Wired
<1>4. ASSUME NEW q \in Seq(PacketOf), NEW n \in 0 .. Len(q) PROVE Latest(q, n) \in Nat
  <2>1. CASE n = 0
    BY <2>1 DEF Latest
  <2>2. CASE n # 0
    <3>1. n \in 1 .. Len(q)
      BY <2>2
    <3>2. q[n] \in PacketOf
      BY <3>1
    <3> QED
      BY <2>2, <3>2 DEF PacketOf, Latest
  <2> QED
    BY <2>1, <2>2
<1> QED
  BY <1>2, <1>3, <1>4 DEF SoundStamp

(* What is in the packet at hand, and then put into the ring. *)
LEMMA SoundRead ==
  ASSUME NetInv, Owned, sounds \in Seq(SoundSlot), atsPrev \in Nat,
         Rolled(Heard, aring, acur, FrameOf(atsPrev)), NEW k, NEW j, InTime(k, j), ReadSound
  PROVE  /\ sounds' \in Seq(SoundSlot) /\ atsPrev' = hand.ts
         /\ Rolled(Heard', aring', acur', FrameOf(hand.ts))
<1> DEFINE b == Block1.i
           f == Block1.f
           m == FrameOf(atsPrev)
           P == SoundSlot
           x == aring[acur]
<1>1. /\ hand.blocks # <<>> /\ b \in Sound
      /\ acur' = IF NewSound THEN (acur + 1) % N ELSE acur
      /\ atsPrev' = IF NewSound THEN hand.ts ELSE atsPrev
      /\ sounds' = IF NewSound THEN Append(sounds, x) ELSE sounds
      /\ aring' = [aring EXCEPT ![acur'][b] = f]
  BY DEF ReadSound, Done1
<1>2. /\ hand.blocks \in Seq(BlockOf) /\ hand.ts \in Nat
  BY DEF NetInv, Messages
<1>3. /\ 1 \in 1 .. Len(hand.blocks) /\ Block1 = hand.blocks[1] /\ Block1 \in BlockOf
  BY <1>1, <1>2 DEF Block1
<1>4. f = FrameOf(hand.ts) /\ atsPrev <= hand.ts /\ f \in Nat \ {0}
  BY <1>1, <1>3, OptionAssumption DEF InTime, BlockOf
<1>5. /\ acur \in 0 .. N - 1 /\ aring \in [0 .. N - 1 -> P] /\ x \in P /\ Apart \in Nat
      /\ m \in Nat /\ sounds \in Seq(P)
  BY ApartType DEF Rolled
<1>6. Heard = Append(sounds, x) /\ Heard' = Append(sounds', aring'[acur'])
  BY DEF Heard
<1> HIDE DEF b, P, x
<1>7. CASE NewSound
  <2>1. hand.ts # atsPrev
    BY <1>7 DEF NewSound
  <2>2. m < f
    <3>1. CASE atsPrev = 0
      BY <1>4, <3>1 DEF FrameOf
    <3>2. CASE atsPrev # 0
      BY <1>2, <1>4, <1>5, <2>1, <3>2 DEF FrameOf
    <3> QED
      BY <3>1, <3>2
  <2> HIDE DEF f, m
  <2>3. acur' = After(acur)
    BY <1>1, <1>5, <1>7, AheadIs
  <2>4. /\ sounds' = Heard /\ atsPrev' = hand.ts /\ sounds' \in Seq(P)
        /\ aring' = [aring EXCEPT ![After(acur)][b] = f]
        /\ Heard' = Append(Heard, aring'[After(acur)])
    <3>1. sounds' = Append(sounds, x) /\ atsPrev' = hand.ts
      BY <1>1, <1>7
    <3>2. Append(sounds, x) \in Seq(P)
      BY <1>5
    <3> QED
      BY <1>1, <1>6, <2>3, <3>1, <3>2
  <2>5. Rolled(Heard', aring', After(acur), f)
    <3>1. Rolled(Heard, aring, acur, m) /\ b \in Sound /\ f \in Nat
      BY <1>1, <1>4 DEF m
    <3> DEFINE h == Heard
               w == aring'
               g == Heard'
               c == acur
    <3>2. /\ Rolled(h, aring, c, m) /\ w = [aring EXCEPT ![After(c)][b] = f]
          /\ g = Append(h, w[After(c)])
      BY <2>4, <3>1
    <3> HIDE DEF h, w, g, c
    <3>3. Rolled(g, w, After(c), f)
      BY <2>2, <3>1, <3>2, RolledOn
    <3> QED
      BY <3>3 DEF g, w, c
  <2> QED
    BY <1>4, <2>3, <2>4, <2>5 DEF P, f
<1>8. CASE ~NewSound
  <2>1. hand.ts = atsPrev /\ m = f
    BY <1>4, <1>8 DEF NewSound
  <2> HIDE DEF f, m
  <2>2. /\ sounds' = sounds /\ acur' = acur /\ atsPrev' = hand.ts
        /\ aring' = [aring EXCEPT ![acur][b] = m]
    BY <1>1, <1>8, <2>1
  <2>3. aring'[acur] \in P
    <3>1. aring'[acur] = [aring[acur] EXCEPT ![b] = m]
      BY <1>5, <2>2
    <3> QED
      BY <1>5, <3>1 DEF P, SoundSlot, x
  <2> DEFINE y == aring'[acur]
  <2>4. Heard' = Append(sounds, y) /\ y \in P
    BY <1>6, <2>2, <2>3
  <2> HIDE DEF y
  <2>5. /\ Heard' \in Seq(P) /\ Len(Heard') = Len(Heard) /\ Len(Heard) \in Nat \ {0}
        /\ \A n \in 1 .. Len(Heard) - 1 : Heard'[n] = Heard[n]
        /\ Heard'[Len(Heard)] = y
    BY <1>5, <1>6, <2>4 DEF P
  <2>6. Rolled(Heard', aring', acur, m)
    BY <1>1, <2>2, <2>5, RolledFill DEF m, P, y
  <2> QED
    BY <1>4, <2>1, <2>2, <2>6 DEF f, P
<1> QED
  BY <1>7, <1>8

LEMMA HearStep ==
  /\ RtpInv /\ RtpInv' /\ TurnInv /\ Ranks(s) /\ NetInv /\ AudioInv /\ Plain
  /\ HearInv /\ [StreamNext]_<<vars, network, reader>>
  => HearInv'
<1> SUFFICES ASSUME RtpInv, RtpInv', TurnInv, Ranks(s), NetInv, AudioInv, Plain, HearInv,
                    [StreamNext]_<<vars, network, reader>>, Owned'
             PROVE  /\ sounds' \in Seq(SoundSlot) /\ atsPrev' \in Nat
                    /\ Rolled(Heard', aring', acur', FrameOf(atsPrev)')
                    /\ \E k, j : Wired(wire', s', k, j) /\ InTime(k, j)'
  BY DEF HearInv
<1>1. /\ Owned /\ Follows(s, s') /\ ~Hold /\ ~RecvLate
      /\ (Separates("audio")' <=> Separates("audio")) /\ \A x : FrameOf(x)' = FrameOf(x)
  BY OwnedSteps
<1>2. /\ sounds \in Seq(SoundSlot) /\ atsPrev \in Nat
      /\ Rolled(Heard, aring, acur, FrameOf(atsPrev))
  BY <1>1 DEF HearInv
<1>3. PICK k, j : Wired(wire, s, k, j) /\ InTime(k, j)
  BY <1>1 DEF HearInv
<1>4. ASSUME UNCHANGED audio
      PROVE  /\ sounds' \in Seq(SoundSlot) /\ atsPrev' = atsPrev /\ atsPrev' \in Nat
             /\ Rolled(Heard', aring', acur', FrameOf(atsPrev)')
  <2>1. /\ UNCHANGED <<aring, acur, atsPrev, sounds>>
    BY <1>4 DEF audio
  <2>2. Heard' = Heard
    BY <2>1 DEF Heard
  <2>3. FrameOf(atsPrev)' = FrameOf(atsPrev)
    BY <1>1, <2>1 DEF FrameOf
  <2> QED
    BY <1>2, <2>1, <2>2, <2>3
<1>5. ASSUME s' = s
      PROVE  \A x, y : SoundStamp(s, x, y)' = SoundStamp(s, x, y)
  BY <1>1, <1>5 DEF SoundStamp
<1>6. CASE Send
  <2>1. /\ UNCHANGED audio /\ hand' = hand /\ hand.blocks = <<>> /\ wire = <<>>
        /\ wire' = New("main", s.sent, s'.sent) \o New("audio", s.asent, s'.asent)
    BY <1>6 DEF Send, Quiet, reader
  <2>2. s \in State /\ s' \in State
    BY DEF RtpInv, Room
  <2>3. Wired(wire', s', k, j) /\ k = Len(s.sent) /\ j = Len(s.asent)
    BY <1>1, <1>3, <2>1, <2>2, WireSends
  <2>4. SoundStamp(s, k, j)' = SoundStamp(s, k, j)
    <3>1. s.sent \in Seq(PacketOf) /\ s.asent \in Seq(PacketOf)
      BY <2>2 DEF State
    <3>2. ASSUME NEW q \in Seq(PacketOf), NEW r, NEW n, n = Len(q), Grown(q, r)
          PROVE  Latest(r, n) = Latest(q, n)
      <4>1. n \in Nat /\ (n # 0 => n \in 1 .. Len(q))
        BY <3>2
      <4> QED
        BY <3>2, <4>1 DEF Latest, Grown
    <3>3. /\ Latest(s'.sent, k) = Latest(s.sent, k)
          /\ Latest(s'.asent, j) = Latest(s.asent, j)
      BY <1>1, <2>3, <3>1, <3>2 DEF Follows
    <3> QED
      BY <1>1, <3>3 DEF SoundStamp
  <2>5. Len(hand'.blocks) = 0
    BY <2>1
  <2> DEFINE z == hand'.blocks
  <2>6. \A n \in 1 .. Len(z) : FALSE
    BY <2>5
  <2> HIDE DEF z
  <2>7. InTime(k, j)'
    BY <1>3, <1>4, <2>1, <2>4, <2>6 DEF InTime, z
  <2> QED
    BY <1>4, <2>1, <2>3, <2>7
<1>7. ASSUME UNCHANGED <<vars, audio>>, wire # <<>>, wire' = Tail(wire),
             hand.blocks = <<>>, hand' = hand \/ hand' = Head(wire)
      PROVE  \E x, y : Wired(wire', s', x, y) /\ InTime(x, y)'
  <2>1. s' = s /\ atsPrev' = atsPrev
    BY <1>4, <1>7 DEF vars
  <2>2. PICK x, y :
          /\ Wired(Tail(wire), s, x, y) /\ SoundStamp(s, k, j) <= SoundStamp(s, x, y)
          /\ \A n \in 1 .. Len(Head(wire).blocks) :
               Head(wire).blocks[n].i \in Sound =>
                 /\ Head(wire).blocks[n].f = FrameOf(Head(wire).ts)
                 /\ SoundStamp(s, x, y) = Head(wire).ts
    BY <1>1, <1>3, <1>7, SoundTaken
  <2>3. SoundStamp(s, k, j) \in Nat /\ SoundStamp(s, x, y) \in Nat
    BY <1>3, <2>2, StampType
  <2>4. atsPrev <= SoundStamp(s, x, y)
    BY <1>2, <1>3, <2>2, <2>3 DEF InTime
  <2>5. Len(hand.blocks) = 0
    BY <1>7
  <2> DEFINE z == hand.blocks
  <2>6. \A n \in 1 .. Len(z) : FALSE
    BY <2>5
  <2> HIDE DEF z
  <2>7. ASSUME hand' = hand PROVE InTime(x, y)'
    BY <1>5, <2>1, <2>4, <2>6, <2>7 DEF InTime, z
  <2>8. ASSUME hand' = Head(wire) PROVE InTime(x, y)'
    BY <1>1, <1>5, <2>1, <2>2, <2>3, <2>4, <2>8 DEF InTime
  <2>9. InTime(x, y)'
    BY <1>7, <2>7, <2>8
  <2> QED
    BY <1>7, <2>1, <2>2, <2>9
<1>8. CASE Lose
  <2>1. /\ UNCHANGED <<vars, audio>> /\ wire # <<>> /\ wire' = Tail(wire)
        /\ hand' = hand /\ hand.blocks = <<>>
    BY <1>8 DEF Lose, reader
  <2> QED
    BY <1>4, <1>7, <2>1
<1>9. CASE RecvNext
  <2>1. /\ UNCHANGED <<vars, audio>> /\ wire # <<>> /\ wire' = Tail(wire)
        /\ hand' = Head(wire) /\ hand.blocks = <<>>
    BY <1>9 DEF RecvNext, Recv
  <2> QED
    BY <1>4, <1>7, <2>1
<1>10. ASSUME Done1
       PROVE  /\ s' = s /\ wire' = wire /\ Wired(wire', s', k, j) /\ hand'.ts = hand.ts
              /\ hand.blocks \in Seq(BlockOf) /\ hand.blocks # <<>>
              /\ hand'.blocks = Tail(hand.blocks)
              /\ atsPrev <= SoundStamp(s, k, j)
              /\ \A n \in 1 .. Len(hand'.blocks) : hand'.blocks[n].i \in Sound =>
                   /\ hand'.blocks[n].f = FrameOf(hand.ts)
                   /\ atsPrev <= hand.ts /\ hand.ts <= SoundStamp(s, k, j)
  <2>1. /\ hand.blocks # <<>> /\ hand' = [hand EXCEPT !.blocks = Tail(@)]
        /\ s' = s /\ wire' = wire
    BY <1>10 DEF Done1, vars, network
  <2>2. hand'.blocks = Tail(hand.blocks) /\ hand'.ts = hand.ts
    BY <2>1, BlockRead DEF NetInv
  <2> DEFINE h == hand.blocks
             r == Tail(h)
  <2>3. h \in Seq(BlockOf) /\ h # <<>>
    BY <2>1 DEF NetInv, Messages
  <2>4. \A n \in 1 .. Len(r) : n + 1 \in 1 .. Len(h) /\ r[n] = h[n + 1]
    BY <2>3
  <2> HIDE DEF h, r
  <2>5. \A n \in 1 .. Len(r) : r[n].i \in Sound =>
           /\ r[n].f = FrameOf(hand.ts)
           /\ atsPrev <= hand.ts /\ hand.ts <= SoundStamp(s, k, j)
    BY <1>3, <2>4 DEF InTime, h
  <2> QED
    BY <1>3, <2>1, <2>2, <2>3, <2>5 DEF InTime, h, r
<1>11. CASE ReadPicture
  <2>1. Done1 /\ UNCHANGED audio
    BY <1>11 DEF ReadPicture
  <2>2. InTime(k, j)'
    BY <1>1, <1>4, <1>5, <1>10, <2>1 DEF InTime
  <2> QED
    BY <1>4, <1>10, <2>1, <2>2
<1>12. CASE ReadSound
  <2>1. Done1
    BY <1>12 DEF ReadSound
  <2>2. /\ sounds' \in Seq(SoundSlot) /\ atsPrev' = hand.ts
        /\ Rolled(Heard', aring', acur', FrameOf(hand.ts))
    BY <1>1, <1>2, <1>3, <1>12, SoundRead
  <2>3. FrameOf(atsPrev)' = FrameOf(hand.ts)
    BY <1>1, <2>2 DEF FrameOf
  <2>4. hand.ts \in Nat /\ hand.ts <= SoundStamp(s, k, j)
    <3>1. hand.ts \in Nat
      BY DEF NetInv, Messages
    <3>2. 1 \in 1 .. Len(hand.blocks) /\ Block1 = hand.blocks[1] /\ Block1.i \in Sound
      BY <1>10, <1>12, <2>1 DEF Block1, ReadSound
    <3> QED
      BY <1>3, <3>1, <3>2 DEF InTime
  <2>5. InTime(k, j)'
    BY <1>1, <1>5, <1>10, <2>1, <2>2, <2>4 DEF InTime
  <2> QED
    BY <1>10, <2>1, <2>2, <2>3, <2>4, <2>5
<1>13. CASE UNCHANGED <<vars, network, reader>>
  <2>1. /\ UNCHANGED audio /\ s' = s /\ wire' = wire /\ hand' = hand
    BY <1>13 DEF vars, network, reader
  <2>2. InTime(k, j)'
    BY <1>1, <1>3, <1>4, <1>5, <2>1 DEF InTime
  <2> QED
    BY <1>3, <1>4, <2>1, <2>2
<1> QED
  BY <1>1, <1>6, <1>8, <1>9, <1>11, <1>12, <1>13 DEF StreamNext

(* What is heard of a frame is never older than what was heard before it but
   where sound was lost: there it is what was in the slot N hand-overs ago
   (read.c:255; nothing clears a slot of the audio ring). *)
THEOREM SoundIsFramewise == StreamSpec => []SoundsKept
<1>1. StreamInit => HearInv
  <2> SUFFICES ASSUME StreamInit PROVE HearInv
    OBVIOUS
  <2>1. /\ wire = <<>> /\ hand = NoPacket /\ s.sent = <<>> /\ s.asent = <<>>
        /\ aring = [slot \in 0 .. N - 1 |-> Silence] /\ acur = 0 /\ atsPrev = 0
        /\ sounds = <<>>
    BY DEF StreamInit, Init, Silence
  <2>2. <<>> \in Seq(Messages) /\ Len(<<>>) = 0
    OBVIOUS
  <2>3. Wired(wire, s, 0, 0)
    BY <2>1, <2>2 DEF Wired
  <2>4. \A n \in 1 .. Len(hand.blocks) : FALSE
    BY <2>1, <2>2 DEF NoPacket
  <2>5. InTime(0, 0)
    BY <2>1, <2>4 DEF InTime, SoundStamp, Latest
  <2> DEFINE h == Heard
  <2>6. /\ Silence \in SoundSlot /\ \A i \in Sound : Silence[i] = 0
        /\ 0 \in 0 .. N - 1 /\ aring \in [0 .. N - 1 -> SoundSlot]
        /\ \A x \in 0 .. N - 1 : aring[x] = Silence
    BY <2>1, SlotAssumption DEF Silence, SoundSlot
  <2>7. h = Append(sounds, Silence)
    BY <2>1, <2>6 DEF Heard
  <2> DEFINE P == SoundSlot
  <2>8. sounds \in Seq(P) /\ Silence \in P
    BY <2>1, <2>6
  <2> HIDE DEF h, P
  <2>9. h \in Seq(P) /\ Len(h) = 1 /\ h[1] = Silence /\ h # <<>>
    BY <2>1, <2>7, <2>8
  <2>10. \A x \in 0 .. N - 1 : x # 0 => Past(h, 1 + Ahead(0, x)) = Silence
    <3> TAKE x \in 0 .. N - 1
    <3>1. Ahead(0, x) \in 0 .. N - 1
      BY <2>6, AheadIs
    <3>2. ~(1 + Ahead(0, x) > N)
      BY <3>1, SlotAssumption
    <3> QED
      BY <3>2 DEF Past
  <2>11. FrameOf(atsPrev) = 0
    BY <2>1 DEF FrameOf
  <2>12. \A i \in Sound : aring[0][i] = 0
    BY <2>6
  <2>13. Rolled(h, aring, 0, 0)
    BY <2>6, <2>9, <2>10, <2>12 DEF Rolled, P
  <2> QED
    BY <2>1, <2>3, <2>5, <2>8, <2>11, <2>13 DEF HearInv, h, P
<1>2. StreamSpec => [](TurnInv /\ AudioInv /\ Plain)
  <2>1. StreamInit => Init
    BY DEF StreamInit
  <2>2. StreamSpec => Spec
    BY <2>1, SenderStep, PTL DEF StreamSpec, Spec
  <2> QED
    BY <2>2, TurnInvHolds, AudioInvHolds, PlainHolds, PTL
<1>3. HearInv => SoundsKept
  <2> SUFFICES ASSUME HearInv, Owned, NEW k \in 2 .. Len(Heard)
               PROVE  /\ Newest(k) > Newest(k - 1)
                      /\ \A i \in Sound :
                           \/ Heard[k][i] = Newest(k)
                           \/ Heard[k][i] = IF k > N THEN Heard[k - N][i] ELSE 0
    BY DEF SoundsKept, Owned
  <2> DEFINE h == Heard
  <2>1. /\ \A n \in 2 .. Len(h) : \E f \in Nat : Single(h, n, f)
        /\ \A i \in Sound : h[1][i] = 0
        /\ h \in Seq(SoundSlot)
    BY DEF HearInv, Rolled
  <2>2. Len(h) \in Nat /\ \A n \in 1 .. Len(h) : h[n] \in SoundSlot
    BY <2>1
  <2>3. \A n : Newest(n) = CHOOSE m \in Range(h[n]) : \A x \in Range(h[n]) : x <= m
    BY DEF Newest
  <2>4. k \in 2 .. Len(h)
    OBVIOUS
  <2> HIDE DEF h
  <2>5. PICK f \in Nat : Single(h, k, f)
    BY <2>1, <2>4
  <2>6. Newest(k) = f
    <3>1. k \in 1 .. Len(h)
      BY <2>2, <2>4
    <3>2. /\ h[k] \in SoundSlot /\ \E i \in Sound : h[k][i] = f
          /\ \A i \in Sound : h[k][i] <= f
      BY <2>2, <2>5, <3>1 DEF Single
    <3> QED
      BY <2>3, <3>2, MostIs
  <2>7. PICK i \in Sound : h[k][i] = f
    BY <2>5 DEF Single
  <2>8. \E e \in Nat : (\E x \in Sound : h[k - 1][x] = e) /\ \A x \in Sound : h[k - 1][x] <= e
    <3>1. CASE k = 2
      <4>1. \A x \in Sound : h[k - 1][x] = 0
        BY <2>1, <3>1
      <4> QED
        BY <2>7, <4>1
    <3>2. CASE k # 2
      <4>1. k - 1 \in 2 .. Len(h)
        BY <2>2, <2>4, <3>2
      <4> QED
        BY <2>1, <4>1 DEF Single
    <3> QED
      BY <3>1, <3>2
  <2>9. PICK e \in Nat :
          (\E x \in Sound : h[k - 1][x] = e) /\ \A x \in Sound : h[k - 1][x] <= e
    BY <2>8
  <2>10. k - 1 \in 1 .. Len(h)
    BY <2>2, <2>4
  <2>11. Newest(k - 1) = e
    BY <2>2, <2>3, <2>9, <2>10, MostIs
  <2>12. e < f
    BY <2>5, <2>9 DEF Single
  <2>13. \A x \in Sound : h[k][x] = f \/ h[k][x] = IF k > N THEN h[k - N][x] ELSE 0
    BY <2>5 DEF Single, Past, Silence
  <2> QED
    BY <2>6, <2>11, <2>12, <2>13 DEF h
<1> QED
  BY <1>1, <1>2, <1>3, HearStep, NetHolds, PTL DEF StreamSpec
-----------------------------------------------------------------------------
(* Undisturbed: the frame and the place of the block the bus delivered last,
   and the timestamp the sound of a frame goes out under. *)
FrameNow == IF pos = 1 THEN src - 1 ELSE src
PlaceNow == IF pos = 1 THEN Len(Frame) ELSE pos - 1
StampOf(f) == IF f = 0 THEN 0 ELSE IF Separates("audio") THEN f + Apart - 1 ELSE f

(* The copies of sound are gathered without a gap, up to the block `here'. *)
Gapless(q, here) ==
  \A m \in 1 .. Len(q) :
    /\ Before(q[m], here)
    /\ \A c \in BlockOf : c.i \in Sound /\ Before(q[m], c) /\ Before(c, here) =>
         \E n \in 1 .. Len(q) : m < n /\ q[n] = c

(* The sound in a packet is under the timestamp of frame f; what is of another
   frame is followed by what is to replace it, if that has left the bus. *)
Sane(p, f, place, ts) ==
  \A m \in 1 .. Len(p.blocks) : p.blocks[m].i \in Sound =>
    /\ f >= 1 /\ p.ts = ts
    /\ \/ p.blocks[m].f = f \/ p.blocks[m].i > place
       \/ \E n \in 1 .. Len(p.blocks) :
            m < n /\ p.blocks[n] = [f |-> f, i |-> p.blocks[m].i]
SaneNow(p) == Sane(p, FrameNow, PlaceNow, StampOf(FrameNow))

Due(c) == \/ c \in Range(hand.blocks) \/ c \in Range(s.out) \/ c \in Range(s.aud)
          \/ \E n \in 1 .. Len(wire) : c \in Range(wire[n].blocks)

SoundClear ==
  /\ Undisturbed /\ "NO_AUDIO_STREAM" \notin flags
  /\ "SEPARATED_AUDIO_STREAM" \in flags => redundancy = 0 /\ Cardinality(Sound) % PerPkt # 0

Heeded ==
  /\ Gapless(s.red, Here) /\ (redundancy = 0 => s.red = <<>>)
  /\ SaneNow(hand) /\ \A n \in 1 .. Len(wire) : SaneNow(wire[n])
  /\ atsPrev = StampOf(Len(sounds))
  /\ \/ Len(sounds) = FrameNow
     \/ /\ Len(sounds) + 1 = FrameNow
        /\ Len(sounds) > 0 => \A i \in Sound : aring[acur][i] = Len(sounds)
  /\ \A i \in Sound : FrameNow >= 1 /\ i <= PlaceNow =>
       \/ Due([f |-> FrameNow, i |-> i])
       \/ Len(sounds) = FrameNow /\ aring[acur][i] = FrameNow
  /\ \A k \in 2 .. Len(sounds) : sounds[k] = [i \in Sound |-> k - 1]
HeedInv == SoundClear => Heeded

(* The packets a step of dvsend adds: their timestamps, and the copies. *)
Adds(t, v, C) ==
  /\ \A n \in 1 .. Len(v.sent) : n > Len(t.sent) =>
       v.sent[n].ts = t.ts /\ (v.sent[n].copy => v.sent[n].blocks \in C)
  /\ \A n \in 1 .. Len(v.asent) : n > Len(t.asent) => v.asent[n].ts = t.ats

LEMMA AddsNothing ==
  ASSUME NEW t \in State, NEW v, NEW C, v.sent = t.sent, v.asent = t.asent
  PROVE  Adds(t, v, C)
<1>1. t.sent \in Seq(PacketOf) /\ t.asent \in Seq(PacketOf)
  BY DEF State
<1> QED
  BY <1>1 DEF Adds

LEMMA AddsTrans ==
  ASSUME NEW t \in State, NEW u \in State, NEW v \in State, NEW C, Adds(t, u, C), Adds(u, v, C),
         u.ts = t.ts, u.ats = t.ats, Follows(u, v)
  PROVE  Adds(t, v, C)
<1>1. /\ t.sent \in Seq(PacketOf) /\ u.sent \in Seq(PacketOf) /\ v.sent \in Seq(PacketOf)
      /\ t.asent \in Seq(PacketOf) /\ u.asent \in Seq(PacketOf) /\ v.asent \in Seq(PacketOf)
  BY DEF State
<1>2. ASSUME NEW q \in Seq(PacketOf), NEW n \in Nat \ {0}
      PROVE  n > Len(q) \/ n \in 1 .. Len(q)
  OBVIOUS
<1>3. ASSUME NEW n \in 1 .. Len(v.sent), n > Len(t.sent)
      PROVE  v.sent[n].ts = t.ts /\ (v.sent[n].copy => v.sent[n].blocks \in C)
  BY <1>1, <1>2, <1>3 DEF Adds, Follows, Grown
<1>4. ASSUME NEW n \in 1 .. Len(v.asent), n > Len(t.asent) PROVE v.asent[n].ts = t.ats
  BY <1>1, <1>2, <1>4 DEF Adds, Follows, Grown
<1> QED
  BY <1>3, <1>4 DEF Adds

LEMMA AppendLast ==
  ASSUME NEW q \in Seq(PacketOf), NEW p \in PacketOf
  PROVE  \A n \in 1 .. Len(Append(q, p)) : n > Len(q) => Append(q, p)[n] = p
<1> DEFINE r == Append(q, p)
<1>1. Len(r) = Len(q) + 1 /\ Len(q) \in Nat /\ r[Len(q) + 1] = p
  BY AppendIs
<1> HIDE DEF r
<1>2. \A n \in 1 .. Len(r) : n > Len(q) => n = Len(q) + 1
  BY <1>1
<1> QED
  BY <1>1, <1>2 DEF r

LEMMA AddOutAdds ==
  ASSUME NEW t \in State, NEW b \in BlockOf, NEW C
  PROVE  Adds(t, AddOut(t, b), C)
<1> DEFINE v == AddOut(t, b)
           p == Packet(t.seq, t.ts, Append(t.out, b), FALSE)
<1>1. v.asent = t.asent /\ (v.sent = t.sent \/ v.sent = Append(t.sent, p))
  BY AddOutFields
<1>2. /\ t.sent \in Seq(PacketOf) /\ t.asent \in Seq(PacketOf) /\ t.seq \in Nat /\ t.ts \in Nat
      /\ Append(t.out, b) \in Seq(BlockOf)
  BY DEF State
<1>3. p \in PacketOf /\ p.ts = t.ts /\ ~p.copy
  BY <1>2, PacketFields DEF Packet
<1> HIDE DEF v, p
<1>4. CASE v.sent = t.sent
  BY <1>1, <1>4, AddsNothing DEF v
<1>5. CASE v.sent = Append(t.sent, p)
  BY <1>1, <1>2, <1>3, <1>5, AppendLast DEF Adds, v
<1> QED
  BY <1>1, <1>4, <1>5

LEMMA AddAudioAdds ==
  ASSUME NEW t \in State, NEW b \in BlockOf, NEW C
  PROVE  Adds(t, AddAudio(t, b), C)
<1> DEFINE v == AddAudio(t, b)
           p == Packet(t.aseq, t.ats, Append(t.aud, b), FALSE)
<1>1. v.sent = t.sent /\ (v.asent = t.asent \/ v.asent = Append(t.asent, p))
  BY AddAudioFields
<1>2. /\ t.sent \in Seq(PacketOf) /\ t.asent \in Seq(PacketOf) /\ t.aseq \in Nat /\ t.ats \in Nat
      /\ Append(t.aud, b) \in Seq(BlockOf)
  BY DEF State
<1>3. p \in PacketOf /\ p.ts = t.ats
  BY <1>2, PacketFields DEF Packet
<1> HIDE DEF v, p
<1>4. CASE v.asent = t.asent
  BY <1>1, <1>4, AddsNothing DEF v
<1>5. CASE v.asent = Append(t.asent, p)
  BY <1>1, <1>2, <1>3, <1>5, AppendLast DEF Adds, v
<1> QED
  BY <1>1, <1>4, <1>5

LEMMA AddRedundantAdds ==
  ASSUME NEW t \in State, NEW b \in BlockOf, redundancy \in Nat
  PROVE  Adds(t, AddRedundant(t, b), {Append(t.red, b)})
<1> DEFINE v == AddRedundant(t, b)
           x == Append(t.red, b)
<1>1. v.asent = t.asent
  BY AddRedundantFields
<1>2. PICK c \in Seq(PacketOf) :
         /\ v.sent = t.sent \o c /\ v.seq = t.seq + Len(c)
         /\ \A i \in 1 .. Len(c) :
              /\ c[i].copy = TRUE /\ c[i].blocks = x
              /\ c[i].ts = t.ts /\ c[i].seq = t.seq + i - 1
  BY AddRedundantFields
<1>3. t.sent \in Seq(PacketOf) /\ t.asent \in Seq(PacketOf)
  BY DEF State
<1> HIDE DEF v, x
<1>4. ASSUME NEW n \in 1 .. Len(v.sent), n > Len(t.sent)
      PROVE  v.sent[n].ts = t.ts /\ v.sent[n].blocks = x
  <2>1. n - Len(t.sent) \in 1 .. Len(c) /\ v.sent[n] = c[n - Len(t.sent)]
    BY <1>2, <1>3, <1>4
  <2> QED
    BY <1>2, <2>1
<1>5. \A n \in 1 .. Len(v.asent) : ~(n > Len(t.asent))
  BY <1>1, <1>3
<1> QED
  BY <1>4, <1>5 DEF Adds, v, x

LEMMA FlushAdds ==
  ASSUME NEW t, Room(t), NEW C
  PROVE  Adds(t, Flush(t), C)
<1> DEFINE v == Flush(t)
           p == Packet(t.seq, t.ts, t.out, FALSE)
           a == Packet(t.aseq, t.ats, t.aud, FALSE)
<1>1. /\ v.sent = t.sent \/ v.sent = Append(t.sent, p)
      /\ v.asent = t.asent \/ v.asent = Append(t.asent, a)
  BY FlushFields
<1>2. t \in State
  BY DEF Room
<1>3. /\ t.sent \in Seq(PacketOf) /\ t.asent \in Seq(PacketOf) /\ t.seq \in Nat /\ t.ts \in Nat
      /\ t.aseq \in Nat /\ t.ats \in Nat /\ t.out \in Seq(BlockOf) /\ t.aud \in Seq(BlockOf)
  BY <1>2 DEF State
<1>4. p \in PacketOf /\ p.ts = t.ts /\ ~p.copy /\ a \in PacketOf /\ a.ts = t.ats
  BY <1>3, PacketFields DEF Packet
<1> HIDE DEF v, p, a
<1>5. \A n \in 1 .. Len(v.sent) : n > Len(t.sent) => v.sent[n] = p
  <2>1. \A n \in 1 .. Len(t.sent) : ~(n > Len(t.sent))
    BY <1>3
  <2> QED
    BY <1>1, <1>3, <1>4, <2>1, AppendLast
<1>6. \A n \in 1 .. Len(v.asent) : n > Len(t.asent) => v.asent[n] = a
  <2>1. \A n \in 1 .. Len(t.asent) : ~(n > Len(t.asent))
    BY <1>3
  <2> QED
    BY <1>1, <1>3, <1>4, <2>1, AppendLast
<1> QED
  BY <1>4, <1>5, <1>6 DEF Adds, v

LEMMA ProcDvdifAdds ==
  ASSUME NEW b \in BlockOf, NEW last \in BOOLEAN, Room(s), redundancy \in Nat, Ranks(s)
  PROVE  LET v == ProcDvdif(b, Frame[b.i], last)
         IN  IF b.i \in Sound /\ redundancy > 0
             THEN /\ Adds(s, v, {Append(s.red, b)})
                  /\ v.red = Append(s.red, b) \/ v.red = <<>>
             ELSE Adds(s, v, {}) /\ v.red = s.red
<1> DEFINE section == Frame[b.i]
           t == IF Keeps(section) THEN AddOut(s, b)
                ELSE IF Separates(section) THEN AddAudio(s, b) ELSE s
           u == IF section = "audio" /\ redundancy > 0 THEN AddRedundant(t, b) ELSE t
           v == ProcDvdif(b, section, last)
<1>1. v = IF last THEN Flush(u) ELSE u
  BY DEF ProcDvdif
<1>2. s \in State
  BY DEF Room
<1>3. section = "audio" <=> b.i \in Sound
  BY FrameAssumption DEF Sound, Places, BlockOf
<1>4. Separates(section) => section = "audio"
  BY DEF Separates
<1> HIDE DEF section
<1>5. ASSUME NEW C
      PROVE  /\ Room(t) /\ Ranks(t) /\ t.ts = s.ts /\ t.ats = s.ats /\ t.red = s.red
             /\ Adds(s, t, C)
  <2>1. CASE Keeps(section)
    <3>1. t = AddOut(s, b)
      BY <2>1
    <3> HIDE DEF t
    <3> QED
      BY <1>2, <3>1, AddOutWell, AddOutRanks, AddOutFields, AddOutAdds DEF Ordered
  <2>2. CASE ~Keeps(section) /\ Separates(section)
    <3>1. t = AddAudio(s, b) /\ b.i \in Sound
      BY <1>3, <1>4, <2>2
    <3> HIDE DEF t
    <3> QED
      BY <1>2, <3>1, AddAudioWell, AddAudioRanks, AddAudioFields, AddAudioAdds DEF Ordered
  <2>3. CASE ~Keeps(section) /\ ~Separates(section)
    <3>1. t = s
      BY <2>3
    <3> HIDE DEF t
    <3> QED
      BY <1>2, <3>1, AddsNothing
  <2> QED
    BY <2>1, <2>2, <2>3
<1> DEFINE C == IF b.i \in Sound /\ redundancy > 0 THEN {Append(s.red, b)} ELSE {}
           Red(r) == IF b.i \in Sound /\ redundancy > 0
                     THEN r = Append(s.red, b) \/ r = <<>> ELSE r = s.red
<1>6. /\ Room(t) /\ Ranks(t) /\ t.ts = s.ts /\ t.ats = s.ats /\ t.red = s.red
      /\ Adds(s, t, C) /\ t \in State
  BY <1>5 DEF Room
<1> HIDE DEF t
<1>7. Room(u) /\ Ranks(u) /\ u.ts = s.ts /\ u.ats = s.ats /\ Adds(s, u, C) /\ Red(u.red)
  <2>1. CASE b.i \in Sound /\ redundancy > 0
    <3> DEFINE w == AddRedundant(t, b)
    <3>1. u = w /\ C = {Append(t.red, b)}
      BY <1>3, <1>6, <2>1
    <3>2. Room(w) /\ Ordered(t, w) /\ Adds(t, w, {Append(t.red, b)})
      BY <1>6, <2>1, AddRedundantWell, AddRedundantRanks, AddRedundantAdds
    <3>3. w.ts = t.ts /\ w.ats = t.ats /\ (w.red = Append(t.red, b) \/ w.red = <<>>)
      BY <1>6, AddRedundantFields
    <3> HIDE DEF w, u, C
    <3>4. Adds(s, w, C)
      BY <1>2, <1>6, <3>1, <3>2, AddsTrans DEF Ordered, Room
    <3> QED
      BY <1>6, <2>1, <3>1, <3>2, <3>3, <3>4 DEF Ordered
  <2>2. CASE ~(b.i \in Sound /\ redundancy > 0)
    <3>1. u = t
      BY <1>3, <2>2
    <3> HIDE DEF u, C
    <3> QED
      BY <1>6, <2>2, <3>1
  <2> QED
    BY <2>1, <2>2
<1> HIDE DEF u, C
<1>8. Adds(s, Flush(u), C) /\ Flush(u).red = u.red
  <2>1. Room(Flush(u)) /\ Ordered(u, Flush(u)) /\ Adds(u, Flush(u), C)
    BY <1>7, FlushWell, FlushRanks, FlushAdds
  <2>2. Flush(u).red = u.red
    BY <1>7, FlushFields
  <2> QED
    BY <1>2, <1>7, <2>1, <2>2, AddsTrans DEF Ordered, Room
<1>9. Adds(s, v, C) /\ Red(v.red)
  <2> HIDE DEF v
  <2>1. CASE last
    <3>1. v = Flush(u)
      BY <1>1, <2>1
    <3> QED
      BY <1>7, <1>8, <3>1
  <2>2. CASE ~last
    <3>1. v = u
      BY <1>1, <2>2
    <3> QED
      BY <1>7, <3>1
  <2> QED
    BY <2>1, <2>2
<1>10. v = ProcDvdif(b, Frame[b.i], last)
  BY DEF section
<1> HIDE DEF v
<1> QED
  BY <1>9, <1>10 DEF C

(* What is on the wire are the packets not yet taken, of either stream. *)
LEMMA WiredIs ==
  ASSUME NEW t \in State, NEW w, NEW k, NEW j, Wired(w, t, k, j)
  PROVE  /\ \A x \in 1 .. Len(w) :
              \/ \E n \in 1 .. Len(t.sent) : n > k /\ w[x] = Msg("main", t.sent[n])
              \/ \E n \in 1 .. Len(t.asent) : n > j /\ w[x] = Msg("audio", t.asent[n])
         /\ \A n \in 1 .. Len(t.sent) : n > k =>
              \E x \in 1 .. Len(w) : w[x] = Msg("main", t.sent[n])
         /\ \A n \in 1 .. Len(t.asent) : n > j =>
              \E x \in 1 .. Len(w) : w[x] = Msg("audio", t.asent[n])
<1> DEFINE M == Len(t.sent)
           A == Len(t.asent)
           L == Len(w)
<1>1. /\ M \in Nat /\ A \in Nat /\ k \in 0 .. M /\ j \in 0 .. A /\ L = (M - k) + (A - j)
      /\ \A x \in 1 .. M - k : w[x] = Msg("main", t.sent[k + x])
      /\ \A x \in 1 .. A - j : w[M - k + x] = Msg("audio", t.asent[j + x])
  <2>1. t.sent \in Seq(PacketOf) /\ t.asent \in Seq(PacketOf)
    BY DEF State
  <2> QED
    BY <2>1 DEF Wired
<1> HIDE DEF M, A, L
<1>2. ASSUME NEW x \in 1 .. L
      PROVE  \/ \E n \in 1 .. M : n > k /\ w[x] = Msg("main", t.sent[n])
             \/ \E n \in 1 .. A : n > j /\ w[x] = Msg("audio", t.asent[n])
  <2>1. CASE x <= M - k
    <3>1. x \in 1 .. M - k /\ k + x \in 1 .. M /\ k + x > k
      BY <1>1, <2>1
    <3> QED
      BY <1>1, <3>1
  <2>2. CASE x > M - k
    <3> DEFINE y == x - (M - k)
    <3>1. y \in 1 .. A - j /\ j + y \in 1 .. A /\ j + y > j /\ M - k + y = x
      BY <1>1, <2>2
    <3> HIDE DEF y
    <3>2. w[x] = Msg("audio", t.asent[j + y])
      BY <1>1, <3>1
    <3> QED
      BY <3>1, <3>2
  <2> QED
    BY <1>1, <2>1, <2>2
<1>3. ASSUME NEW n \in 1 .. M, n > k PROVE \E x \in 1 .. L : w[x] = Msg("main", t.sent[n])
  <2> DEFINE x == n - k
  <2>1. x \in 1 .. M - k /\ x \in 1 .. L /\ k + x = n
    BY <1>1, <1>3
  <2> HIDE DEF x
  <2> QED
    BY <1>1, <2>1
<1>4. ASSUME NEW n \in 1 .. A, n > j PROVE \E x \in 1 .. L : w[x] = Msg("audio", t.asent[n])
  <2> DEFINE x == n - j
  <2>1. x \in 1 .. A - j /\ M - k + x \in 1 .. L /\ j + x = n
    BY <1>1, <1>4
  <2> HIDE DEF x
  <2> QED
    BY <1>1, <2>1
<1> QED
  BY <1>2, <1>3, <1>4 DEF M, A, L

(* A block that waited, or that is let through, is in the buffer or has gone. *)
LEMMA Forwarded ==
  ASSUME NEW q \in Seq(PacketOf), NEW r \in Seq(PacketOf), NEW o, NEW p,
         NEW all, NEW more, Turn(q, o, all), Turn(r, p, more), Grown(q, r),
         Range(all) \subseteq Range(more), NEW c, ~Before(c, c),
         c \in Range(o) \/ (c \in Range(more) /\ c \notin Range(all))
  PROVE  c \in Range(p) \/ \E n \in 1 .. Len(r) : n > Len(q) /\ c \in Range(r[n].blocks)
<1>1. c \in Range(more)
  BY DEF Turn
<1>2. c \notin Carry(q)
  BY DEF Turn, Precede
<1> SUFFICES ASSUME c \notin Range(p)
             PROVE  \E n \in 1 .. Len(r) : n > Len(q) /\ c \in Range(r[n].blocks)
  OBVIOUS
<1>3. c \in Carry(r)
  BY <1>1 DEF Turn
<1>4. PICK n \in Orig(r) : c \in Range(r[n].blocks)
  BY <1>3 DEF Carry
<1>5. n \in 1 .. Len(r) /\ ~r[n].copy
  BY DEF Orig
<1>6. ASSUME n <= Len(q) PROVE FALSE
  <2>1. n \in 1 .. Len(q) /\ q[n] = r[n]
    BY <1>5, <1>6 DEF Grown
  <2>2. n \in Orig(q)
    BY <1>5, <2>1 DEF Orig
  <2> QED
    BY <1>2, <1>4, <2>1, <2>2 DEF Carry
<1> QED
  BY <1>4, <1>5, <1>6

(* Undisturbed: dvsend takes the next block, or the rate changes. *)
LEMMA ClearSteps ==
  ASSUME RtpInv, NetInv, [StreamNext]_<<vars, network, reader>>, SoundClear'
  PROVE  /\ SoundClear /\ ~Lose /\ ~Hold /\ ~RecvLate
         /\ flags' = flags /\ redundancy' = redundancy
         /\ \A f : StampOf(f)' = StampOf(f)
         /\ Send => Block \/ UNCHANGED <<s, src, pos>>
<1>1. lost \in Nat /\ late \in Nat /\ (late = 0 => held = {})
  BY DEF NetInv
<1>2. missed' = {} /\ lost' = 0 /\ late' = 0
  BY DEF SoundClear, Undisturbed
<1>3. ~Lose /\ ~Hold
  BY <1>1, <1>2 DEF Lose, Hold
<1>4. UNCHANGED <<lost, late>>
  BY <1>3 DEF StreamNext, Send, RecvNext, RecvLate, Recv, ReadPicture, ReadSound, Done1,
              network
<1>5. ~Missing
  <2>1. ASSUME NEW m, missed' = missed \cup {m} PROVE FALSE
    BY <1>2, <2>1
  <2> QED
    BY <2>1 DEF Missing
<1>6. [Next]_vars
  BY SenderStep
<1>7. missed' = missed /\ flags' = flags /\ redundancy' = redundancy
  BY <1>5, <1>6 DEF Next, Block, Usr1, Usr2, Signal, vars, options
<1>8. SoundClear
  BY <1>2, <1>4, <1>7 DEF SoundClear, Undisturbed
<1>9. ~RecvLate
  BY <1>1, <1>2, <1>4 DEF RecvLate
<1>10. \A f : StampOf(f)' = StampOf(f)
  BY <1>7 DEF StampOf, Separates
<1>11. Send => Block \/ UNCHANGED <<s, src, pos>>
  BY <1>5 DEF Send, Next, Usr1, Usr2, Signal
<1> QED
  BY <1>3, <1>7, <1>8, <1>9, <1>10, <1>11

LEMMA NowType ==
  ASSUME RtpInv
  PROVE  /\ FrameNow \in Nat /\ PlaceNow \in 1 .. Len(Frame) /\ src \in Nat \ {0}
         /\ pos \in 1 .. Len(Frame) /\ Len(Frame) \in Nat
         /\ pos = 1 => FrameNow = src - 1
         /\ pos # 1 => FrameNow = src /\ PlaceNow = pos - 1
  BY FrameAssumption DEF RtpInv, FrameNow, PlaceNow

LEMMA NowMoves ==
  ASSUME RtpInv, Block
  PROVE  FrameNow' = src /\ PlaceNow' = pos
<1>1. Len(Frame) \in Nat \ {0} /\ src \in Nat \ {0} /\ pos \in 1 .. Len(Frame)
  BY FrameAssumption DEF RtpInv
<1>2. IF pos = Len(Frame) THEN pos' = 1 /\ src' = src + 1 ELSE pos' = pos + 1 /\ src' = src
  BY DEF Block, Advance
<1> QED
  BY <1>1, <1>2 DEF FrameNow, PlaceNow

(* At the end of a frame the buffers are empty. *)
LEMMA NoneWaits ==
  ASSUME RtpInv, TurnInv, AudioInv, SoundClear, pos = 1
  PROVE  s.out = <<>> /\ s.aud = <<>>
<1>1. ASSUME NEW o \in Seq(BlockOf), NEW all, Range(o) \subseteq Range(all), Behindhand(all),
             \A m \in 1 .. Len(o) : o[m].f = src
      PROVE  o = <<>>
  <2> SUFFICES ASSUME o # <<>> PROVE FALSE
    OBVIOUS
  <2> DEFINE c == o[1]
  <2>1. 1 \in 1 .. Len(o) /\ DOMAIN o = 1 .. Len(o)
    BY <1>1
  <2>2. c \in BlockOf /\ c \in Range(o) /\ c.f = src
    BY <1>1, <2>1 DEF Range
  <2>3. Before(c, [f |-> src, i |-> pos])
    BY <1>1, <2>2 DEF Behindhand
  <2>4. c.i \in Nat \ {0} /\ src \in Nat
    BY <2>2 DEF BlockOf, RtpInv
  <2> HIDE DEF c
  <2> QED
    BY <2>2, <2>3, <2>4 DEF Before
<1>2. s.out \in Seq(BlockOf) /\ s.aud \in Seq(BlockOf)
  BY DEF RtpInv, Room, State
<1>3. OfFrame(s, src)
  BY DEF RtpInv, SoundClear, Undisturbed, EndsSeen
<1>4. s.out = <<>>
  BY <1>1, <1>2, <1>3 DEF OfFrame, TurnInv, Turn
<1>5. Separates("audio") => OfAudio(s, src)
  <2>1. Separates("audio") => AudioSeen /\ Uneven
    <3>1. Separates("audio") => Cardinality(Sound) % PerPkt # 0
      BY DEF Separates, SoundClear
    <3>2. Sound = {i \in 1 .. Len(Frame) : Frame[i] = "audio"}
      BY FrameAssumption DEF Sound, Places
    <3>3. AudioSeen
      BY DEF AudioSeen, EndsSeen, SoundClear, Undisturbed
    <3> QED
      BY <3>1, <3>2, <3>3 DEF Uneven, AudioCount
  <2> QED
    BY <2>1 DEF AudioInv
<1>6. s.aud = <<>>
  BY <1>1, <1>2, <1>5 DEF AudioInv, OfAudio, TurnInv, Turn
<1> QED
  BY <1>4, <1>6

(* The ring of the sound, and what was handed over of it. *)
SoundOK == /\ aring \in [0 .. N - 1 -> SoundSlot] /\ acur \in 0 .. N - 1
           /\ sounds \in Seq(SoundSlot) /\ atsPrev \in Nat

LEMMA SoundType == StreamSpec => []SoundOK
<1>1. StreamInit => SoundOK
  <2> SUFFICES ASSUME StreamInit PROVE SoundOK
    OBVIOUS
  <2>1. /\ aring = [slot \in 0 .. N - 1 |-> Silence] /\ acur = 0 /\ atsPrev = 0
        /\ sounds = <<>>
    BY DEF StreamInit, Silence
  <2>2. Silence \in SoundSlot /\ 0 \in 0 .. N - 1
    BY SlotAssumption DEF Silence, SoundSlot
  <2> QED
    BY <2>1, <2>2 DEF SoundOK
<1>2. NetInv /\ SoundOK /\ [StreamNext]_<<vars, network, reader>> => SoundOK'
  <2> SUFFICES ASSUME NetInv, SoundOK, [StreamNext]_<<vars, network, reader>> PROVE SoundOK'
    OBVIOUS
  <2>1. ASSUME UNCHANGED audio PROVE SoundOK'
    BY <2>1 DEF SoundOK, audio
  <2>2. ASSUME ReadSound PROVE SoundOK'
    <3> DEFINE b == Block1.i
               f == Block1.f
    <3>1. /\ hand.blocks # <<>> /\ b \in Sound
          /\ acur' = IF NewSound THEN (acur + 1) % N ELSE acur
          /\ atsPrev' = IF NewSound THEN hand.ts ELSE atsPrev
          /\ sounds' = IF NewSound THEN Append(sounds, aring[acur]) ELSE sounds
          /\ aring' = [aring EXCEPT ![acur'][b] = f]
      BY <2>2 DEF ReadSound, Done1
    <3>2. hand \in Messages /\ hand.ts \in Nat
      BY DEF NetInv, Messages
    <3>3. Block1 \in BlockOf
      BY <3>1, <3>2, BlockRead DEF Block1
    <3>4. f \in Nat
      BY <3>3, OptionAssumption DEF BlockOf
    <3>5. acur' \in 0 .. N - 1
      BY <3>1, AheadIs DEF SoundOK
    <3>6. aring \in [0 .. N - 1 -> SoundSlot] /\ acur \in 0 .. N - 1 /\ sounds \in Seq(SoundSlot)
      BY DEF SoundOK
    <3> HIDE DEF b, f
    <3>7. aring' \in [0 .. N - 1 -> SoundSlot]
      <4> DEFINE x == aring[acur']
                 y == [x EXCEPT ![b] = f]
      <4>1. x \in SoundSlot
        BY <3>5, <3>6
      <4>2. y \in SoundSlot
        BY <3>4, <4>1 DEF SoundSlot
      <4>3. aring' = [aring EXCEPT ![acur'] = y]
        BY <3>1
      <4> HIDE DEF x, y
      <4> QED
        BY <3>6, <4>2, <4>3
    <3> DEFINE z == aring[acur]
               P == SoundSlot
    <3>8. z \in P /\ sounds \in Seq(P)
      BY <3>6
    <3> HIDE DEF z, P
    <3>9. Append(sounds, z) \in Seq(P)
      BY <3>8
    <3>10. sounds' \in Seq(SoundSlot)
      BY <3>1, <3>6, <3>9 DEF z, P
    <3>11. atsPrev' \in Nat
      BY <3>1, <3>2 DEF SoundOK
    <3> QED
      BY <3>5, <3>7, <3>10, <3>11 DEF SoundOK
  <2> QED
    BY <2>1, <2>2 DEF StreamNext, Send, Lose, Hold, RecvNext, RecvLate, Recv, ReadPicture,
                      reader
<1> QED
  BY <1>1, <1>2, NetHolds, PTL DEF StreamSpec

(* At the end of a frame, with nothing on the way, all of it has been heard. *)
LEMMA AllHeard ==
  ASSUME RtpInv, TurnInv, AudioInv, SoundOK, SoundClear, Heeded, Sound # {}, pos = 1, Quiet
  PROVE  /\ Len(sounds) = src - 1
         /\ Len(sounds) > 0 => \A i \in Sound : aring[acur][i] = Len(sounds)
<1>1. s.out = <<>> /\ s.aud = <<>> /\ hand.blocks = <<>> /\ wire = <<>>
  BY NoneWaits DEF Quiet
<1>2. ASSUME NEW c PROVE ~Due(c)
  <2> DEFINE w == wire
  <2>1. Len(w) = 0
    BY <1>1
  <2> HIDE DEF w
  <2>2. \A n \in 1 .. Len(w) : FALSE
    BY <2>1
  <2> QED
    BY <1>1, <2>2, RangeEmpty DEF Due, w
<1>3. /\ FrameNow = src - 1 /\ FrameNow \in Nat /\ PlaceNow = Len(Frame)
      /\ Sound \subseteq 1 .. Len(Frame) /\ Len(Frame) \in Nat
  BY NowType, FrameAssumption DEF PlaceNow, Sound, Places
<1>4. ASSUME FrameNow >= 1, NEW i \in Sound
      PROVE  Len(sounds) = FrameNow /\ aring[acur][i] = FrameNow
  <2>1. i <= PlaceNow
    BY <1>3
  <2>2. \/ Due([f |-> FrameNow, i |-> i])
        \/ Len(sounds) = FrameNow /\ aring[acur][i] = FrameNow
    BY <1>4, <2>1 DEF Heeded
  <2> QED
    BY <1>2, <2>2
<1>5. Len(sounds) \in Nat /\ (Len(sounds) = FrameNow \/ Len(sounds) + 1 = FrameNow)
  BY DEF Heeded, SoundOK
<1>6. Len(sounds) = FrameNow
  <2> DEFINE L == Len(sounds)
             F == FrameNow
  <2>1. L \in Nat /\ (L = F \/ L + 1 = F)
    BY <1>5
  <2>2. PICK i \in Sound : TRUE
    OBVIOUS
  <2>3. F >= 1 => L = F
    BY <1>4, <2>2
  <2> HIDE DEF L, F
  <2>4. L = F
    BY <2>1, <2>3
  <2> QED
    BY <2>4 DEF L, F
<1>7. ASSUME Len(sounds) > 0, NEW i \in Sound PROVE aring[acur][i] = Len(sounds)
  <2>1. FrameNow >= 1
    BY <1>3, <1>6, <1>7
  <2> QED
    BY <1>4, <1>6, <2>1
<1> QED
  BY <1>3, <1>6, <1>7

(* The bus moves on by a block. *)
LEMMA GaplessOn ==
  ASSUME NEW q \in Seq(BlockOf), NEW here \in BlockOf, NEW there, Gapless(q, here),
         Before(here, there),
         \A c \in BlockOf : Before(c, here) => Before(c, there),
         \A c \in BlockOf : Before(c, there) => Before(c, here) \/ c = here
  PROVE  /\ here.i \notin Sound => Gapless(q, there)
         /\ Gapless(Append(q, here), there)
<1> DEFINE L == Len(q)
           r == Append(q, here)
<1>1. /\ L \in Nat /\ Len(r) = L + 1 /\ r[L + 1] = here
      /\ \A m \in 1 .. L : r[m] = q[m] /\ q[m] \in BlockOf
  OBVIOUS
<1>2. ASSUME NEW c \in BlockOf, Before(here, c), Before(c, here) PROVE FALSE
  BY <1>2, OptionAssumption DEF Before, BlockOf
<1>3. ASSUME here.i \notin Sound PROVE Gapless(q, there)
  BY <1>1, <1>3 DEF Gapless
<1>4. Gapless(r, there)
  <2> SUFFICES ASSUME NEW m \in 1 .. Len(r)
               PROVE  /\ Before(r[m], there)
                      /\ \A c \in BlockOf :
                           c.i \in Sound /\ Before(r[m], c) /\ Before(c, there) =>
                             \E n \in 1 .. Len(r) : m < n /\ r[n] = c
    BY DEF Gapless
  <2>1. \A n \in 1 .. Len(r) : n \in 1 .. L \/ n = L + 1
    BY <1>1
  <2>2. \A n \in 1 .. L : n \in 1 .. Len(r) /\ n < L + 1
    BY <1>1
  <2>3. L + 1 \in 1 .. Len(r)
    BY <1>1
  <2> HIDE DEF L, r
  <2>4. CASE m = L + 1
    <3>1. r[m] = here
      BY <1>1, <2>4
    <3>2. ASSUME NEW c \in BlockOf, Before(here, c), Before(c, there) PROVE FALSE
      <4>1. c # here
        BY <1>2, <3>2
      <4> QED
        BY <1>2, <3>2, <4>1
    <3> QED
      BY <3>1, <3>2
  <2>5. CASE m \in 1 .. L
    <3>1. r[m] = q[m] /\ q[m] \in BlockOf /\ m < L + 1
      BY <1>1, <2>2, <2>5
    <3>2. Before(q[m], here)
      BY <2>5 DEF Gapless, L
    <3>3. Before(r[m], there)
      BY <3>1, <3>2
    <3>4. ASSUME NEW c \in BlockOf, c.i \in Sound, Before(q[m], c), Before(c, there)
          PROVE  \E n \in 1 .. Len(r) : m < n /\ r[n] = c
      <4>1. CASE c = here
        BY <1>1, <2>3, <3>1, <4>1
      <4>2. CASE Before(c, here)
        <5>1. PICK n \in 1 .. L : m < n /\ q[n] = c
          BY <2>5, <3>4, <4>2 DEF Gapless, L
        <5> QED
          BY <1>1, <2>2, <5>1
      <4> QED
        BY <3>4, <4>1, <4>2
    <3> QED
      BY <3>1, <3>3, <3>4
  <2> QED
    BY <2>1, <2>4, <2>5
<1> QED
  BY <1>3, <1>4 DEF r

LEMMA BusMoves ==
  ASSUME RtpInv, Block
  PROVE  /\ Here \in BlockOf /\ Before(Here, Here')
         /\ \A c \in BlockOf : Before(c, Here) => Before(c, Here')
         /\ \A c \in BlockOf : Before(c, Here') => Before(c, Here) \/ c = Here
         /\ \A c \in BlockOf : c.f < src \/ (c.f = src /\ c.i <= pos) => Before(c, Here')
         /\ \A c \in BlockOf : Before(c, Here') => c.f <= src /\ (c.f = src => c.i <= pos)
<1>1. /\ Len(Frame) \in Nat \ {0} /\ src \in Nat \ {0} /\ pos \in 1 .. Len(Frame)
      /\ MaxFrame \in Nat
  BY FrameAssumption, OptionAssumption DEF RtpInv
<1>2. /\ IF pos = Len(Frame) THEN pos' = 1 /\ src' = src + 1 ELSE pos' = pos + 1 /\ src' = src
      /\ src <= MaxFrame
  BY DEF Block, Advance
<1>3. Here \in BlockOf /\ Here.f = src /\ Here.i = pos /\ Here'.f = src' /\ Here'.i = pos'
  BY <1>1, <1>2 DEF Here, BlockOf
<1>4. ASSUME NEW c \in BlockOf
      PROVE  c.f \in Nat /\ c.i \in 1 .. Len(Frame) /\ (c = Here <=> c.f = src /\ c.i = pos)
  BY <1>1 DEF BlockOf, Here
<1>5. Before(Here, Here')
  BY <1>1, <1>2, <1>3 DEF Before
<1>6. ASSUME NEW c \in BlockOf
      PROVE  Before(c, Here') <=> c.f < src \/ (c.f = src /\ c.i <= pos)
  BY <1>1, <1>2, <1>3, <1>4 DEF Before
<1>7. ASSUME NEW c \in BlockOf
      PROVE  Before(c, Here) <=> c.f < src \/ (c.f = src /\ c.i < pos)
  BY <1>1, <1>3, <1>4 DEF Before
<1> QED
  BY <1>1, <1>3, <1>4, <1>5, <1>6, <1>7

(* The copies that go out at a step of the bus. *)
LEMMA CopiesSane ==
  ASSUME RtpInv, Block, NEW x \in Seq(BlockOf), Gapless(x, Here'), NEW p, p.blocks = x,
         p.ts = StampOf(src)
  PROVE  Sane(p, src, pos, StampOf(src))
<1> SUFFICES ASSUME NEW m \in 1 .. Len(x), x[m].i \in Sound
             PROVE  \/ x[m].f = src \/ x[m].i > pos
                    \/ \E n \in 1 .. Len(x) : m < n /\ x[n] = [f |-> src, i |-> x[m].i]
  BY DEF Sane, RtpInv
<1>1. x[m] \in BlockOf /\ Before(x[m], Here')
  BY DEF Gapless
<1>2. Here \in BlockOf /\ src \in 1 .. MaxFrame /\ src \in Nat /\ pos \in Nat
  BY BusMoves DEF Here, BlockOf, RtpInv
<1> SUFFICES ASSUME x[m].f # src, ~(x[m].i > pos)
             PROVE  \E n \in 1 .. Len(x) : m < n /\ x[n] = [f |-> src, i |-> x[m].i]
  OBVIOUS
<1> DEFINE c == [f |-> src, i |-> x[m].i]
<1>3. c \in BlockOf /\ c.i \in Sound /\ c.f = src /\ c.i = x[m].i
  BY <1>1, <1>2 DEF BlockOf
<1>4. x[m].i \in Nat /\ x[m].f \in Nat
  BY <1>1 DEF BlockOf
<1>5. x[m].f < src /\ c.i <= pos
  <2>1. x[m].f <= src
    BY <1>1, BusMoves
  <2> QED
    BY <1>2, <1>3, <1>4, <2>1
<1>6. Before(x[m], c)
  BY <1>3, <1>5 DEF Before
<1>7. Before(c, Here')
  BY <1>3, <1>5, BusMoves
<1> HIDE DEF c
<1>8. \E n \in 1 .. Len(x) : m < n /\ x[n] = c
  BY <1>3, <1>6, <1>7 DEF Gapless
<1> QED
  BY <1>8 DEF c

(* Undisturbed, sound apart goes out under the timestamps of its frames. *)
LEMMA SeparateSound ==
  ASSUME SoundClear, Separates("audio")
  PROVE  AudioSeen /\ Uneven /\ redundancy = 0
<1>1. Cardinality(Sound) % PerPkt # 0 /\ redundancy = 0
  BY DEF Separates, SoundClear
<1>2. Sound = {i \in 1 .. Len(Frame) : Frame[i] = "audio"}
  BY FrameAssumption DEF Sound, Places
<1>3. AudioSeen
  BY DEF AudioSeen, EndsSeen, SoundClear, Undisturbed
<1> QED
  BY <1>1, <1>2, <1>3 DEF Uneven, AudioCount

(* The next block of the bus, as ProcDvdif deals with it. *)
LEMMA BlockAdds ==
  ASSUME RtpInv, Ranks(s), Block
  PROVE  IF pos \in Sound /\ redundancy > 0
         THEN /\ Adds(s, s', {Append(s.red, Here)})
              /\ s'.red = Append(s.red, Here) \/ s'.red = <<>>
         ELSE Adds(s, s', {}) /\ s'.red = s.red
<1> DEFINE last == pos = Len(Frame)
<1>1. s' = ProcDvdif(Here, Frame[Here.i], last) /\ Here.i = pos /\ last \in BOOLEAN
  BY DEF Block, Here
<1>2. Here \in BlockOf /\ Room(s) /\ redundancy \in Nat
  BY BusMoves DEF RtpInv
<1> HIDE DEF last
<1> DEFINE v == ProcDvdif(Here, Frame[Here.i], last)
<1>3. IF Here.i \in Sound /\ redundancy > 0
      THEN /\ Adds(s, v, {Append(s.red, Here)})
           /\ v.red = Append(s.red, Here) \/ v.red = <<>>
      ELSE Adds(s, v, {}) /\ v.red = s.red
  BY <1>1, <1>2, ProcDvdifAdds
<1> HIDE DEF v
<1>4. s' = v
  BY <1>1 DEF v
<1> QED
  BY <1>1, <1>3, <1>4

(* What dvsend has gathered of the copies goes on without a gap. *)
LEMMA CopiesGathered ==
  ASSUME RtpInv, Ranks(s), Block, Gapless(s.red, Here), redundancy = 0 => s.red = <<>>
  PROVE  /\ Gapless(s'.red, Here') /\ (redundancy = 0 => s'.red = <<>>)
         /\ Append(s.red, Here) \in Seq(BlockOf) /\ Gapless(Append(s.red, Here), Here')
<1> DEFINE q == s.red
           x == Append(q, Here)
<1>1. q \in Seq(BlockOf) /\ Here \in BlockOf /\ Here.i = pos /\ redundancy \in Nat
  BY BusMoves DEF RtpInv, Room, State, Here
<1> DEFINE here == Here
           there == Here'
<1>2. /\ Before(here, there)
      /\ \A c \in BlockOf : Before(c, here) => Before(c, there)
      /\ \A c \in BlockOf : Before(c, there) => Before(c, here) \/ c = here
      /\ here \in BlockOf /\ Gapless(q, here) /\ here.i = pos
  BY <1>1, BusMoves
<1> HIDE DEF here, there, q
<1>3. (here.i \notin Sound => Gapless(q, there)) /\ Gapless(Append(q, here), there)
  BY <1>1, <1>2, GaplessOn
<1>4. (pos \notin Sound => Gapless(q, Here')) /\ Gapless(x, Here') /\ x \in Seq(BlockOf)
  BY <1>1, <1>2, <1>3 DEF here, there
<1>5. Gapless(<<>>, Here')
  <2> DEFINE z == <<>>
  <2>1. Len(z) = 0
    OBVIOUS
  <2> HIDE DEF z
  <2>2. \A n \in 1 .. Len(z) : FALSE
    BY <2>1
  <2>3. Gapless(z, Here')
    BY <2>2 DEF Gapless
  <2> QED
    BY <2>3 DEF z
<1>6. CASE pos \in Sound /\ redundancy > 0
  <2>1. s'.red = x \/ s'.red = <<>>
    BY <1>6, BlockAdds DEF q
  <2>2. redundancy # 0
    BY <1>1, <1>6
  <2>3. Gapless(s'.red, Here')
    BY <1>4, <1>5, <2>1
  <2> QED
    BY <1>4, <2>2, <2>3 DEF q
<1>7. CASE ~(pos \in Sound /\ redundancy > 0)
  <2>1. s'.red = q
    BY <1>7, BlockAdds DEF q
  <2>2. CASE redundancy = 0
    BY <1>4, <1>5, <2>1, <2>2 DEF q
  <2>3. CASE redundancy # 0
    <3>1. pos \notin Sound
      BY <1>1, <1>7, <2>3
    <3> QED
      BY <1>4, <2>1, <2>3, <3>1 DEF q
  <2> QED
    BY <2>2, <2>3
<1> QED
  BY <1>6, <1>7

(* Of what frame the sound in a packet is that a step of dvsend adds. *)
LEMMA MainSane ==
  ASSUME RtpInv, RtpInv', TurnInv', Ranks(s), Plain', SoundClear, SoundClear', Block,
         Gapless(s.red, Here), redundancy = 0 => s.red = <<>>,
         NEW n \in 1 .. Len(s'.sent), n > Len(s.sent)
  PROVE  Sane(Msg("main", s'.sent[n]), src, pos, StampOf(src))
<1> DEFINE p == s'.sent[n]
           g == Msg("main", p)
<1>1. s'.sent \in Seq(PacketOf) /\ Turn(s'.sent, s'.out, kept')
  BY DEF RtpInv, Room, State, TurnInv
<1>2. p \in PacketOf /\ p.blocks \in Seq(BlockOf) /\ p.copy \in BOOLEAN
  <2>1. p \in PacketOf
    BY <1>1
  <2> QED
    BY <2>1 DEF PacketOf
<1>3. s.ts = src /\ src \in Nat \ {0} /\ OwnTs(s'.sent, 1)
  BY DEF RtpInv, OfFrame, EndsSeen, SoundClear, Undisturbed
<1>4. g.blocks = p.blocks /\ g.ts = p.ts
  BY DEF Msg
<1>5. p.ts = s.ts
  BY BlockAdds DEF Adds
<1>6. ASSUME ~Separates("audio") PROVE StampOf(src) = src
  BY <1>3, <1>6 DEF StampOf
<1>7. CASE p.copy
  <2>1. pos \in Sound /\ redundancy > 0 /\ p.blocks = Append(s.red, Here)
    <3>1. CASE pos \in Sound /\ redundancy > 0
      <4>1. Adds(s, s', {Append(s.red, Here)})
        BY <3>1, BlockAdds
      <4> QED
        BY <1>7, <3>1, <4>1 DEF Adds
    <3>2. CASE ~(pos \in Sound /\ redundancy > 0)
      <4>1. Adds(s, s', {})
        BY <3>2, BlockAdds
      <4> QED
        BY <1>7, <4>1 DEF Adds
    <3> QED
      BY <3>1, <3>2
  <2>2. ~Separates("audio")
    <3>1. redundancy # 0
      BY <2>1 DEF RtpInv
    <3> QED
      BY <3>1, SeparateSound
  <2>3. Gapless(Append(s.red, Here), Here') /\ Append(s.red, Here) \in Seq(BlockOf)
    BY CopiesGathered
  <2>4. g.ts = StampOf(src) /\ g.blocks = Append(s.red, Here)
    BY <1>3, <1>4, <1>5, <1>6, <2>1, <2>2
  <2> DEFINE x == Append(s.red, Here)
  <2>5. g.blocks = x /\ x \in Seq(BlockOf) /\ Gapless(x, Here')
    BY <2>3, <2>4
  <2> HIDE DEF g, x
  <2>6. Sane(g, src, pos, StampOf(src))
    BY <2>4, <2>5, CopiesSane
  <2> QED
    BY <2>6 DEF g
<1>8. CASE ~p.copy
  <2>1. ASSUME NEW m \in 1 .. Len(p.blocks), p.blocks[m].i \in Sound
        PROVE  p.blocks[m].f = src /\ ~Separates("audio")
    <3>1. DOMAIN p.blocks = 1 .. Len(p.blocks) /\ n \in DOMAIN s'.sent
      BY <1>1, <1>2
    <3>2. p.blocks[m] \in BlockOf /\ p.blocks[m] \in Range(p.blocks)
      BY <1>2, <3>1 DEF Range
    <3>3. p.blocks[m].f - 1 = p.ts - 1
      BY <1>3, <1>8, <2>1, <3>1 DEF OwnTs
    <3>4. p.blocks[m].f = src
      <4>1. p.blocks[m].f \in Nat
        BY <3>2, OptionAssumption DEF BlockOf
      <4> QED
        BY <1>3, <1>5, <3>3, <4>1
    <3>5. p.blocks[m] \in Range(kept')
      <4>1. n \in Orig(s'.sent)
        BY <1>8 DEF Orig
      <4>2. p.blocks[m] \in Carry(s'.sent)
        BY <3>2, <4>1 DEF Carry
      <4> QED
        BY <1>1, <4>2 DEF Turn
    <3>6. "SEPARATED_AUDIO_STREAM" \notin flags'
      BY <2>1, <3>5 DEF Plain
    <3>7. flags' = flags
      BY DEF Block, options
    <3> QED
      BY <3>4, <3>6, <3>7 DEF Separates
  <2> HIDE DEF p
  <2>2. ASSUME NEW m \in 1 .. Len(p.blocks), p.blocks[m].i \in Sound
        PROVE  src >= 1 /\ p.ts = StampOf(src) /\ p.blocks[m].f = src
    BY <1>3, <1>5, <1>6, <2>1, <2>2
  <2> QED
    BY <1>4, <2>2 DEF Sane, p
<1> QED
  BY <1>2, <1>7, <1>8

LEMMA AudioSane ==
  ASSUME RtpInv, RtpInv', AudioInv, AudioInv', Ranks(s), Plain', SoundClear, SoundClear',
         Block, NEW n \in 1 .. Len(s'.asent), n > Len(s.asent)
  PROVE  Sane(Msg("audio", s'.asent[n]), src, pos, StampOf(src))
<1> DEFINE p == s'.asent[n]
<1>1. s'.asent \in Seq(PacketOf) /\ src \in Nat \ {0}
  BY DEF RtpInv, Room, State
<1>2. p \in PacketOf /\ p.blocks \in Seq(BlockOf)
  <2>1. p \in PacketOf
    BY <1>1
  <2> QED
    BY <2>1 DEF PacketOf
<1>3. flags' = flags /\ redundancy' = redundancy
  BY DEF Block, options
<1>4. Separates("audio") /\ Separates("audio")'
  <2> DEFINE q == s'.asent
  <2>1. Len(q) # 0
    BY <1>1
  <2>2. q # <<>>
    BY <2>1
  <2>3. Separates("audio")'
    BY <2>2 DEF AudioInv
  <2> QED
    BY <1>3, <2>3 DEF Separates
<1>5. AudioSeen /\ Uneven /\ redundancy = 0
  BY <1>4, SeparateSound
<1>6. s.ats - Apart = src - 1
  BY <1>4, <1>5 DEF AudioInv, OfAudio
<1>7. AudioSeen' /\ Uneven'
  <2>1. AudioSeen'
    BY DEF AudioSeen, EndsSeen, SoundClear, Undisturbed
  <2> QED
    BY <1>5, <2>1 DEF Uneven, AudioCount
<1>8. OwnTs(s'.asent, Apart)
  BY <1>4, <1>7 DEF AudioInv, OfAudio, Apart
<1>9. p.ts = s.ats
  BY BlockAdds DEF Adds
<1>10. ~p.copy
  BY <1>3, <1>5 DEF Plain, Originals
<1>11. Apart \in Nat /\ s.ats \in Nat
  BY ApartType DEF RtpInv, Room, State
<1>12. p.ts = StampOf(src)
  BY <1>1, <1>4, <1>6, <1>9, <1>11 DEF StampOf
<1>13. ASSUME NEW m \in 1 .. Len(p.blocks) PROVE p.blocks[m].f = src
  <2>1. DOMAIN p.blocks = 1 .. Len(p.blocks) /\ n \in DOMAIN s'.asent
    BY <1>1, <1>2
  <2>2. p.blocks[m] \in BlockOf
    BY <1>2
  <2>3. p.blocks[m].f - 1 = p.ts - Apart
    BY <1>8, <1>10, <2>1 DEF OwnTs
  <2>4. p.blocks[m].f \in Nat
    BY <2>2, OptionAssumption DEF BlockOf
  <2> QED
    BY <1>1, <1>6, <1>9, <1>11, <2>3, <2>4
<1> HIDE DEF p
<1>14. Msg("audio", p).blocks = p.blocks /\ Msg("audio", p).ts = p.ts
  BY DEF Msg
<1> QED
  BY <1>1, <1>12, <1>13, <1>14 DEF Sane, p

(* No block of sound gets lost in dvsend. *)
LEMMA SoundSends ==
  ASSUME RtpInv, RtpInv', TurnInv, TurnInv', Ranks(s), NetInv, SoundClear, Block, Send,
         NEW c, \/ c \in Range(s.out) \/ c \in Range(s.aud) \/ (c = Here /\ pos \in Sound)
  PROVE  Due(c)'
<1> DEFINE q == s.sent
           r == s'.sent
           x == s.asent
           y == s'.asent
<1>1. PICK k, j : Wired(wire, s, k, j)
  BY DEF NetInv
<1>2. /\ wire = <<>> /\ wire' = New("main", s.sent, s'.sent) \o New("audio", s.asent, s'.asent)
      /\ Next
  BY DEF Send, Quiet
<1>3. Follows(s, s')
  BY <1>2, SenderGrows DEF Ordered
<1>4. /\ s \in State /\ s' \in State /\ q \in Seq(PacketOf) /\ r \in Seq(PacketOf)
      /\ x \in Seq(PacketOf) /\ y \in Seq(PacketOf)
  BY DEF RtpInv, Room, State
<1>5. Wired(wire', s', k, j) /\ k = Len(q) /\ j = Len(x)
  BY <1>1, <1>2, <1>3, <1>4, WireSends
<1>6. /\ Turn(q, s.out, kept) /\ Turn(r, s'.out, kept') /\ Grown(q, r)
      /\ Turn(x, s.aud, akept) /\ Turn(y, s'.aud, akept') /\ Grown(x, y)
      /\ \A b \in Range(kept) : Before(b, Here)
      /\ \A b \in Range(akept) : Before(b, Here)
      /\ kept \in Seq(BlockOf) /\ akept \in Seq(BlockOf) /\ Here \in BlockOf
  BY <1>3, BusMoves DEF TurnInv, Behindhand, Here, Follows
<1>7. ASSUME NEW b \in BlockOf PROVE ~Before(b, b)
  BY OptionAssumption DEF Before, BlockOf
<1>8. /\ kept' = IF Keeps(Frame[pos]) THEN Append(kept, Here) ELSE kept
      /\ akept' = IF Separates(Frame[pos]) THEN Append(akept, Here) ELSE akept
  BY DEF Block, Here
<1>9. /\ Range(kept') = IF Keeps(Frame[pos]) THEN Range(kept) \cup {Here} ELSE Range(kept)
      /\ Range(akept') = IF Separates(Frame[pos]) THEN Range(akept) \cup {Here} ELSE Range(akept)
  <2>1. /\ Range(Append(kept, Here)) = Range(kept) \cup {Here}
        /\ Range(Append(akept, Here)) = Range(akept) \cup {Here}
    BY <1>6, RangeAppend
  <2> QED
    BY <1>8, <2>1
<1>10. /\ \A b \in Range(kept) : b \in BlockOf /\ b # Here
       /\ \A b \in Range(akept) : b \in BlockOf /\ b # Here
  <2>1. Range(kept) \subseteq BlockOf /\ Range(akept) \subseteq BlockOf
    BY <1>6 DEF Range
  <2> QED
    BY <1>6, <1>7, <2>1
<1>11. \/ c \in Range(s.out) \/ (c \in Range(kept') /\ c \notin Range(kept))
       \/ c \in Range(s.aud) \/ (c \in Range(akept') /\ c \notin Range(akept))
  <2> SUFFICES ASSUME c = Here, pos \in Sound
               PROVE  \/ (c \in Range(kept') /\ c \notin Range(kept))
                      \/ (c \in Range(akept') /\ c \notin Range(akept))
    OBVIOUS
  <2>1. Frame[pos] = "audio"
    BY DEF Sound, Places
  <2>2. Keeps(Frame[pos]) \/ Separates(Frame[pos])
    BY <2>1 DEF Keeps, Separates, SoundClear
  <2> QED
    BY <1>9, <1>10, <2>2
<1>12. c \in BlockOf /\ ~Before(c, c)
  <2>1. Range(s.out) \subseteq Range(kept) /\ Range(s.aud) \subseteq Range(akept)
    BY <1>6 DEF Turn
  <2> QED
    BY <1>6, <1>7, <1>10, <2>1
<1>13. Range(kept) \subseteq Range(kept') /\ Range(akept) \subseteq Range(akept')
  BY <1>9
<1>14. CASE c \in Range(s.out) \/ (c \in Range(kept') /\ c \notin Range(kept))
  <2>1. c \in Range(s'.out) \/ \E n \in 1 .. Len(r) : n > Len(q) /\ c \in Range(r[n].blocks)
    <3> DEFINE o == s.out
               p == s'.out
               all == kept
               more == kept'
    <3>1. /\ q \in Seq(PacketOf) /\ r \in Seq(PacketOf) /\ Turn(q, o, all) /\ Turn(r, p, more)
          /\ Grown(q, r) /\ Range(all) \subseteq Range(more) /\ ~Before(c, c)
          /\ c \in Range(o) \/ (c \in Range(more) /\ c \notin Range(all))
      BY <1>4, <1>6, <1>12, <1>13, <1>14
    <3> HIDE DEF q, r, x, y, o, p, all, more
    <3>2. c \in Range(p) \/ \E n \in 1 .. Len(r) : n > Len(q) /\ c \in Range(r[n].blocks)
      BY ONLY <3>1, Forwarded
    <3> QED
      BY <3>2 DEF p, q, r, x, y
  <2>2. ASSUME NEW n \in 1 .. Len(r), n > Len(q), c \in Range(r[n].blocks)
        PROVE  \E z \in 1 .. Len(wire') : c \in Range(wire'[z].blocks)
    <3>1. PICK z \in 1 .. Len(wire') : wire'[z] = Msg("main", r[n])
      BY <1>4, <1>5, <2>2, WiredIs
    <3> QED
      BY <2>2, <3>1 DEF Msg
  <2> QED
    BY <2>1, <2>2 DEF Due
<1>15. CASE c \in Range(s.aud) \/ (c \in Range(akept') /\ c \notin Range(akept))
  <2>1. c \in Range(s'.aud) \/ \E n \in 1 .. Len(y) : n > Len(x) /\ c \in Range(y[n].blocks)
    <3> DEFINE o == s.aud
               p == s'.aud
               all == akept
               more == akept'
    <3>1. /\ x \in Seq(PacketOf) /\ y \in Seq(PacketOf) /\ Turn(x, o, all) /\ Turn(y, p, more)
          /\ Grown(x, y) /\ Range(all) \subseteq Range(more) /\ ~Before(c, c)
          /\ c \in Range(o) \/ (c \in Range(more) /\ c \notin Range(all))
      BY <1>4, <1>6, <1>12, <1>13, <1>15
    <3> HIDE DEF q, r, x, y, o, p, all, more
    <3>2. c \in Range(p) \/ \E n \in 1 .. Len(y) : n > Len(x) /\ c \in Range(y[n].blocks)
      BY ONLY <3>1, Forwarded
    <3> QED
      BY <3>2 DEF p, q, r, x, y
  <2>2. ASSUME NEW n \in 1 .. Len(y), n > Len(x), c \in Range(y[n].blocks)
        PROVE  \E z \in 1 .. Len(wire') : c \in Range(wire'[z].blocks)
    <3>1. PICK z \in 1 .. Len(wire') : wire'[z] = Msg("audio", y[n])
      BY <1>4, <1>5, <2>2, WiredIs
    <3> QED
      BY <2>2, <3>1 DEF Msg
  <2> QED
    BY <2>1, <2>2 DEF Due
<1> QED
  BY <1>11, <1>14, <1>15

(* dvsend takes the next block of the bus. *)
LEMMA HeedBlock ==
  ASSUME RtpInv, RtpInv', TurnInv, TurnInv', AudioInv, AudioInv', Ranks(s), NetInv, Plain',
         SoundOK, SoundClear, SoundClear', Heeded, Sound # {}, Block, Send
  PROVE  Heeded'
<1>1. /\ Quiet /\ hand' = hand /\ wire = <<>> /\ hand.blocks = <<>>
      /\ aring' = aring /\ acur' = acur /\ atsPrev' = atsPrev /\ sounds' = sounds
      /\ wire' = New("main", s.sent, s'.sent) \o New("audio", s.asent, s'.asent) /\ Next
  BY DEF Send, Quiet, reader, audio
<1>2. flags' = flags /\ redundancy' = redundancy
  BY DEF Block, options
<1>3. FrameNow' = src /\ PlaceNow' = pos /\ \A f : StampOf(f)' = StampOf(f)
  BY <1>2, NowMoves DEF StampOf, Separates
<1>4. StampOf(FrameNow)' = StampOf(src)
  BY <1>2, <1>3 DEF StampOf, Separates
<1>5. Gapless(s.red, Here) /\ (redundancy = 0 => s.red = <<>>) /\ atsPrev = StampOf(Len(sounds))
  BY DEF Heeded
<1>6. /\ Gapless(s.red, Here)' /\ (redundancy' = 0 => s'.red = <<>>)
  BY <1>2, <1>5, CopiesGathered
<1>7. SaneNow(hand)'
  <2> DEFINE z == hand'.blocks
  <2>1. Len(z) = 0
    BY <1>1
  <2> HIDE DEF z
  <2>2. \A n \in 1 .. Len(z) : FALSE
    BY <2>1
  <2> QED
    BY <2>2 DEF SaneNow, Sane, z
<1>8. ASSUME NEW x \in 1 .. Len(wire') PROVE SaneNow(wire[x])'
  <2>1. PICK k, j : Wired(wire, s, k, j)
    BY DEF NetInv
  <2>2. s \in State /\ s' \in State /\ Follows(s, s')
    BY <1>1, SenderGrows DEF RtpInv, Room, Ordered
  <2>3. Wired(wire', s', k, j) /\ k = Len(s.sent) /\ j = Len(s.asent)
    BY <1>1, <2>1, <2>2, WireSends
  <2>4. \/ \E n \in 1 .. Len(s'.sent) : n > k /\ wire'[x] = Msg("main", s'.sent[n])
        \/ \E n \in 1 .. Len(s'.asent) : n > j /\ wire'[x] = Msg("audio", s'.asent[n])
    BY <2>2, <2>3, WiredIs
  <2>5. CASE \E n \in 1 .. Len(s'.sent) : n > k /\ wire'[x] = Msg("main", s'.sent[n])
    <3>1. PICK n \in 1 .. Len(s'.sent) : n > k /\ wire'[x] = Msg("main", s'.sent[n])
      BY <2>5
    <3>2. Sane(Msg("main", s'.sent[n]), src, pos, StampOf(src))
      BY <1>5, <2>3, <3>1, MainSane
    <3> QED
      BY <1>3, <1>4, <3>1, <3>2 DEF SaneNow
  <2>6. CASE \E n \in 1 .. Len(s'.asent) : n > j /\ wire'[x] = Msg("audio", s'.asent[n])
    <3>1. PICK n \in 1 .. Len(s'.asent) : n > j /\ wire'[x] = Msg("audio", s'.asent[n])
      BY <2>6
    <3>2. Sane(Msg("audio", s'.asent[n]), src, pos, StampOf(src))
      BY <2>3, <3>1, AudioSane
    <3> QED
      BY <1>3, <1>4, <3>1, <3>2 DEF SaneNow
  <2> QED
    BY <2>4, <2>5, <2>6
<1>9. atsPrev' = StampOf(Len(sounds))'
  <2>1. StampOf(Len(sounds))' = StampOf(Len(sounds))
    BY <1>1, <1>2 DEF StampOf, Separates
  <2> QED
    BY <1>1, <1>5, <2>1
<1> DEFINE L == Len(sounds)
           Kept(f) == \/ L = f
                      \/ L + 1 = f /\ (L > 0 => \A i \in Sound : aring[acur][i] = L)
<1>10. src \in Nat \ {0} /\ pos \in 1 .. Len(Frame) /\ Len(Frame) \in Nat /\ L \in Nat
  BY NowType DEF SoundOK
<1>11. Kept(src)
  <2>1. CASE pos = 1
    BY <1>1, <1>10, <2>1, AllHeard
  <2>2. CASE pos # 1
    BY <2>2 DEF Heeded, FrameNow
  <2> QED
    BY <2>1, <2>2
<1>12. ASSUME NEW i \in Sound, i <= pos, NEW c, c = [f |-> src, i |-> i]
       PROVE  Due(c)' \/ (L = src /\ aring[acur][i] = src)
  <2>1. i \in Nat \ {0}
    BY FrameAssumption DEF Sound, Places
  <2>2. CASE i = pos
    <3>1. c = Here /\ pos \in Sound
      BY <1>12, <2>2 DEF Here
    <3> QED
      BY <3>1, SoundSends
  <2>3. CASE i # pos
    <3>1. pos # 1 /\ i <= pos - 1
      BY <1>10, <1>12, <2>1, <2>3
    <3>2. Due(c) \/ (L = src /\ aring[acur][i] = src)
      BY <1>10, <1>12, <3>1 DEF Heeded, FrameNow, PlaceNow
    <3>3. ASSUME Due(c) PROVE c \in Range(s.out) \/ c \in Range(s.aud)
      <4> DEFINE w == wire
      <4>1. Len(w) = 0
        BY <1>1
      <4> HIDE DEF w
      <4>2. \A n \in 1 .. Len(w) : FALSE
        BY <4>1
      <4> QED
        BY <1>1, <3>3, <4>2, RangeEmpty DEF Due, w
    <3>4. Due(c) => Due(c)'
      BY <3>3, SoundSends
    <3> QED
      BY <3>2, <3>4
  <2> QED
    BY <2>2, <2>3
<1>13. \/ Len(sounds)' = FrameNow'
       \/ /\ Len(sounds)' + 1 = FrameNow'
          /\ Len(sounds)' > 0 => \A i \in Sound : aring'[acur'][i] = Len(sounds)'
  BY <1>1, <1>3, <1>11
<1>14. \A i \in Sound : FrameNow' >= 1 /\ i <= PlaceNow' =>
          \/ Due([f |-> FrameNow, i |-> i])'
          \/ Len(sounds)' = FrameNow' /\ aring'[acur'][i] = FrameNow'
  <2> TAKE i \in Sound
  <2> HAVE FrameNow' >= 1 /\ i <= PlaceNow'
  <2>1. PICK c : c = [f |-> src, i |-> i]
    OBVIOUS
  <2>2. Due(c)' \/ (L = src /\ aring[acur][i] = src)
    BY <1>3, <1>12, <2>1
  <2>3. Due([f |-> FrameNow, i |-> i])' <=> Due(c)'
    BY <1>3, <2>1 DEF Due
  <2> QED
    BY <1>1, <1>3, <2>2, <2>3
<1>15. \A k \in 2 .. Len(sounds') : sounds'[k] = [i \in Sound |-> k - 1]
  BY <1>1 DEF Heeded
<1> QED
  BY <1>6, <1>7, <1>8, <1>9, <1>13, <1>14, <1>15 DEF Heeded

(* dvsend does nothing. *)
LEMMA HeedStill ==
  ASSUME UNCHANGED <<s, src, pos, flags, redundancy>>, Heeded
  PROVE  /\ FrameNow' = FrameNow /\ PlaceNow' = PlaceNow
         /\ \A f : StampOf(f)' = StampOf(f)
         /\ \A p : SaneNow(p)' <=> SaneNow(p)
         /\ Gapless(s.red, Here)' /\ (redundancy' = 0 => s'.red = <<>>)
<1>1. FrameNow' = FrameNow /\ PlaceNow' = PlaceNow
  BY DEF FrameNow, PlaceNow
<1>2. \A f : StampOf(f)' = StampOf(f)
  BY DEF StampOf, Separates
<1>3. StampOf(FrameNow)' = StampOf(FrameNow)
  BY <1>1 DEF StampOf, Separates
<1>4. \A p : SaneNow(p)' <=> SaneNow(p)
  BY <1>1, <1>3 DEF SaneNow
<1>5. Here' = Here
  BY DEF Here
<1>6. Gapless(s.red, Here)' /\ (redundancy' = 0 => s'.red = <<>>)
  BY <1>5 DEF Heeded
<1> QED
  BY <1>1, <1>2, <1>4, <1>6

(* Nothing but packets and blocks of other sections moves. *)
LEMMA HeedQuiet ==
  ASSUME UNCHANGED <<s, src, pos, flags, redundancy>>, UNCHANGED audio, Heeded,
         SaneNow(hand)', \A n \in 1 .. Len(wire') : SaneNow(wire[n])',
         \A c : c.i \in Sound /\ Due(c) => Due(c)'
  PROVE  Heeded'
<1>1. /\ FrameNow' = FrameNow /\ PlaceNow' = PlaceNow
      /\ Gapless(s.red, Here)' /\ (redundancy' = 0 => s'.red = <<>>)
  BY HeedStill
<1>2. aring' = aring /\ acur' = acur /\ atsPrev' = atsPrev /\ sounds' = sounds
  BY DEF audio
<1>3. atsPrev' = StampOf(Len(sounds))'
  <2>1. StampOf(Len(sounds))' = StampOf(Len(sounds))
    BY <1>2 DEF StampOf, Separates
  <2> QED
    BY <1>2, <2>1 DEF Heeded
<1>4. \/ Len(sounds)' = FrameNow'
      \/ /\ Len(sounds)' + 1 = FrameNow'
         /\ Len(sounds)' > 0 => \A i \in Sound : aring'[acur'][i] = Len(sounds)'
  BY <1>1, <1>2 DEF Heeded
<1>5. \A i \in Sound : FrameNow' >= 1 /\ i <= PlaceNow' =>
         \/ Due([f |-> FrameNow, i |-> i])'
         \/ Len(sounds)' = FrameNow' /\ aring'[acur'][i] = FrameNow'
  <2> TAKE i \in Sound
  <2> HAVE FrameNow' >= 1 /\ i <= PlaceNow'
  <2>1. PICK c : c = [f |-> FrameNow, i |-> i]
    OBVIOUS
  <2>2. Due(c) \/ (Len(sounds) = FrameNow /\ aring[acur][i] = FrameNow)
    BY <1>1, <2>1 DEF Heeded
  <2>3. Due(c) => Due(c)'
    BY <2>1
  <2>4. Due([f |-> FrameNow, i |-> i])' <=> Due(c)'
    BY <1>1, <2>1 DEF Due
  <2> QED
    BY <1>1, <1>2, <2>2, <2>3, <2>4
<1>6. \A k \in 2 .. Len(sounds') : sounds'[k] = [i \in Sound |-> k - 1]
  BY <1>2 DEF Heeded
<1> QED
  BY <1>1, <1>3, <1>4, <1>5, <1>6 DEF Heeded

(* A packet is taken off the wire. *)
LEMMA HeedTakes ==
  ASSUME NetInv, Heeded, RecvNext
  PROVE  Heeded'
<1>1. /\ UNCHANGED <<s, src, pos, flags, redundancy>> /\ UNCHANGED audio
      /\ wire # <<>> /\ wire' = Tail(wire) /\ hand' = Head(wire) /\ hand.blocks = <<>>
  BY DEF RecvNext, Recv, vars, options
<1> DEFINE w == wire
           v == Tail(w)
<1>2. w \in Seq(Messages) /\ w # <<>>
  BY <1>1 DEF NetInv, Wired
<1>3. /\ Len(w) \in Nat \ {0} /\ Len(v) = Len(w) - 1 /\ Head(w) = w[1]
      /\ \A n \in 1 .. Len(v) : v[n] = w[n + 1]
  BY <1>2
<1>4. \A p : SaneNow(p)' <=> SaneNow(p)
  BY <1>1, HeedStill
<1>5. \A n \in 1 .. Len(w) : SaneNow(w[n])
  BY DEF Heeded
<1>6. hand' = w[1] /\ wire' = v
  BY <1>1, <1>3
<1> HIDE DEF w, v
<1>7. 1 \in 1 .. Len(w) /\ \A n \in 1 .. Len(v) : n + 1 \in 1 .. Len(w)
  BY <1>3
<1>8. SaneNow(hand)'
  <2>1. PICK p : p = w[1]
    OBVIOUS
  <2>2. SaneNow(p)'
    BY <1>4, <1>5, <1>7, <2>1
  <2> QED
    BY <1>6, <2>1, <2>2 DEF SaneNow
<1>9. ASSUME NEW n \in 1 .. Len(wire') PROVE SaneNow(wire[n])'
  <2>1. PICK p : p = v[n]
    OBVIOUS
  <2>2. p = w[n + 1] /\ n + 1 \in 1 .. Len(w)
    BY <1>3, <1>6, <1>7, <1>9, <2>1
  <2>3. SaneNow(p)'
    BY <1>4, <1>5, <2>2
  <2> QED
    BY <1>6, <2>1, <2>3 DEF SaneNow
<1>10. ASSUME NEW c, Due(c) PROVE Due(c)'
  <2>1. CASE c \in Range(s.out) \/ c \in Range(s.aud)
    BY <1>1, <2>1 DEF Due
  <2>2. CASE \E n \in 1 .. Len(w) : c \in Range(w[n].blocks)
    <3>1. PICK n \in 1 .. Len(w) : c \in Range(w[n].blocks)
      BY <2>2
    <3>2. CASE n = 1
      BY <1>6, <3>1, <3>2 DEF Due
    <3>3. CASE n # 1
      <4>1. n - 1 \in 1 .. Len(v) /\ (n - 1) + 1 = n
        BY <1>3, <3>3
      <4>2. v[n - 1] = w[n]
        BY <1>3, <4>1
      <4> QED
        BY <1>6, <3>1, <4>1, <4>2 DEF Due
    <3> QED
      BY <3>2, <3>3
  <2>3. c \notin Range(hand.blocks)
    BY <1>1, RangeEmpty
  <2> QED
    BY <1>10, <2>1, <2>2, <2>3 DEF Due, w
<1> QED
  BY <1>1, <1>8, <1>9, <1>10, HeedQuiet

(* A block less in hand: what is left is as sane, and what was due still is. *)
LEMMA BlockTaken ==
  ASSUME NetInv, Heeded, Done1
  PROVE  /\ Block1 \in BlockOf /\ hand'.ts = hand.ts
         /\ UNCHANGED <<s, src, pos, flags, redundancy, wire>>
         /\ SaneNow(hand)' /\ \A n \in 1 .. Len(wire') : SaneNow(wire[n])'
         /\ \A c : Due(c) => c = Block1 \/ Due(c)'
         /\ Block1.i \in Sound =>
              /\ FrameNow >= 1 /\ hand.ts = StampOf(FrameNow)
              /\ \/ Block1.f = FrameNow \/ Block1.i > PlaceNow
                 \/ \A c : c = [f |-> FrameNow, i |-> Block1.i] => Due(c)'
<1> DEFINE x == hand.blocks
           y == Tail(x)
<1>1. /\ x # <<>> /\ hand' = [hand EXCEPT !.blocks = Tail(@)]
      /\ UNCHANGED <<s, src, pos, flags, redundancy, wire>>
  BY DEF Done1, vars, options, network
<1>2. hand \in Messages /\ x \in Seq(BlockOf)
  BY DEF NetInv, Messages
<1>3. hand'.ts = hand.ts /\ hand'.blocks = y /\ Block1 \in BlockOf
  BY <1>1, <1>2, BlockRead DEF Block1
<1>4. /\ Len(x) \in Nat \ {0} /\ Len(y) = Len(x) - 1 /\ Block1 = x[1]
      /\ \A m \in 1 .. Len(y) : y[m] = x[m + 1]
      /\ DOMAIN x = 1 .. Len(x) /\ DOMAIN y = 1 .. Len(y)
  BY <1>1, <1>2 DEF Block1
<1>5. Sane(hand, FrameNow, PlaceNow, StampOf(FrameNow))
  BY DEF Heeded, SaneNow
<1>6. \A m \in 1 .. Len(x) : x[m].i \in Sound =>
         /\ FrameNow >= 1 /\ hand.ts = StampOf(FrameNow)
         /\ \/ x[m].f = FrameNow \/ x[m].i > PlaceNow
            \/ \E n \in 1 .. Len(x) : m < n /\ x[n] = [f |-> FrameNow, i |-> x[m].i]
  BY <1>5 DEF Sane
<1> HIDE DEF x, y
<1>7. /\ FrameNow' = FrameNow /\ PlaceNow' = PlaceNow /\ \A p : SaneNow(p)' <=> SaneNow(p)
  BY <1>1, HeedStill
<1>8. StampOf(FrameNow)' = StampOf(FrameNow)
  BY <1>1, <1>7 DEF StampOf, Separates
<1>9. /\ 1 \in 1 .. Len(x)
      /\ \A m \in 1 .. Len(y) : m + 1 \in 1 .. Len(x)
      /\ \A n \in 1 .. Len(x) : n > 1 => n - 1 \in 1 .. Len(y) /\ y[n - 1] = x[n]
  <2>1. 1 \in 1 .. Len(x) /\ \A m \in 1 .. Len(y) : m + 1 \in 1 .. Len(x)
    BY <1>4
  <2>2. ASSUME NEW n \in 1 .. Len(x), n > 1 PROVE n - 1 \in 1 .. Len(y) /\ y[n - 1] = x[n]
    <3>1. n - 1 \in 1 .. Len(y) /\ (n - 1) + 1 = n
      BY <1>4, <2>2
    <3> QED
      BY <1>4, <3>1
  <2> QED
    BY <2>1, <2>2
<1>10. SaneNow(hand)'
  <2>1. ASSUME NEW m \in 1 .. Len(y), y[m].i \in Sound
        PROVE  /\ FrameNow >= 1 /\ hand.ts = StampOf(FrameNow)
               /\ \/ y[m].f = FrameNow \/ y[m].i > PlaceNow
                  \/ \E n \in 1 .. Len(y) : m < n /\ y[n] = [f |-> FrameNow, i |-> y[m].i]
    <3>1. y[m] = x[m + 1] /\ m + 1 \in 1 .. Len(x)
      BY <1>4, <1>9
    <3>2. ASSUME NEW n \in 1 .. Len(x), m + 1 < n
          PROVE  n - 1 \in 1 .. Len(y) /\ y[n - 1] = x[n] /\ m < n - 1
      <4>1. n > 1 /\ m < n - 1
        BY <1>4, <3>2
      <4> QED
        BY <1>9, <4>1
    <3>3. /\ FrameNow >= 1 /\ hand.ts = StampOf(FrameNow)
          /\ \/ y[m].f = FrameNow \/ y[m].i > PlaceNow
             \/ \E n \in 1 .. Len(x) : m + 1 < n /\ x[n] = [f |-> FrameNow, i |-> y[m].i]
      <4> DEFINE l == m + 1
      <4>1. l \in 1 .. Len(x) /\ x[l] = y[m]
        BY <3>1
      <4> HIDE DEF l
      <4>2. /\ FrameNow >= 1 /\ hand.ts = StampOf(FrameNow)
            /\ \/ x[l].f = FrameNow \/ x[l].i > PlaceNow
               \/ \E n \in 1 .. Len(x) : l < n /\ x[n] = [f |-> FrameNow, i |-> x[l].i]
        BY <1>6, <2>1, <4>1
      <4> QED
        BY <4>1, <4>2 DEF l
    <3>4. ASSUME NEW n \in 1 .. Len(x), m + 1 < n, x[n] = [f |-> FrameNow, i |-> y[m].i]
          PROVE  \E e \in 1 .. Len(y) : m < e /\ y[e] = [f |-> FrameNow, i |-> y[m].i]
      BY <3>2, <3>4
    <3> QED
      BY <3>3, <3>4
  <2> QED
    BY <1>3, <1>7, <1>8, <2>1 DEF SaneNow, Sane
<1>11. ASSUME NEW n \in 1 .. Len(wire') PROVE SaneNow(wire[n])'
  <2>1. PICK p : p = wire[n]
    OBVIOUS
  <2>2. SaneNow(p)'
    BY <1>1, <1>7, <1>11, <2>1 DEF Heeded
  <2> QED
    BY <1>1, <2>1, <2>2 DEF SaneNow
<1>12. \A n \in 1 .. Len(x) : n > 1 => x[n] \in Range(y)
  BY <1>4, <1>9 DEF Range
<1>13. ASSUME NEW c, Due(c) PROVE c = Block1 \/ Due(c)'
  <2>1. CASE c \in Range(x)
    <3>1. PICK n \in 1 .. Len(x) : c = x[n]
      BY <1>4, <2>1 DEF Range
    <3>2. n = 1 \/ n > 1
      BY <1>4
    <3> QED
      BY <1>3, <1>4, <1>12, <3>1, <3>2 DEF Due
  <2>2. CASE c \notin Range(x)
    BY <1>1, <1>13, <2>2 DEF Due, x
  <2> QED
    BY <2>1, <2>2
<1>14. ASSUME Block1.i \in Sound
       PROVE  /\ FrameNow >= 1 /\ hand.ts = StampOf(FrameNow)
              /\ \/ Block1.f = FrameNow \/ Block1.i > PlaceNow
                 \/ \A c : c = [f |-> FrameNow, i |-> Block1.i] => Due(c)'
  <2>1. /\ FrameNow >= 1 /\ hand.ts = StampOf(FrameNow)
        /\ \/ Block1.f = FrameNow \/ Block1.i > PlaceNow
           \/ \E n \in 1 .. Len(x) : 1 < n /\ x[n] = [f |-> FrameNow, i |-> Block1.i]
    BY <1>4, <1>6, <1>9, <1>14
  <2>2. ASSUME NEW n \in 1 .. Len(x), 1 < n, NEW c, c = x[n] PROVE Due(c)'
    <3>1. n > 1
      BY <2>2
    <3> QED
      BY <1>3, <1>12, <2>2, <3>1 DEF Due
  <2> QED
    BY <2>1, <2>2
<1> QED
  BY <1>1, <1>3, <1>10, <1>11, <1>13, <1>14

(* Sound goes into the ring. *)
LEMMA StampsDiffer ==
  ASSUME NEW f \in Nat, NEW g \in Nat, StampOf(f) = StampOf(g)
  PROVE  f = g
<1>1. Apart \in Nat /\ Apart >= 2
  BY OptionAssumption DEF Apart
<1> HIDE DEF Apart
<1> QED
  BY <1>1 DEF StampOf

LEMMA HeedHears ==
  ASSUME RtpInv, NetInv, SoundOK, Heeded, ReadSound
  PROVE  Heeded'
<1> DEFINE b == Block1.i
           f == Block1.f
           F == FrameNow
           L == Len(sounds)
           a == aring[acur]
<1>1. /\ Done1 /\ b \in Sound
      /\ acur' = IF NewSound THEN (acur + 1) % N ELSE acur
      /\ atsPrev' = IF NewSound THEN hand.ts ELSE atsPrev
      /\ sounds' = IF NewSound THEN Append(sounds, a) ELSE sounds
      /\ aring' = [aring EXCEPT ![acur'][b] = f]
  BY DEF ReadSound
<1>2. /\ Block1 \in BlockOf /\ UNCHANGED <<s, src, pos, flags, redundancy, wire>>
      /\ SaneNow(hand)' /\ \A n \in 1 .. Len(wire') : SaneNow(wire[n])'
      /\ \A c : Due(c) => c = Block1 \/ Due(c)'
      /\ F >= 1 /\ hand.ts = StampOf(F)
      /\ \/ f = F \/ b > PlaceNow \/ \A c : c = [f |-> F, i |-> b] => Due(c)'
  BY <1>1, BlockTaken
<1>3. /\ FrameNow' = F /\ PlaceNow' = PlaceNow /\ \A x : StampOf(x)' = StampOf(x)
      /\ Gapless(s.red, Here)' /\ (redundancy' = 0 => s'.red = <<>>)
  BY <1>2, HeedStill
<1>4. /\ aring \in [0 .. N - 1 -> SoundSlot] /\ acur \in 0 .. N - 1 /\ a \in SoundSlot
      /\ sounds \in Seq(SoundSlot) /\ L \in Nat /\ F \in Nat /\ PlaceNow \in Nat
  BY NowType DEF SoundOK
<1>5. acur' \in 0 .. N - 1
  BY <1>1, <1>4, AheadIs
<1>6. /\ aring'[acur'][b] = f
      /\ \A i \in Sound : i # b => aring'[acur'][i] = aring[acur'][i]
  <2> DEFINE x == aring[acur']
  <2>1. x \in SoundSlot /\ aring' = [aring EXCEPT ![acur'] = [x EXCEPT ![b] = f]]
    BY <1>1, <1>4, <1>5
  <2>2. aring'[acur'] = [x EXCEPT ![b] = f]
    BY <1>4, <1>5, <2>1
  <2> HIDE DEF x
  <2>3. x \in [Sound -> Nat]
    BY <2>1 DEF SoundSlot
  <2>4. [x EXCEPT ![b] = f][b] = f /\ \A i \in Sound : i # b => [x EXCEPT ![b] = f][i] = x[i]
    BY <1>1, <2>3
  <2> QED
    BY <2>2, <2>4 DEF x
<1>7. /\ atsPrev = StampOf(L)
      /\ L = F \/ (L + 1 = F /\ (L > 0 => \A i \in Sound : a[i] = L))
      /\ \A k \in 2 .. L : sounds[k] = [i \in Sound |-> k - 1]
      /\ \A i \in Sound : \A c : i <= PlaceNow /\ c = [f |-> F, i |-> i] =>
           Due(c) \/ (L = F /\ a[i] = F)
  BY <1>2 DEF Heeded
<1>8. NewSound <=> L # F
  <2>1. L # F => StampOf(L) # StampOf(F)
    BY <1>4, StampsDiffer
  <2> QED
    BY <1>2, <1>7, <2>1 DEF NewSound
<1>9. /\ Len(sounds') = F
      /\ \A k \in 2 .. F : sounds'[k] = [i \in Sound |-> k - 1]
  <2>1. CASE L = F
    BY <1>1, <1>7, <1>8, <2>1
  <2>2. CASE L # F
    <3> DEFINE P == SoundSlot
               q == Append(sounds, a)
    <3>1. sounds \in Seq(P) /\ a \in P
      BY <1>4
    <3> HIDE DEF P, a
    <3>2. sounds' = q
      BY <1>1, <1>8, <2>2
    <3>3. Len(q) = L + 1 /\ q[L + 1] = a /\ \A k \in 1 .. L : q[k] = sounds[k]
      BY <3>1
    <3>4. L + 1 = F /\ (L > 0 => \A i \in Sound : a[i] = L)
      BY <1>7, <2>2
    <3> HIDE DEF q
    <3>5. ASSUME NEW k \in 2 .. F PROVE q[k] = [i \in Sound |-> k - 1]
      <4> HIDE DEF L, F
      <4>1. CASE k = F
        <5>1. k - 1 = L /\ L > 0 /\ q[k] = a
          BY <1>4, <3>3, <3>4, <3>5, <4>1
        <5>2. a \in [Sound -> Nat] /\ \A i \in Sound : a[i] = L
          BY <1>4, <3>4, <5>1 DEF SoundSlot
        <5>3. a = [i \in Sound |-> L]
          BY <5>2
        <5> QED
          BY <5>1, <5>3
      <4>2. CASE k # F
        <5>1. k \in 2 .. L /\ k \in 1 .. L
          BY <1>4, <3>4, <3>5, <4>2
        <5> QED
          BY <1>7, <3>3, <5>1
      <4> QED
        BY <4>1, <4>2
    <3> QED
      BY <3>2, <3>3, <3>4, <3>5
  <2> QED
    BY <2>1, <2>2
<1>10. atsPrev' = StampOf(Len(sounds))'
  <2>1. atsPrev' = StampOf(F)
    BY <1>1, <1>2, <1>7, <1>8
  <2>2. StampOf(Len(sounds))' = StampOf(F)
    BY <1>2, <1>9 DEF StampOf, Separates
  <2> QED
    BY <2>1, <2>2
<1>11. \A i \in Sound : FrameNow' >= 1 /\ i <= PlaceNow' =>
          \/ Due([f |-> FrameNow, i |-> i])'
          \/ Len(sounds)' = FrameNow' /\ aring'[acur'][i] = FrameNow'
  <2> TAKE i \in Sound
  <2> HAVE FrameNow' >= 1 /\ i <= PlaceNow'
  <2>1. PICK c : c = [f |-> F, i |-> i]
    OBVIOUS
  <2>2. Due([f |-> FrameNow, i |-> i])' <=> Due(c)'
    BY <1>3, <2>1 DEF Due
  <2>3. i <= PlaceNow /\ i \in Nat
    BY <1>3, FrameAssumption DEF Sound, Places
  <2>4. Due(c) \/ (L = F /\ a[i] = F)
    BY <1>7, <2>1, <2>3
  <2>5. Due(c)' \/ aring'[acur'][i] = F
    <3>1. CASE c = Block1
      <4>1. i = b /\ f = F
        BY <2>1, <3>1
      <4> QED
        BY <1>6, <4>1
    <3>2. CASE c # Block1 /\ Due(c)
      BY <1>2, <3>2
    <3>3. CASE L = F /\ a[i] = F /\ i # b
      <4>1. acur' = acur
        BY <1>1, <1>8, <3>3
      <4> QED
        BY <1>6, <3>3, <4>1
    <3>4. CASE i = b
      <4>1. CASE f = F
        BY <1>6, <3>4, <4>1
      <4>2. CASE b > PlaceNow
        BY <1>4, <2>3, <3>4, <4>2
      <4>3. CASE \A d : d = [f |-> F, i |-> b] => Due(d)'
        BY <2>1, <3>4, <4>3
      <4> QED
        BY <1>2, <4>1, <4>2, <4>3
    <3> QED
      BY <2>4, <3>1, <3>2, <3>3, <3>4
  <2> QED
    BY <1>3, <1>9, <2>2, <2>5
<1>12. Len(sounds)' = FrameNow'
  BY <1>3, <1>9
<1>13. \A k \in 2 .. Len(sounds') : sounds'[k] = [i \in Sound |-> k - 1]
  BY <1>9
<1> QED
  BY <1>2, <1>3, <1>10, <1>11, <1>12, <1>13 DEF Heeded

LEMMA HeedStep ==
  /\ RtpInv /\ RtpInv' /\ TurnInv /\ TurnInv' /\ AudioInv /\ AudioInv' /\ Ranks(s) /\ NetInv
  /\ Plain' /\ SoundOK /\ Sound # {} /\ HeedInv /\ [StreamNext]_<<vars, network, reader>>
  => HeedInv'
<1> SUFFICES ASSUME RtpInv, RtpInv', TurnInv, TurnInv', AudioInv, AudioInv', Ranks(s), NetInv,
                    Plain', SoundOK, Sound # {}, HeedInv,
                    [StreamNext]_<<vars, network, reader>>, SoundClear'
             PROVE  Heeded'
  BY DEF HeedInv
<1>1. /\ SoundClear /\ ~Lose /\ ~Hold /\ ~RecvLate /\ Heeded
      /\ Send => Block \/ UNCHANGED <<s, src, pos>>
      /\ flags' = flags /\ redundancy' = redundancy
  BY ClearSteps DEF HeedInv
<1>2. ASSUME UNCHANGED <<s, src, pos>>
      PROVE  \A p : SaneNow(p)' <=> SaneNow(p)
  BY <1>1, <1>2, HeedStill
<1>3. CASE Send
  <2>1. CASE Block
    BY <1>1, <1>3, <2>1, HeedBlock
  <2>2. CASE UNCHANGED <<s, src, pos>>
    <3>1. /\ wire = <<>> /\ hand' = hand /\ hand.blocks = <<>> /\ UNCHANGED audio
          /\ wire' = New("main", s.sent, s'.sent) \o New("audio", s.asent, s'.asent)
          /\ s' = s
      BY <1>3, <2>2 DEF Send, Quiet, reader
    <3>2. s \in State /\ s' \in State /\ Follows(s, s')
      BY <1>3, SenderGrows DEF RtpInv, Room, Ordered, Send
    <3>3. PICK k, j : Wired(wire, s, k, j)
      BY DEF NetInv
    <3>4. Wired(wire', s', k, j) /\ k = Len(s'.sent) /\ j = Len(s'.asent)
      BY <3>1, <3>2, <3>3, WireSends
    <3>5. ASSUME NEW x \in 1 .. Len(wire') PROVE FALSE
      <4>1. s'.sent \in Seq(PacketOf) /\ s'.asent \in Seq(PacketOf)
        BY <3>2 DEF State
      <4>2. Len(wire') = 0
        BY <3>4, <4>1 DEF Wired
      <4> QED
        BY <3>5, <4>2
    <3>6. SaneNow(hand)'
      <4>1. PICK p : p = hand
        OBVIOUS
      <4>2. SaneNow(p)'
        BY <1>1, <1>2, <2>2, <4>1 DEF Heeded
      <4> QED
        BY <3>1, <4>1, <4>2 DEF SaneNow
    <3>7. ASSUME NEW c, Due(c) PROVE Due(c)'
      <4> DEFINE w == wire
      <4>1. Len(w) = 0
        BY <3>1
      <4> HIDE DEF w
      <4>2. \A n \in 1 .. Len(w) : FALSE
        BY <4>1
      <4> QED
        BY <3>1, <3>7, <4>2 DEF Due, w
    <3> QED
      BY <1>1, <2>2, <3>1, <3>5, <3>6, <3>7, HeedQuiet
  <2> QED
    BY <1>1, <1>3, <2>1, <2>2
<1>4. CASE RecvNext
  BY <1>1, <1>4, HeedTakes
<1>5. CASE ReadPicture
  <2>1. Done1 /\ UNCHANGED audio /\ Block1.i \notin Sound
    BY <1>5 DEF ReadPicture
  <2>2. /\ UNCHANGED <<s, src, pos, flags, redundancy, wire>>
        /\ SaneNow(hand)' /\ \A n \in 1 .. Len(wire') : SaneNow(wire[n])'
        /\ \A c : Due(c) => c = Block1 \/ Due(c)'
    BY <1>1, <2>1, BlockTaken
  <2>3. \A c : c.i \in Sound /\ Due(c) => Due(c)'
    BY <2>1, <2>2
  <2> QED
    BY <1>1, <2>1, <2>2, <2>3, HeedQuiet
<1>6. CASE ReadSound
  BY <1>1, <1>6, HeedHears
<1>7. CASE UNCHANGED <<vars, network, reader>>
  <2>1. /\ UNCHANGED <<s, src, pos, flags, redundancy>> /\ UNCHANGED audio
        /\ hand' = hand /\ wire' = wire
    BY <1>7 DEF vars, options, network, reader
  <2>2. SaneNow(hand)'
    <3>1. PICK p : p = hand
      OBVIOUS
    <3>2. SaneNow(p)'
      BY <1>1, <1>2, <2>1, <3>1 DEF Heeded
    <3> QED
      BY <2>1, <3>1, <3>2 DEF SaneNow
  <2>3. ASSUME NEW n \in 1 .. Len(wire') PROVE SaneNow(wire[n])'
    <3>1. PICK p : p = wire[n]
      OBVIOUS
    <3>2. SaneNow(p)'
      BY <1>1, <1>2, <2>1, <2>3, <3>1 DEF Heeded
    <3> QED
      BY <2>1, <3>1, <3>2 DEF SaneNow
  <2>4. ASSUME NEW c, Due(c) PROVE Due(c)'
    BY <2>1, <2>4 DEF Due
  <2> QED
    BY <1>1, <2>1, <2>2, <2>3, <2>4, HeedQuiet
<1> QED
  BY <1>1, <1>3, <1>4, <1>5, <1>6, <1>7 DEF StreamNext

(* Undisturbed, dvrecv hands over the sound of every frame, whole, once and in
   order, though the redundant copies (rtp.c:264) bring blocks of other frames
   under its timestamp and nothing clears a slot (read.c:255). *)
THEOREM SoundsComplete ==
  ASSUME Sound # {}
  PROVE  StreamSpec => []SoundsArrive
<1>1. StreamInit => HeedInv
  <2> SUFFICES ASSUME StreamInit PROVE Heeded
    BY DEF HeedInv
  <2>1. /\ wire = <<>> /\ hand = NoPacket /\ s.red = <<>> /\ src = 1 /\ pos = 1
        /\ atsPrev = 0 /\ sounds = <<>>
    BY DEF StreamInit, Init
  <2>2. hand.blocks = <<>> /\ FrameNow = 0
    BY <2>1 DEF NoPacket, FrameNow
  <2> DEFINE z == <<>>
  <2>3. Len(z) = 0
    OBVIOUS
  <2>4. s.red = z /\ hand.blocks = z /\ wire = z /\ sounds = z
    BY <2>1, <2>2
  <2> HIDE DEF z
  <2>5. \A n \in 1 .. Len(z) : FALSE
    BY <2>3
  <2>6. Gapless(z, Here) /\ SaneNow(hand) /\ \A n \in 1 .. Len(z) : SaneNow(z[n])
    BY <2>4, <2>5 DEF Gapless, SaneNow, Sane
  <2>7. StampOf(0) = 0
    BY DEF StampOf
  <2>8. Gapless(s.red, Here) /\ SaneNow(hand) /\ \A n \in 1 .. Len(wire) : SaneNow(wire[n])
    BY <2>4, <2>6
  <2>9. Len(sounds) = 0 /\ \A k \in 2 .. Len(sounds) : FALSE
    BY <2>3, <2>4
  <2> QED
    BY <2>1, <2>2, <2>7, <2>8, <2>9 DEF Heeded
<1>2. StreamSpec => [](TurnInv /\ AudioInv /\ Plain)
  <2>1. StreamInit => Init
    BY DEF StreamInit
  <2>2. StreamSpec => Spec
    BY <2>1, SenderStep, PTL DEF StreamSpec, Spec
  <2> QED
    BY <2>2, TurnInvHolds, AudioInvHolds, PlainHolds, PTL
<1>3. RtpInv /\ TurnInv /\ AudioInv /\ SoundOK /\ HeedInv => SoundsArrive
  <2> SUFFICES ASSUME RtpInv, TurnInv, AudioInv, SoundOK, HeedInv, SoundClear
               PROVE  /\ \A k \in 2 .. Len(sounds) : sounds[k] = [i \in Sound |-> k - 1]
                      /\ Rested => Len(sounds) = src - 1
    BY DEF SoundsArrive, SoundClear
  <2>1. Heeded
    BY DEF HeedInv
  <2>2. Rested => Len(sounds) = src - 1
    BY <2>1, AllHeard DEF Rested
  <2> QED
    BY <2>1, <2>2 DEF Heeded
<1>4. Sound # {}
  OBVIOUS
<1> QED
  BY <1>1, <1>2, <1>3, <1>4, HeedStep, NetHolds, SoundType, PTL DEF StreamSpec
=============================================================================
