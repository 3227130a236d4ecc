--------------------------- MODULE DvsendRtpProofs --------------------------
(***************************************************************************)
(* The packets of dvsend, for every layout of a frame, every size of a     *)
(* packet (-s), every number of copies (-r), every rate and any losses and *)
(* signals: none outgrows its buffer, if one of the size asked for does    *)
(* not, and none mixes frames.                                             *)
(***************************************************************************)
EXTENDS DvsendRtp, SequenceTheorems, FiniteSetTheorems, TLAPS

State == [frame : Nat, out : Seq(BlockOf), seq : Nat, ts : Nat,
          red : Seq(BlockOf), aud : Seq(BlockOf), aseq : Nat, ats : Nat,
          sent : Seq(PacketOf), asent : Seq(PacketOf)]

(* Any number given to -s asks for packets of a block at least. *)
LEMMA PerPktType == PerPkt \in Nat \ {0}
  BY SizeAssumption DEF PerPkt

(* No packet is empty or longer than the -s option says. *)
Fit(packets) == \A n \in DOMAIN packets : Len(packets[n].blocks) \in 1 .. PerPkt

(* A buffer that has not been sent has room for one block more. *)
Room(t) == /\ t \in State
           /\ Len(t.out) < PerPkt /\ Len(t.red) < PerPkt /\ Len(t.aud) < PerPkt
           /\ Fit(t.sent) /\ Fit(t.asent)

(* What waits in the main buffer is of frame f, which is the timestamp, too. *)
OfFrame(t, f) == /\ t.ts = f /\ \A m \in 1 .. Len(t.out) : t.out[m].f = f
                 /\ OwnTs(t.sent, 1)
-----------------------------------------------------------------------------
(* Appending keeps what holds for each element. *)
LEMMA FitAppend ==
  ASSUME NEW q \in Seq(PacketOf), NEW p \in PacketOf, Fit(q), Len(p.blocks) \in 1 .. PerPkt
  PROVE  Append(q, p) \in Seq(PacketOf) /\ Fit(Append(q, p))
  BY DEF Fit

LEMMA OwnAppend ==
  ASSUME NEW q \in Seq(PacketOf), NEW p \in PacketOf, NEW first, OwnTs(q, first),
         ~p.copy => \A m \in 1 .. Len(p.blocks) : p.blocks[m].f - 1 = p.ts - first
  PROVE  OwnTs(Append(q, p), first)
<1> DEFINE r == Append(q, p)
<1>1. /\ DOMAIN q = 1 .. Len(q) /\ DOMAIN r = 1 .. Len(q) + 1 /\ Len(q) \in Nat
      /\ r[Len(q) + 1] = p /\ \A n \in 1 .. Len(q) : r[n] = q[n]
  OBVIOUS
<1> HIDE DEF r
<1>2. ASSUME ~p.copy, NEW m \in DOMAIN p.blocks PROVE p.blocks[m].f - 1 = p.ts - first
  <2>1. p.blocks \in Seq(BlockOf)
    BY DEF PacketOf
  <2>2. m \in 1 .. Len(p.blocks)
    BY <1>2, <2>1
  <2> QED
    BY <1>2, <2>2
<1>3. SUFFICES ASSUME NEW n \in 1 .. Len(q) + 1, ~r[n].copy, NEW m \in DOMAIN r[n].blocks
               PROVE  r[n].blocks[m].f - 1 = r[n].ts - first
  BY <1>1 DEF OwnTs, r
<1>4. CASE n \in 1 .. Len(q)
  BY <1>1, <1>3, <1>4 DEF OwnTs
<1>5. CASE n = Len(q) + 1
  BY <1>1, <1>2, <1>3, <1>5
<1> QED
  BY <1>1, <1>4, <1>5

LEMMA BufferType ==
  ASSUME NEW t \in State, NEW x \in Seq(BlockOf)
  PROVE  [t EXCEPT !.out = x] \in State /\ [t EXCEPT !.aud = x] \in State
         /\ [t EXCEPT !.red = x] \in State
  BY DEF State

LEMMA Emptied ==
  ASSUME NEW t \in State
  PROVE  [t EXCEPT !.out = <<>>] \in State /\ [t EXCEPT !.aud = <<>>] \in State
         /\ [t EXCEPT !.red = <<>>] \in State
<1>1. <<>> \in Seq(BlockOf)
  OBVIOUS
<1> QED
  BY <1>1, BufferType

(* Sending a buffer empties it and changes the number of the packet only. *)
LEMMA SendOutWell ==
  ASSUME NEW t \in State, Len(t.out) \in 1 .. PerPkt, Fit(t.sent)
  PROVE  /\ SendOut(t) \in State /\ Fit(SendOut(t).sent)
         /\ SendOut(t).out = <<>> /\ SendOut(t).ts = t.ts
         /\ SendOut(t).red = t.red /\ SendOut(t).aud = t.aud /\ SendOut(t).asent = t.asent
         /\ (\A m \in 1 .. Len(t.out) : t.out[m].f = t.ts) /\ OwnTs(t.sent, 1)
              => OwnTs(SendOut(t).sent, 1)
<1> DEFINE p == Packet(t.seq, t.ts, t.out, FALSE)
<1>1. /\ p \in PacketOf /\ p.blocks = t.out /\ p.ts = t.ts
  BY DEF Packet, State, PacketOf
<1> HIDE DEF p
<1>2. t.sent \in Seq(PacketOf)
  BY DEF State
<1> DEFINE r == Append(t.sent, p)
<1>3. r \in Seq(PacketOf) /\ Fit(r)
  BY <1>1, <1>2, FitAppend
<1>4. ASSUME \A m \in 1 .. Len(t.out) : t.out[m].f = t.ts, OwnTs(t.sent, 1) PROVE OwnTs(r, 1)
  <2>1. \A m \in 1 .. Len(p.blocks) : p.blocks[m].f - 1 = p.ts - 1
    BY <1>1, <1>4
  <2> QED
    BY <1>1, <1>2, <1>4, <2>1, OwnAppend
<1>5. SendOut(t) = [t EXCEPT !.sent = r, !.out = <<>>, !.seq = t.seq + 1]
  BY DEF SendOut, p
<1> HIDE DEF r
<1>6. /\ SendOut(t) \in State /\ SendOut(t).sent = r
      /\ SendOut(t).out = <<>> /\ SendOut(t).ts = t.ts
      /\ SendOut(t).red = t.red /\ SendOut(t).aud = t.aud /\ SendOut(t).asent = t.asent
  <2> DEFINE u == [t EXCEPT !.sent = r]
             v == [u EXCEPT !.out = <<>>]
             w == [v EXCEPT !.seq = t.seq + 1]
  <2>0. t.seq + 1 \in Nat
    BY DEF State
  <2>1. u \in State
    BY <1>3 DEF State
  <2>2. v \in State
    BY <2>1, Emptied
  <2>3. w \in State
    BY <2>0, <2>2 DEF State
  <2>4. SendOut(t) = w
    BY <1>5
  <2> QED
    BY <1>5, <2>3, <2>4 DEF State
<1> QED
  BY <1>3, <1>4, <1>6

LEMMA SendAudioWell ==
  ASSUME NEW t \in State, Len(t.aud) \in 1 .. PerPkt, Fit(t.asent)
  PROVE  /\ SendAudio(t) \in State /\ Fit(SendAudio(t).asent)
         /\ SendAudio(t).aud = <<>> /\ SendAudio(t).ts = t.ts
         /\ SendAudio(t).red = t.red /\ SendAudio(t).out = t.out /\ SendAudio(t).sent = t.sent
<1> DEFINE p == Packet(t.aseq, t.ats, t.aud, FALSE)
           r == Append(t.asent, p)
<1>1. p \in PacketOf /\ p.blocks = t.aud
  BY DEF Packet, State, PacketOf
<1>2. SendAudio(t) = [t EXCEPT !.asent = r, !.aud = <<>>, !.aseq = t.aseq + 1]
  BY DEF SendAudio
<1> HIDE DEF p
<1>3. t.asent \in Seq(PacketOf)
  BY DEF State
<1>4. r \in Seq(PacketOf) /\ Fit(r)
  BY <1>1, <1>3, FitAppend
<1> HIDE DEF r
<1> QED
  <2> DEFINE u == [t EXCEPT !.asent = r]
             v == [u EXCEPT !.aud = <<>>]
             w == [v EXCEPT !.aseq = t.aseq + 1]
  <2>0. t.aseq + 1 \in Nat
    BY DEF State
  <2>1. u \in State
    BY <1>4 DEF State
  <2>2. v \in State
    BY <2>1, Emptied
  <2>3. w \in State
    BY <2>0, <2>2 DEF State
  <2>4. SendAudio(t) = w
    BY <1>2
  <2> QED
    BY <1>2, <1>4, <2>3, <2>4 DEF State
-----------------------------------------------------------------------------
(* The steps of the packetiser. *)

LEMMA AddOutWell ==
  ASSUME NEW t, Room(t), NEW b \in BlockOf
  PROVE  /\ Room(AddOut(t, b))
         /\ OfFrame(t, b.f) => OfFrame(AddOut(t, b), b.f)
<1> DEFINE u == [t EXCEPT !.out = Append(t.out, b)]
<1>1. /\ u \in State /\ u.out = Append(t.out, b) /\ u.ts = t.ts /\ u.sent = t.sent
      /\ u.red = t.red /\ u.aud = t.aud /\ u.asent = t.asent
  <2>1. t \in State
    BY DEF Room
  <2>2. Append(t.out, b) \in Seq(BlockOf)
    BY <2>1 DEF State
  <2> QED
    BY <2>1, <2>2 DEF State
<1>2. AddOut(t, b) = IF Len(u.out) > PerPkt - 1 THEN SendOut(u) ELSE u
  BY DEF AddOut
<1> HIDE DEF u
<1>3. t.out \in Seq(BlockOf) /\ Len(t.out) < PerPkt
  BY DEF Room, State
<1>4. /\ Len(u.out) = Len(t.out) + 1 /\ Len(u.out) \in 1 .. PerPkt
      /\ \A m \in 1 .. Len(u.out) : u.out[m] = IF m <= Len(t.out) THEN t.out[m] ELSE b
  BY <1>1, <1>3, PerPktType
<1>5. OfFrame(t, b.f) => OfFrame(u, b.f)
  BY <1>1, <1>3, <1>4 DEF OfFrame
<1>6. CASE Len(u.out) > PerPkt - 1
  <2>1. Fit(u.sent)
    BY <1>1 DEF Room
  <2> DEFINE v == SendOut(u)
  <2>2. /\ v \in State /\ Fit(v.sent) /\ v.out = <<>> /\ v.ts = u.ts
        /\ v.red = u.red /\ v.aud = u.aud /\ v.asent = u.asent
        /\ (\A m \in 1 .. Len(u.out) : u.out[m].f = u.ts) /\ OwnTs(u.sent, 1)
             => OwnTs(v.sent, 1)
    BY <1>1, <1>4, <2>1, SendOutWell
  <2>3. AddOut(t, b) = v
    BY <1>2, <1>6
  <2> HIDE DEF v
  <2>4. Len(v.out) = 0
    BY <2>2
  <2>5. Room(v)
    BY <1>1, <2>2, <2>4, PerPktType DEF Room
  <2>6. OfFrame(u, b.f) => OfFrame(v, b.f)
    BY <2>2, <2>4 DEF OfFrame
  <2> QED
    BY <1>5, <2>3, <2>5, <2>6
<1>7. CASE ~(Len(u.out) > PerPkt - 1)
  <2>1. AddOut(t, b) = u
    BY <1>2, <1>7
  <2>2. Room(u)
    BY <1>1, <1>4, <1>7, PerPktType DEF Room
  <2> QED
    BY <1>5, <2>1, <2>2
<1> QED
  BY <1>6, <1>7

LEMMA AddAudioWell ==
  ASSUME NEW t, Room(t), NEW b \in BlockOf
  PROVE  /\ Room(AddAudio(t, b))
         /\ OfFrame(t, b.f) => OfFrame(AddAudio(t, b), b.f)
<1> DEFINE u == [t EXCEPT !.aud = Append(t.aud, b)]
<1>1. /\ u \in State /\ u.aud = Append(t.aud, b) /\ u.ts = t.ts /\ u.sent = t.sent
      /\ u.red = t.red /\ u.out = t.out /\ u.asent = t.asent
  <2>1. t \in State
    BY DEF Room
  <2>2. Append(t.aud, b) \in Seq(BlockOf)
    BY <2>1 DEF State
  <2> QED
    BY <2>1, <2>2 DEF State
<1>2. AddAudio(t, b) = IF Len(u.aud) > PerPkt - 1 THEN SendAudio(u) ELSE u
  BY DEF AddAudio
<1> HIDE DEF u
<1>3. t.aud \in Seq(BlockOf) /\ Len(t.aud) < PerPkt
  BY DEF Room, State
<1>4. Len(u.aud) = Len(t.aud) + 1 /\ Len(u.aud) \in 1 .. PerPkt
  BY <1>1, <1>3, PerPktType
<1>5. CASE Len(u.aud) > PerPkt - 1
  <2>1. Fit(u.asent)
    BY <1>1 DEF Room
  <2> DEFINE v == SendAudio(u)
  <2>2. /\ v \in State /\ Fit(v.asent) /\ v.aud = <<>> /\ v.ts = u.ts
        /\ v.red = u.red /\ v.out = u.out /\ v.sent = u.sent
    BY <1>1, <1>4, <2>1, SendAudioWell
  <2>3. AddAudio(t, b) = v
    BY <1>2, <1>5
  <2> HIDE DEF v
  <2>4. Len(v.aud) = 0
    BY <2>2
  <2> QED
    BY <1>1, <2>2, <2>3, <2>4, PerPktType DEF Room, OfFrame
<1>6. CASE ~(Len(u.aud) > PerPkt - 1)
  <2>1. AddAudio(t, b) = u
    BY <1>2, <1>6
  <2> QED
    BY <1>1, <1>4, <1>6, <2>1, PerPktType DEF Room, OfFrame
<1> QED
  BY <1>5, <1>6

LEMMA SeqOfMap ==
  ASSUME NEW S, NEW n \in Nat, NEW g \in [1 .. n -> S]
  PROVE  g \in Seq(S) /\ Len(g) = n
<1>1. g \in Seq(S)
  BY SeqDef
<1>2. 1 .. Len(g) = 1 .. n /\ Len(g) \in Nat
  BY <1>1, LenProperties
<1>3. /\ Len(g) # 0 => Len(g) \in 1 .. Len(g)
      /\ n # 0 => n \in 1 .. n
  BY <1>2
<1>4. Len(g) <= n /\ n <= Len(g)
  BY <1>2, <1>3
<1> QED
  BY <1>1, <1>2, <1>4

(* Copies are no longer than the buffer, and have a mark of their own. *)
LEMMA CopiesWell ==
  ASSUME NEW q \in Seq(PacketOf), NEW x \in Seq(BlockOf), Len(x) \in 1 .. PerPkt,
         NEW sq \in Nat, NEW stamp \in Nat, redundancy \in Nat, Fit(q)
  PROVE  LET r == q \o [i \in 1 .. redundancy |-> Packet(sq + i - 1, stamp, x, TRUE)]
         IN  /\ r \in Seq(PacketOf) /\ Fit(r)
             /\ OwnTs(q, 1) => OwnTs(r, 1)
<1> DEFINE c == [i \in 1 .. redundancy |-> Packet(sq + i - 1, stamp, x, TRUE)]
           r == q \o c
<1>1. \A i \in 1 .. redundancy : /\ Packet(sq + i - 1, stamp, x, TRUE) \in PacketOf
                                 /\ Packet(sq + i - 1, stamp, x, TRUE).blocks = x
                                 /\ Packet(sq + i - 1, stamp, x, TRUE).copy = TRUE
  BY DEF Packet, PacketOf
<1>2. /\ c \in Seq(PacketOf) /\ Len(c) = redundancy
      /\ \A i \in 1 .. redundancy : c[i].blocks = x /\ c[i].copy = TRUE
  <2>1. c \in [1 .. redundancy -> PacketOf]
    BY <1>1
  <2>2. c \in Seq(PacketOf) /\ Len(c) = redundancy
    BY <2>1, SeqOfMap
  <2>3. \A i \in 1 .. redundancy : c[i].blocks = x /\ c[i].copy = TRUE
    BY <1>1
  <2> QED
    BY <2>2, <2>3
<1> HIDE DEF c
<1>3. /\ r \in Seq(PacketOf) /\ DOMAIN r = 1 .. Len(q) + redundancy /\ Len(q) \in Nat
      /\ DOMAIN q = 1 .. Len(q)
      /\ \A i \in 1 .. Len(q) + redundancy :
           r[i] = IF i <= Len(q) THEN q[i] ELSE c[i - Len(q)]
  BY <1>2
<1> HIDE DEF r
<1>4. Fit(r)
  <2> SUFFICES ASSUME NEW n \in 1 .. Len(q) + redundancy PROVE Len(r[n].blocks) \in 1 .. PerPkt
    BY <1>3 DEF Fit
  <2>1. CASE n <= Len(q)
    BY <1>3, <2>1 DEF Fit
  <2>2. CASE n > Len(q)
    <3>1. n - Len(q) \in 1 .. redundancy /\ r[n] = c[n - Len(q)]
      BY <1>3, <2>2
    <3> QED
      BY <1>2, <3>1
  <2> QED
    BY <1>3, <2>1, <2>2
<1>5. ASSUME OwnTs(q, 1) PROVE OwnTs(r, 1)
  <2> SUFFICES ASSUME NEW n \in 1 .. Len(q) + redundancy, ~r[n].copy,
                      NEW m \in DOMAIN r[n].blocks
               PROVE  r[n].blocks[m].f - 1 = r[n].ts - 1
    BY <1>3 DEF OwnTs
  <2>1. CASE n <= Len(q)
    BY <1>3, <1>5, <2>1 DEF OwnTs
  <2>2. CASE n > Len(q)
    <3>1. n - Len(q) \in 1 .. redundancy /\ r[n] = c[n - Len(q)]
      BY <1>3, <2>2
    <3> QED
      BY <1>2, <3>1
  <2> QED
    BY <1>3, <2>1, <2>2
<1> QED
  BY <1>3, <1>4, <1>5 DEF c, r

LEMMA AddRedundantWell ==
  ASSUME NEW t, Room(t), NEW b \in BlockOf, redundancy \in Nat
  PROVE  /\ Room(AddRedundant(t, b))
         /\ OfFrame(t, b.f) => OfFrame(AddRedundant(t, b), b.f)
<1> DEFINE u == [t EXCEPT !.red = Append(t.red, b)]
<1>0. t \in State
  BY DEF Room
<1>1. /\ u \in State /\ u.red = Append(t.red, b) /\ u.ts = t.ts /\ u.sent = t.sent
      /\ u.aud = t.aud /\ u.out = t.out /\ u.asent = t.asent
  <2>1. Append(t.red, b) \in Seq(BlockOf)
    BY <1>0 DEF State
  <2> QED
    BY <1>0, <2>1 DEF State
<1> DEFINE r == u.sent \o [i \in 1 .. redundancy |->
                             Packet(u.seq + i - 1, u.ts, u.red, TRUE)]
           v == [u EXCEPT !.sent = r, !.seq = u.seq + redundancy, !.red = <<>>]
<1>2. AddRedundant(t, b) = IF Len(u.red) > PerPkt - 1 THEN v ELSE u
  BY DEF AddRedundant
<1> HIDE DEF u
<1>3. t.red \in Seq(BlockOf) /\ Len(t.red) < PerPkt
  BY DEF Room, State
<1>4. Len(u.red) = Len(t.red) + 1 /\ Len(u.red) \in 1 .. PerPkt
  BY <1>1, <1>3, PerPktType
<1>5. CASE Len(u.red) > PerPkt - 1
  <2>1. /\ u.sent \in Seq(PacketOf) /\ u.red \in Seq(BlockOf)
        /\ u.seq \in Nat /\ u.ts \in Nat
    BY <1>1 DEF State
  <2>2. Fit(u.sent)
    BY <1>1 DEF Room
  <2>3. r \in Seq(PacketOf) /\ Fit(r) /\ (OwnTs(u.sent, 1) => OwnTs(r, 1))
    BY <1>4, <2>1, <2>2, CopiesWell
  <2> HIDE DEF r
  <2>4. v \in State
    <3> DEFINE x == [u EXCEPT !.sent = r]
               y == [x EXCEPT !.seq = u.seq + redundancy]
               z == [y EXCEPT !.red = <<>>]
    <3>1. u.seq + redundancy \in Nat
      BY <2>1
    <3>2. x \in State
      BY <1>1, <2>3 DEF State
    <3>3. y \in State
      BY <3>1, <3>2 DEF State
    <3>4. z \in State
      BY <3>3, Emptied
    <3>5. v = z
      OBVIOUS
    <3> QED
      BY <3>4, <3>5
  <2>5. /\ v.sent = r /\ v.red = <<>> /\ v.ts = u.ts
        /\ v.out = u.out /\ v.aud = u.aud /\ v.asent = u.asent
    BY <1>1 DEF State
  <2>6. AddRedundant(t, b) = v
    BY <1>2, <1>5
  <2> HIDE DEF v
  <2>7. Len(v.red) = 0
    BY <2>5
  <2> QED
    BY <1>1, <2>3, <2>4, <2>5, <2>6, <2>7, PerPktType DEF Room, OfFrame
<1>6. CASE ~(Len(u.red) > PerPkt - 1)
  <2>1. AddRedundant(t, b) = u
    BY <1>2, <1>6
  <2> QED
    BY <1>1, <1>4, <1>6, <2>1, PerPktType DEF Room, OfFrame
<1> QED
  BY <1>5, <1>6

(* The end of a frame leaves nothing in the main buffer. *)
LEMMA FlushWell ==
  ASSUME NEW t, Room(t), NEW f \in Nat
  PROVE  /\ Room(Flush(t))
         /\ OfFrame(t, f) => OfFrame(Flush(t), f + 1)
<1>0. t \in State /\ t.out \in Seq(BlockOf) /\ t.aud \in Seq(BlockOf)
  BY DEF Room, State
<1> DEFINE u == IF t.out # <<>> THEN SendOut(t) ELSE [t EXCEPT !.seq = t.seq + 1]
           v == [u EXCEPT !.ts = u.ts + 1, !.frame = u.frame + 1]
           w == SendAudio(v)
           z == [w EXCEPT !.ats = w.ats + 1]
<1>1. \/ Flush(t) = z /\ v.aud # <<>>
      \/ Flush(t) = v
  BY DEF Flush
<1>2. /\ u \in State /\ Fit(u.sent) /\ u.out = <<>> /\ u.ts = t.ts
      /\ u.red = t.red /\ u.aud = t.aud /\ u.asent = t.asent
      /\ OfFrame(t, f) => OwnTs(u.sent, 1)
  <2>1. CASE t.out # <<>>
    <3>1. Len(t.out) \in 1 .. PerPkt /\ Fit(t.sent)
      BY <1>0, <2>1, PerPktType DEF Room
    <3> QED
      BY <1>0, <2>1, <3>1, SendOutWell DEF OfFrame
  <2>2. CASE t.out = <<>>
    <3>1. u = [t EXCEPT !.seq = t.seq + 1] /\ t.seq + 1 \in Nat
      BY <1>0, <2>2 DEF State
    <3>2. u \in State
      BY <1>0, <3>1 DEF State
    <3>3. /\ u.sent = t.sent /\ u.out = t.out /\ u.ts = t.ts
          /\ u.red = t.red /\ u.aud = t.aud /\ u.asent = t.asent
      BY <1>0, <3>1 DEF State
    <3> QED
      BY <2>2, <3>2, <3>3 DEF Room, OfFrame
  <2> QED
    BY <2>1, <2>2
<1> HIDE DEF u
<1>3. /\ v \in State /\ v.sent = u.sent /\ v.out = u.out /\ v.ts = u.ts + 1
      /\ v.red = u.red /\ v.aud = u.aud /\ v.asent = u.asent
  <2> DEFINE x == [u EXCEPT !.ts = u.ts + 1]
             y == [x EXCEPT !.frame = u.frame + 1]
  <2>1. u.ts + 1 \in Nat /\ u.frame + 1 \in Nat
    BY <1>2 DEF State
  <2>2. x \in State
    BY <1>2, <2>1 DEF State
  <2>3. y \in State
    BY <2>1, <2>2 DEF State
  <2>4. v = y
    OBVIOUS
  <2> QED
    BY <1>2, <2>3, <2>4 DEF State
<1> HIDE DEF v
<1>4. Len(v.out) = 0
  BY <1>2, <1>3
<1>5. Room(v)
  BY <1>2, <1>3, <1>4, PerPktType DEF Room
<1>6. OfFrame(t, f) => OfFrame(v, f + 1)
  BY <1>2, <1>3, <1>4 DEF OfFrame
<1>7. ASSUME v.aud # <<>> PROVE Room(z) /\ (OfFrame(v, f + 1) => OfFrame(z, f + 1))
  <2>1. Len(v.aud) \in 1 .. PerPkt /\ Fit(v.asent)
    <3>1. v.aud \in Seq(BlockOf)
      BY <1>3 DEF State
    <3>2. Len(v.aud) \in Nat \ {0}
      BY <1>7, <3>1
    <3> QED
      BY <1>5, <3>2, PerPktType DEF Room
  <2>2. /\ w \in State /\ Fit(w.asent) /\ w.aud = <<>> /\ w.ts = v.ts
        /\ w.red = v.red /\ w.out = v.out /\ w.sent = v.sent
    BY <1>3, <2>1, SendAudioWell
  <2> HIDE DEF w
  <2>3. w.ats + 1 \in Nat /\ Len(w.aud) = 0
    BY <2>2 DEF State
  <2>4. /\ z \in State /\ z.asent = w.asent /\ z.aud = w.aud /\ z.ts = w.ts
        /\ z.red = w.red /\ z.out = w.out /\ z.sent = w.sent
    BY <2>2, <2>3 DEF State
  <2> HIDE DEF z
  <2> QED
    BY <1>5, <2>2, <2>3, <2>4, PerPktType DEF Room, OfFrame
<1> QED
  BY <1>1, <1>5, <1>6, <1>7
-----------------------------------------------------------------------------
(* A block taken from the bus. *)
LEMMA ProcDvdifWell ==
  ASSUME NEW b \in BlockOf, NEW section, NEW last \in BOOLEAN, Room(s), redundancy \in Nat
  PROVE  /\ Room(ProcDvdif(b, section, last))
         /\ OfFrame(s, b.f) =>
              OfFrame(ProcDvdif(b, section, last), IF last THEN b.f + 1 ELSE b.f)
<1> DEFINE t == IF Keeps(section) THEN AddOut(s, b)
                ELSE IF Separates(section) THEN AddAudio(s, b) ELSE s
           u == IF section = "audio" /\ redundancy > 0 THEN AddRedundant(t, b) ELSE t
<1>1. ProcDvdif(b, section, last) = IF last THEN Flush(u) ELSE u
  BY DEF ProcDvdif
<1>2. Room(t) /\ (OfFrame(s, b.f) => OfFrame(t, b.f))
  BY AddOutWell, AddAudioWell
<1> HIDE DEF t
<1>3. Room(u) /\ (OfFrame(s, b.f) => OfFrame(u, b.f))
  BY <1>2, AddRedundantWell
<1> HIDE DEF u
<1>4. b.f \in Nat
  BY DEF BlockOf
<1>5. Room(Flush(u)) /\ (OfFrame(u, b.f) => OfFrame(Flush(u), b.f + 1))
  BY <1>3, <1>4, FlushWell
<1> QED
  BY <1>1, <1>3, <1>5

RtpInv == /\ Room(s) /\ redundancy \in Nat
          /\ src \in Nat \ {0} /\ pos \in 1 .. Len(Frame)
          /\ EndsSeen => OfFrame(s, src)

LEMMA RtpStep == RtpInv /\ [Next]_vars => RtpInv'
<1> SUFFICES ASSUME RtpInv, [Next]_vars PROVE RtpInv'
  OBVIOUS
<1> USE DEF RtpInv
<1>1. ASSUME Advance
      PROVE  /\ src' = IF pos = Len(Frame) THEN src + 1 ELSE src
             /\ src' \in Nat \ {0} /\ pos' \in 1 .. Len(Frame)
  BY <1>1, FrameAssumption DEF Advance
<1>2. CASE Block
  <2> DEFINE b == [f |-> src, i |-> pos]
             last == pos = Len(Frame)
  <2>1. /\ s' = ProcDvdif(b, Frame[pos], last) /\ Advance
        /\ redundancy' = redundancy /\ missed' = missed
    BY <1>2 DEF Block, options
  <2>2. b \in BlockOf /\ b.f = src
    BY <2>1 DEF Advance, BlockOf
  <2>3. last \in BOOLEAN
    OBVIOUS
  <2>4. /\ Room(s')
        /\ OfFrame(s, src) => OfFrame(s', IF last THEN src + 1 ELSE src)
    BY <2>1, <2>2, <2>3, ProcDvdifWell
  <2>5. EndsSeen' <=> EndsSeen
    BY <2>1 DEF EndsSeen
  <2> QED
    BY <1>1, <2>1, <2>4, <2>5
<1>3. CASE Missing
  <2>1. /\ Advance /\ missed' = missed \cup {[f |-> src, i |-> pos]}
        /\ s' = s /\ redundancy' = redundancy
    BY <1>3 DEF Missing, options
  <2>2. EndsSeen' => EndsSeen /\ pos # Len(Frame)
    <3> DEFINE m == [f |-> src, i |-> pos]
    <3>1. missed' = missed \cup {m} /\ m.i = pos
      BY <2>1
    <3> HIDE DEF m
    <3> QED
      BY <3>1 DEF EndsSeen
  <2> QED
    BY <1>1, <2>1, <2>2
<1>4. CASE Usr1 \/ Usr2 \/ UNCHANGED vars
  BY <1>4 DEF Usr1, Usr2, Signal, vars, options, EndsSeen
<1> QED
  BY <1>2, <1>3, <1>4 DEF Next

LEMMA RtpInvHolds == Spec => []RtpInv
<1>1. Init => RtpInv
  <2> SUFFICES ASSUME Init PROVE RtpInv
    OBVIOUS
  <2>1. /\ redundancy \in Nat /\ src = 1 /\ pos = 1 /\ 1 \in 1 .. Len(Frame)
    BY FrameAssumption, OptionAssumption DEF Init
  <2>2. Apart \in Nat
    BY OptionAssumption DEF Apart
  <2>3. <<>> \in Seq(BlockOf) /\ <<>> \in Seq(PacketOf) /\ Len(<<>>) = 0 /\ DOMAIN <<>> = {}
    OBVIOUS
  <2>4. s \in State
    BY <2>2, <2>3 DEF Init, State
  <2>5. /\ s.out = <<>> /\ s.red = <<>> /\ s.aud = <<>> /\ s.ts = 1
        /\ s.sent = <<>> /\ s.asent = <<>>
    BY DEF Init
  <2>6. Fit(<<>>) /\ OwnTs(<<>>, 1)
    BY DEF Fit, OwnTs
  <2>7. Room(s)
    BY <2>3, <2>4, <2>5, <2>6, PerPktType DEF Room
  <2>8. OfFrame(s, 1)
    BY <2>3, <2>5, <2>6 DEF OfFrame
  <2> QED
    BY <2>1, <2>7, <2>8 DEF RtpInv
<1> QED
  BY <1>1, RtpStep, PTL DEF Spec

(* The buffers of dvsend/rtp.c, of 1500 bytes, are overrun by the packets of a -s
   above 18, which dvsend takes (main.c:211), and by no others. *)
THEOREM EighteenBlocks ==
  ASSUME MAX_PACKET_LENGTH = 1500
  PROVE  Holds(PerPkt) <=> DIFblocks_in_pkt <= 18
  BY SizeAssumption DEF Holds, PerPkt

(* What is no longer than a full packet fits where that fits. *)
LEMMA Smaller ==
  ASSUME NEW n \in Nat, n <= PerPkt, Holds(PerPkt)
  PROVE  Holds(n)
  BY PerPktType, SizeAssumption DEF Holds

LEMMA InvFits == RtpInv => PacketsFit
<1> SUFFICES ASSUME RtpInv, Holds(PerPkt)
             PROVE  InBuffer(s.sent, s.out) /\ InBuffer(s.asent, s.aud) /\ Holds(Len(s.red))
  BY DEF PacketsFit
<1>1. /\ s \in State /\ Fit(s.sent) /\ Fit(s.asent)
      /\ Len(s.out) < PerPkt /\ Len(s.red) < PerPkt /\ Len(s.aud) < PerPkt
  BY DEF RtpInv, Room
<1>2. Len(s.out) \in Nat /\ Len(s.red) \in Nat /\ Len(s.aud) \in Nat
  BY <1>1 DEF State
<1>3. Holds(Len(s.out)) /\ Holds(Len(s.red)) /\ Holds(Len(s.aud))
  BY <1>1, <1>2, Smaller, PerPktType
<1>4. ASSUME NEW q, Fit(q), NEW n \in DOMAIN q PROVE Holds(Len(q[n].blocks))
  <2>1. Len(q[n].blocks) \in 1 .. PerPkt
    BY <1>4 DEF Fit
  <2>2. Len(q[n].blocks) \in Nat /\ Len(q[n].blocks) <= PerPkt
    BY <2>1, PerPktType
  <2> QED
    BY <2>2, Smaller
<1> QED
  BY <1>1, <1>3, <1>4 DEF InBuffer

(* If a packet of as many blocks as the -s option says fits into outbuf, r_outbuf
   and audiobuf of dvsend/rtp.c, no block is stored past the end of one. *)
THEOREM Fits == Spec => []PacketsFit
  BY InvFits, RtpInvHolds, PTL

(* "In RTP, the data from different frame can not be included in a single packet"
   (rtp.c:304): on the main stream no packet but a copy does, and its timestamp is
   that of its frame, as long as the bus delivers the ends of frames. *)
THEOREM OneFramePerPacket == Spec => []StampedMain
<1>1. RtpInv => StampedMain
  BY DEF RtpInv, OfFrame, StampedMain
<1> QED
  BY <1>1, RtpInvHolds, PTL
-----------------------------------------------------------------------------
(* What the steps of the packetiser do to each field, for the proofs below. *)

LEMMA SendOutFields ==
  ASSUME NEW t \in State
  PROVE  /\ SendOut(t).sent = Append(t.sent, Packet(t.seq, t.ts, t.out, FALSE))
         /\ SendOut(t).out = <<>> /\ SendOut(t).frame = t.frame
         /\ SendOut(t).aud = t.aud /\ SendOut(t).asent = t.asent /\ SendOut(t).ats = t.ats
         /\ SendOut(t).seq = t.seq + 1 /\ SendOut(t).ts = t.ts /\ SendOut(t).red = t.red
         /\ SendOut(t).aseq = t.aseq
  BY DEF SendOut, State

LEMMA SendAudioFields ==
  ASSUME NEW t \in State
  PROVE  /\ SendAudio(t).asent = Append(t.asent, Packet(t.aseq, t.ats, t.aud, FALSE))
         /\ SendAudio(t).aud = <<>> /\ SendAudio(t).frame = t.frame
         /\ SendAudio(t).out = t.out /\ SendAudio(t).sent = t.sent /\ SendAudio(t).ats = t.ats
         /\ SendAudio(t).seq = t.seq /\ SendAudio(t).ts = t.ts /\ SendAudio(t).red = t.red
         /\ SendAudio(t).aseq = t.aseq + 1
  BY DEF SendAudio, State

LEMMA AddOutFields ==
  ASSUME NEW t \in State, NEW b \in BlockOf
  PROVE  LET v == AddOut(t, b)
         IN  /\ v.frame = t.frame
             /\ v.aud = t.aud /\ v.asent = t.asent /\ v.ats = t.ats /\ v.aseq = t.aseq
             /\ v.ts = t.ts /\ v.red = t.red
             /\ \/ /\ Len(t.out) + 1 <= PerPkt - 1
                   /\ v.sent = t.sent /\ v.out = Append(t.out, b) /\ v.seq = t.seq
                \/ /\ Len(t.out) + 1 > PerPkt - 1
                   /\ v.sent = Append(t.sent, Packet(t.seq, t.ts, Append(t.out, b), FALSE))
                   /\ v.out = <<>> /\ v.seq = t.seq + 1
<1> DEFINE u == [t EXCEPT !.out = Append(t.out, b)]
<1>1. AddOut(t, b) = IF Len(u.out) > PerPkt - 1 THEN SendOut(u) ELSE u
  BY DEF AddOut
<1>2. Append(t.out, b) \in Seq(BlockOf) /\ Len(Append(t.out, b)) = Len(t.out) + 1
      /\ Len(t.out) \in Nat
  BY DEF State
<1>3. /\ u.out = Append(t.out, b) /\ u.sent = t.sent /\ u.aud = t.aud /\ u.asent = t.asent
      /\ u.ats = t.ats /\ u.frame = t.frame /\ u.seq = t.seq /\ u.ts = t.ts
      /\ u.red = t.red /\ u.aseq = t.aseq
  BY DEF State
<1>4. u \in State
  BY <1>2, BufferType
<1> HIDE DEF u
<1>5. CASE Len(u.out) > PerPkt - 1
  BY <1>1, <1>2, <1>3, <1>4, <1>5, SendOutFields
<1>6. CASE ~(Len(u.out) > PerPkt - 1)
  <2>1. Len(t.out) + 1 <= PerPkt - 1
    BY <1>2, <1>3, <1>6, PerPktType
  <2>2. AddOut(t, b) = u
    BY <1>1, <1>6
  <2> QED
    BY <1>3, <2>1, <2>2
<1> QED
  BY <1>5, <1>6

LEMMA AddAudioFields ==
  ASSUME NEW t \in State, NEW b \in BlockOf
  PROVE  LET v == AddAudio(t, b)
         IN  /\ v.frame = t.frame
             /\ v.out = t.out /\ v.sent = t.sent /\ v.ats = t.ats
             /\ v.ts = t.ts /\ v.seq = t.seq /\ v.red = t.red
             /\ \/ /\ Len(t.aud) + 1 <= PerPkt - 1
                   /\ v.asent = t.asent /\ v.aud = Append(t.aud, b) /\ v.aseq = t.aseq
                \/ /\ Len(t.aud) + 1 > PerPkt - 1
                   /\ v.asent = Append(t.asent, Packet(t.aseq, t.ats, Append(t.aud, b), FALSE))
                   /\ v.aud = <<>> /\ v.aseq = t.aseq + 1
<1> DEFINE u == [t EXCEPT !.aud = Append(t.aud, b)]
<1>1. AddAudio(t, b) = IF Len(u.aud) > PerPkt - 1 THEN SendAudio(u) ELSE u
  BY DEF AddAudio
<1>2. Append(t.aud, b) \in Seq(BlockOf) /\ Len(Append(t.aud, b)) = Len(t.aud) + 1
      /\ Len(t.aud) \in Nat
  BY DEF State
<1>3. /\ u.aud = Append(t.aud, b) /\ u.sent = t.sent /\ u.out = t.out /\ u.asent = t.asent
      /\ u.ats = t.ats /\ u.frame = t.frame /\ u.aseq = t.aseq
      /\ u.ts = t.ts /\ u.seq = t.seq /\ u.red = t.red
  BY DEF State
<1>4. u \in State
  BY <1>2, BufferType
<1> HIDE DEF u
<1>5. CASE Len(u.aud) > PerPkt - 1
  BY <1>1, <1>2, <1>3, <1>4, <1>5, SendAudioFields
<1>6. CASE ~(Len(u.aud) > PerPkt - 1)
  <2>1. Len(t.aud) + 1 <= PerPkt - 1
    BY <1>2, <1>3, <1>6, PerPktType
  <2>2. AddAudio(t, b) = u
    BY <1>1, <1>6
  <2> QED
    BY <1>3, <2>1, <2>2
<1> QED
  BY <1>5, <1>6

LEMMA AddRedundantFields ==
  ASSUME NEW t \in State, NEW b \in BlockOf, redundancy \in Nat
  PROVE  LET v == AddRedundant(t, b)
         IN  /\ v.frame = t.frame /\ v.out = t.out
             /\ v.aud = t.aud /\ v.asent = t.asent /\ v.ats = t.ats /\ v.aseq = t.aseq
             /\ v.ts = t.ts /\ (v.red = Append(t.red, b) \/ v.red = <<>>)
             /\ \E c \in Seq(PacketOf) :
                  /\ v.sent = t.sent \o c /\ v.seq = t.seq + Len(c)
                  /\ \A i \in 1 .. Len(c) :
                       /\ c[i].copy = TRUE /\ c[i].blocks = Append(t.red, b)
                       /\ c[i].ts = t.ts /\ c[i].seq = t.seq + i - 1
<1> DEFINE u == [t EXCEPT !.red = Append(t.red, b)]
           c == [i \in 1 .. redundancy |-> Packet(u.seq + i - 1, u.ts, u.red, TRUE)]
           w == [u EXCEPT !.sent = u.sent \o c, !.seq = u.seq + redundancy, !.red = <<>>]
<1>1. AddRedundant(t, b) = u \/ AddRedundant(t, b) = w
  BY DEF AddRedundant
<1>2. Append(t.red, b) \in Seq(BlockOf)
  BY DEF State
<1>3. /\ u.out = t.out /\ u.sent = t.sent /\ u.aud = t.aud /\ u.asent = t.asent
      /\ u.ats = t.ats /\ u.frame = t.frame /\ u.aseq = t.aseq
      /\ u.ts = t.ts /\ u.seq = t.seq /\ u.red = Append(t.red, b)
  BY DEF State
<1>4. u \in State
  BY <1>2, BufferType
<1> HIDE DEF u
<1>5. /\ c \in Seq(PacketOf) /\ Len(c) = redundancy
      /\ \A i \in 1 .. Len(c) : /\ c[i].copy = TRUE /\ c[i].blocks = u.red
                                /\ c[i].ts = u.ts /\ c[i].seq = u.seq + i - 1
  <2>1. \A i \in 1 .. redundancy :
          LET p == Packet(u.seq + i - 1, u.ts, u.red, TRUE)
          IN  /\ p \in PacketOf /\ p.copy = TRUE /\ p.blocks = u.red
              /\ p.ts = u.ts /\ p.seq = u.seq + i - 1
    <3>1. u.seq \in Nat /\ u.ts \in Nat /\ u.red \in Seq(BlockOf)
      BY <1>4 DEF State
    <3> QED
      BY <3>1 DEF Packet, PacketOf
  <2>2. c \in [1 .. redundancy -> PacketOf]
    BY <2>1
  <2>3. c \in Seq(PacketOf) /\ Len(c) = redundancy
    BY <2>2, SeqOfMap
  <2> QED
    BY <2>1, <2>3
<1> HIDE DEF c
<1>6. /\ w.out = u.out /\ w.sent = u.sent \o c /\ w.aud = u.aud /\ w.asent = u.asent
      /\ w.ats = u.ats /\ w.frame = u.frame /\ w.aseq = u.aseq /\ w.ts = u.ts
      /\ w.red = <<>> /\ w.seq = u.seq + redundancy
  BY <1>4 DEF State
<1> HIDE DEF w
<1>7. <<>> \in Seq(PacketOf) /\ Len(<<>>) = 0 /\ t.sent \o <<>> = t.sent
  BY DEF State
<1>8. CASE AddRedundant(t, b) = u
  <2> DEFINE none == <<>>
  <2>1. none \in Seq(PacketOf) /\ u.sent = t.sent \o none /\ Len(none) = 0
    BY <1>3, <1>7
  <2>2. u.seq = t.seq + Len(none)
    BY <1>3, <2>1 DEF State
  <2>3. \A i \in 1 .. Len(none) : FALSE
    BY <2>1
  <2> HIDE DEF none
  <2> QED
    BY <1>3, <1>8, <2>1, <2>2, <2>3
<1>9. CASE AddRedundant(t, b) = w
  BY <1>3, <1>5, <1>6, <1>9
<1> QED
  BY <1>1, <1>8, <1>9

LEMMA FlushFields ==
  ASSUME NEW t, Room(t)
  PROVE  LET v == Flush(t)
         IN  /\ v.frame = t.frame + 1 /\ v.out = <<>>
             /\ v.ts = t.ts + 1 /\ v.seq = t.seq + 1 /\ v.red = t.red
             /\ \/ t.out = <<>> /\ v.sent = t.sent
                \/ t.out # <<>> /\ v.sent = Append(t.sent, Packet(t.seq, t.ts, t.out, FALSE))
             /\ \/ /\ ~("SEPARATED_AUDIO_STREAM" \in flags /\ t.aud # <<>>)
                   /\ v.aud = t.aud /\ v.asent = t.asent /\ v.ats = t.ats /\ v.aseq = t.aseq
                \/ /\ "SEPARATED_AUDIO_STREAM" \in flags /\ t.aud # <<>>
                   /\ v.aud = <<>> /\ v.ats = t.ats + 1 /\ v.aseq = t.aseq + 1
                   /\ v.asent = Append(t.asent, Packet(t.aseq, t.ats, t.aud, FALSE))
<1> DEFINE u == IF t.out # <<>> THEN SendOut(t) ELSE [t EXCEPT !.seq = t.seq + 1]
           v == [u EXCEPT !.ts = u.ts + 1, !.frame = u.frame + 1]
           w == SendAudio(v)
           z == [w EXCEPT !.ats = w.ats + 1]
<1>0. t \in State /\ t.out \in Seq(BlockOf)
  BY DEF Room, State
<1>1. Flush(t) = IF "SEPARATED_AUDIO_STREAM" \in flags /\ v.aud # <<>> THEN z ELSE v
  BY DEF Flush
<1>2. /\ u \in State /\ u.out = <<>> /\ u.frame = t.frame
      /\ u.aud = t.aud /\ u.asent = t.asent /\ u.ats = t.ats /\ u.aseq = t.aseq
      /\ u.ts = t.ts /\ u.seq = t.seq + 1 /\ u.red = t.red
      /\ \/ t.out = <<>> /\ u.sent = t.sent
         \/ t.out # <<>> /\ u.sent = Append(t.sent, Packet(t.seq, t.ts, t.out, FALSE))
  <2>1. CASE t.out # <<>>
    <3>1. Len(t.out) \in 1 .. PerPkt /\ Fit(t.sent)
      BY <1>0, <2>1, PerPktType DEF Room
    <3>2. SendOut(t) \in State
      BY <1>0, <3>1, SendOutWell
    <3>3. SendOut(t).aseq = t.aseq
      BY <1>0 DEF SendOut, State
    <3> QED
      BY <1>0, <2>1, <3>2, <3>3, SendOutFields
  <2>2. CASE t.out = <<>>
    <3>1. u = [t EXCEPT !.seq = t.seq + 1] /\ t.seq + 1 \in Nat
      BY <1>0, <2>2 DEF State
    <3>2. u \in State
      BY <1>0, <3>1 DEF State
    <3>3. /\ u.sent = t.sent /\ u.out = t.out /\ u.frame = t.frame /\ u.aseq = t.aseq
          /\ u.ats = t.ats /\ u.aud = t.aud /\ u.asent = t.asent
          /\ u.ts = t.ts /\ u.seq = t.seq + 1 /\ u.red = t.red
      BY <1>0, <3>1 DEF State
    <3> QED
      BY <2>2, <3>2, <3>3
  <2> QED
    BY <2>1, <2>2
<1> HIDE DEF u
<1>3. /\ v \in State /\ v.sent = u.sent /\ v.out = u.out /\ v.frame = u.frame + 1
      /\ v.ats = u.ats /\ v.aud = u.aud /\ v.asent = u.asent /\ v.aseq = u.aseq
      /\ v.ts = u.ts + 1 /\ v.seq = u.seq /\ v.red = u.red
  <2> DEFINE x == [u EXCEPT !.ts = u.ts + 1]
             y == [x EXCEPT !.frame = u.frame + 1]
  <2>1. u.ts + 1 \in Nat /\ u.frame + 1 \in Nat
    BY <1>2 DEF State
  <2>2. x \in State
    BY <1>2, <2>1 DEF State
  <2>3. y \in State
    BY <2>1, <2>2 DEF State
  <2>4. v = y
    OBVIOUS
  <2> QED
    BY <1>2, <2>3, <2>4 DEF State
<1> HIDE DEF v
<1>4. CASE ~("SEPARATED_AUDIO_STREAM" \in flags /\ v.aud # <<>>)
  BY <1>1, <1>2, <1>3, <1>4
<1>5. CASE "SEPARATED_AUDIO_STREAM" \in flags /\ v.aud # <<>>
  <2>1. /\ w.asent = Append(v.asent, Packet(v.aseq, v.ats, v.aud, FALSE))
        /\ w.aud = <<>> /\ w.frame = v.frame /\ w.out = v.out /\ w.sent = v.sent
        /\ w.ats = v.ats /\ w.aseq = v.aseq + 1
        /\ w.ts = v.ts /\ w.seq = v.seq /\ w.red = v.red
    BY <1>3, SendAudioFields
  <2>2. w \in State
    <3>1. Len(v.aud) \in 1 .. PerPkt /\ Fit(v.asent)
      <4>1. v.aud \in Seq(BlockOf) /\ t.aud \in Seq(BlockOf)
        BY <1>0, <1>3 DEF State
      <4>2. Len(v.aud) \in Nat \ {0}
        BY <1>5, <4>1
      <4> QED
        BY <1>2, <1>3, <4>2, PerPktType DEF Room
    <3> QED
      BY <1>3, <3>1, SendAudioWell
  <2> HIDE DEF w
  <2>3. /\ z.asent = w.asent /\ z.aud = w.aud /\ z.frame = w.frame /\ z.out = w.out
        /\ z.sent = w.sent /\ z.ats = w.ats + 1 /\ z.aseq = w.aseq
        /\ z.ts = w.ts /\ z.seq = w.seq /\ z.red = w.red
    BY <2>2 DEF State
  <2> HIDE DEF z
  <2> QED
    BY <1>1, <1>2, <1>3, <1>5, <2>1, <2>3
<1> QED
  BY <1>4, <1>5
-----------------------------------------------------------------------------
(* Every block let through is sent once, in the order of the bus. *)

Precede(A, B) == \A b \in A, c \in B : Before(b, c)
Climbs(q)     == \A m, n \in 1 .. Len(q) : m < n => Before(q[m], q[n])
Orig(packets) == {n \in 1 .. Len(packets) : ~packets[n].copy}
Carry(packets) == UNION {Range(packets[n].blocks) : n \in Orig(packets)}
Sorted(packets) ==
  \A n \in Orig(packets) :
    /\ Climbs(packets[n].blocks)
    /\ \A m \in Orig(packets) :
         n < m => Precede(Range(packets[n].blocks), Range(packets[m].blocks))

(* NothingLost for one stream, with every pair of blocks compared and not only
   neighbours, so that a packet can be put at the end. *)
Turn(packets, buffer, all) ==
  /\ Range(all) = Carry(packets) \cup Range(buffer)
  /\ Climbs(buffer) /\ Sorted(packets) /\ Precede(Carry(packets), Range(buffer))

LEMMA RangeAppend ==
  ASSUME NEW S, NEW q \in Seq(S), NEW x \in S
  PROVE  Range(Append(q, x)) = Range(q) \cup {x}
<1> DEFINE r == Append(q, x)
<1>1. /\ DOMAIN q = 1 .. Len(q) /\ DOMAIN r = 1 .. Len(q) + 1 /\ Len(q) \in Nat
      /\ r[Len(q) + 1] = x /\ \A n \in 1 .. Len(q) : r[n] = q[n]
  OBVIOUS
<1> HIDE DEF r
<1>2. Range(r) \subseteq Range(q) \cup {x}
  <2> SUFFICES ASSUME NEW n \in 1 .. Len(q) + 1 PROVE r[n] \in Range(q) \cup {x}
    BY <1>1 DEF Range
  <2> QED
    BY <1>1 DEF Range
<1>3. Range(q) \subseteq Range(r)
  <2> SUFFICES ASSUME NEW n \in 1 .. Len(q) PROVE q[n] \in Range(r)
    BY <1>1 DEF Range
  <2> QED
    BY <1>1 DEF Range
<1>4. x \in Range(r)
  BY <1>1 DEF Range
<1> QED
  BY <1>2, <1>3, <1>4 DEF r

LEMMA RangeEmpty == Range(<<>>) = {} /\ Climbs(<<>>)
<1>1. DOMAIN <<>> = {} /\ Len(<<>>) = 0
  OBVIOUS
<1> QED
  BY <1>1 DEF Range, Climbs

LEMMA TurnAppend ==
  ASSUME NEW P, NEW buffer \in Seq(BlockOf), NEW all \in Seq(BlockOf), NEW b \in BlockOf,
         Turn(P, buffer, all), \A c \in Range(all) : Before(c, b)
  PROVE  Turn(P, Append(buffer, b), Append(all, b))
<1> DEFINE q == Append(buffer, b)
<1>1. Range(q) = Range(buffer) \cup {b} /\ Range(Append(all, b)) = Range(all) \cup {b}
  BY RangeAppend
<1>2. /\ Len(q) = Len(buffer) + 1 /\ Len(buffer) \in Nat
      /\ q[Len(buffer) + 1] = b /\ \A n \in 1 .. Len(buffer) : q[n] = buffer[n]
  OBVIOUS
<1>3. \A n \in 1 .. Len(buffer) : Before(buffer[n], b)
  <2> TAKE n \in 1 .. Len(buffer)
  <2>1. buffer[n] \in Range(buffer)
    BY DEF Range
  <2> QED
    BY <2>1 DEF Turn
<1> HIDE DEF q
<1>4. Climbs(q)
  <2> SUFFICES ASSUME NEW m \in 1 .. Len(q), NEW n \in 1 .. Len(q), m < n
               PROVE  Before(q[m], q[n])
    BY DEF Climbs
  <2>1. m \in 1 .. Len(buffer)
    BY <1>2
  <2>2. CASE n = Len(buffer) + 1
    BY <1>2, <1>3, <2>1, <2>2
  <2>3. CASE n # Len(buffer) + 1
    BY <1>2, <2>1, <2>3 DEF Turn, Climbs
  <2> QED
    BY <2>2, <2>3
<1>5. Precede(Carry(P), Range(q))
  BY <1>1 DEF Turn, Precede
<1> QED
  BY <1>1, <1>4, <1>5 DEF Turn, q

(* An original put behind all others. *)
LEMMA CarryAppend ==
  ASSUME NEW P \in Seq(PacketOf), NEW p \in PacketOf, ~p.copy
  PROVE  /\ Carry(Append(P, p)) = Carry(P) \cup Range(p.blocks)
         /\ Sorted(P) /\ Climbs(p.blocks) /\ Precede(Carry(P), Range(p.blocks))
              => Sorted(Append(P, p))
<1> DEFINE Q == Append(P, p)
           last == Len(P) + 1
<1>1. /\ Len(Q) = last /\ Len(P) \in Nat /\ last \in 1 .. last
      /\ Q[last] = p /\ \A n \in 1 .. Len(P) : Q[n] = P[n]
  OBVIOUS
<1> HIDE DEF Q
<1>2. /\ Orig(Q) = Orig(P) \cup {last} /\ last \notin Orig(P)
      /\ \A n \in Orig(P) : Q[n] = P[n] /\ n < last
  BY <1>1 DEF Orig
<1> HIDE DEF last
<1>3. Carry(Q) = Carry(P) \cup Range(p.blocks)
  <2>1. ASSUME NEW x, x \in Carry(Q) PROVE x \in Carry(P) \cup Range(p.blocks)
    <3>1. PICK n \in Orig(Q) : x \in Range(Q[n].blocks)
      BY <2>1 DEF Carry
    <3> QED
      BY <1>1, <1>2, <3>1 DEF Carry
  <2>2. ASSUME NEW x, x \in Carry(P) PROVE x \in Carry(Q)
    <3>1. PICK n \in Orig(P) : x \in Range(P[n].blocks)
      BY <2>2 DEF Carry
    <3> QED
      BY <1>2, <3>1 DEF Carry
  <2>3. Range(p.blocks) \subseteq Carry(Q)
    BY <1>1, <1>2 DEF Carry
  <2> QED
    BY <2>1, <2>2, <2>3
<1>4. ASSUME Sorted(P), Climbs(p.blocks), Precede(Carry(P), Range(p.blocks))
      PROVE  Sorted(Q)
  <2>1. \A n \in Orig(Q) : Climbs(Q[n].blocks)
    BY <1>1, <1>2, <1>4 DEF Sorted
  <2>2. ASSUME NEW n \in Orig(Q), NEW m \in Orig(Q), n < m
        PROVE  Precede(Range(Q[n].blocks), Range(Q[m].blocks))
    <3>1. n \in Orig(P)
      BY <1>1, <1>2, <2>2 DEF last, Orig
    <3>2. CASE m \in Orig(P)
      BY <1>2, <1>4, <2>2, <3>1, <3>2 DEF Sorted
    <3>3. CASE m = last
      <4>1. Range(P[n].blocks) \subseteq Carry(P)
        BY <3>1 DEF Carry
      <4> QED
        BY <1>1, <1>2, <1>4, <3>1, <3>3, <4>1 DEF Precede
    <3> QED
      BY <1>2, <3>2, <3>3
  <2> QED
    BY <2>1, <2>2 DEF Sorted
<1> QED
  BY <1>3, <1>4 DEF Q

LEMMA TurnSend ==
  ASSUME NEW P \in Seq(PacketOf), NEW buffer \in Seq(BlockOf), NEW all,
         NEW p \in PacketOf, p.blocks = buffer, ~p.copy, Turn(P, buffer, all)
  PROVE  Turn(Append(P, p), <<>>, all)
<1>1. /\ Carry(Append(P, p)) = Carry(P) \cup Range(buffer)
      /\ Sorted(Append(P, p))
  BY CarryAppend DEF Turn
<1> QED
  BY <1>1, RangeEmpty DEF Turn, Precede

(* Copies do not count. *)
LEMMA TurnCopies ==
  ASSUME NEW P \in Seq(PacketOf), NEW c \in Seq(PacketOf), NEW buffer, NEW all,
         \A i \in 1 .. Len(c) : c[i].copy = TRUE, Turn(P, buffer, all)
  PROVE  Turn(P \o c, buffer, all)
<1> DEFINE Q == P \o c
<1>1. /\ Len(Q) = Len(P) + Len(c) /\ Len(P) \in Nat /\ Len(c) \in Nat
      /\ \A n \in 1 .. Len(P) + Len(c) : Q[n] = IF n <= Len(P) THEN P[n] ELSE c[n - Len(P)]
  OBVIOUS
<1> HIDE DEF Q
<1>2. Orig(Q) = Orig(P) /\ \A n \in Orig(P) : Q[n] = P[n]
  <2>1. \A n \in 1 .. Len(P) : Q[n] = P[n] /\ n \in 1 .. Len(Q)
    BY <1>1
  <2>2. ASSUME NEW n \in 1 .. Len(Q), n \notin 1 .. Len(P) PROVE Q[n].copy = TRUE
    <3>1. n - Len(P) \in 1 .. Len(c) /\ Q[n] = c[n - Len(P)]
      BY <1>1, <2>2
    <3> QED
      BY <3>1
  <2> QED
    BY <2>1, <2>2 DEF Orig
<1>3. Carry(Q) = Carry(P) /\ Sorted(Q)
  <2>1. {Range(Q[n].blocks) : n \in Orig(Q)} = {Range(P[n].blocks) : n \in Orig(P)}
    BY <1>2
  <2>2. Sorted(Q)
    BY <1>2 DEF Sorted, Turn
  <2> QED
    BY <2>1, <2>2 DEF Carry
<1> QED
  BY <1>3 DEF Turn, Q

LEMMA PacketFields ==
  ASSUME NEW seq \in Nat, NEW ts \in Nat, NEW x \in Seq(BlockOf)
  PROVE  LET p == Packet(seq, ts, x, FALSE)
         IN  p \in PacketOf /\ p.blocks = x /\ p.ts = ts /\ ~p.copy
  BY DEF Packet, PacketOf

LEMMA AddOutTurn ==
  ASSUME NEW t \in State, NEW b \in BlockOf, NEW all \in Seq(BlockOf),
         Turn(t.sent, t.out, all), \A c \in Range(all) : Before(c, b)
  PROVE  Turn(AddOut(t, b).sent, AddOut(t, b).out, Append(all, b))
<1> DEFINE v == AddOut(t, b)
           x == Append(t.out, b)
           p == Packet(t.seq, t.ts, x, FALSE)
<1>1. /\ t.sent \in Seq(PacketOf) /\ t.out \in Seq(BlockOf) /\ x \in Seq(BlockOf)
      /\ t.seq \in Nat /\ t.ts \in Nat
  BY DEF State
<1>2. \/ v.sent = t.sent /\ v.out = x
      \/ v.sent = Append(t.sent, p) /\ v.out = <<>>
  BY AddOutFields
<1>3. p \in PacketOf /\ p.blocks = x /\ ~p.copy
  BY <1>1, PacketFields
<1>4. Turn(t.sent, x, Append(all, b))
  BY <1>1, TurnAppend
<1> HIDE DEF v, x, p
<1>5. Turn(Append(t.sent, p), <<>>, Append(all, b))
  BY <1>1, <1>3, <1>4, TurnSend
<1> QED
  BY <1>2, <1>4, <1>5 DEF v

LEMMA AddAudioTurn ==
  ASSUME NEW t \in State, NEW b \in BlockOf, NEW all \in Seq(BlockOf),
         Turn(t.asent, t.aud, all), \A c \in Range(all) : Before(c, b)
  PROVE  Turn(AddAudio(t, b).asent, AddAudio(t, b).aud, Append(all, b))
<1> DEFINE v == AddAudio(t, b)
           x == Append(t.aud, b)
           p == Packet(t.aseq, t.ats, x, FALSE)
<1>1. /\ t.asent \in Seq(PacketOf) /\ t.aud \in Seq(BlockOf) /\ x \in Seq(BlockOf)
      /\ t.aseq \in Nat /\ t.ats \in Nat
  BY DEF State
<1>2. \/ v.asent = t.asent /\ v.aud = x
      \/ v.asent = Append(t.asent, p) /\ v.aud = <<>>
  BY AddAudioFields
<1>3. p \in PacketOf /\ p.blocks = x /\ ~p.copy
  BY <1>1, PacketFields
<1>4. Turn(t.asent, x, Append(all, b))
  BY <1>1, TurnAppend
<1> HIDE DEF v, x, p
<1>5. Turn(Append(t.asent, p), <<>>, Append(all, b))
  BY <1>1, <1>3, <1>4, TurnSend
<1> QED
  BY <1>2, <1>4, <1>5 DEF v

LEMMA AddRedundantTurn ==
  ASSUME NEW t \in State, NEW b \in BlockOf, redundancy \in Nat, NEW all,
         Turn(t.sent, t.out, all)
  PROVE  Turn(AddRedundant(t, b).sent, AddRedundant(t, b).out, all)
<1> DEFINE v == AddRedundant(t, b)
<1>1. PICK c \in Seq(PacketOf) : /\ v.sent = t.sent \o c
                                 /\ \A i \in 1 .. Len(c) : c[i].copy = TRUE
  BY AddRedundantFields
<1>2. v.out = t.out /\ t.sent \in Seq(PacketOf)
  BY AddRedundantFields DEF State
<1> HIDE DEF v
<1>3. Turn(t.sent \o c, t.out, all)
  BY <1>1, <1>2, TurnCopies
<1> QED
  BY <1>1, <1>2, <1>3 DEF v

LEMMA FlushTurn ==
  ASSUME NEW t, Room(t), NEW all, NEW aall, Turn(t.sent, t.out, all), Turn(t.asent, t.aud, aall)
  PROVE  /\ Turn(Flush(t).sent, Flush(t).out, all)
         /\ Turn(Flush(t).asent, Flush(t).aud, aall)
<1> DEFINE v == Flush(t)
           p == Packet(t.seq, t.ts, t.out, FALSE)
           a == Packet(t.aseq, t.ats, t.aud, FALSE)
<1>1. /\ v.out = <<>>
      /\ \/ t.out = <<>> /\ v.sent = t.sent
         \/ v.sent = Append(t.sent, p)
      /\ \/ v.aud = t.aud /\ v.asent = t.asent
         \/ v.aud = <<>> /\ v.asent = Append(t.asent, a)
  BY FlushFields
<1>2. /\ t.sent \in Seq(PacketOf) /\ t.asent \in Seq(PacketOf)
      /\ t.out \in Seq(BlockOf) /\ t.aud \in Seq(BlockOf)
      /\ t.seq \in Nat /\ t.ts \in Nat /\ t.aseq \in Nat /\ t.ats \in Nat
  BY DEF Room, State
<1>3. p \in PacketOf /\ p.blocks = t.out /\ ~p.copy
  BY <1>2, PacketFields
<1>4. a \in PacketOf /\ a.blocks = t.aud /\ ~a.copy
  BY <1>2, PacketFields
<1> HIDE DEF v, p, a
<1>5. Turn(Append(t.sent, p), <<>>, all) /\ Turn(Append(t.asent, a), <<>>, aall)
  BY <1>2, <1>3, <1>4, TurnSend
<1>6. Turn(v.sent, v.out, all)
  BY <1>1, <1>5
<1>7. Turn(v.asent, v.aud, aall)
  BY <1>1, <1>5
<1> QED
  BY <1>6, <1>7 DEF v

(* What the packetiser holds after a block are the blocks let through, that
   one included. *)
LEMMA ProcDvdifTurn ==
  ASSUME NEW b \in BlockOf, NEW section, NEW last \in BOOLEAN, Room(s), redundancy \in Nat,
         kept \in Seq(BlockOf), akept \in Seq(BlockOf),
         Turn(s.sent, s.out, kept), Turn(s.asent, s.aud, akept),
         \A c \in Range(kept) \cup Range(akept) : Before(c, b)
  PROVE  LET v == ProcDvdif(b, section, last)
         IN  /\ Turn(v.sent, v.out, IF Keeps(section) THEN Append(kept, b) ELSE kept)
             /\ Turn(v.asent, v.aud, IF Separates(section) THEN Append(akept, b) ELSE akept)
<1> DEFINE k == IF Keeps(section) THEN Append(kept, b) ELSE kept
           a == IF Separates(section) THEN Append(akept, b) ELSE akept
           Both(t) == Turn(t.sent, t.out, k) /\ Turn(t.asent, t.aud, a)
           t == IF Keeps(section) THEN AddOut(s, b)
                ELSE IF Separates(section) THEN AddAudio(s, b) ELSE s
           u == IF section = "audio" /\ redundancy > 0 THEN AddRedundant(t, b) ELSE t
<1>1. ProcDvdif(b, section, last) = IF last THEN Flush(u) ELSE u
  BY DEF ProcDvdif
<1>2. ~(Keeps(section) /\ Separates(section))
  BY DEF Keeps, Separates
<1>3. s \in State
  BY DEF Room
<1>4. Room(t) /\ Both(t)
  <2>1. CASE Keeps(section)
    <3>1. t = AddOut(s, b) /\ k = Append(kept, b) /\ a = akept
      BY <1>2, <2>1
    <3>2. AddOut(s, b).asent = s.asent /\ AddOut(s, b).aud = s.aud
      BY <1>3, AddOutFields
    <3> HIDE DEF t, k, a
    <3> QED
      BY <1>3, <3>1, <3>2, AddOutTurn, AddOutWell
  <2>2. CASE Separates(section)
    <3>1. t = AddAudio(s, b) /\ k = kept /\ a = Append(akept, b)
      BY <1>2, <2>2
    <3>2. AddAudio(s, b).sent = s.sent /\ AddAudio(s, b).out = s.out
      BY <1>3, AddAudioFields
    <3> HIDE DEF t, k, a
    <3> QED
      BY <1>3, <3>1, <3>2, AddAudioTurn, AddAudioWell
  <2>3. CASE ~Keeps(section) /\ ~Separates(section)
    BY <2>3
  <2> QED
    BY <2>1, <2>2, <2>3
<1> HIDE DEF t, k, a
<1>5. Room(u) /\ Both(u)
  <2>1. t \in State
    BY <1>4 DEF Room
  <2>2. /\ Room(AddRedundant(t, b))
        /\ AddRedundant(t, b).aud = t.aud /\ AddRedundant(t, b).asent = t.asent
    BY <1>4, <2>1, AddRedundantWell, AddRedundantFields
  <2>3. Turn(AddRedundant(t, b).sent, AddRedundant(t, b).out, k)
    BY <1>4, <2>1, AddRedundantTurn
  <2> QED
    BY <1>4, <2>2, <2>3
<1> HIDE DEF u
<1>6. Both(Flush(u))
  BY <1>5, FlushTurn
<1> QED
  BY <1>1, <1>5, <1>6 DEF k, a

(* And they come before the next block of the bus. *)
Behindhand(all) == \A c \in Range(all) : Before(c, [f |-> src, i |-> pos])
TurnInv == /\ kept \in Seq(BlockOf) /\ akept \in Seq(BlockOf)
           /\ Turn(s.sent, s.out, kept) /\ Turn(s.asent, s.aud, akept)
           /\ Behindhand(kept) /\ Behindhand(akept)

LEMMA AdvanceBefore ==
  ASSUME Advance, src \in Nat, pos \in 1 .. Len(Frame), NEW c
  PROVE  LET here  == [f |-> src, i |-> pos]
             there == [f |-> src', i |-> pos']
         IN  Before(here, there) /\ (c \in BlockOf /\ Before(c, here) => Before(c, there))
<1>1. \/ pos' = 1 /\ src' = src + 1
      \/ pos' = pos + 1 /\ src' = src
  BY DEF Advance
<1>2. Len(Frame) \in Nat
  BY FrameAssumption
<1> QED
  BY <1>1, <1>2 DEF Before, BlockOf

LEMMA TurnInvHolds == Spec => []TurnInv
<1>1. Init => TurnInv
  <2> SUFFICES ASSUME Init PROVE TurnInv
    OBVIOUS
  <2>1. /\ s.out = <<>> /\ s.aud = <<>> /\ s.sent = <<>> /\ s.asent = <<>>
        /\ kept = <<>> /\ akept = <<>>
    BY DEF Init
  <2>2. <<>> \in Seq(BlockOf) /\ Len(<<>>) = 0
    OBVIOUS
  <2>3. Orig(<<>>) = {}
    BY <2>2 DEF Orig
  <2>4. Carry(<<>>) = {} /\ Sorted(<<>>)
    BY <2>3 DEF Carry, Sorted
  <2>5. Turn(<<>>, <<>>, <<>>)
    BY <2>4, RangeEmpty DEF Turn, Precede
  <2> QED
    BY <2>1, <2>2, <2>5, RangeEmpty DEF TurnInv, Behindhand
<1>2. RtpInv /\ TurnInv /\ [Next]_vars => TurnInv'
  <2> SUFFICES ASSUME RtpInv, TurnInv, [Next]_vars PROVE TurnInv'
    OBVIOUS
  <2> DEFINE b == [f |-> src, i |-> pos]
  <2>1. /\ src \in Nat /\ pos \in 1 .. Len(Frame) /\ Room(s) /\ redundancy \in Nat
        /\ Advance => b \in BlockOf
    BY DEF RtpInv, Advance, BlockOf
  <2>2. ASSUME Advance, NEW all, all \in Seq(BlockOf), Behindhand(all)
        PROVE  /\ \A c \in Range(all) : Before(c, [f |-> src', i |-> pos'])
               /\ \A c \in Range(Append(all, b)) : Before(c, [f |-> src', i |-> pos'])
    <3>1. Range(Append(all, b)) = Range(all) \cup {b}
      BY <2>1, <2>2, RangeAppend
    <3>2. \A c \in Range(all) : c \in BlockOf
      BY <2>2 DEF Range
    <3> QED
      BY <2>1, <2>2, <3>1, <3>2, AdvanceBefore DEF Behindhand
  <2>3. CASE Block
    <3> DEFINE section == Frame[pos]
               last == pos = Len(Frame)
               v == ProcDvdif(b, section, last)
    <3>1. /\ s' = v /\ Advance
          /\ kept' = IF Keeps(section) THEN Append(kept, b) ELSE kept
          /\ akept' = IF Separates(section) THEN Append(akept, b) ELSE akept
      BY <2>3 DEF Block
    <3>2. last \in BOOLEAN /\ \A c \in Range(kept) \cup Range(akept) : Before(c, b)
      BY DEF TurnInv, Behindhand
    <3> HIDE DEF b, last, section
    <3>3. Turn(v.sent, v.out, kept') /\ Turn(v.asent, v.aud, akept')
      BY <2>1, <3>1, <3>2, ProcDvdifTurn DEF TurnInv
    <3>4. kept' \in Seq(BlockOf) /\ akept' \in Seq(BlockOf)
      BY <2>1, <3>1 DEF TurnInv
    <3>5. Behindhand(kept)' /\ Behindhand(akept)'
      BY <2>2, <3>1 DEF TurnInv, Behindhand
    <3> QED
      BY <3>1, <3>3, <3>4, <3>5 DEF TurnInv
  <2>4. CASE Missing
    <3>1. Advance /\ s' = s /\ kept' = kept /\ akept' = akept
      BY <2>4 DEF Missing
    <3>2. Behindhand(kept)' /\ Behindhand(akept)'
      BY <2>2, <3>1 DEF TurnInv, Behindhand
    <3> QED
      BY <3>1, <3>2 DEF TurnInv
  <2>5. CASE Usr1 \/ Usr2 \/ UNCHANGED vars
    <3>1. UNCHANGED <<s, kept, akept, src, pos>>
      BY <2>5 DEF Usr1, Usr2, Signal, vars
    <3> QED
      BY <3>1 DEF TurnInv, Behindhand
  <2> QED
    BY <2>3, <2>4, <2>5 DEF Next
<1> QED
  BY <1>1, <1>2, RtpInvHolds, PTL DEF Spec

LEMMA TurnIsInTurn ==
  ASSUME NEW packets \in Seq(PacketOf), NEW buffer \in Seq(BlockOf), NEW all,
         Turn(packets, buffer, all)
  PROVE  InTurn(packets, buffer, all)
<1>1. DOMAIN packets = 1 .. Len(packets)
      /\ \A n \in 1 .. Len(packets) : packets[n].blocks \in Seq(BlockOf)
  <2>1. \A n \in 1 .. Len(packets) : packets[n] \in PacketOf
    OBVIOUS
  <2> QED
    BY <2>1 DEF PacketOf
<1>2. ASSUME NEW q \in Seq(BlockOf), Climbs(q) PROVE Rising(q)
  <2>1. \A m \in 1 .. Len(q) - 1 : m \in 1 .. Len(q) /\ m + 1 \in 1 .. Len(q) /\ m < m + 1
    BY LenProperties
  <2> QED
    BY <1>2, <2>1 DEF Climbs, Rising
<1>3. ASSUME NEW q \in Seq(BlockOf), NEW r \in Seq(BlockOf), Precede(Range(q), Range(r))
      PROVE  Behind(q, r)
  <2> SUFFICES ASSUME q # <<>>, r # <<>> PROVE Before(Last(q), Head(r))
    BY DEF Behind
  <2>1. Last(q) = q[Len(q)] /\ Head(r) = r[1] /\ Len(q) \in DOMAIN q /\ 1 \in DOMAIN r
    BY DEF Last
  <2>2. Last(q) \in Range(q) /\ Head(r) \in Range(r)
    BY <2>1 DEF Range
  <2> QED
    BY <1>3, <2>2 DEF Precede
<1>4. Orig(packets) = {n \in DOMAIN packets : ~packets[n].copy}
  BY <1>1 DEF Orig
<1>5. \A n \in Orig(packets) : packets[n].blocks \in Seq(BlockOf)
  BY <1>1 DEF Orig
<1>6. ASSUME NEW n \in Orig(packets)
      PROVE  /\ Rising(packets[n].blocks) /\ Behind(packets[n].blocks, buffer)
             /\ \A m \in Orig(packets) : n < m => Behind(packets[n].blocks, packets[m].blocks)
  <2>1. Range(packets[n].blocks) \subseteq Carry(packets)
    BY DEF Carry
  <2>2. Precede(Range(packets[n].blocks), Range(buffer))
    BY <2>1 DEF Turn, Precede
  <2> QED
    BY <1>2, <1>3, <1>5, <2>2 DEF Turn, Sorted
<1>7. Rising(buffer)
  BY <1>2 DEF Turn
<1> QED
  BY <1>4, <1>6, <1>7 DEF Turn, Carry, InTurn

(* Whatever the other options, the signals and the bus do, if packets of the size
   asked for fit into the buffers: the packets of a stream and the buffer hold
   every block the handlers of dvsend/rtp.c let through, none of them twice, in the
   order of the bus, and nothing is stored past the end of a buffer. *)
THEOREM SentOnce == Spec => []NothingLost
<1>1. RtpInv /\ TurnInv => NothingLost
  <2> SUFFICES ASSUME RtpInv, TurnInv PROVE NothingLost
    OBVIOUS
  <2>1. /\ s.sent \in Seq(PacketOf) /\ s.asent \in Seq(PacketOf)
        /\ s.out \in Seq(BlockOf) /\ s.aud \in Seq(BlockOf)
    BY DEF RtpInv, Room, State
  <2> QED
    BY <2>1, TurnIsInTurn, InvFits DEF TurnInv, NothingLost
<1> QED
  BY <1>1, RtpInvHolds, TurnInvHolds, PTL
-----------------------------------------------------------------------------
(* The separate audio stream. *)

(* A block passes at most one of the two buffers, then perhaps that of the
   copies; what that does to the audio stream.  Then the frame may end. *)
Passed(u, b, section) ==
  /\ Room(u) /\ u.frame = s.frame /\ u.ats = s.ats
  /\ \/ ~Separates(section) /\ u.aud = s.aud /\ u.asent = s.asent
     \/ /\ Separates(section) /\ Len(s.aud) + 1 <= PerPkt - 1
        /\ u.asent = s.asent /\ u.aud = Append(s.aud, b)
     \/ /\ Separates(section) /\ Len(s.aud) + 1 > PerPkt - 1 /\ u.aud = <<>>
        /\ u.asent = Append(s.asent, Packet(s.aseq, s.ats, Append(s.aud, b), FALSE))

LEMMA ProcDvdifAudio ==
  ASSUME NEW b \in BlockOf, NEW section, NEW last \in BOOLEAN, Room(s), redundancy \in Nat
  PROVE  \E u : /\ Passed(u, b, section)
                /\ ProcDvdif(b, section, last) = IF last THEN Flush(u) ELSE u
<1> DEFINE t == IF Keeps(section) THEN AddOut(s, b)
                ELSE IF Separates(section) THEN AddAudio(s, b) ELSE s
           u == IF section = "audio" /\ redundancy > 0 THEN AddRedundant(t, b) ELSE t
<1>1. ProcDvdif(b, section, last) = IF last THEN Flush(u) ELSE u
  BY DEF ProcDvdif
<1>2. ~(Keeps(section) /\ Separates(section))
  BY DEF Keeps, Separates
<1>3. s \in State
  BY DEF Room
<1>4. Passed(t, b, section)
  <2>1. CASE Keeps(section)
    <3>1. t = AddOut(s, b)
      BY <2>1
    <3> HIDE DEF t
    <3> QED
      BY <1>2, <1>3, <2>1, <3>1, AddOutFields, AddOutWell DEF Passed
  <2>2. CASE Separates(section)
    <3>1. t = AddAudio(s, b)
      BY <1>2, <2>2
    <3> HIDE DEF t
    <3> QED
      BY <1>3, <2>2, <3>1, AddAudioFields, AddAudioWell DEF Passed
  <2>3. CASE ~Keeps(section) /\ ~Separates(section)
    BY <2>3 DEF Passed
  <2> QED
    BY <2>1, <2>2, <2>3
<1> HIDE DEF t
<1>5. Passed(u, b, section)
  <2>1. t \in State
    BY <1>4 DEF Passed, Room
  <2>2. /\ Room(AddRedundant(t, b)) /\ AddRedundant(t, b).frame = t.frame
        /\ AddRedundant(t, b).aud = t.aud /\ AddRedundant(t, b).asent = t.asent
        /\ AddRedundant(t, b).ats = t.ats
    BY <1>4, <2>1, AddRedundantWell, AddRedundantFields DEF Passed
  <2> QED
    BY <1>4, <2>2 DEF Passed
<1> HIDE DEF u
<1> QED
  BY <1>1, <1>5

AudioCount(n) == Cardinality({i \in 1 .. n : Frame[i] = "audio"})

LEMMA CountStep ==
  ASSUME NEW n \in Nat
  PROVE  /\ AudioCount(n) \in Nat /\ AudioCount(0) = 0
         /\ AudioCount(n + 1) = AudioCount(n) + (IF Frame[n + 1] = "audio" THEN 1 ELSE 0)
<1> DEFINE S(m) == {i \in 1 .. m : Frame[i] = "audio"}
<1>1. IsFiniteSet(S(n)) /\ Cardinality(S(n)) \in Nat
  <2>1. IsFiniteSet(1 .. n) /\ S(n) \subseteq 1 .. n
    BY FS_Interval
  <2> HIDE DEF S
  <2>2. IsFiniteSet(S(n))
    BY <2>1, FS_Subset
  <2> QED
    BY <2>2, FS_CardinalityType
<1>2. S(0) = {}
  OBVIOUS
<1>3. S(n + 1) = IF Frame[n + 1] = "audio" THEN S(n) \cup {n + 1} ELSE S(n)
  <2>1. 1 .. n + 1 = 1 .. n \cup {n + 1}
    OBVIOUS
  <2> QED
    BY <2>1
<1>4. n + 1 \notin S(n)
  OBVIOUS
<1> HIDE DEF S
<1>5. Cardinality(S(n) \cup {n + 1}) = Cardinality(S(n)) + 1
  BY <1>1, <1>4, FS_AddElement
<1>6. Cardinality(S(0)) = 0
  BY <1>2, FS_EmptySet
<1>7. AudioCount(n) = Cardinality(S(n)) /\ AudioCount(n + 1) = Cardinality(S(n + 1))
      /\ AudioCount(0) = Cardinality(S(0))
  BY DEF AudioCount, S
<1>8. CASE Frame[n + 1] = "audio"
  BY <1>1, <1>3, <1>5, <1>6, <1>7, <1>8
<1>9. CASE Frame[n + 1] # "audio"
  BY <1>1, <1>3, <1>6, <1>7, <1>9
<1> QED
  BY <1>8, <1>9

LEMMA WholeMultiple ==
  ASSUME NEW q \in Int, NEW d \in Nat \ {0}
  PROVE  (q * d) % d = 0
<1> DEFINE n == q * d
           x == n \div d
           r == n % d
<1>1. n \in Int
  OBVIOUS
<1>2. x \in Int /\ r \in 0 .. d - 1 /\ n = x * d + r
  <2> HIDE DEF n
  <2> QED
    BY <1>1
<1> HIDE DEF x, r
<1>3. r = (q - x) * d
  BY <1>2
<1>4. ~(q - x >= 1)
  <2>1. SUFFICES ASSUME q - x >= 1 PROVE FALSE
    OBVIOUS
  <2>2. (q - x) * d >= 1 * d
    BY <1>2, <2>1
  <2> QED
    BY <1>2, <1>3, <2>2
<1>5. ~(q - x <= -1)
  <2>1. SUFFICES ASSUME q - x <= -1 PROVE FALSE
    OBVIOUS
  <2>2. (q - x) * d <= (-1) * d
    BY <1>2, <2>1
  <2> QED
    BY <1>2, <1>3, <2>2
<1>6. q - x = 0
  BY <1>2, <1>4, <1>5
<1> QED
  BY <1>3, <1>6 DEF r

(* The audio waiting is of frame f, which the audio timestamp tells, too. *)
OfAudio(t, f) == /\ t.ats - Apart = f - 1 /\ \A m \in 1 .. Len(t.aud) : t.aud[m].f = f
                 /\ OwnTs(t.asent, Apart)

(* The audio that came before place `place' fills packets and the buffer. *)
Filled(t, place) ==
  \E q \in Nat : AudioCount(place - 1) = q * PerPkt + Len(t.aud)

AudioSeen == EndsSeen /\ \A b \in missed : Frame[b.i] # "audio"
Uneven == AudioCount(Len(Frame)) % PerPkt # 0

AudioInv ==
  /\ ~Separates("audio") => s.aud = <<>> /\ s.asent = <<>>
  /\ Separates("audio") /\ AudioSeen /\ Uneven => OfAudio(s, src) /\ Filled(s, pos)

LEMMA ApartType == Apart \in Nat
  BY OptionAssumption DEF Apart

(* A packet of the audio stream is of one frame if what is in it is. *)
LEMMA AudioSend ==
  ASSUME NEW q \in Seq(PacketOf), NEW x \in Seq(BlockOf), NEW f \in Nat,
         NEW seq \in Nat, NEW ts \in Nat, ts - Apart = f - 1, OwnTs(q, Apart),
         \A m \in 1 .. Len(x) : x[m].f = f
  PROVE  OwnTs(Append(q, Packet(seq, ts, x, FALSE)), Apart)
<1> DEFINE p == Packet(seq, ts, x, FALSE)
<1>1. p \in PacketOf /\ p.blocks = x /\ p.ts = ts
  BY PacketFields
<1> HIDE DEF p
<1>2. \A m \in 1 .. Len(p.blocks) : p.blocks[m].f - 1 = p.ts - Apart
  BY <1>1, ApartType
<1>3. OwnTs(Append(q, p), Apart)
  BY <1>1, <1>2, OwnAppend
<1> QED
  BY <1>3 DEF p

(* A block of the frame on the bus keeps the audio of that frame together. *)
LEMMA AudioAdded ==
  ASSUME NEW b \in BlockOf, Room(s), pos \in 1 .. Len(Frame), Filled(s, pos),
         OfAudio(s, b.f), NEW u, Room(u), u.ats = s.ats,
         \/ Frame[pos] # "audio" /\ u.aud = s.aud /\ u.asent = s.asent
         \/ /\ Frame[pos] = "audio" /\ Len(s.aud) + 1 <= PerPkt - 1
            /\ u.asent = s.asent /\ u.aud = Append(s.aud, b)
         \/ /\ Frame[pos] = "audio" /\ Len(s.aud) + 1 > PerPkt - 1 /\ u.aud = <<>>
            /\ u.asent = Append(s.asent, Packet(s.aseq, s.ats, Append(s.aud, b), FALSE))
  PROVE  OfAudio(u, b.f) /\ Filled(u, pos + 1)
<1> DEFINE x == Append(s.aud, b)
<1>1. /\ s.aud \in Seq(BlockOf) /\ s.asent \in Seq(PacketOf) /\ Len(s.aud) \in Nat
      /\ s.aseq \in Nat /\ s.ats \in Nat /\ Len(s.aud) < PerPkt /\ b.f \in Nat
  <2>1. b.f \in Nat
    BY OptionAssumption DEF BlockOf
  <2> QED
    BY <2>1 DEF Room, State
<1>2. /\ x \in Seq(BlockOf) /\ Len(x) = Len(s.aud) + 1
      /\ \A m \in 1 .. Len(x) : x[m] = IF m <= Len(s.aud) THEN s.aud[m] ELSE b
  BY <1>1
<1> HIDE DEF x
<1>3. \A m \in 1 .. Len(x) : x[m].f = b.f
  <2> TAKE m \in 1 .. Len(x)
  <2>1. CASE m <= Len(s.aud)
    <3>1. m \in 1 .. Len(s.aud) /\ x[m] = s.aud[m]
      BY <1>1, <1>2, <2>1
    <3> QED
      BY <3>1 DEF OfAudio
  <2>2. CASE ~(m <= Len(s.aud))
    BY <1>2, <2>2
  <2> QED
    BY <2>1, <2>2
<1>4. OwnTs(Append(s.asent, Packet(s.aseq, s.ats, x, FALSE)), Apart)
  BY <1>1, <1>2, <1>3, AudioSend DEF OfAudio
<1>5. PICK q \in Nat : AudioCount(pos - 1) = q * PerPkt + Len(s.aud)
  BY DEF Filled
<1> DEFINE k == q * PerPkt
<1>6. k \in Nat
  BY PerPktType
<1>7. (q + 1) * PerPkt = k + PerPkt /\ q + 1 \in Nat
  BY PerPktType
<1>8. AudioCount(pos) = AudioCount(pos - 1) + (IF Frame[pos] = "audio" THEN 1 ELSE 0)
      /\ (pos + 1) - 1 = pos
  <2>1. /\ pos - 1 \in Nat /\ (pos - 1) + 1 = pos /\ (pos + 1) - 1 = pos
    OBVIOUS
  <2> QED
    BY <2>1, CountStep
<1>9. AudioCount(pos - 1) = k + Len(s.aud)
  BY <1>5
<1>10. (\E n \in Nat : AudioCount(pos) = n * PerPkt + Len(u.aud)) => Filled(u, pos + 1)
  BY <1>8 DEF Filled
<1>11. CASE Frame[pos] # "audio" /\ u.aud = s.aud /\ u.asent = s.asent
  <2>1. AudioCount(pos) = k + Len(u.aud)
    <3> HIDE DEF k
    <3> QED
      BY <1>1, <1>6, <1>8, <1>9, <1>11
  <2>2. OfAudio(u, b.f)
    BY <1>11 DEF OfAudio
  <2> QED
    BY <1>10, <2>1, <2>2
<1>12. CASE Frame[pos] = "audio" /\ u.asent = s.asent /\ u.aud = x
  <2>1. AudioCount(pos) = k + Len(u.aud)
    <3> HIDE DEF k
    <3> QED
      BY <1>1, <1>2, <1>6, <1>8, <1>9, <1>12
  <2>2. OfAudio(u, b.f)
    BY <1>3, <1>12 DEF OfAudio
  <2> QED
    BY <1>10, <2>1, <2>2
<1>13. CASE /\ Frame[pos] = "audio" /\ Len(s.aud) + 1 > PerPkt - 1 /\ u.aud = <<>>
            /\ u.asent = Append(s.asent, Packet(s.aseq, s.ats, x, FALSE))
  <2>1. Len(u.aud) = 0 /\ Len(s.aud) + 1 = PerPkt
    BY <1>1, <1>13, PerPktType
  <2>2. AudioCount(pos) = (k + PerPkt) + Len(u.aud)
    <3> HIDE DEF k
    <3>1. AudioCount(pos) = AudioCount(pos - 1) + 1
      BY <1>8, <1>13
    <3>2. AudioCount(pos) = k + (Len(s.aud) + 1)
      BY <1>1, <1>6, <1>9, <3>1
    <3>3. (k + PerPkt) + 0 = k + PerPkt
      BY <1>6, PerPktType
    <3> QED
      BY <2>1, <3>2, <3>3
  <2>3. AudioCount(pos) = (q + 1) * PerPkt + Len(u.aud)
    BY <1>7, <2>2
  <2>4. u.ats - Apart = b.f - 1 /\ OwnTs(u.asent, Apart)
    BY <1>4, <1>13 DEF OfAudio
  <2>5. \A m \in 1 .. Len(u.aud) : u.aud[m].f = b.f
    BY <2>1
  <2> QED
    BY <1>7, <1>10, <2>3, <2>4, <2>5 DEF OfAudio
<1> QED
  BY <1>11, <1>12, <1>13 DEF x

(* At the end of a frame audio is left if a frame does not fill its packets, so
   that the timestamp grows with the frames. *)
LEMMA AudioFlushed ==
  ASSUME NEW u, Room(u), NEW f \in Nat, OfAudio(u, f), Filled(u, Len(Frame) + 1),
         Uneven, Separates("audio")
  PROVE  OfAudio(Flush(u), f + 1) /\ Filled(Flush(u), 1)
<1> DEFINE v == Flush(u)
<1>1. /\ u.aud \in Seq(BlockOf) /\ u.asent \in Seq(PacketOf)
      /\ u.aseq \in Nat /\ u.ats \in Nat
  BY DEF Room, State
<1>2. u.aud # <<>>
  <2>1. SUFFICES ASSUME u.aud = <<>> PROVE FALSE
    OBVIOUS
  <2>2. Len(u.aud) = 0 /\ (Len(Frame) + 1) - 1 = Len(Frame)
    BY <2>1, FrameAssumption
  <2>3. PICK q \in Nat : AudioCount(Len(Frame)) = q * PerPkt + 0
    BY <2>2 DEF Filled
  <2>4. q * PerPkt + 0 = q * PerPkt
    BY PerPktType
  <2>5. AudioCount(Len(Frame)) % PerPkt = 0
    BY <2>3, <2>4, WholeMultiple, PerPktType
  <2> QED
    BY <2>5 DEF Uneven
<1>3. /\ v.aud = <<>> /\ v.ats = u.ats + 1
      /\ v.asent = Append(u.asent, Packet(u.aseq, u.ats, u.aud, FALSE))
  BY <1>2, FlushFields DEF Separates
<1>4. OwnTs(v.asent, Apart)
  BY <1>1, <1>3, AudioSend DEF OfAudio
<1> HIDE DEF v
<1>5. Len(v.aud) = 0
  BY <1>3
<1>6. OfAudio(v, f + 1)
  <2>1. v.ats - Apart = (f + 1) - 1
    <3>1. u.ats - Apart = f - 1
      BY DEF OfAudio
    <3> QED
      BY <1>1, <1>3, <3>1, ApartType
  <2>2. \A m \in 1 .. Len(v.aud) : v.aud[m].f = f + 1
    BY <1>5
  <2> QED
    BY <1>4, <2>1, <2>2 DEF OfAudio
<1>7. AudioCount(1 - 1) = 0 * PerPkt + Len(v.aud)
  BY <1>5, CountStep, PerPktType
<1>8. Filled(v, 1)
  BY <1>7 DEF Filled
<1> QED
  BY <1>6, <1>8 DEF v

LEMMA AudioInvHolds == Spec => []AudioInv
<1>1. Init => AudioInv
  <2> SUFFICES ASSUME Init PROVE AudioInv
    OBVIOUS
  <2>1. s.aud = <<>> /\ s.asent = <<>> /\ s.ats = Apart /\ src = 1 /\ pos = 1
    BY DEF Init
  <2>2. Len(s.aud) = 0 /\ DOMAIN s.asent = {}
    BY <2>1
  <2>3. OfAudio(s, src)
    BY <2>1, <2>2, ApartType DEF OfAudio, OwnTs
  <2>4. AudioCount(pos - 1) = 0 * PerPkt + Len(s.aud)
    BY <2>1, <2>2, CountStep, PerPktType
  <2>5. Filled(s, pos)
    BY <2>4 DEF Filled
  <2> QED
    BY <2>1, <2>3, <2>5 DEF AudioInv
<1>2. RtpInv /\ AudioInv /\ [Next]_vars => AudioInv'
  <2> SUFFICES ASSUME RtpInv, AudioInv, [Next]_vars PROVE AudioInv'
    OBVIOUS
  <2>0. flags' = flags
    BY DEF Next, Block, Missing, Usr1, Usr2, Signal, vars, options
  <2>1. Separates("audio")' <=> Separates("audio")
    BY <2>0 DEF Separates
  <2>2. ASSUME Advance
        PROVE  /\ src' = IF pos = Len(Frame) THEN src + 1 ELSE src
               /\ pos' = IF pos = Len(Frame) THEN 1 ELSE pos + 1
    BY <2>2 DEF Advance
  <2>3. CASE Block
    <3> DEFINE b == [f |-> src, i |-> pos]
               last == pos = Len(Frame)
    <3>1. /\ s' = ProcDvdif(b, Frame[pos], last) /\ Advance /\ missed' = missed
      BY <2>3 DEF Block
    <3>2. /\ b \in BlockOf /\ b.f = src /\ src \in Nat /\ pos \in 1 .. Len(Frame)
          /\ Room(s) /\ redundancy \in Nat
      BY <3>1, OptionAssumption DEF Advance, RtpInv, BlockOf
    <3>3. last \in BOOLEAN
      OBVIOUS
    <3> HIDE DEF b, last
    <3> DEFINE section == Frame[pos]
    <3> HIDE DEF section
    <3>4. PICK u : /\ Passed(u, b, section)
                   /\ ProcDvdif(b, section, last) = IF last THEN Flush(u) ELSE u
      BY <3>2, <3>3, ProcDvdifAudio
    <3>5. ASSUME ~Separates("audio") PROVE s'.aud = <<>> /\ s'.asent = <<>>
      <4>1. u.aud = <<>> /\ u.asent = <<>>
        BY <3>4, <3>5 DEF Passed, AudioInv, Separates, section
      <4>2. Flush(u).aud = <<>> /\ Flush(u).asent = <<>>
        BY <3>4, <4>1, FlushFields DEF Passed
      <4> QED
        BY <3>1, <3>4, <4>1, <4>2 DEF section
    <3>6. ASSUME Separates("audio"), AudioSeen, Uneven
          PROVE  OfAudio(s', src') /\ Filled(s', pos')
      <4>1. \/ Frame[pos] # "audio" /\ u.aud = s.aud /\ u.asent = s.asent
            \/ /\ Frame[pos] = "audio" /\ Len(s.aud) + 1 <= PerPkt - 1
               /\ u.asent = s.asent /\ u.aud = Append(s.aud, b)
            \/ /\ Frame[pos] = "audio" /\ Len(s.aud) + 1 > PerPkt - 1 /\ u.aud = <<>>
               /\ u.asent = Append(s.asent,
                                   Packet(s.aseq, s.ats, Append(s.aud, b), FALSE))
        BY <3>4, <3>6 DEF Passed, Separates, section
      <4>2. OfAudio(s, b.f) /\ Filled(s, pos)
        BY <3>2, <3>6 DEF AudioInv
      <4>3. OfAudio(u, src) /\ Filled(u, pos + 1)
        BY <3>2, <3>4, <4>1, <4>2, AudioAdded DEF Passed
      <4>4. CASE last
        BY <2>2, <3>1, <3>2, <3>4, <3>6, <4>3, <4>4, AudioFlushed DEF Passed, last, section
      <4>5. CASE ~last
        BY <2>2, <3>1, <3>4, <4>3, <4>5 DEF Passed, last, section
      <4> QED
        BY <4>4, <4>5
    <3>7. AudioSeen' <=> AudioSeen
      BY <3>1 DEF AudioSeen, EndsSeen
    <3> QED
      BY <2>1, <3>5, <3>6, <3>7 DEF AudioInv, OfAudio, Filled, Uneven
  <2>4. CASE Missing
    <3> DEFINE m == [f |-> src, i |-> pos]
    <3>1. Advance /\ missed' = missed \cup {m} /\ s' = s
      BY <2>4 DEF Missing
    <3>2. m.i = pos
      OBVIOUS
    <3> HIDE DEF m
    <3>3. ASSUME AudioSeen' PROVE AudioSeen /\ pos # Len(Frame) /\ Frame[pos] # "audio"
      BY <3>1, <3>2, <3>3 DEF AudioSeen, EndsSeen
    <3>4. ASSUME AudioSeen', Filled(s, pos) PROVE Filled(s, pos + 1)
      <4>1. pos \in Nat /\ pos - 1 \in Nat /\ (pos - 1) + 1 = pos /\ (pos + 1) - 1 = pos
        BY DEF RtpInv
      <4>2. AudioCount(pos - 1) \in Nat /\ AudioCount(pos) = AudioCount(pos - 1) + 0
        BY <3>3, <3>4, <4>1, CountStep
      <4> QED
        BY <3>4, <4>1, <4>2 DEF Filled
    <3>5. ASSUME AudioSeen' PROVE src' = src /\ pos' = pos + 1
      BY <2>2, <3>1, <3>3, <3>5
    <3> QED
      BY <2>1, <3>1, <3>3, <3>4, <3>5 DEF AudioInv, OfAudio, Filled, Uneven
  <2>5. CASE Usr1 \/ Usr2 \/ UNCHANGED vars
    <3>1. UNCHANGED <<s, src, pos, missed>>
      BY <2>5 DEF Usr1, Usr2, Signal, vars
    <3> QED
      BY <2>1, <3>1 DEF AudioInv, OfAudio, Filled, Uneven, AudioSeen, EndsSeen
  <2> QED
    BY <2>3, <2>4, <2>5 DEF Next
<1> QED
  BY <1>1, <1>2, RtpInvHolds, PTL DEF Spec

(* On either stream every block is sent with the timestamp of its own frame, as
   long as the bus delivers the ends of frames; on the audio stream, as long as
   it delivers the audio too and the audio of a frame does not fill its packets
   exactly (rtp.c:304, rtp.c:330). *)
THEOREM OwnTimestamps == Spec => []Stamped
<1>1. RtpInv /\ AudioInv => Stamped
  <2> SUFFICES ASSUME RtpInv, AudioInv PROVE StampedMain /\ StampedAudio
    BY DEF Stamped
  <2>1. StampedMain
    BY DEF RtpInv, OfFrame, StampedMain
  <2>2. StampedAudio
    <3>1. DOMAIN <<>> = {}
      OBVIOUS
    <3>2. OwnTs(<<>>, Apart)
      BY <3>1 DEF OwnTs
    <3>3. CASE Separates("audio")
      BY <3>3 DEF AudioInv, OfAudio, StampedAudio, AudioSeen, Uneven, AudioCount
    <3>4. CASE ~Separates("audio")
      BY <3>2, <3>4 DEF AudioInv, StampedAudio
    <3> QED
      BY <3>3, <3>4
  <2> QED
    BY <2>1, <2>2
<1> QED
  BY <1>1, RtpInvHolds, AudioInvHolds, PTL
-----------------------------------------------------------------------------
(* The rate. *)

LEMMA DivMod ==
  ASSUME NEW n \in Int, NEW d \in Nat \ {0}
  PROVE  n \div d \in Int /\ n % d \in 0 .. d - 1 /\ n = (n \div d) * d + (n % d)
  OBVIOUS

(* Of as many consecutive numbers as d exactly one is a multiple of d. *)
LEMMA OneMultiple ==
  ASSUME NEW d \in Nat \ {0}, NEW f \in Nat
  PROVE  \E g \in f - d + 1 .. f : \A h \in f - d + 1 .. f : h % d = 0 <=> h = g
<1> DEFINE x == f \div d
           r == f % d
           g == x * d
<1>1. x \in Int /\ r \in 0 .. d - 1 /\ f = g + r
  OBVIOUS
<1>2. g \in Int /\ g % d = 0
  BY <1>1, WholeMultiple
<1>3. g \in f - d + 1 .. f
  <2> HIDE DEF g, r, x
  <2> QED
    BY <1>1, <1>2
<1>4. ASSUME NEW h \in f - d + 1 .. f, h % d = 0 PROVE h = g
  <2> DEFINE y == h \div d
             k == y * d
  <2>1. y \in Int /\ h = k + (h % d) /\ h \in Int
    <3>1. h \in Int
      OBVIOUS
    <3> QED
      BY <3>1, DivMod
  <2>2. k \in Int /\ h = k
    BY <1>4, <2>1
  <2>3. k < g + d /\ g < k + d
    <3> HIDE DEF g, r, x, k
    <3> QED
      BY <1>1, <1>2, <2>2
  <2> HIDE DEF x, y
  <2>4. ~(y - x >= 1)
    <3>1. SUFFICES ASSUME y - x >= 1 PROVE FALSE
      OBVIOUS
    <3>2. (y - x) * d >= 1 * d
      BY <1>1, <2>1, <3>1
    <3> QED
      BY <1>1, <2>1, <2>3, <3>2
  <2>5. ~(y - x <= -1)
    <3>1. SUFFICES ASSUME y - x <= -1 PROVE FALSE
      OBVIOUS
    <3>2. (y - x) * d <= (-1) * d
      BY <1>1, <2>1, <3>1
    <3> QED
      BY <1>1, <2>1, <2>3, <3>2
  <2>6. y = x
    BY <1>1, <2>1, <2>4, <2>5
  <2> QED
    BY <2>2, <2>6
<1> HIDE DEF g
<1> QED
  BY <1>2, <1>3, <1>4

(* Undisturbed, the blocks of pictures sent are those that have come of frames
   whose number the rate divides. *)
Undropped(f, i) == f % drop = 0 /\ Before([f |-> f, i |-> i], [f |-> src, i |-> pos])
RateInv ==
  /\ drop \in Nat \ {0} /\ drop \in Rates /\ usr \in Nat
  /\ missed = {} => s.frame = src
  /\ usr = 0 /\ missed = {} /\ "NO_VIDEO_STREAM" \notin flags =>
       \A f \in Nat \ {0}, i \in Picture : [f |-> f, i |-> i] \in Range(kept) <=> Undropped(f, i)

LEMMA RateInvHolds == Spec => []RateInv
<1>1. Init => RateInv
  <2> SUFFICES ASSUME Init PROVE RateInv
    OBVIOUS
  <2>1. kept = <<>> /\ src = 1 /\ pos = 1 /\ s.frame = 1 /\ usr = 0 /\ drop \in Rates
    BY DEF Init
  <2>2. drop \in Nat \ {0}
    BY <2>1, OptionAssumption
  <2>3. ASSUME NEW f \in Nat \ {0}, NEW i \in Picture PROVE ~Undropped(f, i)
    BY <2>1 DEF Undropped, Before, Picture
  <2> QED
    BY <2>1, <2>2, <2>3, RangeEmpty DEF RateInv
<1>2. RtpInv /\ TurnInv /\ RateInv /\ [Next]_vars => RateInv'
  <2> SUFFICES ASSUME RtpInv, TurnInv, RateInv, [Next]_vars PROVE RateInv'
    OBVIOUS
  <2>0. flags' = flags /\ src \in Nat /\ pos \in 1 .. Len(Frame)
    BY DEF Next, Block, Missing, Usr1, Usr2, Signal, vars, options, RtpInv
  <2>1. CASE Block
    <3> DEFINE b == [f |-> src, i |-> pos]
               last == pos = Len(Frame)
               section == Frame[pos]
    <3>1. /\ s' = ProcDvdif(b, section, last) /\ Advance
          /\ missed' = missed /\ drop' = drop /\ usr' = usr
          /\ kept' = IF Keeps(section) THEN Append(kept, b) ELSE kept
      BY <2>1 DEF Block
    <3>2. b \in BlockOf /\ last \in BOOLEAN /\ Room(s) /\ redundancy \in Nat
      BY <3>1, OptionAssumption DEF Advance, RtpInv, BlockOf
    <3>3. /\ src' = IF last THEN src + 1 ELSE src
          /\ pos' = IF last THEN 1 ELSE pos + 1
      BY <3>1 DEF Advance
    <3>4. s'.frame = IF last THEN s.frame + 1 ELSE s.frame
      <4> HIDE DEF b, last, section
      <4>1. PICK u : /\ Passed(u, b, section)
                     /\ ProcDvdif(b, section, last) = IF last THEN Flush(u) ELSE u
        BY <3>2, ProcDvdifAudio
      <4>2. Room(u) /\ u.frame = s.frame
        BY <4>1 DEF Passed
      <4>3. Flush(u).frame = u.frame + 1
        BY <4>2, FlushFields
      <4> QED
        BY <3>1, <4>1, <4>2, <4>3
    <3>5. missed' = {} => s'.frame = src'
      BY <3>1, <3>3, <3>4 DEF RateInv
    <3>6. ASSUME usr = 0, missed = {}, "NO_VIDEO_STREAM" \notin flags,
                 NEW f \in Nat \ {0}, NEW i \in Picture
          PROVE  [f |-> f, i |-> i] \in Range(kept') <=> Undropped(f, i)'
      <4> DEFINE c == [f |-> f, i |-> i]
      <4>1. c \in Range(kept) <=> Undropped(f, i)
        BY <3>6 DEF RateInv
      <4>2. c = b <=> f = src /\ i = pos
        OBVIOUS
      <4>3. Undropped(f, i)' <=> Undropped(f, i) \/ (f % drop = 0 /\ c = b)
        <5>1. i \in 1 .. Len(Frame)
          BY DEF Picture
        <5>2. Before(c, [f |-> src', i |-> pos']) <=> Before(c, b) \/ (f = src /\ i = pos)
          BY <2>0, <3>3, <5>1 DEF Before
        <5> QED
          BY <3>1, <4>2, <5>2 DEF Undropped
      <4>4. c = b => (Keeps(section) <=> f % drop = 0)
        <5> SUFFICES ASSUME f = src, i = pos PROVE Keeps(section) <=> f % drop = 0
          BY <4>2
        <5>1. section # "audio"
          BY DEF Picture
        <5>2. drop = 1 => f % drop = 0
          BY <2>0
        <5>3. Dropping <=> f % drop # 0
          BY <3>6, <5>2 DEF Dropping, RateInv
        <5> QED
          BY <3>6, <5>1, <5>3 DEF Keeps
      <4>5. Range(Append(kept, b)) = Range(kept) \cup {b}
        BY <3>2, RangeAppend DEF TurnInv
      <4> HIDE DEF c, b, section, last
      <4>6. c \in Range(kept') <=> c \in Range(kept) \/ (Keeps(section) /\ c = b)
        BY <3>1, <4>5
      <4> QED
        BY <4>1, <4>3, <4>4, <4>6 DEF c
    <3> QED
      BY <2>0, <3>1, <3>5, <3>6 DEF RateInv
  <2>2. CASE Missing
    <3>1. missed' # {} /\ drop' = drop /\ usr' = usr
      BY <2>2 DEF Missing
    <3> QED
      BY <3>1 DEF RateInv
  <2>3. CASE Usr1 \/ Usr2
    <3>1. usr' = usr + 1 /\ drop' \in Rates /\ UNCHANGED <<s, src, missed>>
      BY <2>3 DEF Usr1, Usr2, Signal
    <3>2. drop' \in Nat \ {0}
      BY <3>1, OptionAssumption
    <3> QED
      BY <3>1, <3>2 DEF RateInv
  <2>4. CASE UNCHANGED vars
    BY <2>0, <2>4 DEF vars, RateInv, Undropped
  <2> QED
    BY <2>1, <2>2, <2>3, <2>4 DEF Next
<1> QED
  BY <1>1, <1>2, RtpInvHolds, TurnInvHolds, PTL DEF Spec

(* dvsend.1 on -f, "sent by the rate of 1/rate", and rtp.c:154: with the rate left
   alone and nothing lost on the bus, of any `rate' frames in a row the picture of
   one is sent whole, and nothing of the others. *)
THEOREM RateKept == Spec => []OneInRate
<1>1. RtpInv /\ TurnInv /\ RateInv => OneInRate
  <2> SUFFICES ASSUME RtpInv, TurnInv, RateInv, usr = 0, missed = {},
                      "NO_VIDEO_STREAM" \notin flags, NEW f \in drop .. src - 1
               PROVE  \E g \in f - drop + 1 .. f : \A h \in f - drop + 1 .. f :
                        PictureSent(h) = IF h = g THEN Picture ELSE {}
    BY DEF OneInRate
  <2>1. drop \in Nat \ {0} /\ src \in Nat /\ f \in Nat
    BY DEF RtpInv, RateInv
  <2>2. PICK g \in f - drop + 1 .. f : \A h \in f - drop + 1 .. f : h % drop = 0 <=> h = g
    BY <2>1, OneMultiple
  <2>3. ASSUME NEW h \in f - drop + 1 .. f
        PROVE  PictureSent(h) = IF h % drop = 0 THEN Picture ELSE {}
    <3>1. h \in Nat \ {0} /\ h < src
      BY <2>1
    <3>2. ASSUME NEW i \in Picture
          PROVE  [f |-> h, i |-> i] \in Range(kept) <=> h % drop = 0
      BY <3>1 DEF RateInv, Undropped, Before
    <3>3. ASSUME NEW i \in Picture
          PROVE  i \in PictureSent(h) <=> [f |-> h, i |-> i] \in Range(kept)
      <4>1. DOMAIN kept = 1 .. Len(kept) /\ \A n \in 1 .. Len(kept) : kept[n] \in BlockOf
        BY DEF TurnInv
      <4>2. \A n \in DOMAIN kept :
              kept[n] = [f |-> h, i |-> i] <=> kept[n].f = h /\ kept[n].i = i
        BY <4>1 DEF BlockOf
      <4>3. i \in PictureSent(h) <=> \E n \in DOMAIN kept : kept[n].f = h /\ kept[n].i = i
        BY DEF PictureSent
      <4> QED
        BY <4>2, <4>3 DEF Range
    <3>4. PictureSent(h) \subseteq Picture
      BY DEF PictureSent
    <3> QED
      BY <3>2, <3>3, <3>4
  <2> QED
    BY <2>2, <2>3
<1> QED
  BY <1>1, RtpInvHolds, TurnInvHolds, RateInvHolds, PTL
=============================================================================
