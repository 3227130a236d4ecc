--------------------------- MODULE RecordingProofs --------------------------
(***************************************************************************)
(* A recording made by dvsave and played by dvplay: how many frames -f     *)
(* gives, that what was recorded is played, and that lost blocks are       *)
(* concealed; for every size of a frame and of the old file, every camera  *)
(* and every end of dvsave.                                                *)
(***************************************************************************)
EXTENDS Recording, FiniteSetTheorems, TLAPS

(* The number after n, modulo d. *)
LEMMA NextRemainder ==
  ASSUME NEW n \in Nat, NEW d \in Nat \ {0}
  PROVE  (n + 1) % d = IF n % d = d - 1 THEN 0 ELSE (n % d) + 1
<1> DEFINE x == n \div d
           y == (n + 1) \div d
           r == n % d
           s == (n + 1) % d
<1>1. x \in Int /\ r \in 0 .. d - 1 /\ n = x * d + r
  OBVIOUS
<1>2. y \in Int /\ s \in 0 .. d - 1 /\ n + 1 = y * d + s
  <2> DEFINE m == n + 1
  <2>1. m \in Int
    OBVIOUS
  <2> HIDE DEF m
  <2>2. m \div d \in Int /\ m % d \in 0 .. d - 1 /\ m = (m \div d) * d + (m % d)
    BY <2>1
  <2> QED
    BY <2>2 DEF m
<1> HIDE DEF x, y, r, s
<1>3. (y - x) * d = (r + 1) - s
  BY <1>1, <1>2
<1>4. ~(y - x >= 2)
  <2>1. SUFFICES ASSUME y - x >= 2 PROVE FALSE
    OBVIOUS
  <2>2. (y - x) * d >= 2 * d
    BY <1>1, <1>2, <2>1
  <2> QED
    BY <1>1, <1>2, <1>3, <2>2
<1>5. ~(y - x <= -1)
  <2>1. SUFFICES ASSUME y - x <= -1 PROVE FALSE
    OBVIOUS
  <2>2. (y - x) * d <= (-1) * d
    BY <1>1, <1>2, <2>1
  <2> QED
    BY <1>1, <1>2, <1>3, <2>2
<1>6. y - x \in {0, 1}
  BY <1>1, <1>2, <1>4, <1>5
<1>7. s = r + 1 \/ s = r + 1 - d
  BY <1>1, <1>2, <1>3, <1>6
<1>8. s = IF r = d - 1 THEN 0 ELSE r + 1
  BY <1>1, <1>2, <1>7
<1> QED
  BY <1>8 DEF r, s

(* The piece after another, and the one the camera sends next. *)
Succ(x) == IF x.p = Parts THEN [f |-> x.f + 1, p |-> 1] ELSE [f |-> x.f, p |-> x.p + 1]
Here == [f |-> frame, p |-> part]

SaveTypes ==
  /\ platform \in {"netbsd", "freebsd4", "linux", "macosX"}
  /\ numbers \in {"all", "body", "none"} /\ offset \in 0 .. (Cycle - 1) /\ frameMax \in Nat
  /\ platform \in {"linux", "macosX"} => part = 1
  /\ frame \in 1 .. (MaxFrame + 1) /\ part \in 1 .. Parts
  /\ frameCount \in Nat /\ seqPrev \in 0 .. (Cycle - 1)
  /\ file \in Seq(Packet) /\ pos \in 0 .. Len(file)
  /\ torn \in BOOLEAN /\ missing \in Nat
  /\ pc \in {"run", "done", "failed", "asleep"}
  /\ torn => pc # "run" /\ pc # "done" /\ pos = Len(file) /\ pos # 0

Constants == /\ Parts \in Nat /\ Parts >= 2 /\ Cycle \in Nat /\ Cycle >= 2 /\ Cycle <= 12
             /\ MaxFrame \in Nat /\ OldFrame = MaxFrame + 1 /\ OldFrame \in Nat

LEMMA Known == Constants
  BY SaveAssumption DEF Constants, OldFrame

(* A write puts its data at the offset and leaves the rest of the file alone. *)
LEMMA Written ==
  ASSUME NEW data \in Seq(Packet), data # <<>>, file \in Seq(Packet), pos \in 0 .. Len(file),
         Write(pos, data)
  PROVE  /\ file' \in Seq(Packet) /\ pos' = pos + Len(data) /\ pos' \in 1 .. Len(file')
         /\ Len(file') = IF Len(file) > pos' THEN Len(file) ELSE pos'
         /\ \A i \in 1 .. pos : file'[i] = file[i]
         /\ \A i \in 1 .. Len(data) : file'[pos + i] = data[i]
         /\ \A i \in pos' + 1 .. Len(file') : i \in pos + 1 .. Len(file) /\ file'[i] = file[i]
<1> DEFINE n == Len(data)
           L == Len(file)
           m == IF L > pos + n THEN L ELSE pos + n
<1>1. n \in Nat /\ n >= 1 /\ L \in Nat /\ pos \in Nat /\ pos <= L
  OBVIOUS
<1>2. /\ \A i \in 1 .. n : data[i] \in Packet
      /\ \A i \in 1 .. L : file[i] \in Packet
  OBVIOUS
<1>3. /\ file' = [i \in 1 .. m |-> IF i \in (pos + 1) .. (pos + n) THEN data[i - pos] ELSE file[i]]
      /\ pos' = pos + n
  BY DEF Write, Overwrite
<1> HIDE DEF n, L
<1>4. m \in Nat /\ m >= L /\ m >= pos + n
  BY <1>1
<1> HIDE DEF m
<1>5. \A i \in 1 .. m : i \in (pos + 1) .. (pos + n) \/ i \in 1 .. L
  BY <1>1, <1>4 DEF m
<1>6. \A i \in (pos + 1) .. (pos + n) : i - pos \in 1 .. n
  BY <1>1
<1>7. \A i \in 1 .. m : file'[i] = IF i \in (pos + 1) .. (pos + n) THEN data[i - pos] ELSE file[i]
  BY <1>3
<1>8. \A i \in 1 .. m : file'[i] \in Packet
  BY <1>2, <1>5, <1>6, <1>7
<1>9. file' \in Seq(Packet) /\ Len(file') = m
  <2>1. file' \in [1 .. m -> Packet]
    BY <1>3, <1>7, <1>8
  <2> QED
    BY <1>4, <2>1
<1>10. \A i \in 1 .. pos : file'[i] = file[i]
  BY <1>1, <1>4, <1>7
<1>11. \A i \in 1 .. n : file'[pos + i] = data[i]
  <2>1. SUFFICES ASSUME NEW i \in 1 .. n PROVE file'[pos + i] = data[i]
    OBVIOUS
  <2>2. pos + i \in 1 .. m /\ pos + i \in (pos + 1) .. (pos + n) /\ (pos + i) - pos = i
    BY <1>1, <1>4
  <2> QED
    BY <1>7, <2>2
<1>12. \A i \in pos + n + 1 .. m : i \in pos + 1 .. L /\ file'[i] = file[i]
  BY <1>1, <1>4, <1>7 DEF m
<1> QED
  BY <1>1, <1>3, <1>4, <1>9, <1>10, <1>11, <1>12 DEF n, L, m

(* What SavePacket, DiskFull and the rest write. *)
LEMMA Data ==
  ASSUME SaveTypes, frame <= MaxFrame
  PROVE  /\ Here \in Packet /\ <<Here>> \in Seq(Packet) /\ <<Here>> # <<>> /\ Len(<<Here>>) = 1
         /\ Frame \in Seq(Packet) /\ Frame # <<>> /\ Len(Frame) = Parts
         /\ \A n \in 1 .. Parts : /\ SubSeq(Frame, 1, n) \in Seq(Packet)
                                  /\ SubSeq(Frame, 1, n) # <<>>
                                  /\ Len(SubSeq(Frame, 1, n)) = n
                                  /\ \A i \in 1 .. n : SubSeq(Frame, 1, n)[i] = Frame[i]
         /\ \A i \in 1 .. Parts : Frame[i] = [f |-> frame, p |-> i]
<1>1. /\ frame \in 1 .. OldFrame /\ part \in 1 .. Parts /\ Parts \in Nat /\ Parts >= 2
  BY Known DEF Constants, SaveTypes
<1>2. Here \in Packet
  BY <1>1 DEF Here, Packet
<1>3. \A i \in 1 .. Parts : [f |-> frame, p |-> i] \in Packet
  BY <1>1 DEF Packet
<1>4. Frame \in [1 .. Parts -> Packet] /\ \A i \in 1 .. Parts : Frame[i] = [f |-> frame, p |-> i]
  BY <1>3 DEF Frame
<1> DEFINE q == Frame
<1> HIDE DEF q
<1>5. q \in [1 .. Parts -> Packet]
  BY <1>4 DEF q
<1>6. q \in Seq(Packet) /\ Len(q) = Parts /\ q # <<>>
  BY <1>1, <1>5
<1>7. ASSUME NEW n \in 1 .. Parts
      PROVE  /\ SubSeq(q, 1, n) \in Seq(Packet) /\ Len(SubSeq(q, 1, n)) = n
             /\ \A i \in 1 .. n : SubSeq(q, 1, n)[i] = q[i]
  <2>1. \A i \in 1 .. n : q[i] \in Packet
    BY <1>1, <1>5
  <2>2. SubSeq(q, 1, n) = [i \in 1 .. n |-> q[i]] /\ Len(SubSeq(q, 1, n)) = n
    BY <1>1, <1>6
  <2> QED
    BY <2>1, <2>2
<1>8. ASSUME NEW n \in 1 .. Parts PROVE SubSeq(q, 1, n) # <<>>
  <2> DEFINE r == SubSeq(q, 1, n)
  <2>1. Len(r) = n /\ n # 0
    BY <1>7
  <2>2. Len(<<>>) = 0
    OBVIOUS
  <2> HIDE DEF r
  <2>3. r # <<>>
    BY <2>1, <2>2
  <2> QED
    BY <2>3 DEF r
<1>9. <<Here>> \in Seq(Packet) /\ <<Here>> # <<>> /\ Len(<<Here>>) = 1
  <2> HIDE DEF Here
  <2> QED
    BY <1>2
<1> QED
  BY <1>2, <1>4, <1>6, <1>7, <1>8, <1>9 DEF q

(* A step writes n pieces, from the one the camera sends next on. *)
Wrote(n) ==
  /\ n \in 1 .. Parts /\ part + n <= Parts + 1 /\ frame <= MaxFrame
  /\ file' \in Seq(Packet) /\ pos' = pos + n /\ pos' \in 1 .. Len(file')
  /\ Len(file') = IF Len(file) > pos' THEN Len(file) ELSE pos'
  /\ \A i \in 1 .. pos : file'[i] = file[i]
  /\ \A i \in 1 .. n : file'[pos + i] = [f |-> frame, p |-> part + i - 1]
  /\ \A i \in pos' + 1 .. Len(file') : i \in pos + 1 .. Len(file) /\ file'[i] = file[i]

(* The kinds of steps dvsave takes. *)
Goes ==
  /\ pc = "run" /\ pc' \in {"run", "done"} /\ missing' = missing /\ torn' = torn
  /\ \E n \in 1 .. Parts :
       /\ Wrote(n)
       /\ IF part + n = Parts + 1 THEN frame' = frame + 1 /\ part' = 1
                                  ELSE frame' = frame /\ part' = part + n
Stops == /\ pc' \in {"done", "failed", "asleep"} /\ (pc' = "done" => pc = "run")
         /\ UNCHANGED <<file, pos, torn, missing>>
         /\ frame' \in 1 .. MaxFrame + 1 /\ part' \in 1 .. Parts
         /\ (platform \in {"linux", "macosX"} => part' = part)
Loses == /\ missing' = missing + 1 /\ UNCHANGED <<file, pos, torn, pc>>
         /\ pc = "run" /\ platform \notin {"linux", "macosX"}
         /\ frame' \in 1 .. MaxFrame + 1 /\ part' \in 1 .. Parts
Tears == /\ pc = "run" /\ pc' \in {"failed", "asleep"} /\ missing' = missing
         /\ torn' = TRUE /\ pos = Len(file) /\ frame' = frame /\ part' = part
         /\ \E n \in 1 .. Parts : Wrote(n)

LEMMA WroteOne ==
  ASSUME SaveTypes, frame <= MaxFrame, Write(pos, <<Here>>)
  PROVE  Wrote(1)
<1>1. /\ Here \in Packet /\ <<Here>> \in Seq(Packet) /\ <<Here>> # <<>> /\ Len(<<Here>>) = 1
      /\ file \in Seq(Packet) /\ pos \in 0 .. Len(file) /\ Parts \in Nat /\ Parts >= 2
      /\ part \in 1 .. Parts
  BY Data, Known DEF SaveTypes, Constants
<1> DEFINE d == <<Here>>
<1>2. d[1] = Here
  OBVIOUS
<1>3. d \in Seq(Packet) /\ d # <<>> /\ Len(d) = 1 /\ Write(pos, d)
  BY <1>1
<1> HIDE DEF d
<1>4. /\ file' \in Seq(Packet) /\ pos' = pos + Len(d) /\ pos' \in 1 .. Len(file')
      /\ Len(file') = IF Len(file) > pos' THEN Len(file) ELSE pos'
      /\ \A i \in 1 .. pos : file'[i] = file[i]
      /\ \A i \in 1 .. Len(d) : file'[pos + i] = d[i]
      /\ \A i \in pos' + 1 .. Len(file') : i \in pos + 1 .. Len(file) /\ file'[i] = file[i]
  BY <1>1, <1>3, Written
<1>5. \A i \in 1 .. 1 : file'[pos + i] = [f |-> frame, p |-> part + i - 1]
  <2>1. file'[pos + 1] = [f |-> frame, p |-> part] /\ part + 1 - 1 = part
    BY <1>1, <1>2, <1>3, <1>4 DEF Here, d
  <2> QED
    BY <2>1
<1> QED
  BY <1>1, <1>3, <1>4, <1>5 DEF Wrote

LEMMA WrotePieces ==
  ASSUME SaveTypes, frame <= MaxFrame, part = 1, NEW n \in 1 .. Parts, NEW d,
         d = SubSeq(Frame, 1, n), Write(pos, d)
  PROVE  Wrote(n)
<1>1. /\ d \in Seq(Packet) /\ d # <<>> /\ Len(d) = n
      /\ file \in Seq(Packet) /\ pos \in 0 .. Len(file) /\ Parts \in Nat /\ n \in Nat
      /\ \A i \in 1 .. n : d[i] = Frame[i]
      /\ \A i \in 1 .. Parts : Frame[i] = [f |-> frame, p |-> i]
  BY Data, Known DEF SaveTypes, Constants
<1>2. \A i \in 1 .. n : d[i] = [f |-> frame, p |-> i]
  BY <1>1
<1>3. /\ file' \in Seq(Packet) /\ pos' = pos + n /\ pos' \in 1 .. Len(file')
      /\ Len(file') = IF Len(file) > pos' THEN Len(file) ELSE pos'
      /\ \A i \in 1 .. pos : file'[i] = file[i]
      /\ \A i \in 1 .. n : file'[pos + i] = d[i]
      /\ \A i \in pos' + 1 .. Len(file') : i \in pos + 1 .. Len(file) /\ file'[i] = file[i]
  BY <1>1, Written
<1>4. \A i \in 1 .. n : part + i - 1 = i
  BY <1>1
<1>5. \A i \in 1 .. n : file'[pos + i] = [f |-> frame, p |-> part + i - 1]
  BY <1>2, <1>3, <1>4
<1> QED
  BY <1>1, <1>3, <1>5 DEF Wrote

LEMMA WroteFrame ==
  ASSUME SaveTypes, frame <= MaxFrame, part = 1, Write(pos, Frame)
  PROVE  Wrote(Parts)
<1>1. /\ Frame \in Seq(Packet) /\ Len(Frame) = Parts /\ Parts \in 1 .. Parts
  BY Data, Known DEF Constants
<1>2. SubSeq(Frame, 1, Parts) = Frame
  <2> DEFINE q == Frame
  <2> HIDE DEF q
  <2>1. q \in Seq(Packet) /\ Len(q) = Parts
    BY <1>1 DEF q
  <2>2. SubSeq(q, 1, Len(q)) = q
    BY <2>1
  <2> QED
    BY <2>1, <2>2 DEF q
<1> QED
  BY <1>1, <1>2, WrotePieces

LEMMA Kinds ==
  ASSUME SaveTypes, Next
  PROVE  (Goes \/ Stops \/ Loses \/ Tears) /\ UNCHANGED chosen
<1>1. /\ Parts \in Nat /\ Parts >= 2 /\ part \in 1 .. Parts /\ frame \in 1 .. MaxFrame + 1
      /\ MaxFrame \in Nat /\ missing \in Nat
      /\ platform \in {"linux", "macosX"} => part = 1
  BY Known DEF SaveTypes, Constants
<1>2. CASE SavePacket
  <2>1. /\ pc = "run" /\ frame <= MaxFrame /\ NextPacket /\ torn' = torn /\ missing' = missing
        /\ UNCHANGED chosen /\ platform \notin {"linux", "macosX"}
        /\ \/ pc' = "done" /\ file' = file /\ pos' = pos
           \/ pc' = "run" /\ Write(pos, <<Here>>)
    BY <1>2 DEF SavePacket, ByPacket, SaveOne, Here
  <2>2. /\ frame' \in 1 .. MaxFrame + 1 /\ part' \in 1 .. Parts
        /\ IF part + 1 = Parts + 1 THEN frame' = frame + 1 /\ part' = 1
                                   ELSE frame' = frame /\ part' = part + 1
    BY <1>1, <2>1 DEF NextPacket
  <2>3. CASE pc' = "done"
    BY <2>1, <2>2, <2>3 DEF Stops
  <2>4. CASE pc' = "run"
    BY <1>1, <2>1, <2>2, <2>4, WroteOne DEF Goes
  <2> QED
    BY <2>1, <2>3, <2>4
<1>3. CASE SaveFrame \/ IdhRead
  <2>1. /\ pc = "run" /\ frame <= MaxFrame /\ frame' = frame + 1 /\ part' = part
        /\ torn' = torn /\ missing' = missing /\ UNCHANGED chosen
        /\ platform \in {"linux", "macosX"} /\ Write(pos, Frame) /\ pc' \in {"run", "done"}
    BY <1>3 DEF SaveFrame, IdhRead
  <2>2. Wrote(Parts) /\ part = 1 /\ Parts \in 1 .. Parts
    BY <1>1, <2>1, WroteFrame
  <2> QED
    BY <1>1, <2>1, <2>2 DEF Goes
<1>4. CASE Missing
  <2>1. /\ pc = "run" /\ frame <= MaxFrame /\ NextPacket /\ missing' = missing + 1
        /\ platform \notin {"linux", "macosX"}
        /\ UNCHANGED <<chosen, file, pos, torn, pc>>
    BY <1>4 DEF Missing, ByPacket
  <2>2. frame' \in 1 .. MaxFrame + 1 /\ part' \in 1 .. Parts
    BY <1>1, <2>1 DEF NextPacket
  <2> QED
    BY <2>1, <2>2 DEF Loses
<1>5. CASE Fail \/ Interrupt
  BY <1>1, <1>5 DEF Fail, Interrupt, AfterFailure, Stops
<1>6. CASE DiskFull
  <2>1. /\ pc = "run" /\ frame <= MaxFrame /\ pos = Len(file) /\ torn' = TRUE
        /\ pc' \in {"failed", "asleep"} /\ frame' = frame /\ part' = part
        /\ missing' = missing /\ UNCHANGED chosen
    BY <1>6 DEF DiskFull, AfterFailure
  <2>2. \E n \in 1 .. Parts : Wrote(n)
    <3>1. CASE ByPacket
      <4>1. Write(pos, <<Here>>)
        BY <1>6, <3>1 DEF DiskFull, Here
      <4> QED
        BY <1>1, <2>1, <4>1, WroteOne
    <3>2. CASE ~ByPacket
      <4>1. platform \in {"linux", "macosX"}
        BY <2>1, <3>2 DEF ByPacket, SaveTypes
      <4>2. PICK n \in 1 .. Parts : Write(pos, SubSeq(Frame, 1, n))
        BY <1>6, <3>2 DEF DiskFull
      <4> QED
        BY <1>1, <2>1, <4>1, <4>2, WrotePieces
    <3> QED
      BY <3>1, <3>2
  <2> QED
    BY <2>1, <2>2 DEF Tears
<1> QED
  BY <1>2, <1>3, <1>4, <1>5, <1>6 DEF Next, Save

LEMMA SaveTypesStart == Init => SaveTypes
<1> SUFFICES ASSUME Init PROVE SaveTypes
  OBVIOUS
<1>1. Constants
  BY Known
<1>2. PICK n \in OldLengths : file = Old(n) /\ pos = 0
  BY DEF Init, OpenFile
<1>3. n \in Nat
  BY SaveAssumption
<1>4. \A i \in 1 .. n : ((i - 1) % Parts) + 1 \in 1 .. Parts
  <2>1. SUFFICES ASSUME NEW i \in 1 .. n PROVE ((i - 1) % Parts) + 1 \in 1 .. Parts
    OBVIOUS
  <2> DEFINE m == i - 1
  <2>2. m \in Nat /\ Parts \in Nat \ {0}
    BY <1>1, <1>3 DEF Constants
  <2> HIDE DEF m
  <2>3. m % Parts \in 0 .. Parts - 1
    BY <2>2
  <2> QED
    BY <2>2, <2>3 DEF m
<1>5. file \in Seq(Packet)
  <2>1. \A i \in 1 .. n : [f |-> OldFrame, p |-> ((i - 1) % Parts) + 1] \in Packet
    BY <1>1, <1>4 DEF Packet, Constants
  <2>2. file \in [1 .. n -> Packet]
    BY <1>2, <2>1 DEF Old
  <2> QED
    BY <1>3, <2>2
<1>6. pos \in 0 .. Len(file)
  BY <1>2, <1>5
<1>7. /\ frame = 1 /\ seqPrev = 0 /\ frameCount = 0 /\ torn = FALSE /\ missing = 0 /\ pc = "run"
      /\ platform \in {"netbsd", "freebsd4", "linux", "macosX"} /\ frameMax \in Nat
      /\ (platform \in {"linux", "macosX"} => part = 1)
      /\ part \in 1 .. Parts /\ numbers \in {"all", "body", "none"} /\ offset \in 0 .. (Cycle - 1)
  <2>1. /\ Platforms \subseteq {"netbsd", "freebsd4", "linux", "macosX"} /\ Asked \subseteq Nat
        /\ Numbering \subseteq {"all", "body", "none"}
        /\ 1 \in 1 .. Parts /\ 0 \in 0 .. (Cycle - 1)
    BY <1>1, SaveAssumption DEF Constants
  <2>2. /\ frame = 1 /\ seqPrev = 0 /\ frameCount = 0 /\ torn = FALSE /\ missing = 0
        /\ pc = "run" /\ platform \in Platforms /\ frameMax \in Asked
    BY DEF Init
  <2>3. CASE platform \in {"linux", "macosX"}
    <3>1. part = 1 /\ numbers = "body" /\ offset = 0
      BY <2>3 DEF Init
    <3> QED
      BY <2>1, <2>2, <3>1
  <2>4. CASE platform \notin {"linux", "macosX"}
    <3>1. part \in 1 .. Parts /\ numbers \in Numbering /\ offset \in 0 .. (Cycle - 1)
      BY <2>4 DEF Init
    <3> QED
      BY <2>1, <2>2, <2>4, <3>1
  <2> QED
    BY <2>3, <2>4
<1>8. frame \in 1 .. (MaxFrame + 1) /\ seqPrev \in 0 .. (Cycle - 1)
  BY <1>1, <1>7 DEF Constants
<1> QED
  BY <1>5, <1>6, <1>7, <1>8 DEF SaveTypes

LEMMA NumberType ==
  ASSUME SaveTypes, NEW q
  PROVE  Remember(q) \in 0 .. (Cycle - 1)
<1> DEFINE m == frame + offset
<1>1. m \in Nat /\ Cycle \in Nat \ {0} /\ Cycle <= 12 /\ seqPrev \in 0 .. (Cycle - 1)
  BY Known DEF SaveTypes, Constants
<1> HIDE DEF m
<1>2. m % Cycle \in 0 .. (Cycle - 1)
  BY <1>1
<1>3. Seq4(q) = m % Cycle \/ Seq4(q) = 15
  BY DEF Seq4, m
<1> QED
  BY <1>1, <1>2, <1>3 DEF Remember

LEMMA SaveTypesStep ==
  ASSUME SaveTypes, Next
  PROVE  SaveTypes'
<1>1. /\ (Goes \/ Stops \/ Loses \/ Tears) /\ UNCHANGED chosen /\ Constants
  BY Kinds, Known
<1>2. frameCount' \in Nat /\ seqPrev' \in 0 .. (Cycle - 1)
  <2>1. frameCount' \in {frameCount, frameCount + 1}
        /\ (seqPrev' = seqPrev \/ seqPrev' = Remember(part))
    BY DEF Next, Save, SavePacket, SaveFrame, IdhRead, Missing, Fail, DiskFull, Interrupt, Counted
  <2> QED
    BY <2>1, NumberType DEF SaveTypes
<1>3. /\ frame' \in 1 .. MaxFrame + 1 /\ part' \in 1 .. Parts
      /\ (platform \in {"linux", "macosX"} => part' = 1)
  <2>1. CASE Goes
    <3>1. PICK n \in 1 .. Parts :
            /\ Wrote(n)
            /\ IF part + n = Parts + 1 THEN frame' = frame + 1 /\ part' = 1
                                       ELSE frame' = frame /\ part' = part + n
      BY <2>1 DEF Goes
    <3>2. frame <= MaxFrame /\ part + n <= Parts + 1
      BY <3>1 DEF Wrote
    <3>3. platform \in {"linux", "macosX"} => part' = 1
      BY DEF Next, Save, SavePacket, SaveFrame, IdhRead, Missing, Fail, DiskFull, Interrupt,
             ByPacket, SaveTypes
    <3> QED
      BY <1>1, <3>1, <3>2, <3>3 DEF SaveTypes, Constants
  <2> QED
    BY <1>1, <2>1 DEF Stops, Loses, Tears, SaveTypes
<1>4. /\ file' \in Seq(Packet) /\ pos' \in 0 .. Len(file')
      /\ torn' \in BOOLEAN /\ missing' \in Nat /\ pc' \in {"run", "done", "failed", "asleep"}
      /\ torn' => pc' # "run" /\ pc' # "done" /\ pos' = Len(file') /\ pos' # 0
  <2>1. CASE Goes
    BY <2>1 DEF Goes, Wrote, SaveTypes
  <2>2. CASE Tears
    BY <2>2 DEF Tears, Wrote, SaveTypes
  <2>3. CASE Stops \/ Loses
    BY <2>3 DEF Stops, Loses, SaveTypes
  <2> QED
    BY <1>1, <2>1, <2>2, <2>3
<1> QED
  BY <1>1, <1>2, <1>3, <1>4 DEF SaveTypes, chosen

(* As long as dvsave runs the file has just the pieces from the first one on
   that the camera has sent, and then what is left of the old one. *)
First == IF pos = 0 THEN part ELSE file[1].p
Saved(f, p) == \E i \in 1 .. pos : file[i] = [f |-> f, p |-> p]
Sent(f, p) == (f < frame \/ (f = frame /\ p < part)) /\ (f > 1 \/ p >= First)
PiecesInv ==
  /\ IF pos = 0 THEN frame = 1 ELSE frame > 1 \/ part > First
  /\ First \in 1 .. Parts
  /\ \A f \in 1 .. MaxFrame, p \in 1 .. Parts : Saved(f, p) <=> Sent(f, p)
  /\ \A i \in pos + 1 .. Len(file) : file[i].f = OldFrame

LEMMA PiecesGo ==
  ASSUME SaveTypes, PiecesInv, Goes
  PROVE  PiecesInv' /\ First' = First
<1>1. /\ Parts \in Nat /\ Parts >= 2 /\ part \in 1 .. Parts /\ frame \in 1 .. MaxFrame + 1
      /\ MaxFrame \in Nat /\ file \in Seq(Packet) /\ pos \in 0 .. Len(file) /\ Len(file) \in Nat
      /\ First \in 1 .. Parts
  BY Known DEF SaveTypes, Constants, PiecesInv
<1>2. PICK n \in 1 .. Parts :
        /\ Wrote(n)
        /\ IF part + n = Parts + 1 THEN frame' = frame + 1 /\ part' = 1
                                   ELSE frame' = frame /\ part' = part + n
  BY DEF Goes
<1>3. /\ n \in Nat /\ n >= 1 /\ part + n <= Parts + 1 /\ frame <= MaxFrame
      /\ pos' = pos + n /\ pos' \in 1 .. Len(file')
      /\ \A i \in 1 .. pos : file'[i] = file[i]
      /\ \A i \in 1 .. n : file'[pos + i] = [f |-> frame, p |-> part + i - 1]
      /\ \A i \in pos' + 1 .. Len(file') : i \in pos + 1 .. Len(file) /\ file'[i] = file[i]
  <2>1. n \in Nat /\ n >= 1
    BY <1>1
  <2>2. Wrote(n)
    BY <1>2
  <2>3. /\ part + n <= Parts + 1 /\ frame <= MaxFrame
        /\ pos' = pos + n /\ pos' \in 1 .. Len(file')
    BY <2>2 DEF Wrote
  <2>4. /\ \A i \in 1 .. pos : file'[i] = file[i]
        /\ \A i \in 1 .. n : file'[pos + i] = [f |-> frame, p |-> part + i - 1]
        /\ \A i \in pos' + 1 .. Len(file') : i \in pos + 1 .. Len(file) /\ file'[i] = file[i]
    BY <2>2 DEF Wrote
  <2> QED
    BY <2>1, <2>3, <2>4
<1>4. First' = First
  <2>1. pos' # 0
    BY <1>1, <1>3
  <2>2. CASE pos = 0
    <3>1. file'[pos + 1] = [f |-> frame, p |-> part + 1 - 1]
      BY <1>1, <1>3
    <3>2. file'[1].p = part
      BY <1>1, <2>2, <3>1
    <3> QED
      BY <2>1, <2>2, <3>2 DEF First
  <2>3. CASE pos # 0
    BY <1>1, <1>3, <2>1, <2>3 DEF First
  <2> QED
    BY <2>2, <2>3
<1>5. frame > 1 \/ part >= First
  BY <1>1 DEF PiecesInv, First
<1>6. frame' > 1 \/ part' > First'
  BY <1>1, <1>2, <1>3, <1>4, <1>5
<1>7. pos' # 0 /\ First' \in 1 .. Parts
  BY <1>1, <1>3, <1>4
<1>8. \A i \in pos' + 1 .. Len(file') : file'[i].f = OldFrame
  BY <1>3 DEF PiecesInv
<1>9. ASSUME NEW f \in 1 .. MaxFrame, NEW p \in 1 .. Parts
      PROVE  Saved(f, p)' <=> Saved(f, p) \/ (f = frame /\ p \in part .. part + n - 1)
  <2>1. ASSUME NEW i \in 1 .. pos', file'[i] = [f |-> f, p |-> p]
        PROVE  Saved(f, p) \/ (f = frame /\ p \in part .. part + n - 1)
    <3>1. CASE i \in 1 .. pos
      BY <1>3, <2>1, <3>1 DEF Saved
    <3>2. CASE i \notin 1 .. pos
      <4>1. i - pos \in 1 .. n /\ pos + (i - pos) = i
        BY <1>1, <1>3, <3>2
      <4>2. file'[i] = [f |-> frame, p |-> part + (i - pos) - 1]
        BY <1>3, <4>1
      <4>3. f = frame /\ p = part + (i - pos) - 1
        BY <2>1, <4>2
      <4> DEFINE k == i - pos
      <4>4. k \in 1 .. n /\ p = part + k - 1 /\ n \in Nat /\ part \in Nat
        BY <1>1, <4>1, <4>3
      <4> HIDE DEF k
      <4>5. p \in part .. part + n - 1
        BY <4>4
      <4> QED
        BY <4>3, <4>5
    <3> QED
      BY <3>1, <3>2
  <2>2. ASSUME Saved(f, p) PROVE Saved(f, p)'
    <3>1. PICK i \in 1 .. pos : file[i] = [f |-> f, p |-> p]
      BY <2>2 DEF Saved
    <3>2. i \in 1 .. pos' /\ file'[i] = [f |-> f, p |-> p]
      BY <1>1, <1>3, <3>1
    <3> QED
      BY <3>2 DEF Saved
  <2>3. ASSUME f = frame, p \in part .. part + n - 1 PROVE Saved(f, p)'
    <3> DEFINE i == p - part + 1
    <3>1. i \in 1 .. n /\ pos + i \in 1 .. pos' /\ part + i - 1 = p
      BY <1>1, <1>3, <2>3
    <3> HIDE DEF i
    <3>2. file'[pos + i] = [f |-> f, p |-> p]
      BY <1>3, <2>3, <3>1
    <3> QED
      BY <3>1, <3>2 DEF Saved
  <2> QED
    BY <2>1, <2>2, <2>3 DEF Saved
<1>10. ASSUME NEW f \in 1 .. MaxFrame, NEW p \in 1 .. Parts
       PROVE  Saved(f, p)' <=> Sent(f, p)'
  <2>1. Saved(f, p) <=> Sent(f, p)
    BY DEF PiecesInv
  <2>2. Sent(f, p)' <=> Sent(f, p) \/ (f = frame /\ p \in part .. part + n - 1)
    BY <1>1, <1>2, <1>3, <1>4, <1>5 DEF Sent
  <2> QED
    BY <1>9, <2>1, <2>2
<1> QED
  BY <1>4, <1>6, <1>7, <1>8, <1>10 DEF PiecesInv

(* Its whole frames are then those from the first that the camera sent whole. *)
LEMMA WholeRange ==
  ASSUME SaveTypes, PiecesInv, ~torn
  PROVE  WholeFrames = (IF First = 1 THEN 1 ELSE 2) .. (frame - 1)
<1>1. /\ Parts \in Nat /\ Parts >= 2 /\ part \in 1 .. Parts /\ frame \in 1 .. MaxFrame + 1
      /\ MaxFrame \in Nat /\ OldFrame = MaxFrame + 1
      /\ file \in Seq(Packet) /\ pos \in 0 .. Len(file) /\ Len(file) \in Nat
      /\ First \in 1 .. Parts
  BY Known DEF SaveTypes, Constants, PiecesInv
<1>2. ASSUME NEW f \in 1 .. MaxFrame, NEW p \in 1 .. Parts
      PROVE  Has(f, p) <=> Sent(f, p)
  <2>1. Saved(f, p) <=> Sent(f, p)
    BY DEF PiecesInv
  <2>2. Has(f, p) <=> Saved(f, p)
    <3>1. Has(f, p) <=> \E i \in 1 .. Len(file) : file[i] = [f |-> f, p |-> p]
      BY <1>1 DEF Has
    <3>2. ASSUME NEW i \in 1 .. Len(file), file[i] = [f |-> f, p |-> p]
          PROVE  i \in 1 .. pos
      <4>1. file[i].f # OldFrame
        BY <1>1, <3>2
      <4> QED
        BY <1>1, <4>1 DEF PiecesInv
    <3>3. \A i \in 1 .. pos : i \in 1 .. Len(file)
      BY <1>1
    <3> QED
      BY <3>1, <3>2, <3>3 DEF Saved
  <2> QED
    BY <2>1, <2>2
<1>3. ASSUME NEW f \in 1 .. MaxFrame
      PROVE  (\A p \in 1 .. Parts : Sent(f, p)) <=> f < frame /\ (f > 1 \/ First = 1)
  <2>1. 1 \in 1 .. Parts /\ Parts \in 1 .. Parts
    BY <1>1
  <2>2. ASSUME \A p \in 1 .. Parts : Sent(f, p) PROVE f < frame /\ (f > 1 \/ First = 1)
    <3>1. Sent(f, 1) /\ Sent(f, Parts)
      BY <2>1, <2>2
    <3> QED
      BY <1>1, <3>1 DEF Sent
  <2>3. ASSUME f < frame, f > 1 \/ First = 1, NEW p \in 1 .. Parts PROVE Sent(f, p)
    BY <1>1, <2>3 DEF Sent
  <2> QED
    BY <2>2, <2>3
<1>4. WholeFrames = {f \in 1 .. MaxFrame : f < frame /\ (f > 1 \/ First = 1)}
  BY <1>2, <1>3 DEF WholeFrames
<1> QED
  BY <1>1, <1>4

(* By packet, with a camera that numbers its frames in all but header blocks:
   what is counted, and the number remembered, once a numbered packet was sent. *)
NumberOf(f) == (f + offset) % Cycle
Zero == IF NumberOf(1) = 0 THEN 1 ELSE 0
Begun == frame > 1 \/ (part > First /\ part >= 3)
LastNumbered == IF part >= 3 THEN frame ELSE frame - 1
ByNumber == platform \in {"netbsd", "freebsd4"} /\ numbers = "body"
CountInv ==
  /\ ByNumber =>
       /\ IF Begun THEN frameCount = LastNumbered - Zero /\ seqPrev = NumberOf(LastNumbered)
                   ELSE frameCount = 0 /\ seqPrev = 0
       /\ frameMax # 0 => frameCount <= frameMax
  /\ platform = "macosX" => /\ First = 1 /\ frameCount = frame - 1
                            /\ frameMax # 0 => frameCount < frameMax
NearInv ==
  missing = 0 =>
    /\ pc = "run" => PiecesInv /\ CountInv
    /\ pc = "done" => platform # "linux"
    /\ pc = "done" /\ platform = "macosX" => PiecesInv /\ First = 1 /\ frame - 1 = frameMax
    /\ pc = "done" /\ ByNumber => Cardinality(WholeFrames) \in frameMax - 1 .. frameMax + 1

LEMMA IntervalSize ==
  ASSUME NEW a \in Nat, NEW b \in Nat, a <= b + 1
  PROVE  Cardinality(a .. b) = b + 1 - a
<1>1. IsFiniteSet(a .. b) /\ Cardinality(a .. b) = IF a > b THEN 0 ELSE b - a + 1
  BY FS_Interval
<1> QED
  BY <1>1

(* Frames that follow each other have different numbers, of which 15 is none. *)
LEMMA NumbersDiffer ==
  ASSUME SaveTypes, NEW f \in Nat
  PROVE  NumberOf(f + 1) # NumberOf(f) /\ NumberOf(f) # 15 /\ NumberOf(f) \in Nat
<1> DEFINE m == f + offset
<1>1. m \in Nat /\ Cycle \in Nat \ {0} /\ Cycle >= 2 /\ Cycle <= 12 /\ f + 1 + offset = m + 1
  BY Known DEF SaveTypes, Constants
<1> HIDE DEF m
<1>2. (m + 1) % Cycle = IF m % Cycle = Cycle - 1 THEN 0 ELSE (m % Cycle) + 1
  BY <1>1, NextRemainder
<1>3. m % Cycle \in 0 .. Cycle - 1
  BY <1>1
<1>4. NumberOf(f + 1) = (m + 1) % Cycle /\ NumberOf(f) = m % Cycle
  BY <1>1 DEF NumberOf, m
<1> DEFINE x == m % Cycle
           y == (m + 1) % Cycle
<1> HIDE DEF x, y
<1>5. y = (IF x = Cycle - 1 THEN 0 ELSE x + 1) /\ x \in 0 .. Cycle - 1
  BY <1>2, <1>3 DEF x, y
<1>6. y # x /\ x # 15 /\ x \in Nat
  BY <1>1, <1>5
<1> QED
  BY <1>4, <1>6 DEF x, y

(* The count after the packet sent next. *)
LEMMA CountNext ==
  ASSUME SaveTypes, PiecesInv, CountInv, ByNumber, pc = "run"
  PROVE  /\ Counted(part) = IF Begun \/ part # 1
                              THEN (IF part >= 2 THEN frame ELSE frame - 1) - Zero ELSE 0
         /\ Remember(part) = IF Begun \/ part # 1
                              THEN NumberOf(IF part >= 2 THEN frame ELSE frame - 1) ELSE 0
         /\ Begun \/ frame = 1
         /\ ~Begun \/ part >= 3 \/ frame > 1
         /\ (NewFrame(part) => part # 1 /\ (Begun => part = 2))
<1>1. /\ Parts \in Nat /\ Parts >= 2 /\ part \in 1 .. Parts /\ frame \in 1 .. MaxFrame + 1
      /\ MaxFrame \in Nat /\ First \in 1 .. Parts /\ numbers = "body"
      /\ IF Begun THEN frameCount = LastNumbered - Zero /\ seqPrev = NumberOf(LastNumbered)
                  ELSE frameCount = 0 /\ seqPrev = 0
  BY Known DEF SaveTypes, Constants, PiecesInv, CountInv, ByNumber
<1>2. Zero \in {0, 1} /\ (Zero = 1 <=> NumberOf(1) = 0)
  BY DEF Zero
<1>3. Begun \/ frame = 1
  BY <1>1 DEF Begun
<1>4. frame = 1 => part >= First
  BY <1>1 DEF PiecesInv, First
<1>5. Seq4(part) = IF part # 1 THEN NumberOf(frame) ELSE 15
  BY <1>1 DEF Seq4, NumberOf
<1>6. NumberOf(frame) # 15 /\ (frame > 1 => NumberOf(frame - 1) # NumberOf(frame))
  <2>1. frame \in Nat /\ frame - 1 \in Nat /\ (frame - 1) + 1 = frame
    BY <1>1
  <2>2. NumberOf(frame) # 15
    BY <2>1, NumbersDiffer
  <2>3. NumberOf((frame - 1) + 1) # NumberOf(frame - 1)
    BY <2>1, NumbersDiffer
  <2> QED
    BY <2>1, <2>2, <2>3
<1>7. CASE part = 1
  <2>1. Seq4(part) = 15 /\ ~NewFrame(part)
    BY <1>5, <1>7 DEF NewFrame
  <2>2. Counted(part) = frameCount /\ Remember(part) = seqPrev
    BY <2>1 DEF Counted, Remember
  <2>3. LastNumbered = frame - 1 /\ ~(part >= 2)
    BY <1>1, <1>7 DEF LastNumbered
  <2> QED
    BY <1>1, <1>3, <1>7, <2>1, <2>2, <2>3 DEF Begun
<1>8. CASE part # 1
  <2>1. /\ Seq4(part) = NumberOf(frame) /\ (NewFrame(part) <=> NumberOf(frame) # seqPrev)
        /\ Remember(part) = NumberOf(frame) /\ part >= 2
    BY <1>1, <1>5, <1>6, <1>8 DEF NewFrame, Remember
  <2>2. CASE ~Begun
    <3>1. frame = 1 /\ frameCount = 0 /\ seqPrev = 0
      BY <1>1, <1>3, <2>2
    <3>2. Counted(part) = 1 - Zero
      <4>1. CASE NumberOf(frame) = 0
        BY <1>2, <2>1, <3>1, <4>1 DEF Counted
      <4>2. CASE NumberOf(frame) # 0
        BY <1>2, <2>1, <3>1, <4>2 DEF Counted
      <4> QED
        BY <4>1, <4>2
    <3> QED
      BY <1>8, <2>1, <2>2, <3>1, <3>2
  <2>3. CASE Begun /\ part = 2
    <3>1. frame > 1 /\ LastNumbered = frame - 1
      BY <1>1, <2>3 DEF Begun, LastNumbered
    <3>2. NewFrame(part)
      BY <1>1, <1>6, <2>1, <2>3, <3>1
    <3>3. Counted(part) = frame - Zero
      BY <1>1, <1>2, <2>3, <3>1, <3>2 DEF Counted
    <3> QED
      BY <1>1, <2>1, <2>3, <3>1, <3>3
  <2>4. CASE Begun /\ part # 2
    <3>1. part >= 3 /\ LastNumbered = frame
      BY <1>1, <1>8, <2>4 DEF LastNumbered
    <3>2. ~NewFrame(part)
      BY <1>1, <2>1, <2>4, <3>1
    <3>3. Counted(part) = frame - Zero
      BY <1>1, <2>4, <3>1, <3>2 DEF Counted
    <3> QED
      BY <1>3, <2>1, <2>4, <3>1, <3>2, <3>3
  <2> QED
    BY <2>2, <2>3, <2>4
<1> QED
  BY <1>7, <1>8

LEMMA NearStart == Init => NearInv
<1> SUFFICES ASSUME Init PROVE NearInv
  OBVIOUS
<1>1. SaveTypes /\ Constants
  BY SaveTypesStart, Known
<1>2. /\ pos = 0 /\ frame = 1 /\ frameCount = 0 /\ seqPrev = 0 /\ pc = "run"
      /\ platform \in {"linux", "macosX"} => part = 1
  BY DEF Init, OpenFile
<1>3. First = part
  BY <1>2 DEF First
<1>4. PiecesInv
  <2>1. \A i \in 1 .. Len(file) : file[i].f = OldFrame
    <3>1. PICK n \in OldLengths : file = Old(n)
      BY DEF Init
    <3>2. n \in Nat
      BY <3>1, SaveAssumption
    <3>3. Len(file) = n
      BY <3>1, <3>2 DEF Old
    <3> QED
      BY <3>1, <3>3 DEF Old
  <2>2. \A f \in 1 .. MaxFrame, p \in 1 .. Parts : ~Saved(f, p) /\ ~Sent(f, p)
    <3>1. \A f \in 1 .. MaxFrame, p \in 1 .. Parts : ~Saved(f, p)
      BY <1>2 DEF Saved
    <3>2. \A f \in 1 .. MaxFrame, p \in 1 .. Parts : ~Sent(f, p)
      BY <1>1, <1>2, <1>3 DEF Sent, SaveTypes, Constants
    <3> QED
      BY <3>1, <3>2
  <2>3. First \in 1 .. Parts
    BY <1>1, <1>3 DEF SaveTypes
  <2> QED
    BY <1>2, <2>1, <2>2, <2>3 DEF PiecesInv
<1>5. CountInv
  <2>1. ~Begun
    BY <1>1, <1>2, <1>3 DEF Begun, SaveTypes, Constants
  <2>2. platform = "macosX" => First = 1
    BY <1>2, <1>3
  <2> QED
    BY <1>1, <1>2, <2>1, <2>2 DEF CountInv, SaveTypes
<1> QED
  BY <1>2, <1>4, <1>5 DEF NearInv

LEMMA NearStep ==
  ASSUME SaveTypes, NearInv, Next
  PROVE  NearInv'
<1>1. /\ (Goes \/ Stops \/ Loses \/ Tears) /\ UNCHANGED chosen /\ missing \in Nat
      /\ Parts \in Nat /\ Parts >= 2 /\ part \in 1 .. Parts /\ frame \in 1 .. MaxFrame + 1
      /\ MaxFrame \in Nat /\ frameMax \in Nat /\ offset \in 0 .. Cycle - 1 /\ Cycle \in Nat
  BY Kinds, Known DEF SaveTypes, Constants
<1>2. /\ UNCHANGED <<platform, numbers, offset, frameMax>> /\ Zero' = Zero
      /\ ByNumber' = ByNumber
  BY <1>1 DEF chosen, Zero, NumberOf, ByNumber
<1> SUFFICES ASSUME missing' = 0
             PROVE  /\ pc' = "run" => PiecesInv' /\ CountInv'
                    /\ pc' = "done" => platform # "linux"
                    /\ pc' = "done" /\ platform = "macosX"
                         => PiecesInv' /\ First' = 1 /\ frame' - 1 = frameMax
                    /\ pc' = "done" /\ ByNumber
                         => Cardinality(WholeFrames') \in frameMax - 1 .. frameMax + 1
  BY <1>2 DEF NearInv
<1>3. missing = 0 /\ ~Loses
  BY <1>1 DEF Goes, Stops, Loses, Tears
<1>4. pc' \in {"run", "done"} => pc = "run"
  BY <1>1, <1>3 DEF Goes, Stops, Tears
<1> SUFFICES ASSUME pc' \in {"run", "done"}
             PROVE  /\ pc' = "run" => PiecesInv' /\ CountInv'
                    /\ pc' = "done" => platform # "linux"
                    /\ pc' = "done" /\ platform = "macosX"
                         => PiecesInv' /\ First' = 1 /\ frame' - 1 = frameMax
                    /\ pc' = "done" /\ ByNumber
                         => Cardinality(WholeFrames') \in frameMax - 1 .. frameMax + 1
  OBVIOUS
<1>5. pc = "run" /\ PiecesInv /\ CountInv
  BY <1>3, <1>4 DEF NearInv
<1>6. First \in 1 .. Parts /\ (frame = 1 => part >= First)
  BY <1>1, <1>5 DEF PiecesInv, First
<1>7. Save
  BY <1>3, <1>5 DEF Next, Missing, Loses, Fail, Interrupt, DiskFull, AfterFailure
<1>8. CASE SaveFrame \/ IdhRead
  <2>1. /\ frame <= MaxFrame /\ frame' = frame + 1 /\ part' = part /\ frameCount' = frameCount + 1
        /\ torn' = torn /\ missing' = missing /\ Write(pos, Frame) /\ part = 1
        /\ platform \in {"linux", "macosX"} /\ ~ByNumber
    BY <1>8 DEF SaveFrame, IdhRead, ByNumber, SaveTypes
  <2>2. Goes
    <3>1. Wrote(Parts) /\ Parts \in 1 .. Parts /\ part + Parts = Parts + 1
      BY <1>1, <2>1, WroteFrame
    <3> QED
      BY <1>5, <2>1, <3>1 DEF Goes
  <2>3. PiecesInv' /\ First' = First
    BY <1>5, <2>2, PiecesGo
  <2>4. CASE platform = "linux"
    <3>1. pc' = "run"
      BY <1>5, <1>8, <2>4 DEF SaveFrame, IdhRead
    <3> QED
      BY <1>2, <2>1, <2>3, <2>4, <3>1 DEF CountInv
  <2>5. CASE platform = "macosX"
    <3>1. /\ First = 1 /\ frameCount = frame - 1 /\ (frameMax # 0 => frameCount < frameMax)
          /\ pc' = IF frameMax # 0 /\ frameCount + 1 >= frameMax THEN "done" ELSE "run"
      BY <1>5, <1>8, <2>5 DEF SaveFrame, IdhRead, AllRead, CountInv
    <3>2. First' = 1 /\ frameCount' = frame' - 1
      BY <1>1, <2>1, <2>3, <3>1
    <3>3. CASE pc' = "done"
      <4>1. frameMax # 0 /\ frameCount + 1 >= frameMax
        BY <3>1, <3>3
      <4>2. frame' - 1 = frameMax
        BY <1>1, <2>1, <3>1, <4>1
      <4> QED
        BY <2>1, <2>3, <2>5, <3>2, <3>3, <4>2
    <3>4. CASE pc' = "run"
      <4>1. frameMax # 0 => frameCount' < frameMax
        BY <1>1, <2>1, <3>1, <3>4
      <4> QED
        BY <1>2, <2>1, <2>3, <2>5, <3>2, <3>4, <4>1 DEF CountInv
    <3> QED
      BY <3>3, <3>4
  <2> QED
    BY <2>1, <2>4, <2>5
<1>9. CASE SavePacket
  <2>1. /\ frame <= MaxFrame /\ NextPacket /\ frameCount' = Counted(part)
        /\ torn' = torn /\ platform \in {"netbsd", "freebsd4"}
        /\ \/ Enough(Counted(part)) /\ pc' = "done" /\ UNCHANGED <<file, pos>>
           \/ ~Enough(Counted(part)) /\ pc' = "run" /\ seqPrev' = Remember(part)
    BY <1>5, <1>9 DEF SavePacket, ByPacket
  <2>2. CASE pc' = "run"
    <3>1. Goes
      BY <1>1, <1>3, <2>2 DEF Stops, Tears
    <3>2. PiecesInv' /\ First' = First
      BY <1>5, <3>1, PiecesGo
    <3>3. ASSUME ByNumber
          PROVE  /\ IF Begun' THEN frameCount' = LastNumbered' - Zero /\ seqPrev' = NumberOf(LastNumbered')
                              ELSE frameCount' = 0 /\ seqPrev' = 0
                 /\ frameMax # 0 => frameCount' <= frameMax
      <4> DEFINE last == IF part >= 2 THEN frame ELSE frame - 1
                 any == Begun \/ part # 1
      <4>1. /\ Counted(part) = IF any THEN last - Zero ELSE 0
            /\ Remember(part) = IF any THEN NumberOf(last) ELSE 0
        BY <1>5, <3>3, CountNext
      <4>2. LastNumbered' = last
        BY <1>1, <2>1 DEF LastNumbered, NextPacket
      <4>3. Begun' <=> any
        BY <1>1, <1>6, <2>1, <3>2 DEF Begun, NextPacket
      <4>4. frameMax # 0 => frameCount' <= frameMax
        <5>1. Counted(part) \in Int
          <6>1. last \in Int /\ Zero \in {0, 1}
            BY <1>1 DEF Zero
          <6> HIDE DEF last, any
          <6> QED
            BY <4>1, <6>1
        <5> QED
          BY <1>1, <2>1, <2>2, <5>1 DEF Enough
      <4>5. frameCount' = Counted(part) /\ seqPrev' = Remember(part)
        BY <2>1, <2>2
      <4> HIDE DEF last, any
      <4> QED
        BY <4>1, <4>2, <4>3, <4>4, <4>5
    <3>4. CountInv'
      <4>1. NumberOf(LastNumbered)' = NumberOf(LastNumbered')
        BY <1>2 DEF NumberOf
      <4> QED
        BY <1>2, <2>1, <3>3, <4>1 DEF CountInv
    <3> QED
      BY <2>2, <3>2, <3>4
  <2>3. CASE pc' = "done"
    <3>1. Enough(Counted(part)) /\ UNCHANGED <<file, pos, torn>>
      BY <2>1, <2>3
    <3>2. ASSUME ByNumber
          PROVE  Cardinality(WholeFrames') \in frameMax - 1 .. frameMax + 1
      <4>1. frameMax # 0 /\ Counted(part) > frameMax
        BY <3>1 DEF Enough
      <4>2. frameCount <= frameMax
        BY <1>5, <3>2, <4>1 DEF CountInv
      <4>3. NewFrame(part) /\ Counted(part) = frameCount + 1
        BY <1>1, <4>1, <4>2 DEF Counted, SaveTypes
      <4>4. Zero \in {0, 1}
        BY DEF Zero
      <4>5. /\ part # 1 /\ (Begun => part = 2) /\ (Begun \/ frame = 1)
            /\ Counted(part) = frame - Zero
        <5>1. part # 1 /\ (Begun => part = 2) /\ (Begun \/ frame = 1)
          BY <1>5, <3>2, <4>3, CountNext
        <5>2. part >= 2
          BY <1>1, <5>1
        <5> QED
          BY <1>5, <3>2, <5>1, <5>2, CountNext
      <4>6. frame = frameMax + 1 + Zero
        <5>1. frameCount \in Nat
          BY DEF SaveTypes
        <5> QED
          BY <1>1, <4>1, <4>2, <4>3, <4>4, <4>5, <5>1
      <4>7. ~torn
        BY <1>5 DEF SaveTypes
      <4>8. WholeFrames = (IF First = 1 THEN 1 ELSE 2) .. (frame - 1)
        BY <1>5, <4>7, WholeRange
      <4> DEFINE a == IF First = 1 THEN 1 ELSE 2
      <4>9. a \in {1, 2}
        OBVIOUS
      <4> HIDE DEF a
      <4>10. a \in Nat /\ frame - 1 \in Nat /\ a <= (frame - 1) + 1
        BY <1>1, <4>1, <4>4, <4>6, <4>9
      <4>11. Cardinality(a .. (frame - 1)) = (frame - 1) + 1 - a
        BY <4>10, IntervalSize
      <4>12. Cardinality(WholeFrames) \in frameMax - 1 .. frameMax + 1
        BY <1>1, <4>4, <4>6, <4>8, <4>9, <4>11 DEF a
      <4>13. WholeFrames' = WholeFrames
        BY <3>1 DEF WholeFrames, Has
      <4> QED
        BY <4>12, <4>13
    <3> QED
      BY <2>1, <2>3, <3>2
  <2> QED
    BY <2>1, <2>2, <2>3
<1> QED
  BY <1>7, <1>8, <1>9 DEF Save

LEMMA SavedNearly ==
  ASSUME SaveTypes, NearInv
  PROVE  SavesNearly
<1> SUFFICES ASSUME pc = "done", numbers = "body", missing = 0
             PROVE  Cardinality(WholeFrames) \in frameMax - 1 .. frameMax + 1
  BY DEF SavesNearly
<1>1. frameMax \in Nat /\ frame \in 1 .. MaxFrame + 1 /\ MaxFrame \in Nat /\ ~torn
      /\ platform \in {"netbsd", "freebsd4", "linux", "macosX"}
  BY Known DEF SaveTypes, Constants
<1>2. CASE platform = "macosX"
  <2>1. PiecesInv /\ First = 1 /\ frame - 1 = frameMax
    BY <1>2 DEF NearInv
  <2>2. WholeFrames = 1 .. (frame - 1)
    BY <1>1, <2>1, WholeRange
  <2>3. Cardinality(1 .. (frame - 1)) = (frame - 1) + 1 - 1
    <3>1. frame - 1 \in Nat /\ 1 <= (frame - 1) + 1
      BY <1>1
    <3> QED
      BY <3>1, IntervalSize
  <2> QED
    BY <1>1, <2>1, <2>2, <2>3
<1>3. CASE platform \in {"netbsd", "freebsd4"}
  BY <1>3 DEF NearInv, ByNumber
<1> QED
  BY <1>1, <1>2, <1>3 DEF NearInv
-----------------------------------------------------------------------------
SaveVars == <<vars, player>>

LEMMA RecordsOrPlays ==
  ASSUME [RecordingNext]_SaveVars
  PROVE  Next \/ UNCHANGED vars
BY DEF RecordingNext, Record, Play, SaveVars

LEMMA Saving == RecordingSpec => [](SaveTypes /\ NearInv)
<1>1. RecordingInit => SaveTypes /\ NearInv
  BY SaveTypesStart, NearStart DEF RecordingInit
<1>2. SaveTypes /\ NearInv /\ [RecordingNext]_<<vars, player>> => (SaveTypes /\ NearInv)'
  <2> SUFFICES ASSUME SaveTypes, NearInv, [RecordingNext]_<<vars, player>>
               PROVE  (SaveTypes /\ NearInv)'
    OBVIOUS
  <2>1. Next \/ UNCHANGED vars
    BY RecordsOrPlays DEF SaveVars
  <2>2. CASE Next
    BY <2>2, SaveTypesStep, NearStep
  <2>3. CASE UNCHANGED vars
    <3>1. SaveTypes'
      BY <2>3 DEF vars, SaveTypes
    <3>2. NearInv'
      BY <2>3 DEF vars, NearInv, PiecesInv, CountInv, WholeFrames, Has, First, Saved, Sent, Begun,
                  LastNumbered, NumberOf, Zero, ByNumber
    <3> QED
      BY <3>1, <3>2
  <2> QED
    BY <2>1, <2>2, <2>3
<1> QED
  BY <1>1, <1>2, PTL DEF RecordingSpec

(* Where frames are counted by their numbers, -f gives as many whole frames as
   asked for, or one more or less (netbsd.c:112, freebsd4.c, macosX.c). *)
THEOREM SavesNearlyAsked == RecordingSpec => []SavesNearly
<1>1. SaveTypes /\ NearInv => SavesNearly
  BY SavedNearly
<1> QED
  BY <1>1, Saving, PTL
-----------------------------------------------------------------------------
(* dvplay. *)
Frames == [1 .. Parts -> 0 .. OldFrame + 1]

LEMMA PlayTypesMeaning ==
  D!TypeOK <=> /\ next \in 1 .. Len(file) + 1 /\ pkt \in Frames /\ shown \in Seq(Frames)
               /\ playing \in {"read", "write", "end"}
BY DEF D!TypeOK, D!Position, D!Data, D!Torn, Frames

LEMMA PlayTypesStart == RecordingInit => D!TypeOK
<1> SUFFICES ASSUME RecordingInit PROVE D!TypeOK
  OBVIOUS
<1>1. SaveTypes /\ Constants
  BY SaveTypesStart, Known DEF RecordingInit
<1>2. next = 1 /\ playing = "read" /\ shown = <<>> /\ pkt = [p \in 1 .. Parts |-> 0]
  BY DEF RecordingInit, D!Init, D!Position
<1>3. pkt \in Frames
  BY <1>1, <1>2 DEF Frames, Constants
<1>4. <<>> \in Seq(Frames)
  OBVIOUS
<1>5. next \in 1 .. Len(file) + 1
  BY <1>1, <1>2 DEF SaveTypes
<1> QED
  BY <1>2, <1>3, <1>4, <1>5, PlayTypesMeaning

(* What dvplay has read of a piece is a piece of a frame. *)
LEMMA PieceType ==
  ASSUME SaveTypes, NEW i \in 1 .. Len(file)
  PROVE  file[i].p \in 1 .. Parts /\ file[i].f \in 1 .. OldFrame /\ D!Contents(i) \in 0 .. OldFrame + 1
<1>1. file[i] \in Packet /\ OldFrame \in Nat
  BY Known DEF SaveTypes, Constants
<1> QED
  BY <1>1 DEF Packet, D!Contents, D!Torn

LEMMA PlayTypesStep ==
  ASSUME SaveTypes, D!TypeOK, [RecordingNext]_SaveVars, pc \notin {"done", "failed"} => next = 1,
         SaveTypes'
  PROVE  D!TypeOK'
<1>1. /\ next \in 1 .. Len(file) + 1 /\ pkt \in Frames /\ shown \in Seq(Frames)
      /\ playing \in {"read", "write", "end"} /\ Len(file) \in Nat
  BY PlayTypesMeaning DEF SaveTypes
<1>2. Len(file') \in Nat
  BY DEF SaveTypes
<1> SUFFICES /\ next' \in 1 .. Len(file') + 1 /\ pkt' \in Frames /\ shown' \in Seq(Frames)
             /\ playing' \in {"read", "write", "end"}
  BY DEF D!TypeOK, D!Position, D!Data, D!Torn, Frames
<1>3. CASE Record \/ UNCHANGED SaveVars
  <2>1. UNCHANGED player /\ (next = 1 \/ file' = file)
    <3>1. Record => UNCHANGED player /\ pc \notin {"done", "failed"}
      BY DEF Record, Next, Save, SavePacket, SaveFrame, IdhRead, Missing, Fail, DiskFull, Interrupt,
             ByPacket
    <3> QED
      BY <1>3, <3>1 DEF SaveVars, vars
  <2> QED
    BY <1>1, <1>2, <2>1 DEF player
<1>4. CASE Play
  <2>1. file' = file
    BY <1>4 DEF Play, vars
  <2>2. CASE D!ReadBlock
    <3>1. /\ next <= Len(file) /\ next' = next + 1 /\ shown' = shown
          /\ playing' \in {"read", "write"}
          /\ pkt' = [pkt EXCEPT ![file[next].p] = D!Contents(next)]
      BY <2>2 DEF D!ReadBlock
    <3>2. file[next].p \in 1 .. Parts /\ D!Contents(next) \in 0 .. OldFrame + 1
      BY <1>1, <3>1, PieceType
    <3>3. pkt' \in Frames
      BY <1>1, <3>1, <3>2 DEF Frames
    <3> QED
      BY <1>1, <2>1, <3>1, <3>3
  <2>3. CASE D!EndOfFile
    BY <1>1, <2>1, <2>3 DEF D!EndOfFile
  <2>4. CASE D!WriteFrame
    <3>1. shown' = Append(shown, pkt) /\ pkt' = pkt /\ next' = next /\ playing' = "read"
      BY <2>4 DEF D!WriteFrame, D!AfterWrite
    <3> QED
      BY <1>1, <2>1, <3>1
  <2> QED
    BY <1>4, <2>2, <2>3, <2>4 DEF Play, D!Next
<1> QED
  BY <1>3, <1>4 DEF RecordingNext

(* dvplay waits for dvsave, and then dvsave is no more. *)
PlayerWaits ==
  pc \notin {"done", "failed"} =>
    /\ next = 1 /\ playing = "read" /\ shown = <<>> /\ pkt = [p \in 1 .. Parts |-> 0]

LEMMA WaitsStep ==
  ASSUME PlayerWaits, [RecordingNext]_SaveVars
  PROVE  PlayerWaits'
<1>1. CASE Record \/ UNCHANGED SaveVars
  <2>1. UNCHANGED player /\ (pc' \notin {"done", "failed"} => pc \notin {"done", "failed"})
    BY <1>1 DEF Record, SaveVars, vars, Next, Save, SavePacket, SaveFrame, IdhRead, Missing, Fail, DiskFull,
                Interrupt, ByPacket
  <2> QED
    BY <2>1 DEF player, PlayerWaits
<1>2. CASE Play
  BY <1>2 DEF Play, Ended, vars, PlayerWaits
<1> QED
  BY <1>1, <1>2 DEF RecordingNext

LEMMA Playing == RecordingSpec => [](SaveTypes /\ D!TypeOK /\ PlayerWaits)
<1>1. RecordingInit => D!TypeOK /\ PlayerWaits
  BY PlayTypesStart DEF RecordingInit, D!Init, D!Position, PlayerWaits
<1>2. SaveTypes /\ SaveTypes' /\ D!TypeOK /\ PlayerWaits /\ [RecordingNext]_<<vars, player>>
        => (D!TypeOK /\ PlayerWaits)'
  BY PlayTypesStep, WaitsStep DEF SaveVars, PlayerWaits
<1> QED
  BY <1>1, <1>2, Saving, PTL DEF RecordingSpec

(* A frame dvplay writes to IEEE1394 shows the newest block read for every
   place: it implements Concealer, as dvrecv does. *)
THEOREM PlayConceals == RecordingSpec => Conceals
<1> DEFINE Last == IF shown = <<>> THEN [p \in D!Position |-> 0] ELSE shown[Len(shown)]
<1>1. RecordingInit => D!C!Init
  BY DEF RecordingInit, D!Init, D!C!Init
<1>2. SaveTypes /\ D!TypeOK /\ [RecordingNext]_<<vars, player>> => [D!C!Next]_<<pkt, Last>>
  <2> SUFFICES ASSUME SaveTypes, D!TypeOK, [RecordingNext]_<<vars, player>>
               PROVE  D!C!Next \/ UNCHANGED <<pkt, Last>>
    OBVIOUS
  <2>1. CASE Record \/ UNCHANGED <<vars, player>>
    BY <2>1 DEF Record, player
  <2>2. CASE Play
    <3>1. CASE D!ReadBlock
      <4>1. /\ next \in 1 .. Len(file) /\ Last' = Last
            /\ pkt' = [pkt EXCEPT ![file[next].p] = D!Contents(next)]
        BY <3>1, PlayTypesMeaning DEF D!ReadBlock, SaveTypes
      <4>2. file[next].p \in D!Position /\ D!Contents(next) \in D!Data
        BY <4>1, PieceType DEF D!Position, D!Data, D!Torn
      <4> QED
        BY <4>1, <4>2 DEF D!C!Next, D!C!Receive
    <3>2. CASE D!EndOfFile
      BY <3>2 DEF D!EndOfFile
    <3>3. CASE D!WriteFrame
      <4>1. shown' = Append(shown, pkt) /\ pkt' = pkt
        BY <3>3 DEF D!WriteFrame, D!AfterWrite
      <4>2. shown \in Seq(Frames) /\ pkt \in Frames
        BY PlayTypesMeaning
      <4>3. shown' # <<>> /\ shown'[Len(shown')] = pkt
        BY <4>1, <4>2
      <4> QED
        BY <4>1, <4>3 DEF D!C!Next, D!C!HandOverOnly
    <3> QED
      BY <2>2, <3>1, <3>2, <3>3 DEF Play, D!Next
  <2> QED
    BY <2>1, <2>2 DEF RecordingNext
<1> QED
  BY <1>1, <1>2, Playing, PTL DEF RecordingSpec, Conceals, D!Conceals, D!C!Spec, D!C!vars
-----------------------------------------------------------------------------
(* The file as dvplay will find it: the pieces dvsave wrote follow each other,
   and so do those of the old file. *)
Good == IF torn THEN pos - 1 ELSE pos
FramesUpTo(x) == IF x.p = Parts THEN x.f ELSE x.f - 1
NextPlace(p) == IF p = Parts THEN 1 ELSE p + 1
Ends == {i \in 1 .. pos : file[i].p = Parts /\ ~D!Cut(i)}

FileInv ==
  /\ pos >= 1 => file[1].f = 1
  /\ \A i \in 1 .. pos - 1 : file[i + 1] = Succ(file[i])
  /\ \A i \in 1 .. pos : file[i].f = 1 => file[i].p >= file[1].p
  /\ \A i \in pos + 1 .. Len(file) : file[i].f = OldFrame
  /\ \A i \in pos + 1 .. Len(file) - 1 : file[i + 1].p = NextPlace(file[i].p)
WholeInv ==
  /\ Whole = IF Good = 0 THEN 0 ELSE FramesUpTo(file[Good])
  /\ \A i \in 1 .. Good : FramesUpTo(file[i]) <= Whole
RunInv == pc = "run" => IF pos = 0 THEN frame = 1 ELSE Here = Succ(file[pos])
SavedInv == missing = 0 => FileInv /\ WholeInv /\ RunInv

LEMMA WholeIsEnds == Whole = Cardinality(Ends)
BY DEF Whole, Ends

LEMMA Followed ==
  ASSUME SaveTypes, FileInv, RunInv, pc = "run"
  PROVE  /\ pos # 0 => FramesUpTo(file[pos]) = frame - 1
         /\ pos # 0 /\ frame = 1 => part >= file[1].p
<1> SUFFICES ASSUME pos # 0
             PROVE  FramesUpTo(file[pos]) = frame - 1 /\ (frame = 1 => part >= file[1].p)
  OBVIOUS
<1>1. pos \in 1 .. Len(file) /\ pos \in 1 .. pos /\ 1 \in 1 .. Len(file) /\ Parts \in Nat /\ Parts >= 2
  BY Known DEF SaveTypes, Constants
<1>2. /\ file[pos].f \in 1 .. OldFrame /\ file[pos].p \in 1 .. Parts /\ file[1].p \in 1 .. Parts
      /\ OldFrame \in Nat
  BY <1>1, PieceType, Known DEF Constants
<1>3. Here = Succ(file[pos])
  BY DEF RunInv
<1>4. /\ frame = IF file[pos].p = Parts THEN file[pos].f + 1 ELSE file[pos].f
      /\ part = IF file[pos].p = Parts THEN 1 ELSE file[pos].p + 1
  BY <1>3 DEF Here, Succ
<1>5. file[pos].f = 1 => file[pos].p >= file[1].p
  BY <1>1 DEF FileInv
<1> DEFINE f == file[pos].f
           p == file[pos].p
           q == file[1].p
<1>6. FramesUpTo(file[pos]) = IF p = Parts THEN f ELSE f - 1
  BY DEF FramesUpTo
<1> HIDE DEF f, p, q
<1>7. /\ f \in Nat /\ f >= 1 /\ p \in 1 .. Parts /\ q \in 1 .. Parts
      /\ frame = (IF p = Parts THEN f + 1 ELSE f) /\ part = (IF p = Parts THEN 1 ELSE p + 1)
      /\ (f = 1 => p >= q)
  BY <1>2, <1>4, <1>5 DEF f, p, q
<1>8. FramesUpTo(file[pos]) = frame - 1 /\ (frame = 1 => part >= q)
  BY <1>1, <1>6, <1>7
<1> QED
  BY <1>8 DEF q

(* Writing keeps it that way. *)
LEMMA FileWrote ==
  ASSUME SaveTypes, FileInv, RunInv, pc = "run", NEW n \in 1 .. Parts, Wrote(n)
  PROVE  FileInv'
<1>1. /\ Parts \in Nat /\ Parts >= 2 /\ part \in 1 .. Parts /\ frame \in 1 .. MaxFrame + 1
      /\ MaxFrame \in Nat /\ file \in Seq(Packet) /\ pos \in 0 .. Len(file) /\ Len(file) \in Nat
      /\ n \in Nat /\ n >= 1
  BY Known DEF SaveTypes, Constants
<1>2. /\ part + n <= Parts + 1 /\ pos' = pos + n /\ pos' \in 1 .. Len(file')
      /\ Len(file') = IF Len(file) > pos' THEN Len(file) ELSE pos'
  BY DEF Wrote
<1>3. /\ \A i \in 1 .. pos : file'[i] = file[i]
      /\ \A i \in 1 .. n : file'[pos + i] = [f |-> frame, p |-> part + i - 1]
      /\ \A i \in pos' + 1 .. Len(file') : i \in pos + 1 .. Len(file) /\ file'[i] = file[i]
  BY DEF Wrote
<1>4. ASSUME NEW i \in 1 .. pos', i \notin 1 .. pos
      PROVE  i - pos \in 1 .. n /\ file'[i] = [f |-> frame, p |-> part + (i - pos) - 1]
  <2>1. i - pos \in 1 .. n /\ pos + (i - pos) = i
    BY <1>1, <1>2, <1>4
  <2> QED
    BY <1>3, <2>1
<1>5. pos = 0 => frame = 1
  BY DEF RunInv
<1>6. file'[1].f = 1
  <2>1. CASE pos = 0
    <3>1. 1 \in 1 .. pos' /\ 1 \notin 1 .. pos
      BY <1>2, <2>1
    <3>2. file'[1] = [f |-> frame, p |-> part + (1 - pos) - 1]
      BY <1>4, <3>1
    <3> QED
      BY <1>5, <2>1, <3>2
  <2>2. CASE pos # 0
    BY <1>1, <1>3, <2>2 DEF FileInv
  <2> QED
    BY <2>1, <2>2
<1>7. ASSUME NEW i \in 1 .. pos' - 1
      PROVE  file'[i + 1] = Succ(file'[i])
  <2>1. CASE i \in 1 .. pos - 1
    <3>1. i \in 1 .. pos /\ i + 1 \in 1 .. pos
      BY <1>1, <2>1
    <3> QED
      BY <1>3, <2>1, <3>1 DEF FileInv
  <2>2. CASE i = pos
    <3>1. pos # 0 /\ pos \in 1 .. pos /\ 1 \in 1 .. n
      BY <1>1, <2>2
    <3>2. file'[pos + 1] = [f |-> frame, p |-> part + 1 - 1] /\ part + 1 - 1 = part
      BY <1>1, <1>3, <3>1
    <3>3. Here = Succ(file[pos]) /\ file'[pos] = file[pos]
      BY <1>3, <3>1 DEF RunInv
    <3> QED
      BY <2>2, <3>2, <3>3 DEF Here
  <2>3. CASE i \notin 1 .. pos
    <3> DEFINE k == i - pos
    <3>1. k \in 1 .. n /\ k + 1 \in 1 .. n /\ pos + k = i /\ pos + (k + 1) = i + 1 /\ k \in Nat
      BY <1>1, <1>2, <2>3
    <3> HIDE DEF k
    <3>2. /\ file'[i] = [f |-> frame, p |-> part + k - 1]
          /\ file'[i + 1] = [f |-> frame, p |-> part + (k + 1) - 1]
      BY <1>3, <3>1
    <3>3. part + k - 1 # Parts /\ (part + k - 1) + 1 = part + (k + 1) - 1
      BY <1>1, <1>2, <3>1
    <3>4. Succ([f |-> frame, p |-> part + k - 1]) = [f |-> frame, p |-> part + (k + 1) - 1]
      BY <3>3 DEF Succ
    <3> QED
      BY <3>2, <3>4
  <2> QED
    BY <1>1, <1>2, <2>1, <2>2, <2>3
<1>8. ASSUME NEW i \in 1 .. pos', file'[i].f = 1
      PROVE  file'[i].p >= file'[1].p
  <2>1. CASE i \in 1 .. pos
    <3>1. file'[i] = file[i] /\ file'[1] = file[1]
      BY <1>1, <1>3, <2>1
    <3> QED
      BY <1>8, <2>1, <3>1 DEF FileInv
  <2>2. CASE i \notin 1 .. pos
    <3> DEFINE k == i - pos
    <3>1. k \in 1 .. n /\ file'[i] = [f |-> frame, p |-> part + k - 1]
      BY <1>4, <2>2
    <3> HIDE DEF k
    <3>2. frame = 1 /\ file'[i].p = part + k - 1
      BY <1>8, <3>1
    <3>3. CASE pos = 0
      <4>1. 1 \in 1 .. n /\ pos + 1 = 1
        BY <1>1, <3>3
      <4>2. file'[pos + 1] = [f |-> frame, p |-> part + 1 - 1]
        BY <1>3, <4>1
      <4>3. file'[1].p = part + 1 - 1
        BY <4>1, <4>2
      <4> QED
        BY <1>1, <3>1, <3>2, <4>3
    <3>4. CASE pos # 0
      <4>1. part >= file[1].p /\ file'[1] = file[1]
        BY <1>1, <1>3, <3>2, <3>4, Followed
      <4>2. 1 \in 1 .. Len(file)
        BY <1>1, <3>4
      <4>3. file[1].p \in 1 .. Parts
        BY <4>2, PieceType
      <4> QED
        BY <1>1, <3>1, <3>2, <4>1, <4>3
    <3> QED
      BY <3>3, <3>4
  <2> QED
    BY <2>1, <2>2
<1>9. \A i \in pos' + 1 .. Len(file') : file'[i].f = OldFrame
  BY <1>3 DEF FileInv
<1>10. ASSUME NEW i \in pos' + 1 .. Len(file') - 1
       PROVE  file'[i + 1].p = NextPlace(file'[i].p)
  <2>1. i \in pos' + 1 .. Len(file') /\ i + 1 \in pos' + 1 .. Len(file') /\ i \in pos + 1 .. Len(file) - 1
    BY <1>1, <1>2
  <2>2. file'[i] = file[i] /\ file'[i + 1] = file[i + 1]
    BY <1>3, <2>1
  <2> QED
    BY <2>1, <2>2 DEF FileInv
<1> QED
  BY <1>6, <1>7, <1>8, <1>9, <1>10 DEF FileInv

(* A step that writes has saved one more frame to its end if it wrote the end of one. *)
LEMMA WholeWrote ==
  ASSUME SaveTypes, SaveTypes', FileInv, WholeInv, RunInv, pc = "run", NEW n \in 1 .. Parts, Wrote(n),
         FileInv', torn' => pos = Len(file)
  PROVE  WholeInv'
<1>1. /\ Parts \in Nat /\ Parts >= 2 /\ part \in 1 .. Parts /\ frame \in 1 .. MaxFrame + 1
      /\ MaxFrame \in Nat /\ pos \in 0 .. Len(file) /\ Len(file) \in Nat /\ torn = FALSE
      /\ n \in Nat /\ n >= 1 /\ torn' \in BOOLEAN
  BY Known DEF SaveTypes, Constants
<1>2. /\ part + n <= Parts + 1 /\ pos' = pos + n /\ pos' \in 1 .. Len(file')
      /\ Len(file') = IF Len(file) > pos' THEN Len(file) ELSE pos'
  BY DEF Wrote
<1>3. /\ \A i \in 1 .. pos : file'[i] = file[i]
      /\ \A i \in 1 .. n : file'[pos + i] = [f |-> frame, p |-> part + i - 1]
  BY DEF Wrote
<1>4. ASSUME NEW i \in 1 .. pos', i \notin 1 .. pos
      PROVE  i - pos \in 1 .. n /\ file'[i] = [f |-> frame, p |-> part + (i - pos) - 1]
  <2>1. i - pos \in 1 .. n /\ pos + (i - pos) = i
    BY <1>1, <1>2, <1>4
  <2> QED
    BY <1>3, <2>1
<1>5. Whole = frame - 1 /\ Good = pos
  <2>1. Good = pos
    BY <1>1 DEF Good
  <2>2. CASE pos = 0
    BY <1>1, <2>1, <2>2 DEF WholeInv, RunInv
  <2>3. CASE pos # 0
    <3>1. FramesUpTo(file[pos]) = frame - 1
      BY <2>3, Followed
    <3> QED
      BY <2>1, <2>3, <3>1 DEF WholeInv
  <2> QED
    BY <2>1, <2>2, <2>3
<1> DEFINE E == {i \in 1 .. pos : file[i].p = Parts}
           more == part + n = Parts + 1 /\ ~torn'
<1>6. Cardinality(E) = frame - 1 /\ IsFiniteSet(E)
  <2>1. Ends = E
    BY <1>1 DEF Ends, D!Cut
  <2>2. IsFiniteSet(1 .. pos)
    BY <1>1, FS_Interval
  <2>3. IsFiniteSet(E)
    BY <2>2, FS_Subset
  <2> QED
    BY <1>5, <2>1, <2>3, WholeIsEnds
<1>7. Ends' = IF more THEN E \cup {pos'} ELSE E
  <2>1. ASSUME NEW i \in 1 .. pos
        PROVE  ~D!Cut(i)' /\ i \in 1 .. pos' /\ i # pos'
    <3>1. i \in 1 .. pos' /\ i # pos' /\ i # Len(file')
      BY <1>1, <1>2
    <3> QED
      BY <3>1 DEF D!Cut
  <2>2. ASSUME NEW i \in 1 .. pos', i \notin 1 .. pos
        PROVE  file'[i].p = Parts <=> i = pos' /\ part + n = Parts + 1
    <3> DEFINE k == i - pos
    <3>1. k \in 1 .. n /\ file'[i] = [f |-> frame, p |-> part + k - 1] /\ i = pos + k
      BY <1>1, <1>2, <1>4, <2>2
    <3> HIDE DEF k
    <3>2. file'[i].p = part + k - 1
      BY <3>1
    <3>3. part + k - 1 = Parts <=> k = n /\ part + n = Parts + 1
      BY <1>1, <1>2, <3>1
    <3>4. k = n <=> i = pos'
      BY <1>1, <1>2, <3>1
    <3> QED
      BY <3>2, <3>3, <3>4
  <2>3. pos' \in 1 .. pos' /\ pos' \notin 1 .. pos
    BY <1>1, <1>2
  <2>4. Ends' = {i \in 1 .. pos' : file'[i].p = Parts /\ ~D!Cut(i)'}
    BY DEF Ends, D!Cut
  <2>5. ASSUME NEW i \in 1 .. pos', i \notin 1 .. pos
        PROVE  i \in Ends' <=> i = pos' /\ more
    <3>1. i = pos' => (D!Cut(i)' <=> torn')
      BY <1>2 DEF D!Cut
    <3> QED
      BY <2>2, <2>4, <2>5, <3>1
  <2>6. ASSUME NEW i \in 1 .. pos
        PROVE  i \in Ends' <=> i \in E
    BY <1>3, <2>1, <2>4
  <2>7. Ends' \subseteq 1 .. pos' /\ E \subseteq 1 .. pos
    BY <2>4
  <2>8. ASSUME NEW i PROVE i \in Ends' <=> i \in E \/ (i = pos' /\ more)
    BY <2>1, <2>3, <2>5, <2>6, <2>7
  <2> HIDE DEF E, more
  <2> QED
    BY <2>8
<1>8. Whole' = IF more THEN frame ELSE frame - 1
  <2>1. pos' \notin E
    BY <1>1, <1>2
  <2>2. Cardinality(E \cup {pos'}) = Cardinality(E) + 1
    BY <1>6, <2>1, FS_AddElement
  <2>3. Whole' = Cardinality(Ends')
    BY DEF Whole, Ends, D!Cut
  <2> HIDE DEF E, more
  <2> QED
    BY <1>1, <1>6, <1>7, <2>2, <2>3
<1>9. Good' = IF torn' THEN pos' - 1 ELSE pos'
  BY DEF Good
<1>10. ASSUME NEW i \in 1 .. Good', i \notin 1 .. pos
       PROVE  FramesUpTo(file'[i]) = IF i = pos' /\ more THEN frame ELSE frame - 1
  <2> DEFINE k == i - pos
  <2>1. i \in 1 .. pos'
    BY <1>1, <1>2, <1>9
  <2>2. k \in 1 .. n /\ file'[i] = [f |-> frame, p |-> part + k - 1] /\ i = pos + k
    BY <1>1, <1>2, <1>4, <1>10, <2>1
  <2> HIDE DEF k
  <2>3. file'[i].f = frame /\ file'[i].p = part + k - 1
    BY <2>2
  <2>4. part + k - 1 = Parts <=> i = pos' /\ more
    <3>1. torn' => i # pos'
      BY <1>1, <1>2, <1>9
    <3>2. part + k - 1 = Parts <=> k = n /\ part + n = Parts + 1
      BY <1>1, <1>2, <2>2
    <3>3. k = n <=> i = pos'
      BY <1>1, <1>2, <2>2
    <3>4. torn' => part + k - 1 # Parts
      BY <3>1, <3>2, <3>3
    <3> QED
      BY <3>2, <3>3, <3>4
  <2> HIDE DEF more
  <2> QED
    BY <2>3, <2>4 DEF FramesUpTo
<1>11. \A i \in 1 .. Good' : FramesUpTo(file'[i]) <= Whole'
  <2>1. SUFFICES ASSUME NEW i \in 1 .. Good' PROVE FramesUpTo(file'[i]) <= Whole'
    OBVIOUS
  <2>2. CASE i \in 1 .. pos
    <3>1. FramesUpTo(file'[i]) = FramesUpTo(file[i]) /\ FramesUpTo(file[i]) <= frame - 1
      BY <1>3, <1>5, <2>2 DEF WholeInv, FramesUpTo
    <3>2. file[i].f \in 1 .. OldFrame /\ OldFrame \in Nat
      <4>1. i \in 1 .. Len(file)
        BY <1>1, <2>2
      <4> QED
        BY <4>1, PieceType, Known DEF Constants
    <3>3. FramesUpTo(file[i]) \in Int
      BY <3>2 DEF FramesUpTo
    <3> HIDE DEF more
    <3> QED
      BY <1>1, <1>8, <3>1, <3>3
  <2>3. CASE i \notin 1 .. pos
    <3> HIDE DEF more
    <3> QED
      BY <1>1, <1>8, <1>10, <2>3
  <2> QED
    BY <2>2, <2>3
<1>12. Whole' = IF Good' = 0 THEN 0 ELSE FramesUpTo(file'[Good'])
  <2>1. CASE Good' = pos
    <3>1. ~more
      BY <1>1, <1>2, <1>9, <2>1
    <3>2. Whole' = Whole
      BY <1>5, <1>8, <3>1
    <3>3. pos # 0 => file'[pos] = file[pos]
      BY <1>1, <1>3
    <3>4. Whole = IF pos = 0 THEN 0 ELSE FramesUpTo(file[pos])
      BY <1>5 DEF WholeInv
    <3> QED
      BY <2>1, <3>2, <3>3, <3>4
  <2>2. CASE Good' # pos
    <3>1. Good' \in 1 .. Good' /\ Good' \notin 1 .. pos /\ Good' # 0
      BY <1>1, <1>2, <1>9, <2>2
    <3>2. FramesUpTo(file'[Good']) = IF Good' = pos' /\ more THEN frame ELSE frame - 1
      BY <1>10, <3>1
    <3>3. more => Good' = pos'
      BY <1>9
    <3> HIDE DEF more
    <3> QED
      BY <1>8, <3>1, <3>2, <3>3
  <2> QED
    BY <2>1, <2>2
<1> QED
  BY <1>11, <1>12 DEF WholeInv

LEMMA SavedStart == Init => SavedInv
<1> SUFFICES ASSUME Init PROVE FileInv /\ WholeInv /\ RunInv
  BY DEF SavedInv
<1>1. SaveTypes /\ Constants
  BY SaveTypesStart, Known
<1>2. pos = 0 /\ frame = 1 /\ torn = FALSE
  BY DEF Init, OpenFile
<1>3. PICK n \in OldLengths : file = Old(n)
  BY DEF Init
<1>4. n \in Nat /\ Len(file) = n
  <2>1. n \in Nat
    BY SaveAssumption
  <2> QED
    BY <1>3, <2>1 DEF Old
<1>5. \A i \in 1 .. n : file[i].f = OldFrame /\ file[i].p = ((i - 1) % Parts) + 1
  BY <1>3 DEF Old
<1>6. ASSUME NEW i \in 1 .. n - 1
      PROVE  file[i + 1].p = NextPlace(file[i].p)
  <2> DEFINE m == i - 1
  <2>1. i \in 1 .. n /\ i + 1 \in 1 .. n /\ (i + 1) - 1 = m + 1 /\ m \in Nat
    BY <1>4
  <2>2. file[i].p = (m % Parts) + 1 /\ file[i + 1].p = ((m + 1) % Parts) + 1
    BY <1>5, <2>1
  <2> HIDE DEF m
  <2>3. Parts \in Nat \ {0}
    BY <1>1 DEF Constants
  <2>4. (m + 1) % Parts = IF m % Parts = Parts - 1 THEN 0 ELSE (m % Parts) + 1
    BY <2>1, <2>3, NextRemainder
  <2>5. m % Parts \in 0 .. Parts - 1
    BY <2>1, <2>3
  <2> DEFINE x == m % Parts
             y == (m + 1) % Parts
  <2>6. /\ y = (IF x = Parts - 1 THEN 0 ELSE x + 1) /\ x \in 0 .. Parts - 1
        /\ file[i].p = x + 1 /\ file[i + 1].p = y + 1
    BY <2>2, <2>4, <2>5
  <2> HIDE DEF x, y
  <2> QED
    BY <2>3, <2>6 DEF NextPlace
<1>7. FileInv
  BY <1>2, <1>4, <1>5, <1>6 DEF FileInv
<1>8. WholeInv
  <2>1. Good = 0
    BY <1>2 DEF Good
  <2>2. Ends = {}
    BY <1>2 DEF Ends
  <2>3. Whole = 0
    BY <2>2, WholeIsEnds, FS_EmptySet
  <2> QED
    BY <2>1, <2>3 DEF WholeInv
<1>9. RunInv
  BY <1>2 DEF RunInv
<1> QED
  BY <1>7, <1>8, <1>9

LEMMA SavedSame ==
  ASSUME FileInv, WholeInv, UNCHANGED <<file, pos, torn>>
  PROVE  FileInv' /\ WholeInv'
BY DEF FileInv, WholeInv, Whole, Good, FramesUpTo, Succ, NextPlace, D!Cut

LEMMA SavedStep ==
  ASSUME SaveTypes, SaveTypes', SavedInv, Next
  PROVE  SavedInv'
<1>1. Goes \/ Stops \/ Loses \/ Tears
  BY Kinds
<1> SUFFICES ASSUME missing' = 0 PROVE FileInv' /\ WholeInv' /\ RunInv'
  BY DEF SavedInv
<1>2. missing = 0 /\ ~Loses
  BY <1>1 DEF Goes, Stops, Loses, Tears, SaveTypes
<1>3. FileInv /\ WholeInv /\ RunInv
  BY <1>2 DEF SavedInv
<1>4. CASE Goes
  <2>1. pc = "run" /\ torn' = torn
    BY <1>4 DEF Goes
  <2>2. PICK n \in 1 .. Parts :
          /\ Wrote(n)
          /\ IF part + n = Parts + 1 THEN frame' = frame + 1 /\ part' = 1
                                     ELSE frame' = frame /\ part' = part + n
    BY <1>4 DEF Goes
  <2>3. FileInv'
    BY <1>3, <2>1, <2>2, FileWrote
  <2>4. WholeInv'
    <3>1. torn' => pos = Len(file)
      BY <2>1 DEF SaveTypes
    <3> QED
      BY <1>3, <2>1, <2>2, <2>3, <3>1, WholeWrote
  <2>5. RunInv'
    <3>1. /\ Parts \in Nat /\ part \in 1 .. Parts /\ pos \in Nat /\ n \in 1 .. n /\ n \in Nat /\ n >= 1
      BY Known DEF SaveTypes, Constants
    <3>2. pos' = pos + n /\ file'[pos + n] = [f |-> frame, p |-> part + n - 1] /\ pos' # 0
          /\ part + n <= Parts + 1
      BY <2>2, <3>1 DEF Wrote
    <3>3. [f |-> frame', p |-> part'] = Succ([f |-> frame, p |-> part + n - 1])
      <4>1. CASE part + n = Parts + 1
        <5>1. part + n - 1 = Parts
          BY <3>1, <4>1
        <5> QED
          BY <2>2, <4>1, <5>1 DEF Succ
      <4>2. CASE part + n # Parts + 1
        <5>1. part + n - 1 # Parts /\ (part + n - 1) + 1 = part + n
          BY <3>1, <4>2
        <5> QED
          BY <2>2, <4>2, <5>1 DEF Succ
      <4> QED
        BY <4>1, <4>2
    <3>4. [f |-> frame', p |-> part'] = Succ(file'[pos'])
      BY <3>2, <3>3
    <3> QED
      BY <3>2, <3>4 DEF RunInv, Here, Succ
  <2> QED
    BY <2>3, <2>4, <2>5
<1>5. CASE Stops
  <2>1. UNCHANGED <<file, pos, torn>> /\ pc' # "run"
    BY <1>5 DEF Stops
  <2> QED
    BY <1>3, <2>1, SavedSame DEF RunInv
<1>6. CASE Tears
  <2>1. pc = "run" /\ pc' # "run" /\ pos = Len(file)
    BY <1>6 DEF Tears
  <2>2. PICK n \in 1 .. Parts : Wrote(n)
    BY <1>6 DEF Tears
  <2>3. FileInv'
    BY <1>3, <2>1, <2>2, FileWrote
  <2>4. WholeInv'
    BY <1>3, <2>1, <2>2, <2>3, WholeWrote
  <2> QED
    BY <2>1, <2>3, <2>4 DEF RunInv
<1> QED
  BY <1>1, <1>2, <1>4, <1>5, <1>6

LEMMA SavedHolds == RecordingSpec => []SavedInv
<1>1. RecordingInit => SavedInv
  BY SavedStart DEF RecordingInit
<1>2. SaveTypes /\ SaveTypes' /\ SavedInv /\ [RecordingNext]_<<vars, player>> => SavedInv'
  <2> SUFFICES ASSUME SaveTypes, SaveTypes', SavedInv, [RecordingNext]_<<vars, player>>
               PROVE  SavedInv'
    OBVIOUS
  <2>1. Next \/ UNCHANGED vars
    BY RecordsOrPlays DEF SaveVars
  <2>2. CASE Next
    BY <2>2, SavedStep
  <2>3. CASE UNCHANGED vars
    <3>1. UNCHANGED <<file, pos, torn, pc, missing, frame, part>>
      BY <2>3 DEF vars
    <3> QED
      BY <3>1, SavedSame DEF SavedInv, RunInv, Here, Succ
  <2> QED
    BY <2>1, <2>2, <2>3
<1> QED
  BY <1>1, <1>2, Saving, PTL DEF RecordingSpec
-----------------------------------------------------------------------------
(* Of what dvplay has read, and the frames it has made of it. *)
Read == next - 1
Made == Len(shown) + (IF playing = "write" THEN 1 ELSE 0)
Fill(x, p) ==
  LET v == IF p <= x.p THEN x.f ELSE x.f - 1
  IN  IF v = 1 /\ p < file[1].p THEN 0 ELSE v

\* Within the recording the buffer has the frame of the last piece up to it, and
\* then the frame before.
GoodInv ==
  Read <= Good =>
    IF Read = 0 THEN Made = 0 /\ \A p \in 1 .. Parts : pkt[p] = 0
    ELSE Made = FramesUpTo(file[Read]) /\ \A p \in 1 .. Parts : pkt[p] = Fill(file[Read], p)

\* Behind it are a torn piece or those of the old file.
RestInv ==
  Read > Good =>
    /\ Made >= Whole
    /\ playing = "write" => Made >= Whole + 1
    /\ torn => Made <= Whole + 1
    /\ ~torn =>
         /\ Made >= Whole + 2 => \A p \in 1 .. Parts : pkt[p] = OldFrame
         /\ Made = Whole + 1 /\ file[Read].p < Parts =>
              \A p \in 1 .. file[Read].p : pkt[p] = OldFrame

WriteInv == playing = "write" => Read >= 1 /\ file[Read].p = Parts

ShownInv ==
  \A k \in 1 .. Len(shown) :
    /\ k <= Whole => \A p \in 1 .. Parts :
         shown[k][p] = IF k = 1 /\ p < file[1].p THEN 0 ELSE k
    /\ k > Whole + 1 => shown[k] = Uniform(OldFrame)

PlayInv == missing = 0 /\ endPart = Parts => GoodInv /\ RestInv /\ WriteInv /\ ShownInv

(* Reading a piece. *)
ReadsOne ==
  /\ Read \in 0 .. Len(file) - 1 /\ Read' = Read + 1 /\ Read' \in 1 .. Len(file)
  /\ playing = "read" /\ playing' = (IF file[Read'].p = Parts THEN "write" ELSE "read")
  /\ Made \in Nat /\ Made' = Made + (IF file[Read'].p = Parts THEN 1 ELSE 0)
  /\ shown' = shown
  /\ \A p \in 1 .. Parts : pkt'[p] = IF p = file[Read'].p THEN D!Contents(Read') ELSE pkt[p]

LEMMA ReadStep ==
  ASSUME SaveTypes, D!TypeOK, UNCHANGED vars, endPart = Parts, D!ReadBlock
  PROVE  ReadsOne
<1>1. /\ next \in 1 .. Len(file) + 1 /\ pkt \in Frames /\ shown \in Seq(Frames) /\ Len(file) \in Nat
  BY PlayTypesMeaning DEF SaveTypes
<1>2. /\ playing = "read" /\ next <= Len(file) /\ next' = next + 1 /\ shown' = shown
      /\ pkt' = [pkt EXCEPT ![file[next].p] = D!Contents(next)]
      /\ playing' = IF file[next].p = Parts THEN "write" ELSE "read"
  BY DEF D!ReadBlock, D!EndsFrame
<1>3. Read' = next /\ Read = next - 1
  BY <1>1, <1>2 DEF Read
<1>4. Len(shown) \in Nat
  BY <1>1
<1>5. Made = Len(shown) /\ Made' = Len(shown) + (IF file[next].p = Parts THEN 1 ELSE 0)
  BY <1>2, <1>4 DEF Made
<1>6. \A p \in 1 .. Parts : pkt'[p] = IF p = file[next].p THEN D!Contents(next) ELSE pkt[p]
  BY <1>1, <1>2 DEF Frames
<1> QED
  BY <1>1, <1>2, <1>3, <1>4, <1>5, <1>6 DEF ReadsOne

(* What is the same as long as dvplay plays. *)
StaysSaved ==
  file' = file /\ Good' = Good /\ Whole' = Whole /\ torn' = torn /\ UNCHANGED <<missing, endPart>>

LEMMA SavedStays == ASSUME Play PROVE StaysSaved
<1>1. UNCHANGED vars /\ D!Next
  BY DEF Play
<1>2. UNCHANGED <<file, pos, torn, missing>>
  BY <1>1 DEF vars
<1>3. endPart' = endPart
  BY <1>1 DEF D!Next, D!ReadBlock, D!EndOfFile, D!WriteFrame, D!chosen
<1>4. Good' = Good
  BY <1>2 DEF Good
<1>5. Whole' = Whole
  BY <1>2 DEF Whole, D!Cut
<1> QED
  BY <1>2, <1>3, <1>4, <1>5 DEF StaysSaved

(* How the pieces of the recording are numbered. *)
LEMMA Recorded ==
  ASSUME SaveTypes
  PROVE  /\ Good \in 0 .. pos /\ Good \in 0 .. Len(file) /\ Parts \in Nat /\ Parts >= 2
         /\ torn => Good = Len(file) - 1 /\ pos = Len(file)
         /\ ~torn => Good = pos
         /\ \A i \in 1 .. Good : D!Contents(i) = file[i].f
         /\ \A i \in 1 .. Len(file) : file[i].p \in 1 .. Parts /\ file[i].f \in 1 .. OldFrame
         /\ OldFrame \in Nat
<1>1. /\ pos \in 0 .. Len(file) /\ Len(file) \in Nat /\ torn \in BOOLEAN
      /\ (torn => pos = Len(file) /\ pos # 0)
      /\ Parts \in Nat /\ Parts >= 2 /\ OldFrame \in Nat
  BY Known DEF SaveTypes, Constants
<1>2. Good \in 0 .. pos /\ (torn => Good = Len(file) - 1) /\ (~torn => Good = pos)
  BY <1>1 DEF Good
<1>3. ASSUME NEW i \in 1 .. Good PROVE D!Contents(i) = file[i].f
  <2>1. ~D!Cut(i)
    BY <1>1, <1>2 DEF D!Cut
  <2> QED
    BY <2>1 DEF D!Contents
<1>4. \A i \in 1 .. Len(file) : file[i].p \in 1 .. Parts /\ file[i].f \in 1 .. OldFrame
  BY PieceType
<1> QED
  BY <1>1, <1>2, <1>3, <1>4

LEMMA GoodRead ==
  ASSUME SaveTypes, FileInv, GoodInv, StaysSaved, ReadsOne
  PROVE  GoodInv'
<1>1. /\ Good \in 0 .. pos /\ pos \in Nat /\ Len(file) \in Nat /\ Parts \in Nat /\ Parts >= 2
  BY Recorded DEF SaveTypes
<1>2. /\ Read \in Nat /\ Read' = Read + 1 /\ Read' \in 1 .. Len(file) /\ Made \in Nat
      /\ Made' = Made + (IF file[Read'].p = Parts THEN 1 ELSE 0)
      /\ \A p \in 1 .. Parts : pkt'[p] = IF p = file[Read'].p THEN D!Contents(Read') ELSE pkt[p]
      /\ file' = file /\ Good' = Good
  BY <1>1 DEF ReadsOne, StaysSaved
<1> SUFFICES ASSUME Read' <= Good
             PROVE  /\ Made' = FramesUpTo(file[Read'])
                    /\ \A p \in 1 .. Parts : pkt'[p] = Fill(file[Read'], p)
  BY <1>2 DEF GoodInv, FramesUpTo, Fill
<1> DEFINE y == file[Read']
           q == file[1].p
<1>3. Read' \in 1 .. Good /\ Read <= Good /\ 1 \in 1 .. Len(file) /\ Read' \in 1 .. pos
  BY <1>1, <1>2
<1>4. /\ y.p \in 1 .. Parts /\ y.f \in Nat /\ y.f >= 1 /\ q \in 1 .. Parts
      /\ (y.f = 1 => y.p >= q)
      /\ D!Contents(Read') = y.f
  <2>1. y.p \in 1 .. Parts /\ y.f \in 1 .. OldFrame /\ q \in 1 .. Parts /\ OldFrame \in Nat
    BY <1>2, <1>3, Recorded
  <2>2. D!Contents(Read') = y.f
    BY <1>3, Recorded
  <2>3. y.f = 1 => y.p >= q
    BY <1>3 DEF FileInv
  <2> QED
    BY <2>1, <2>2, <2>3
<1>5. \A p \in 1 .. Parts : pkt'[p] = IF p = y.p THEN y.f ELSE pkt[p]
  BY <1>2, <1>4
<1>6. CASE Read = 0
  <2>1. Made = 0 /\ \A p \in 1 .. Parts : pkt[p] = 0
    BY <1>3, <1>6 DEF GoodInv
  <2>2. y = file[1] /\ y.f = 1
    BY <1>1, <1>2, <1>3, <1>6 DEF FileInv
  <2>3. y.p = q
    BY <2>2
  <2>4. Made' = FramesUpTo(y)
    BY <1>2, <1>4, <2>1, <2>2 DEF FramesUpTo
  <2>5. \A p \in 1 .. Parts : pkt'[p] = Fill(y, p)
    <3>1. \A p \in 1 .. Parts : Fill(y, p) = LET v == IF p <= y.p THEN y.f ELSE y.f - 1
                                             IN  IF v = 1 /\ p < q THEN 0 ELSE v
      BY DEF Fill
    <3> HIDE DEF y, q
    <3> QED
      BY <1>1, <1>4, <1>5, <2>1, <2>2, <2>3, <3>1
  <2> QED
    BY <2>4, <2>5
<1>7. CASE Read # 0
  <2> DEFINE x == file[Read]
  <2>1. Read \in 1 .. Len(file) /\ Read \in 1 .. pos - 1 /\ Read + 1 = Read'
    BY <1>1, <1>2, <1>3, <1>7
  <2>2. Made = FramesUpTo(x) /\ \A p \in 1 .. Parts : pkt[p] = Fill(x, p)
    BY <1>3, <1>7 DEF GoodInv
  <2>3. y = Succ(x)
    BY <2>1 DEF FileInv
  <2>4. x.p \in 1 .. Parts /\ x.f \in Nat /\ x.f >= 1
    <3>1. x.p \in 1 .. Parts /\ x.f \in 1 .. OldFrame /\ OldFrame \in Nat
      BY <2>1, Recorded
    <3> QED
      BY <3>1
  <2>5. /\ y.f = IF x.p = Parts THEN x.f + 1 ELSE x.f
        /\ y.p = IF x.p = Parts THEN 1 ELSE x.p + 1
    BY <2>3 DEF Succ
  <2>6. Made = IF x.p = Parts THEN x.f ELSE x.f - 1
    BY <2>2 DEF FramesUpTo
  <2>7. FramesUpTo(y) = IF y.p = Parts THEN y.f ELSE y.f - 1
    BY DEF FramesUpTo
  <2>8. Made' = FramesUpTo(y)
    <3>1. Made' = Made + (IF y.p = Parts THEN 1 ELSE 0)
      BY <1>2
    <3> HIDE DEF x, y, q
    <3> QED
      BY <1>1, <1>4, <2>4, <2>5, <2>6, <2>7, <3>1
  <2>9. ASSUME NEW p \in 1 .. Parts PROVE pkt'[p] = Fill(y, p)
    <3>1. Fill(y, p) = LET v == IF p <= y.p THEN y.f ELSE y.f - 1
                       IN  IF v = 1 /\ p < q THEN 0 ELSE v
      BY DEF Fill
    <3>2. pkt[p] = LET v == IF p <= x.p THEN x.f ELSE x.f - 1
                   IN  IF v = 1 /\ p < q THEN 0 ELSE v
      BY <2>2 DEF Fill
    <3>3. pkt'[p] = IF p = y.p THEN y.f ELSE pkt[p]
      BY <1>5
    <3> HIDE DEF x, y, q
    <3>4. CASE p = y.p
      BY <1>1, <1>4, <3>1, <3>3, <3>4
    <3>5. CASE p # y.p /\ x.p = Parts
      <4>1. p <= x.p /\ ~(p <= y.p) /\ y.f - 1 = x.f
        BY <1>1, <2>4, <2>5, <3>5
      <4> QED
        BY <3>1, <3>2, <3>3, <3>5, <4>1
    <3>6. CASE p # y.p /\ x.p # Parts
      <4>1. (p <= x.p <=> p <= y.p) /\ y.f = x.f
        BY <1>1, <2>4, <2>5, <3>6
      <4> QED
        BY <3>1, <3>2, <3>3, <3>6, <4>1
    <3> QED
      BY <3>4, <3>5, <3>6
  <2> QED
    BY <2>8, <2>9
<1> QED
  BY <1>6, <1>7

LEMMA RestRead ==
  ASSUME SaveTypes, FileInv, WholeInv, GoodInv, RestInv, StaysSaved, ReadsOne
  PROVE  RestInv'
<1>1. /\ Good \in 0 .. pos /\ pos \in Nat /\ Len(file) \in Nat /\ Parts \in Nat /\ Parts >= 2
      /\ (torn => Good = Len(file) - 1) /\ (~torn => Good = pos) /\ torn \in BOOLEAN
  BY Recorded DEF SaveTypes
<1>2. /\ Read \in Nat /\ Read' = Read + 1 /\ Read' \in 1 .. Len(file) /\ Made \in Nat
      /\ Made' = Made + (IF file[Read'].p = Parts THEN 1 ELSE 0)
      /\ \A p \in 1 .. Parts : pkt'[p] = IF p = file[Read'].p THEN D!Contents(Read') ELSE pkt[p]
      /\ playing' = (IF file[Read'].p = Parts THEN "write" ELSE "read")
      /\ file' = file /\ Good' = Good /\ torn' = torn /\ Whole' = Whole
  BY <1>1 DEF ReadsOne, StaysSaved
<1> DEFINE y == file[Read']
<1> SUFFICES ASSUME Read' > Good
             PROVE  /\ Made' >= Whole
                    /\ playing' = "write" => Made' >= Whole + 1
                    /\ torn => Made' <= Whole + 1
                    /\ ~torn =>
                         /\ Made' >= Whole + 2 => \A p \in 1 .. Parts : pkt'[p] = OldFrame
                         /\ Made' = Whole + 1 /\ y.p < Parts =>
                              \A p \in 1 .. y.p : pkt'[p] = OldFrame
  BY <1>2 DEF RestInv
<1>3. y.p \in 1 .. Parts /\ Made' = Made + (IF y.p = Parts THEN 1 ELSE 0)
      /\ (playing' = "write" <=> y.p = Parts)
  BY <1>2, Recorded
<1>4. CASE Read = Good
  <2>1. Made = Whole
    <3>1. Read <= Good
      BY <1>1, <1>4
    <3>2. IF Read = 0 THEN Made = 0 ELSE Made = FramesUpTo(file[Read])
      BY <3>1 DEF GoodInv
    <3> QED
      BY <1>4, <3>2 DEF WholeInv
  <2> HIDE DEF y
  <2> QED
    BY <1>1, <1>2, <1>3, <2>1
<1>5. CASE Read > Good
  <2>1. ~torn /\ Good = pos
    BY <1>1, <1>2, <1>5
  <2>2. /\ Made >= Whole
        /\ Made >= Whole + 2 => \A p \in 1 .. Parts : pkt[p] = OldFrame
        /\ Made = Whole + 1 /\ file[Read].p < Parts => \A p \in 1 .. file[Read].p : pkt[p] = OldFrame
    BY <1>5, <2>1 DEF RestInv
  <2>3. D!Contents(Read') = OldFrame
    <3>1. Read' \in pos + 1 .. Len(file)
      BY <1>1, <1>2, <1>5, <2>1
    <3>2. y.f = OldFrame /\ ~D!Cut(Read')
      BY <2>1, <3>1 DEF FileInv, D!Cut
    <3> QED
      BY <3>2 DEF D!Contents
  <2>4. y.p = NextPlace(file[Read].p)
    <3>1. Read \in pos + 1 .. Len(file) - 1 /\ Read' = Read + 1
      BY <1>1, <1>2, <1>5, <2>1
    <3> QED
      BY <3>1 DEF FileInv
  <2> DEFINE s == file[Read].p
  <2>5. s \in 1 .. Parts
    <3>1. Read \in 1 .. Len(file)
      BY <1>1, <1>2, <1>5
    <3> QED
      BY <3>1, Recorded
  <2>6. y.p = IF s = Parts THEN 1 ELSE s + 1
    BY <2>4 DEF NextPlace
  <2>7. \A p \in 1 .. Parts : pkt'[p] = IF p = y.p THEN OldFrame ELSE pkt[p]
    BY <1>2, <2>3
  <2> HIDE DEF y, s
  <2>8. Whole \in Int
    <3>1. Good = 0 => Whole = 0
      BY DEF WholeInv
    <3>2. Good # 0 => file[Good].f \in 1 .. OldFrame /\ OldFrame \in Nat
      BY Recorded
    <3>3. Good # 0 => Whole = FramesUpTo(file[Good])
      BY DEF WholeInv
    <3> QED
      BY <3>1, <3>2, <3>3 DEF FramesUpTo
  <2>9. Made' >= Whole /\ (playing' = "write" => Made' >= Whole + 1)
    BY <1>2, <1>3, <2>2, <2>8
  <2>10. ASSUME Made' >= Whole + 2 PROVE \A p \in 1 .. Parts : pkt'[p] = OldFrame
    <3>1. CASE Made >= Whole + 2
      BY <2>2, <2>7, <3>1
    <3>2. CASE ~(Made >= Whole + 2)
      <4>1. Made = Whole + 1 /\ y.p = Parts
        BY <1>2, <1>3, <2>8, <2>10, <3>2
      <4>2. s < Parts /\ s + 1 = Parts
        BY <1>1, <2>5, <2>6, <4>1
      <4>3. \A p \in 1 .. s : pkt[p] = OldFrame
        BY <2>2, <4>1, <4>2 DEF s
      <4>4. \A p \in 1 .. Parts : p \in 1 .. s \/ p = y.p
        BY <1>1, <2>5, <4>1, <4>2
      <4> QED
        BY <2>7, <4>3, <4>4
    <3> QED
      BY <3>1, <3>2
  <2>11. ASSUME Made' = Whole + 1, y.p < Parts PROVE \A p \in 1 .. y.p : pkt'[p] = OldFrame
    <3>1. Made = Whole + 1
      BY <1>1, <1>2, <1>3, <2>11
    <3>2. CASE s = Parts
      BY <1>1, <2>6, <2>7, <3>2
    <3>3. CASE s # Parts
      <4>1. s < Parts /\ y.p = s + 1
        BY <1>1, <2>5, <2>6, <3>3
      <4>2. \A p \in 1 .. s : pkt[p] = OldFrame
        BY <2>2, <3>1, <4>1 DEF s
      <4>3. \A p \in 1 .. y.p : p \in 1 .. Parts /\ (p \in 1 .. s \/ p = y.p)
        BY <1>1, <2>5, <4>1
      <4> QED
        BY <2>7, <4>2, <4>3
    <3> QED
      BY <3>2, <3>3
  <2> QED
    BY <2>1, <2>9, <2>10, <2>11
<1> QED
  BY <1>1, <1>2, <1>4, <1>5

LEMMA PlayRead ==
  ASSUME SaveTypes, D!TypeOK, SavedInv, PlayInv, Play, D!ReadBlock
  PROVE  PlayInv'
<1>1. StaysSaved
  BY SavedStays
<1> SUFFICES ASSUME missing = 0, endPart = Parts
             PROVE  GoodInv' /\ RestInv' /\ WriteInv' /\ ShownInv'
  BY <1>1 DEF PlayInv, StaysSaved
<1>2. FileInv /\ WholeInv /\ GoodInv /\ RestInv /\ WriteInv /\ ShownInv
  BY DEF SavedInv, PlayInv
<1>3. ReadsOne
  BY ReadStep DEF Play
<1>4. GoodInv' /\ RestInv'
  BY <1>1, <1>2, <1>3, GoodRead, RestRead
<1>5. WriteInv'
  <2>1. Read' >= 1
    BY <1>3 DEF ReadsOne
  <2> QED
    BY <1>1, <1>3, <2>1 DEF ReadsOne, StaysSaved, WriteInv
<1>6. ShownInv'
  BY <1>1, <1>2, <1>3 DEF ReadsOne, StaysSaved, ShownInv, Uniform
<1> QED
  BY <1>4, <1>5, <1>6

LEMMA PlayWrite ==
  ASSUME SaveTypes, D!TypeOK, SavedInv, PlayInv, Play, D!WriteFrame
  PROVE  PlayInv'
<1>1. StaysSaved
  BY SavedStays
<1> SUFFICES ASSUME missing = 0, endPart = Parts
             PROVE  GoodInv' /\ RestInv' /\ WriteInv' /\ ShownInv'
  BY <1>1 DEF PlayInv, StaysSaved
<1>2. FileInv /\ WholeInv /\ GoodInv /\ RestInv /\ WriteInv /\ ShownInv
  BY DEF SavedInv, PlayInv
<1>3. /\ next \in 1 .. Len(file) + 1 /\ pkt \in Frames /\ shown \in Seq(Frames) /\ Len(file) \in Nat
      /\ Len(shown) \in Nat
  <2>1. shown \in Seq(Frames)
    BY PlayTypesMeaning
  <2>2. Len(shown) \in Nat
    BY <2>1
  <2> QED
    BY <2>2, PlayTypesMeaning DEF SaveTypes
<1>4. /\ playing = "write" /\ playing' = "read" /\ shown' = Append(shown, pkt)
      /\ pkt' = pkt /\ next' = next
  BY DEF D!WriteFrame, D!AfterWrite
<1>5. /\ Good \in 0 .. pos /\ pos \in Nat /\ Parts \in Nat /\ Parts >= 2 /\ OldFrame \in Nat
      /\ torn \in BOOLEAN
  BY Recorded DEF SaveTypes
<1>6. /\ Len(shown') = Len(shown) + 1 /\ shown'[Len(shown) + 1] = pkt
      /\ \A k \in 1 .. Len(shown) : shown'[k] = shown[k]
  <2> DEFINE q == shown
  <2>1. q \in Seq(Frames) /\ pkt \in Frames
    BY <1>3
  <2> HIDE DEF q
  <2>2. /\ Len(Append(q, pkt)) = Len(q) + 1 /\ Append(q, pkt)[Len(q) + 1] = pkt
        /\ \A k \in 1 .. Len(q) : Append(q, pkt)[k] = q[k]
    BY <2>1
  <2> QED
    BY <1>4, <2>2 DEF q
<1>7. Made' = Made /\ Made = Len(shown) + 1 /\ Read' = Read /\ Read \in 0 .. Len(file)
  BY <1>3, <1>4, <1>6 DEF Made, Read
<1>8. GoodInv' /\ RestInv' /\ WriteInv'
  <2>1. /\ file' = file /\ Good' = Good /\ Whole' = Whole /\ torn' = torn /\ pkt' = pkt
        /\ Made' = Made /\ Read' = Read /\ playing' = "read"
    BY <1>1, <1>4, <1>7 DEF StaysSaved
  <2>2. GoodInv'
    BY <1>2, <2>1 DEF GoodInv, Fill, FramesUpTo
  <2>3. RestInv'
    BY <1>2, <2>1 DEF RestInv
  <2>4. WriteInv'
    BY <2>1 DEF WriteInv
  <2> QED
    BY <2>2, <2>3, <2>4
<1>9. ShownInv'
  <2> DEFINE k == Len(shown) + 1
             q == file[1].p
             Shows(j, frm) == /\ j <= Whole => \A p \in 1 .. Parts :
                                   frm[p] = IF j = 1 /\ p < q THEN 0 ELSE j
                              /\ j > Whole + 1 => frm = Uniform(OldFrame)
  <2>1. Read >= 1 /\ file[Read].p = Parts
    BY <1>2, <1>4 DEF WriteInv
  <2>2. Whole \in Int
    <3>1. Good = 0 => Whole = 0
      BY <1>2 DEF WholeInv
    <3>2. Good # 0 => file[Good].f \in 1 .. OldFrame
      BY <1>5, Recorded
    <3>3. Good # 0 => Whole = FramesUpTo(file[Good])
      BY <1>2 DEF WholeInv
    <3> QED
      BY <1>5, <3>1, <3>2, <3>3 DEF FramesUpTo
  <2>3. Shows(k, pkt)
    <3>1. CASE Read <= Good
      <4> DEFINE f == file[Read].f
      <4>1. f \in Nat /\ f >= 1 /\ Read \in 1 .. Good
        <5>1. Read \in 1 .. Len(file) /\ Read \in 1 .. Good
          BY <1>3, <1>5, <1>7, <2>1, <3>1
        <5>2. f \in 1 .. OldFrame
          BY <5>1, Recorded
        <5> QED
          BY <1>5, <5>1, <5>2
      <4>2. Made = FramesUpTo(file[Read]) /\ \A p \in 1 .. Parts : pkt[p] = Fill(file[Read], p)
        BY <1>2, <2>1, <3>1, <1>7 DEF GoodInv
      <4>3. FramesUpTo(file[Read]) = f /\ f <= Whole
        <5>1. FramesUpTo(file[Read]) = f
          BY <2>1 DEF FramesUpTo
        <5> QED
          BY <1>2, <4>1, <5>1 DEF WholeInv
      <4>4. k = f
        BY <1>7, <4>2, <4>3
      <4>5. \A p \in 1 .. Parts : Fill(file[Read], p) = IF f = 1 /\ p < q THEN 0 ELSE f
        <5>1. \A p \in 1 .. Parts : p <= file[Read].p
          BY <1>5, <2>1
        <5> QED
          BY <5>1 DEF Fill
      <4> HIDE DEF f, k, q
      <4> QED
        BY <2>2, <4>1, <4>2, <4>3, <4>4, <4>5
    <3>2. CASE ~(Read <= Good)
      <4>1. Read > Good
        BY <1>3, <1>5, <1>7, <3>2
      <4>2. k >= Whole + 1 /\ (torn => k <= Whole + 1)
            /\ (~torn /\ k >= Whole + 2 => \A p \in 1 .. Parts : pkt[p] = OldFrame)
        BY <1>2, <1>4, <1>7, <4>1 DEF RestInv
      <4>3. k \in Nat
        BY <1>3
      <4> HIDE DEF k
      <4>4. ~(k <= Whole)
        BY <2>2, <4>2, <4>3
      <4>5. ASSUME k > Whole + 1 PROVE pkt = Uniform(OldFrame)
        <5>1. ~torn /\ k >= Whole + 2
          BY <1>5, <2>2, <4>2, <4>3, <4>5
        <5>2. \A p \in 1 .. Parts : pkt[p] = OldFrame
          BY <4>2, <5>1
        <5>3. pkt = [p \in 1 .. Parts |-> pkt[p]]
          BY <1>3 DEF Frames
        <5> QED
          BY <5>2, <5>3 DEF Uniform
      <4> QED
        BY <4>4, <4>5
    <3> QED
      BY <3>1, <3>2
  <2>4. \A j \in 1 .. Len(shown) : Shows(j, shown[j])
    BY <1>2 DEF ShownInv
  <2>5. \A j \in 1 .. Len(shown') : j \in 1 .. Len(shown) \/ j = k
    BY <1>3, <1>6
  <2>6. \A j \in 1 .. Len(shown') : Shows(j, shown'[j])
    <3> HIDE DEF Shows
    <3> QED
      BY <1>6, <2>3, <2>4, <2>5
  <2> QED
    BY <1>1, <2>6 DEF ShownInv, StaysSaved, Uniform, OldFrame
<1> QED
  BY <1>8, <1>9

LEMMA PlayEnds ==
  ASSUME SaveTypes, D!TypeOK, PlayInv, Play, D!EndOfFile
  PROVE  PlayInv'
<1>1. StaysSaved
  BY SavedStays
<1>2. playing = "read" /\ playing' = "end" /\ UNCHANGED <<next, pkt, shown>>
  BY DEF D!EndOfFile
<1>3. Made' = Made /\ Read' = Read
  BY <1>2 DEF Made, Read
<1>4. GoodInv => GoodInv'
  BY <1>1, <1>2, <1>3 DEF GoodInv, Fill, FramesUpTo, StaysSaved
<1>5. RestInv => RestInv'
  BY <1>1, <1>2, <1>3 DEF RestInv, StaysSaved
<1>6. WriteInv' /\ (ShownInv => ShownInv')
  BY <1>1, <1>2 DEF WriteInv, ShownInv, StaysSaved, Uniform
<1> QED
  BY <1>1, <1>4, <1>5, <1>6 DEF PlayInv, StaysSaved

(* Until dvsave has ended dvplay has read nothing. *)
LEMMA NothingRead ==
  ASSUME SaveTypes, next = 1, playing = "read", shown = <<>>, pkt = [p \in 1 .. Parts |-> 0]
  PROVE  GoodInv /\ RestInv /\ WriteInv /\ ShownInv
<1>1. Read = 0 /\ Made = 0 /\ Good \in Nat /\ Len(shown) = 0
  BY Recorded DEF Read, Made
<1> QED
  BY <1>1 DEF GoodInv, RestInv, WriteInv, ShownInv

LEMMA PlayHolds == RecordingSpec => [](SavedInv /\ PlayInv)
<1> DEFINE Fresh == next = 1 /\ playing = "read" /\ shown = <<>> /\ pkt = [p \in 1 .. Parts |-> 0]
<1>1. SaveTypes /\ Fresh => PlayInv
  BY NothingRead DEF PlayInv
<1>2. RecordingInit => SaveTypes /\ Fresh
  BY SaveTypesStart DEF RecordingInit, D!Init, D!Position
<1>3. /\ SaveTypes /\ D!TypeOK /\ PlayerWaits /\ SavedInv /\ PlayInv
      /\ [RecordingNext]_<<vars, player>>
      => Fresh' \/ PlayInv'
  <2> SUFFICES ASSUME SaveTypes, D!TypeOK, PlayerWaits, SavedInv, PlayInv,
                      [RecordingNext]_<<vars, player>>
               PROVE  Fresh' \/ PlayInv'
    OBVIOUS
  <2>1. CASE Record
    <3>1. UNCHANGED player /\ pc \notin {"done", "failed"}
      BY <2>1 DEF Record, Next, Save, SavePacket, SaveFrame, IdhRead, Missing, Fail, DiskFull, Interrupt,
                  ByPacket
    <3> QED
      BY <3>1 DEF player, PlayerWaits
  <2>2. CASE UNCHANGED <<vars, player>>
    <3>1. UNCHANGED <<file, pos, torn, missing, endPart, next, pkt, shown, playing>>
      BY <2>2 DEF vars, player
    <3>2. Read' = Read /\ Made' = Made /\ Good' = Good /\ Whole' = Whole
      BY <3>1 DEF Read, Made, Good, Whole, D!Cut
    <3>3. GoodInv' = GoodInv /\ RestInv' = RestInv /\ WriteInv' = WriteInv /\ ShownInv' = ShownInv
      BY <3>1, <3>2 DEF GoodInv, RestInv, WriteInv, ShownInv, Fill, FramesUpTo, Uniform
    <3> QED
      BY <3>1, <3>3 DEF PlayInv
  <2>3. CASE Play
    BY <2>3, PlayRead, PlayWrite, PlayEnds DEF Play, D!Next
  <2> QED
    BY <2>1, <2>2, <2>3 DEF RecordingNext
<1> QED
  BY <1>1, <1>2, <1>3, Playing, SavedHolds, PTL DEF RecordingSpec

(* Whatever way dvsave ends, and whatever was in its file before, dvplay plays
   what was recorded (dvsave/main.c:170, dvplay's read_dv_data_from_file). *)
THEOREM RecordingPlaysBack == RecordingSpec => []PlaysBack
<1>1. D!TypeOK /\ PlayInv => PlaysBack
  <2> SUFFICES ASSUME D!TypeOK, PlayInv, missing = 0, endPart = Parts, NEW k \in DOMAIN shown
               PROVE  /\ k <= Whole => \A p \in 1 .. Parts :
                           shown[k][p] = IF k = 1 /\ p < file[1].p THEN 0 ELSE k
                      /\ k > Whole + 1 => shown[k] = Uniform(OldFrame)
    BY DEF PlaysBack
  <2>1. shown \in Seq(Frames)
    BY PlayTypesMeaning
  <2>2. DOMAIN shown = 1 .. Len(shown)
    BY <2>1
  <2> QED
    BY <2>2 DEF PlayInv, ShownInv
<1> QED
  BY <1>1, Playing, PlayHolds, PTL
=============================================================================
