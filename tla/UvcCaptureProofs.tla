-------------------------- MODULE UvcCaptureProofs --------------------------
(***************************************************************************)
(* Proofs about the assembly of frames, for every length of frame and       *)
(* packet, every size of the assembly buffer and every camera.              *)
(***************************************************************************)
EXTENDS UvcCapture, SequenceTheorems, TLAPS

\* The first n units of camera frame c.
Sent(c, n) == [i \in 1..n |-> Unit(c, i)]

CamStates == [f : 0..(mode.ids - 1), kind : {"real", "meta"}, k : 1..(FrameLen + 1)]

\* The camera is at most one unit beyond its frame.
CamInv == cam \in CamStates /\ cam.k <= LastUnit(cam.kind) + 1

\* A buffer got that is being filled with packets of frame id fd: empty until an
\* SOI was seen, and while nothing is lost all that the camera has sent of its
\* frame.
Buffer(seen, got, fd) ==
    /\ got \in Seq(Units) /\ Len(got) <= JpegCap /\ seen \in BOOLEAN
    /\ seen => got # << >> /\ got[1].mark = "SOI"
    /\ ~seen => got = << >>
    /\ \A i \in 1..Len(got) : Fid(got[i].f) = fd

\* ... or, when the camera has gone on to the next frame without an EOF, the whole
\* of the frame before.
WholeSoFar ==
    \/ fid = Fid(cam.f) /\ cam.k > 1 /\ jpeg = Sent(cam, cam.k - 1)
    \/ fid # Fid(cam.f) /\ cam.k = 1 /\ \E c \in CamStates : jpeg = Sent(c, LastUnit(c.kind))

CollectInv ==
    pc = "collect" =>
        Buffer(saw, jpeg, fid) /\ (saw /\ ~mode.lose => WholeSoFar)

\* A result is there only between two captures.
OutcomeInv ==
    /\ pc # "idle" => result = "none"
    /\ ReturnedFrameSound

CaptureInv == TypeOK /\ CamInv /\ CollectInv /\ OutcomeInv

-----------------------------------------------------------------------------
(* The camera *)

LEMMA ModeType ==
    ASSUME mode \in Modes
    PROVE  /\ mode.ids \in {2, 4} /\ mode.lose \in BOOLEAN
           /\ mode.next["real"] \subseteq {"real", "meta"}
           /\ mode.next["meta"] \subseteq {"real", "meta"}
<1>1. mode \in [next : [{"real", "meta"} -> SUBSET {"real", "meta"}],
                lose : BOOLEAN, fail : BOOLEAN, ids : {2, 4}]
  BY UvcCaptureAssumption
<1>2. mode.ids \in {2, 4} /\ mode.lose \in BOOLEAN
      /\ mode.next \in [{"real", "meta"} -> SUBSET {"real", "meta"}]
  BY <1>1
<1>3. QED
  BY <1>2

\* The next frame has the other frame id.
LEMMA FidFlips ==
    ASSUME mode.ids \in {2, 4}, NEW f \in 0..(mode.ids - 1)
    PROVE  /\ (f + 1) % mode.ids \in 0..(mode.ids - 1)
           /\ Fid(f) \in 0..1 /\ Fid((f + 1) % mode.ids) # Fid(f)
<1>1. CASE mode.ids = 2
  <2>1. f = 0 \/ f = 1
    BY <1>1
  <2>2. QED
    BY <1>1, <2>1 DEF Fid
<1>2. CASE mode.ids = 4
  <2>1. f = 0 \/ f = 1 \/ f = 2 \/ f = 3
    BY <1>2
  <2>2. QED
    BY <1>2, <2>1 DEF Fid
<1>3. QED
  BY <1>1, <1>2

LEMMA FrameAfterFacts ==
    ASSUME mode \in Modes, CamInv, NEW k \in mode.next[cam.kind]
    PROVE  LET c == FrameAfter(cam, k)
           IN  /\ c \in CamStates /\ c.k = 1 /\ c.k <= LastUnit(c.kind) + 1
               /\ Fid(c.f) # Fid(cam.f)
<1>1. cam.f \in 0..(mode.ids - 1) /\ cam.kind \in {"real", "meta"}
  BY DEF CamInv, CamStates
<1>2. k \in {"real", "meta"}
  BY <1>1, ModeType
<1>3. (cam.f + 1) % mode.ids \in 0..(mode.ids - 1) /\ Fid((cam.f + 1) % mode.ids) # Fid(cam.f)
  BY <1>1, ModeType, FidFlips
<1>4. FrameLen \in Nat \ {0, 1}
  BY UvcCaptureAssumption
<1>5. 1 <= LastUnit(k) + 1 /\ 1 \in 1..(FrameLen + 1)
  BY <1>2, <1>4 DEF LastUnit
<1>6. QED
  BY <1>2, <1>3, <1>5 DEF FrameAfter, CamStates

\* The units of a packet of j units.
Run(c, j) == [i \in 1..j |-> Unit(c, c.k + i - 1)]

Flips == \E k \in mode.next[cam.kind] : cam' = FrameAfter(cam, k)

CarriesData(p, j) ==
    /\ p.valid /\ p.fid = Fid(cam.f) /\ p.data = Run(cam, j)
    /\ cam.k + j - 1 <= LastUnit(cam.kind)
    /\ \/ p.eof = FALSE /\ cam' = [cam EXCEPT !.k = @ + j]
       \/ p.eof = TRUE /\ Flips

CarriesNothing(p) ==
    /\ p.fid = Fid(cam.f) /\ p.data = << >>
    /\ \/ p.eof = FALSE /\ cam' = cam
       \/ p.eof = TRUE /\ Flips

CarriesPadding(p) ==
    /\ p.fid = Fid(cam.f) /\ p.data = <<[f |-> cam.f, k |-> 0, mark |-> "mid"]>>
    /\ p.eof = FALSE /\ cam' = cam /\ cam.k = 1

\* What the camera puts into a packet.
LEMMA PacketCases ==
    ASSUME NEW p, CamSends(p), CamInv
    PROVE  \/ \E j \in 1..PacketLen : CarriesData(p, j)
           \/ CarriesNothing(p)
           \/ CarriesPadding(p)
<1>1. CASE p \in DataPackets
  <2>1. PICK j \in 1..PacketLen, eof \in BOOLEAN :
            cam.k + j - 1 <= LastUnit(cam.kind) /\ p = Packet(cam, Run(cam, j), eof)
    BY <1>1 DEF DataPackets, Run
  <2>2. /\ p.valid = TRUE /\ p.fid = Fid(cam.f) /\ p.data = Run(cam, j) /\ p.eof = eof
    BY <2>1 DEF Packet
  <2>3. j \in Nat \ {0} /\ Len(Run(cam, j)) = j
    BY UvcCaptureAssumption DEF Run
  <2>4. Run(cam, j) # << >>
    BY <2>3
  <2>5. p \notin FillerPackets \/ CarriesPadding(p)
    <3> SUFFICES ASSUME p \in FillerPackets PROVE CarriesPadding(p)
      OBVIOUS
    <3>1. p.data # << >>
      BY <2>2, <2>4
    <3>2. p # Packet(cam, <<>>, FALSE) /\ p # [Packet(cam, <<>>, FALSE) EXCEPT !.valid = FALSE]
      BY <3>1 DEF Packet
    <3>3. cam.k = 1 /\ p = Packet(cam, <<[f |-> cam.f, k |-> 0, mark |-> "mid"]>>, FALSE)
      BY <3>2 DEF FillerPackets
    <3>4. p.data[1].k = 0
      BY <3>3 DEF Packet
    <3>5. Run(cam, j)[1].k = cam.k
      BY <2>3, <3>3 DEF Run, Unit
    <3>6. QED
      BY <2>2, <3>3, <3>4, <3>5
  <2>6. p # Packet(cam, <<>>, TRUE)
    BY <2>2, <2>4 DEF Packet
  <2>7. CASE CarriesPadding(p)
    BY <2>7
  <2>8. CASE p \notin FillerPackets
    <3>1. \/ p.eof = FALSE /\ cam' = [cam EXCEPT !.k = @ + Len(p.data)]
          \/ p.eof = TRUE /\ Flips
      BY <2>2, <2>6, <2>8 DEF CamSends, Flips
    <3>2. CarriesData(p, j)
      BY <2>1, <2>2, <2>3, <3>1 DEF CarriesData
    <3>3. QED
      BY <3>2
  <2>9. QED
    BY <2>5, <2>7, <2>8
<1>2. CASE p \notin DataPackets /\ p = Packet(cam, <<>>, TRUE)
  <2>1. p.eof = TRUE /\ p.data = << >> /\ p.fid = Fid(cam.f)
    BY <1>2 DEF Packet
  <2>2. p \notin FillerPackets
    BY <2>1 DEF FillerPackets, Packet
  <2>3. Flips
    BY <1>2, <2>2 DEF CamSends, Flips
  <2>4. QED
    BY <2>1, <2>3 DEF CarriesNothing
<1>3. CASE p \notin DataPackets /\ p \in FillerPackets /\ p # Packet(cam, <<>>, TRUE)
  <2>1. cam' = cam
    BY <1>3 DEF CamSends
  <2>2. CASE p = Packet(cam, <<>>, FALSE) \/ p = [Packet(cam, <<>>, FALSE) EXCEPT !.valid = FALSE]
    <3>1. p.eof = FALSE /\ p.data = << >> /\ p.fid = Fid(cam.f)
      BY <2>2 DEF Packet
    <3>2. QED
      BY <2>1, <3>1 DEF CarriesNothing
  <2>3. CASE cam.k = 1 /\ p = Packet(cam, <<[f |-> cam.f, k |-> 0, mark |-> "mid"]>>, FALSE)
    BY <2>1, <2>3 DEF CarriesPadding, Packet
  <2>4. QED
    BY <1>3, <2>2, <2>3 DEF FillerPackets
<1>4. QED
  BY <1>1, <1>2, <1>3 DEF CamSends
LEMMA CamStep ==
    ASSUME mode \in Modes, CamInv, mode' = mode, NEW p, CamSends(p)
    PROVE  CamInv'
<1>0. FrameLen \in Nat \ {0, 1} /\ PacketLen \in Nat /\ CamStates' = CamStates
  BY UvcCaptureAssumption DEF CamStates
<1>1. CASE cam' = cam
  BY <1>0, <1>1 DEF CamInv, LastUnit
<1>2. CASE Flips
  <2>1. PICK k \in mode.next[cam.kind] : cam' = FrameAfter(cam, k)
    BY <1>2 DEF Flips
  <2>2. cam' \in CamStates /\ cam'.k <= LastUnit(cam'.kind) + 1
    BY <2>1, FrameAfterFacts
  <2>3. QED
    BY <1>0, <2>2 DEF CamInv, LastUnit
<1>3. ASSUME NEW j \in 1..PacketLen, cam.k + j - 1 <= LastUnit(cam.kind),
             cam' = [cam EXCEPT !.k = @ + j]
      PROVE  CamInv'
  <2>1. cam.k \in Nat \ {0} /\ cam.kind \in {"real", "meta"} /\ cam.f \in 0..(mode.ids - 1)
    BY <1>0 DEF CamInv, CamStates
  <2>2. cam'.k = cam.k + j /\ cam'.kind = cam.kind
    BY <1>3 DEF CamInv, CamStates
  <2>3. LastUnit(cam.kind) \in 1..FrameLen
    BY <1>0, <2>1 DEF LastUnit
  <2>4. cam.k + j \in 1..(FrameLen + 1) /\ cam.k + j <= LastUnit(cam.kind) + 1
    BY <1>0, <1>3, <2>1, <2>3
  <2>5. cam' \in CamStates
    BY <1>3, <2>4 DEF CamInv, CamStates
  <2>6. QED
    BY <1>0, <2>2, <2>4, <2>5 DEF CamInv, LastUnit
<1>4. QED
  BY <1>1, <1>2, <1>3, PacketCases DEF CarriesData, CarriesNothing, CarriesPadding

-----------------------------------------------------------------------------
(* UvcPacket::append *)

LEMMA UnitType ==
    ASSUME CamInv, mode \in Modes, NEW k \in 1..FrameLen
    PROVE  Unit(cam, k) \in Units /\ Unit(cam, k).f = cam.f /\ Unit(cam, k).k = k
           /\ Unit(cam, k).mark = Mark(cam.kind, k)
<1>1. cam.f \in 0..(mode.ids - 1) /\ k \in 0..FrameLen
  BY UvcCaptureAssumption DEF CamInv, CamStates
<1>2. Mark(cam.kind, k) \in {"SOI", "mid", "EOI"}
  BY DEF Mark
<1>3. QED
  BY <1>1, <1>2 DEF Unit, Units

LEMMA MarkFacts ==
    ASSUME NEW kind, NEW k \in Nat \ {0}
    PROVE  /\ Mark(kind, k) = "SOI" <=> k = 1
           /\ Mark(kind, k) = "EOI" => kind = "real" /\ k = FrameLen
<1>0. FrameLen # 1
  BY UvcCaptureAssumption
<1>1. CASE k = 1
  <2>1. Mark(kind, k) = "SOI"
    BY <1>0, <1>1 DEF Mark
  <2>2. QED
    BY <1>1, <2>1
<1>2. CASE k # 1 /\ kind = "real" /\ k = FrameLen
  <2>1. Mark(kind, k) = "EOI"
    BY <1>2 DEF Mark
  <2>2. QED
    BY <1>2, <2>1
<1>3. CASE k # 1 /\ ~(kind = "real" /\ k = FrameLen)
  <2>1. Mark(kind, k) = "mid"
    BY <1>3 DEF Mark
  <2>2. QED
    BY <1>3, <2>1
<1>4. QED
  BY <1>1, <1>2, <1>3

\* The units of a packet are those of the camera's frame.
LEMMA PacketData ==
    ASSUME mode \in Modes, CamInv, NEW p, CamSends(p)
    PROVE  /\ p.data \in Seq(Units) /\ p.fid = Fid(cam.f)
           /\ \A i \in 1..Len(p.data) : Fid(p.data[i].f) = p.fid
           /\ p.data # << >> => Len(p.data) > 0 /\ Head(p.data) = p.data[1]
<1>0. FrameLen \in Nat \ {0, 1} /\ PacketLen \in Nat
      /\ cam.k \in Nat \ {0} /\ cam.kind \in {"real", "meta"}
  BY UvcCaptureAssumption DEF CamInv, CamStates
<1>1. ASSUME NEW j \in 1..PacketLen, CarriesData(p, j)
      PROVE  /\ p.data \in Seq(Units) /\ p.fid = Fid(cam.f)
             /\ \A i \in 1..Len(p.data) : Fid(p.data[i].f) = p.fid
  <2>1. \A i \in 1..j : cam.k + i - 1 \in 1..FrameLen
    BY <1>0, <1>1 DEF CarriesData, LastUnit
  <2>2. \A i \in 1..j : Unit(cam, cam.k + i - 1) \in Units /\ Unit(cam, cam.k + i - 1).f = cam.f
    BY <2>1, UnitType
  <2>3. p.data = [i \in 1..j |-> Unit(cam, cam.k + i - 1)] /\ p.fid = Fid(cam.f) /\ j \in Nat
    BY <1>0, <1>1 DEF CarriesData, Run
  <2>4. p.data \in Seq(Units) /\ Len(p.data) = j
    BY <2>2, <2>3
  <2>5. \A i \in 1..j : p.data[i].f = cam.f
    BY <2>2, <2>3
  <2>6. QED
    BY <2>3, <2>4, <2>5
<1>2. ASSUME CarriesPadding(p)
      PROVE  /\ p.data \in Seq(Units) /\ p.fid = Fid(cam.f)
             /\ \A i \in 1..Len(p.data) : Fid(p.data[i].f) = p.fid
  <2>1. [f |-> cam.f, k |-> 0, mark |-> "mid"] \in Units
    BY <1>0 DEF Units, CamInv, CamStates
  <2>2. QED
    BY <1>2, <2>1 DEF CarriesPadding
<1>3. ASSUME CarriesNothing(p)
      PROVE  /\ p.data \in Seq(Units) /\ p.fid = Fid(cam.f)
             /\ \A i \in 1..Len(p.data) : Fid(p.data[i].f) = p.fid
  BY <1>3 DEF CarriesNothing
<1>4. p.data \in Seq(Units) /\ p.fid = Fid(cam.f)
      /\ \A i \in 1..Len(p.data) : Fid(p.data[i].f) = p.fid
  BY <1>1, <1>2, <1>3, PacketCases
<1>5. p.data # << >> => Len(p.data) > 0 /\ Head(p.data) = p.data[1]
  BY <1>4
<1>6. QED
  BY <1>4, <1>5

LEMMA ConcatFacts ==
    ASSUME NEW S, NEW s \in Seq(S), NEW t \in Seq(S)
    PROVE  /\ s \o t \in Seq(S) /\ Len(s \o t) = Len(s) + Len(t)
           /\ Len(s) \in Nat /\ Len(t) \in Nat
           /\ \A i \in 1..Len(s) : (s \o t)[i] = s[i]
           /\ \A i \in 1..Len(t) : (s \o t)[Len(s) + i] = t[i]
  OBVIOUS

\* The buffer after append, and saw_data.
Got(p, seen, got) == IF Skipped(p, seen) THEN got ELSE got \o p.data
Seen(p, seen) == seen \/ ~Skipped(p, seen)

LEMMA AppendKeepsBuffer ==
    ASSUME mode \in Modes, CamInv, NEW p, CamSends(p), NEW seen, NEW got,
           Buffer(seen, got, p.fid), ~Overflows(p, seen, got)
    PROVE  Buffer(Seen(p, seen), Got(p, seen, got), p.fid)
<1>0. /\ p.data \in Seq(Units) /\ \A i \in 1..Len(p.data) : Fid(p.data[i].f) = p.fid
      /\ p.data # << >> => Len(p.data) > 0 /\ Head(p.data) = p.data[1]
  BY PacketData
<1>1. CASE Skipped(p, seen)
  <2>1. Seen(p, seen) = seen /\ Got(p, seen, got) = got
    BY <1>1 DEF Seen, Got, Buffer
  <2>2. QED
    BY <2>1
<1>2. CASE ~Skipped(p, seen)
  <2> DEFINE new == got \o p.data
  <2>1. Seen(p, seen) = TRUE /\ Got(p, seen, got) = new
    BY <1>2 DEF Seen, Got, Buffer
  <2>2. got \in Seq(Units) /\ Len(got) \in Nat /\ Len(p.data) \in Nat \ {0}
    BY <1>0, <1>2 DEF Buffer, Skipped
  <2>3. /\ new \in Seq(Units) /\ Len(new) = Len(got) + Len(p.data)
        /\ \A i \in 1..Len(got) : new[i] = got[i]
        /\ \A i \in 1..Len(p.data) : new[Len(got) + i] = p.data[i]
    BY <1>0, <2>2
  <2>4. Len(new) <= JpegCap
    BY <1>2, <2>2, <2>3, UvcCaptureAssumption DEF Overflows
  <2>5. new # << >> /\ new[1].mark = "SOI"
    <3>1. CASE seen
      BY <2>2, <2>3, <3>1 DEF Buffer
    <3>2. CASE ~seen
      <4>1. Len(got) = 0 /\ new[1] = p.data[1] /\ p.data[1].mark = "SOI"
        BY <1>0, <1>2, <2>2, <2>3, <3>2 DEF Buffer, Skipped
      <4>2. QED
        BY <2>2, <2>3, <4>1
    <3>3. QED
      BY <3>1, <3>2
  <2>6. ASSUME NEW i \in 1..Len(new) PROVE Fid(new[i].f) = p.fid
    <3>1. CASE i \in 1..Len(got)
      BY <2>3, <3>1 DEF Buffer
    <3>2. CASE i \notin 1..Len(got)
      <4> DEFINE m == i - Len(got)
      <4>1. m \in 1..Len(p.data) /\ i = Len(got) + m
        BY <2>2, <2>3, <3>2
      <4> HIDE DEF m, new
      <4>2. QED
        BY <1>0, <2>3, <4>1
    <3>3. QED
      BY <3>1, <3>2
  <2> HIDE DEF new
  <2>7. QED
    BY <2>1, <2>3, <2>4, <2>5, <2>6 DEF Buffer
<1>3. QED
  BY <1>1, <1>2

\* While nothing is lost, what is in the buffer behind an SOI is what the camera has
\* sent of its frame.
LEMMA AppendKeepsWhole ==
    ASSUME mode \in Modes, CamInv, NEW p, CamSends(p), NEW seen, NEW got,
           Buffer(seen, got, p.fid), ~Overflows(p, seen, got),
           seen => cam.k > 1 /\ got = Sent(cam, cam.k - 1),
           Seen(p, seen)
    PROVE  \E n \in 1..FrameLen :
              /\ Got(p, seen, got) = Sent(cam, n)
              /\ p.eof = FALSE => cam' = [cam EXCEPT !.k = n + 1]
              /\ p.eof = TRUE => Flips
<1>0. FrameLen \in Nat \ {0, 1} /\ PacketLen \in Nat
      /\ cam.k \in 1..(FrameLen + 1) /\ cam.kind \in {"real", "meta"}
  BY UvcCaptureAssumption DEF CamInv, CamStates
<1>1. ASSUME NEW j \in 1..PacketLen, CarriesData(p, j), seen \/ cam.k = 1
      PROVE  /\ cam.k - 1 + j \in 1..FrameLen
             /\ Got(p, seen, got) = Sent(cam, cam.k - 1 + j)
             /\ p.eof = FALSE => cam' = [cam EXCEPT !.k = cam.k - 1 + j + 1]
             /\ p.eof = TRUE => Flips
  <2> DEFINE m == cam.k - 1
  <2>1. m \in Nat /\ j \in Nat \ {0} /\ m + j \in 1..FrameLen
    BY <1>0, <1>1 DEF CarriesData, LastUnit
  <2>2. got = Sent(cam, m)
    <3>1. CASE seen
      BY <3>1
    <3>2. CASE ~seen
      BY <1>1, <3>2 DEF Buffer, Sent
    <3>3. QED
      BY <3>1, <3>2
  <2>3. /\ p.data = Run(cam, j) /\ p.data # << >>
        /\ p.eof = FALSE => cam' = [cam EXCEPT !.k = cam.k + j]
        /\ p.eof = TRUE => Flips
    BY <1>1, <2>1 DEF CarriesData, Run
  <2>4. \A i \in 1..(m + j) : Unit(cam, i) \in Units
    BY <2>1, UnitType, <1>0
  <2>5. Sent(cam, m + j) \in Seq(Units) /\ Len(Sent(cam, m + j)) = m + j
        /\ \A i \in 1..(m + j) : Sent(cam, m + j)[i] = Unit(cam, i)
    BY <2>1, <2>4 DEF Sent
  <2>6. got \in Seq(Units) /\ Len(got) = m /\ \A i \in 1..m : got[i] = Unit(cam, i)
    BY <2>1, <2>2 DEF Buffer, Sent
  <2>7. p.data \in Seq(Units) /\ Len(p.data) = j
        /\ \A i \in 1..j : p.data[i] = Unit(cam, m + i)
    <3>1. p.data \in Seq(Units)
      BY PacketData
    <3>2. p.data = [i \in 1..j |-> Unit(cam, cam.k + i - 1)] /\ Len(p.data) = j
      BY <2>1, <2>3 DEF Run
    <3>3. \A i \in 1..j : cam.k + i - 1 = m + i
      BY <1>0
    <3>4. QED
      BY <3>1, <3>2, <3>3
  <2> HIDE DEF m
  <2>8. /\ got \o p.data \in Seq(Units) /\ Len(got \o p.data) = m + j
        /\ \A i \in 1..m : (got \o p.data)[i] = Unit(cam, i)
        /\ \A i \in 1..j : (got \o p.data)[m + i] = Unit(cam, m + i)
    <3>0. got \in Seq(Units) /\ p.data \in Seq(Units)
      BY <2>6, <2>7
    <3>1. /\ got \o p.data \in Seq(Units) /\ Len(got \o p.data) = Len(got) + Len(p.data)
          /\ \A i \in 1..Len(got) : (got \o p.data)[i] = got[i]
          /\ \A i \in 1..Len(p.data) : (got \o p.data)[Len(got) + i] = p.data[i]
      BY ONLY <3>0, ConcatFacts
    <3>2. QED
      BY <2>6, <2>7, <3>1
  <2>9. \A i \in 1..(m + j) : (got \o p.data)[i] = Unit(cam, i)
    <3> SUFFICES ASSUME NEW i \in 1..(m + j) PROVE (got \o p.data)[i] = Unit(cam, i)
      OBVIOUS
    <3>1. CASE i \in 1..m
      BY <2>8, <3>1
    <3>2. CASE i \notin 1..m
      <4> DEFINE q == i - m
      <4>1. q \in 1..j /\ i = m + q
        BY <2>1, <3>2
      <4> HIDE DEF q
      <4>2. QED
        BY <2>8, <4>1
    <3>3. QED
      BY <3>1, <3>2
  <2>10. got \o p.data = Sent(cam, m + j)
    BY <2>5, <2>8, <2>9, SeqEqual
  <2>11. ~Skipped(p, seen)
    <3>1. CASE seen
      BY <2>3, <3>1 DEF Skipped
    <3>2. CASE ~seen
      <4>1. ~Skipped(p, seen) \/ Skipped(p, seen)
        OBVIOUS
      <4>2. QED
        BY <3>2, <4>1 DEF Seen
    <3>3. QED
      BY <3>1, <3>2
  <2>12. Got(p, seen, got) = Sent(cam, m + j)
    BY <2>10, <2>11 DEF Got
  <2>13. m + j + 1 = cam.k + j
    BY <1>0, <2>1 DEF m
  <2>14. QED
    BY <2>1, <2>3, <2>12, <2>13 DEF m
<1>2. CASE seen
  <2>1. cam.k > 1 /\ got = Sent(cam, cam.k - 1)
    BY <1>2
  <2>2. ASSUME CarriesNothing(p)
        PROVE  /\ cam.k - 1 \in 1..FrameLen /\ Got(p, seen, got) = Sent(cam, cam.k - 1)
               /\ p.eof = FALSE => cam' = [cam EXCEPT !.k = cam.k - 1 + 1]
               /\ p.eof = TRUE => Flips
    <3>1. Got(p, seen, got) = got
      BY <2>2 DEF CarriesNothing, Got, Skipped
    <3>2. cam.k - 1 \in 1..FrameLen /\ cam.k - 1 + 1 = cam.k
      BY <1>0, <2>1
    <3>3. cam = [cam EXCEPT !.k = cam.k]
      BY DEF CamInv, CamStates
    <3>4. QED
      BY <2>1, <2>2, <3>1, <3>2, <3>3 DEF CarriesNothing
  <2>3. ~CarriesPadding(p)
    BY <1>0, <2>1 DEF CarriesPadding
  <2>4. QED
    BY <1>1, <1>2, <2>2, <2>3, PacketCases
<1>3. CASE ~seen
  <2>1. p.data # << >> /\ Head(p.data).mark = "SOI"
    BY <1>3 DEF Seen, Skipped
  <2>2. ~CarriesNothing(p)
    BY <2>1 DEF CarriesNothing
  <2>3. ~CarriesPadding(p)
    <3> SUFFICES ASSUME CarriesPadding(p) PROVE FALSE
      OBVIOUS
    <3>1. p.data[1].mark = "mid" /\ Head(p.data) = p.data[1]
      BY <2>1, PacketData DEF CarriesPadding
    <3>2. QED
      BY <2>1, <3>1
  <2>4. PICK j \in 1..PacketLen : CarriesData(p, j)
    BY <2>2, <2>3, PacketCases
  <2>5. cam.k = 1
    <3>1. cam.k \in 1..FrameLen /\ j \in Nat \ {0}
      BY <1>0, <2>4 DEF CarriesData, LastUnit
    <3>2. p.data[1] = Unit(cam, cam.k)
      BY <2>4, <3>1 DEF CarriesData, Run
    <3>3. Mark(cam.kind, cam.k) = "SOI"
      BY <2>1, <3>1, <3>2, PacketData, UnitType
    <3>4. QED
      BY <3>1, <3>3, MarkFacts
  <2>6. QED
    BY <1>1, <2>4, <2>5
<1>4. QED
  BY <1>2, <1>3 DEF Buffer

\* append, and the verdict on the frame that follows it in try_frame.
LEMMA AppendStep ==
    ASSUME mode \in Modes, mode' = mode, CamInv, NEW p, CamSends(p), NEW seen, NEW got,
           Buffer(seen, got, p.fid),
           seen /\ ~mode.lose => cam.k > 1 /\ got = Sent(cam, cam.k - 1),
           fid' = p.fid, result = "none", why \in {"none", "residual", "silent", "overflow", "stall"},
           AppendAndJudge(p, seen, got)
    PROVE  /\ jpeg' \in Seq(Units) /\ Len(jpeg') <= JpegCap /\ saw' \in BOOLEAN
           /\ pc' \in {"idle", "collect"} /\ tries' = tries /\ lastFid' \in {lastFid, frameFid'}
           /\ result' \in {"none", "ok", "timeout", "hard"}
           /\ why' \in {"none", "residual", "silent", "overflow", "stall"}
           /\ CollectInv' /\ OutcomeInv'
<1>0. Units' = Units /\ CamStates' = CamStates /\ JpegCap \in Nat /\ FrameLen \in Nat \ {0, 1}
  BY UvcCaptureAssumption DEF Units, CamStates
<1>1. CASE Overflows(p, seen, got)
  <2>1. jpeg' = got /\ saw' = seen /\ GiveUp("hard", "overflow")
    BY <1>1 DEF AppendAndJudge
  <2>2. /\ pc' = "idle" /\ result' = "hard" /\ why' = "overflow"
        /\ lastFid' = lastFid /\ tries' = tries
    BY <2>1 DEF GiveUp
  <2>3. jpeg' \in Seq(Units) /\ Len(jpeg') <= JpegCap /\ saw' \in BOOLEAN
    BY <2>1 DEF Buffer
  <2>4. QED
    BY <2>2, <2>3 DEF CollectInv, OutcomeInv, ReturnedFrameSound
<1>2. CASE ~Overflows(p, seen, got)
  <2>1. /\ jpeg' = Got(p, seen, got) /\ saw' = Seen(p, seen)
        /\ CASE p.eof /\ saw' /\ tail_is_eoi(jpeg') -> Complete
             [] p.eof /\ ~(saw' /\ tail_is_eoi(jpeg')) -> GiveUp("timeout", "residual")
             [] OTHER -> GoOn
    BY <1>2 DEF AppendAndJudge, Got, Seen
  <2>2. Buffer(saw', jpeg', fid')
    BY <1>2, <2>1, AppendKeepsBuffer
  <2>3. jpeg' \in Seq(Units) /\ Len(jpeg') <= JpegCap /\ saw' \in BOOLEAN
    BY <2>2 DEF Buffer
  <2>4. p.eof \in BOOLEAN
    BY PacketCases DEF CarriesData, CarriesNothing, CarriesPadding
  \* Unless something is lost, the buffer holds n units of the camera's frame.
  <2>5. ASSUME saw', ~mode.lose
        PROVE  \E n \in 1..FrameLen :
                  /\ jpeg' = Sent(cam, n)
                  /\ p.eof = FALSE => cam' = [cam EXCEPT !.k = n + 1]
    <3>1. Seen(p, seen) /\ (seen => cam.k > 1 /\ got = Sent(cam, cam.k - 1))
      BY <2>1, <2>5
    <3>2. \E n \in 1..FrameLen :
             /\ Got(p, seen, got) = Sent(cam, n)
             /\ p.eof = FALSE => cam' = [cam EXCEPT !.k = n + 1]
             /\ p.eof = TRUE => Flips
      BY <1>2, <3>1, AppendKeepsWhole
    <3>3. QED
      BY <2>1, <3>2
  <2>6. CASE p.eof /\ saw' /\ tail_is_eoi(jpeg')
    <3>1. Complete
      BY <2>1, <2>6
    <3>2. /\ pc' = "idle" /\ result' = "ok" /\ why' = why
          /\ lastFid' = frameFid' /\ tries' = tries
      BY <3>1 DEF Complete
    <3>3. FrameShape'
      BY <2>2, <2>6 DEF Buffer, FrameShape, tail_is_eoi
    <3>4. ~mode.lose => FrameWhole'
      <4> SUFFICES ASSUME ~mode.lose PROVE FrameWhole'
        OBVIOUS
      <4>1. PICK n \in 1..FrameLen : jpeg' = Sent(cam, n)
        BY <2>5, <2>6
      <4>2. n \in Nat \ {0} /\ Len(jpeg') = n /\ \A k \in 1..n : jpeg'[k] = Unit(cam, k)
        BY <1>0, <4>1 DEF Sent
      <4>3. jpeg'[n].mark = "EOI"
        BY <2>6, <4>2 DEF tail_is_eoi
      <4>4. n = FrameLen
        BY <4>2, <4>3, UnitType, MarkFacts
      <4>5. \A k \in 1..FrameLen : jpeg'[k].k = k /\ jpeg'[k].f = cam.f
        BY <4>2, <4>4, UnitType
      <4>6. QED
        BY <1>0, <4>2, <4>4, <4>5 DEF FrameWhole
    <3>5. ReturnedFrameSound' /\ OutcomeInv' /\ CollectInv'
      BY <2>3, <3>2, <3>3, <3>4 DEF ReturnedFrameSound, OutcomeInv, CollectInv
    <3>6. QED
      BY <2>3, <3>2, <3>5
  <2>7. CASE p.eof /\ ~(saw' /\ tail_is_eoi(jpeg'))
    <3>1. GiveUp("timeout", "residual")
      BY <2>1, <2>7
    <3>2. /\ pc' = "idle" /\ result' = "timeout" /\ why' = "residual"
          /\ lastFid' = lastFid /\ tries' = tries
      BY <3>1 DEF GiveUp
    <3>3. QED
      BY <2>3, <3>2 DEF ReturnedFrameSound, OutcomeInv, CollectInv
  <2>8. CASE ~p.eof
    <3>1. GoOn
      BY <2>1, <2>8
    <3>2. pc' = "collect" /\ UNCHANGED <<lastFid, tries, result, why>>
      BY <3>1 DEF GoOn
    <3>3. ASSUME saw', ~mode.lose PROVE WholeSoFar'
      <4>1. PICK n \in 1..FrameLen : jpeg' = Sent(cam, n) /\ cam' = [cam EXCEPT !.k = n + 1]
        BY <2>4, <2>5, <2>8, <3>3
      <4>2. cam'.f = cam.f /\ cam'.kind = cam.kind /\ cam'.k = n + 1
        BY <4>1 DEF CamInv, CamStates
      <4>3. n \in Nat \ {0} /\ cam'.k > 1 /\ cam'.k - 1 = n
        BY <1>0, <4>2
      <4>4. Sent(cam', n) = Sent(cam, n)
        BY <4>2 DEF Sent, Unit
      <4>5. fid' = Fid(cam'.f)
        BY <4>2, PacketData
      <4>6. QED
        BY <4>1, <4>3, <4>4, <4>5 DEF WholeSoFar
    <3>4. CollectInv'
      <4>1. Buffer(saw, jpeg, fid)'
        BY <1>0, <2>2 DEF Buffer
      <4>2. QED
        BY <3>3, <4>1 DEF CollectInv
    <3>5. QED
      BY <2>3, <3>2, <3>4 DEF ReturnedFrameSound, OutcomeInv
  <2>9. QED
    BY <2>4, <2>6, <2>7, <2>8
<1>3. QED
  BY <1>1, <1>2

-----------------------------------------------------------------------------
(* capture_frame and try_frame *)

\* A step that leaves the reader alone: the camera goes on unread.
LEMMA CamAlone ==
    ASSUME CaptureInv, UNCHANGED <<pc, rxVars, lastFid, tries, result, why, reads, mode>>, CamInv',
           pc = "collect" => mode.lose \/ (Flips /\ cam.k > LastUnit(cam.kind))
    PROVE  CaptureInv'
<1>0. Units' = Units /\ CamStates' = CamStates /\ mode \in Modes
  BY DEF Units, CamStates, CaptureInv, TypeOK
<1>1. UNCHANGED <<pc, prev, frameFid, fid, jpeg, saw, lastFid, tries, result, why, reads, mode>>
  BY DEF rxVars
<1>2. TypeOK'
  BY <1>0, <1>1 DEF CaptureInv, TypeOK, CamInv, CamStates
<1>3. OutcomeInv'
  BY <1>1 DEF CaptureInv, OutcomeInv, ReturnedFrameSound, FrameShape, FrameWhole
<1>4. CollectInv'
  <2> SUFFICES ASSUME pc = "collect" PROVE CollectInv'
    BY <1>1 DEF CollectInv
  <2>1. Buffer(saw, jpeg, fid)'
    BY <1>0, <1>1 DEF CaptureInv, CollectInv, Buffer
  <2>2. ASSUME saw, ~mode.lose PROVE WholeSoFar'
    <3>1. WholeSoFar /\ CamInv
      BY <2>2 DEF CaptureInv, CollectInv
    <3>2. Flips /\ cam.k > LastUnit(cam.kind)
      BY <2>2
    <3>3. PICK k \in mode.next[cam.kind] : cam' = FrameAfter(cam, k)
      BY <3>2 DEF Flips
    <3>4. cam'.k = 1 /\ Fid(cam'.f) # Fid(cam.f)
      BY <1>0, <3>1, <3>3, FrameAfterFacts
    <3>5. /\ FrameLen \in Nat \ {0, 1} /\ cam.k \in Nat /\ cam.kind \in {"real", "meta"}
          /\ cam.k <= LastUnit(cam.kind) + 1 /\ LastUnit(cam.kind) \in Nat \ {0}
      BY <3>1, UvcCaptureAssumption DEF CamInv, CamStates, LastUnit
    <3>6. cam.k # 1 /\ cam.k - 1 = LastUnit(cam.kind)
      BY <3>2, <3>5
    <3>7. fid = Fid(cam.f) /\ jpeg = Sent(cam, LastUnit(cam.kind)) /\ cam \in CamStates
      BY <3>1, <3>6 DEF WholeSoFar, CamInv
    <3>8. \E c \in CamStates : jpeg = Sent(c, LastUnit(c.kind))
      BY <3>7
    <3>9. QED
      BY <1>0, <1>1, <3>4, <3>7, <3>8 DEF WholeSoFar, Sent, Unit, LastUnit
  <2>3. QED
    BY <1>1, <2>1, <2>2 DEF CollectInv
<1>5. QED
  BY <1>2, <1>3, <1>4 DEF CaptureInv

\* A step that ends the capture without a frame.
LEMMA CaptureFails ==
    ASSUME CaptureInv, UNCHANGED <<cam, rxVars, reads, mode>>,
           NEW r \in {"timeout", "hard"}, NEW w \in {"silent", "stall"}, GiveUp(r, w)
    PROVE  CaptureInv'
<1>0. Units' = Units /\ CamStates' = CamStates /\ mode \in Modes
  BY DEF Units, CamStates, CaptureInv, TypeOK
<1>1. /\ UNCHANGED <<cam, prev, frameFid, fid, jpeg, saw, lastFid, tries, reads, mode>>
      /\ pc' = "idle" /\ result' = r /\ why' = w
  BY DEF rxVars, GiveUp
<1>2. TypeOK'
  BY <1>0, <1>1 DEF CaptureInv, TypeOK
<1>3. CamInv'
  BY <1>0, <1>1 DEF CaptureInv, CamInv, LastUnit
<1>4. CollectInv' /\ OutcomeInv'
  BY <1>1 DEF CaptureInv, CollectInv, OutcomeInv, ReturnedFrameSound, TypeOK
<1>5. QED
  BY <1>2, <1>3, <1>4 DEF CaptureInv

\* A packet that is read and appended.
LEMMA ReadAppends ==
    ASSUME CaptureInv, NEW p, Reads(p), NEW seen, NEW got, Buffer(seen, got, p.fid),
           seen /\ ~mode.lose => cam.k > 1 /\ got = Sent(cam, cam.k - 1),
           fid' = p.fid, frameFid' \in {frameFid, p.fid}, prev' = prev,
           AppendAndJudge(p, seen, got)
    PROVE  CaptureInv'
<1>1. /\ CamSends(p) /\ mode' = mode /\ mode \in Modes /\ CamInv /\ result = "none"
      /\ reads' = IF reads > UframeLimit THEN reads ELSE reads + 1
      /\ why \in {"none", "residual", "silent", "overflow", "stall"}
  BY DEF Reads, CaptureInv, TypeOK, OutcomeInv
<1>2. Units' = Units /\ CamStates' = CamStates
  BY <1>1 DEF Units, CamStates
<1>3. CamInv'
  BY <1>1, CamStep
<1>4. p.fid \in 0..1
  <2>1. mode.ids \in {2, 4} /\ cam.f \in 0..(mode.ids - 1)
    BY <1>1, ModeType DEF CamInv, CamStates
  <2>2. QED
    BY <1>1, <2>1, FidFlips, PacketData
<1>5. reads' \in 0..(UframeLimit + 1)
  BY <1>1, UvcCaptureAssumption DEF CaptureInv, TypeOK
<1>6. /\ jpeg' \in Seq(Units) /\ Len(jpeg') <= JpegCap /\ saw' \in BOOLEAN
      /\ pc' \in {"idle", "collect"} /\ tries' = tries /\ lastFid' \in {lastFid, frameFid'}
      /\ result' \in {"none", "ok", "timeout", "hard"}
      /\ why' \in {"none", "residual", "silent", "overflow", "stall"}
      /\ CollectInv' /\ OutcomeInv'
  BY <1>1, AppendStep
<1>7. /\ prev' \in 0..2 /\ frameFid' \in 0..1 /\ fid' \in 0..1 /\ lastFid' \in 0..2
      /\ tries' \in 0..4
  BY <1>4, <1>6 DEF CaptureInv, TypeOK
<1>8. TypeOK'
  BY <1>1, <1>2, <1>3, <1>5, <1>6, <1>7 DEF TypeOK, CamInv, CamStates
<1>9. QED
  BY <1>3, <1>6, <1>8 DEF CaptureInv

LEMMA CaptureStep ==
    ASSUME CaptureInv, [Next]_vars
    PROVE  CaptureInv'
<1>0. mode \in Modes /\ CamInv /\ JpegCap \in Nat
  BY UvcCaptureAssumption DEF CaptureInv, TypeOK
<1>1. CASE CaptureFrame
  <2>1. /\ pc' = "wait" /\ prev' = lastFid /\ tries' = 1 /\ result' = "none" /\ why' = "none"
        /\ reads' = 0 /\ UNCHANGED <<cam, frameFid, fid, jpeg, saw, lastFid, mode>>
    BY <1>1 DEF CaptureFrame
  <2>2. Units' = Units /\ CamStates' = CamStates /\ UframeLimit \in Nat
    BY <2>1, UvcCaptureAssumption DEF Units, CamStates
  <2>3. TypeOK'
    BY <2>1, <2>2 DEF CaptureInv, TypeOK
  <2>4. CamInv'
    BY <1>0, <2>1, <2>2 DEF CamInv, LastUnit
  <2>5. CollectInv' /\ OutcomeInv'
    BY <2>1 DEF CaptureInv, CollectInv, OutcomeInv, ReturnedFrameSound
  <2>6. QED
    BY <2>3, <2>4, <2>5 DEF CaptureInv
\* Reading a packet that is not used: the camera has sent it.
<1>2. ASSUME NEW p, Reads(p), UNCHANGED <<frameFid, fid, jpeg, saw, tries, why>>,
             prev' \in {prev, p.fid}, lastFid' \in {lastFid, frameFid},
             \/ UNCHANGED <<pc, result>> /\ (pc = "wait" \/ cam' = cam)
             \/ pc' = "idle" /\ result' = "ok" /\ FrameShape /\ (~mode.lose => FrameWhole)
      PROVE  CaptureInv'
  <2>1. /\ CamSends(p) /\ mode' = mode /\ result = "none"
        /\ reads' = IF reads > UframeLimit THEN reads ELSE reads + 1
    BY <1>2 DEF Reads, CaptureInv, OutcomeInv
  <2>2. Units' = Units /\ CamStates' = CamStates
    BY <2>1 DEF Units, CamStates
  <2>3. CamInv'
    BY <1>0, <2>1, CamStep
  <2>4. p.fid \in 0..1
    <3>1. mode.ids \in {2, 4} /\ cam.f \in 0..(mode.ids - 1)
      BY <1>0, ModeType DEF CamInv, CamStates
    <3>2. QED
      BY <1>0, <2>1, <3>1, FidFlips, PacketData
  <2>5. reads' \in 0..(UframeLimit + 1)
    BY <2>1, UvcCaptureAssumption DEF CaptureInv, TypeOK
  <2>6. prev' \in 0..2 /\ lastFid' \in 0..2
    BY <1>2, <2>4 DEF CaptureInv, TypeOK
  <2>7. TypeOK'
    BY <1>0, <1>2, <2>1, <2>2, <2>3, <2>5, <2>6 DEF CaptureInv, TypeOK, CamInv, CamStates
  <2>8. OutcomeInv'
    BY <1>2, <2>1 DEF CaptureInv, OutcomeInv, ReturnedFrameSound, FrameShape, FrameWhole
  <2>9. CollectInv'
    <3>1. CASE pc' # "collect"
      BY <3>1 DEF CollectInv
    <3>2. CASE pc' = "collect" /\ pc = "collect" /\ cam' = cam
      BY <1>2, <2>1, <2>2, <3>2
         DEF CaptureInv, CollectInv, Buffer, WholeSoFar, Sent, Unit, LastUnit
    <3>3. QED
      BY <1>2, <3>1, <3>2
  <2>10. QED
    BY <2>3, <2>7, <2>8, <2>9 DEF CaptureInv
\* An empty buffer, as a frame begins.
<1>3. \A fd : Buffer(FALSE, << >>, fd)
  BY <1>0 DEF Buffer
<1>4. ASSUME NEW p \in Packets, ReadPacket(p) PROVE CaptureInv'
  <2>1. CASE SkipBadHeader(p)
    <3>1. p.valid # TRUE /\ CamSends(p)
      BY <2>1 DEF SkipBadHeader, Reads
    <3>2. p \notin DataPackets /\ p # Packet(cam, <<>>, TRUE)
      <4>1. \A d, e : Packet(cam, d, e).valid = TRUE
        BY DEF Packet
      <4>2. ASSUME p \in DataPackets PROVE FALSE
        <5>1. PICK j \in 1..PacketLen, e \in BOOLEAN : p = Packet(cam, Run(cam, j), e)
          BY <4>2 DEF DataPackets, Run
        <5>2. QED
          BY <3>1, <4>1, <5>1
      <4>3. QED
        BY <3>1, <4>1, <4>2
    <3>3. cam' = cam
      BY <3>1, <3>2 DEF CamSends
    <3>4. QED
      BY <1>2, <2>1, <3>3 DEF SkipBadHeader, rxVars
  <2>2. CASE WaitSame(p)
    BY <1>2, <2>2 DEF WaitSame
  <2>3. CASE WaitFlip(p)
    BY <1>3, <2>3, ReadAppends DEF WaitFlip
  <2>4. CASE CollectSame(p)
    <3>1. /\ Reads(p) /\ pc = "collect" /\ p.fid = fid /\ UNCHANGED <<prev, frameFid, fid>>
          /\ AppendAndJudge(p, saw, jpeg)
      BY <2>4 DEF CollectSame
    <3>2. p.fid = Fid(cam.f)
      BY <1>0, <3>1, PacketData DEF Reads
    <3>3. Buffer(saw, jpeg, p.fid)
      BY <3>1 DEF CaptureInv, CollectInv
    <3>4. saw /\ ~mode.lose => cam.k > 1 /\ jpeg = Sent(cam, cam.k - 1)
      BY <3>1, <3>2 DEF CaptureInv, CollectInv, WholeSoFar
    <3>5. QED
      BY <3>1, <3>3, <3>4, ReadAppends
  <2>5. CASE CollectFlipComplete(p)
    <3>1. /\ Reads(p) /\ pc = "collect" /\ p.fid # fid /\ saw /\ tail_is_eoi(jpeg)
          /\ UNCHANGED <<prev, frameFid, fid, jpeg, saw>> /\ Complete
      BY <2>5 DEF CollectFlipComplete, rxVars
    <3>2. p.fid = Fid(cam.f)
      BY <1>0, <3>1, PacketData DEF Reads
    <3>3. FrameShape
      BY <3>1 DEF CaptureInv, CollectInv, Buffer, FrameShape, tail_is_eoi
    <3>4. ~mode.lose => FrameWhole
      <4> SUFFICES ASSUME ~mode.lose PROVE FrameWhole
        OBVIOUS
      <4>1. PICK c \in CamStates : jpeg = Sent(c, LastUnit(c.kind))
        BY <3>1, <3>2 DEF CaptureInv, CollectInv, WholeSoFar
      <4> DEFINE n == LastUnit(c.kind)
      <4>2. FrameLen \in Nat \ {0, 1} /\ n \in 1..FrameLen
        BY UvcCaptureAssumption DEF CamStates, LastUnit
      <4> HIDE DEF n
      <4>3. n \in Nat \ {0} /\ Len(jpeg) = n /\ \A k \in 1..n : jpeg[k] = Unit(c, k)
        BY <4>1, <4>2 DEF Sent, n
      <4>4. Mark(c.kind, n) = "EOI"
        BY <3>1, <4>3 DEF tail_is_eoi, Unit
      <4>5. n = FrameLen
        BY <4>3, <4>4, MarkFacts
      <4>6. \A k \in 1..FrameLen : jpeg[k].k = k /\ jpeg[k].f = c.f
        BY <4>3, <4>5 DEF Unit
      <4>7. QED
        BY <4>2, <4>3, <4>5, <4>6 DEF FrameWhole
    <3>5. QED
      BY <1>2, <3>1, <3>3, <3>4 DEF Complete
  <2>6. CASE CollectFlipResidual(p)
    BY <1>3, <2>6, ReadAppends DEF CollectFlipResidual
  <2>7. QED
    BY <1>4, <2>1, <2>2, <2>3, <2>4, <2>5, <2>6 DEF ReadPacket
<1>5. CASE ReadTimeout \/ ReadHardError
  BY <1>5, CaptureFails DEF ReadTimeout, ReadHardError
<1>6. CASE CamNoEof
  <2>1. PICK k \in mode.next[cam.kind] : cam' = FrameAfter(cam, k)
    BY <1>6 DEF CamNoEof
  <2>2. mode' = mode /\ CamStates' = CamStates
    BY <1>6 DEF CamNoEof, CamStates
  <2>3. cam' \in CamStates /\ cam'.k <= LastUnit(cam'.kind) + 1
    BY <1>0, <2>1, FrameAfterFacts
  <2>4. CamInv'
    BY <2>2, <2>3 DEF CamInv, LastUnit
  <2>5. QED
    BY <1>6, <2>4, CamAlone DEF CamNoEof, Flips
<1>7. CASE CamUnread
  <2>1. PICK p \in Packets : CamSends(p)
    BY <1>7 DEF CamUnread
  <2>2. CamInv'
    BY <1>0, <1>7, <2>1, CamStep DEF CamUnread
  <2>3. QED
    BY <1>7, <2>2, CamAlone DEF CamUnread
<1>8. CASE UNCHANGED vars
  <2>1. UNCHANGED <<cam, pc, prev, frameFid, fid, jpeg, saw, lastFid, tries, result, why, reads, mode>>
    BY <1>8 DEF vars, rxVars
  <2>2. QED
    BY <2>1 DEF CaptureInv, TypeOK, CamInv, CollectInv, OutcomeInv, ReturnedFrameSound, FrameShape,
       FrameWhole, Buffer, WholeSoFar, CamStates, Units, Sent, Unit, LastUnit
<1>9. QED
  BY <1>1, <1>4, <1>5, <1>6, <1>7, <1>8 DEF Next, Read

LEMMA CaptureBegins == Init => CaptureInv
<1> SUFFICES ASSUME Init PROVE CaptureInv
  OBVIOUS
<1>0. /\ FrameLen \in Nat \ {0, 1} /\ JpegCap \in Nat /\ UframeLimit \in Nat
      /\ mode \in Modes /\ mode.ids \in {2, 4}
  BY UvcCaptureAssumption, ModeType DEF Init
<1>1. cam.f \in {0, 1} /\ cam.kind = "real" /\ cam.k = 1
  BY DEF Init
<1>2. cam \in CamStates
  <2>1. cam.f \in 0..(mode.ids - 1) /\ cam.k \in 1..(FrameLen + 1)
    BY <1>0, <1>1
  <2>2. QED
    BY <1>1, <2>1 DEF Init, CamStates
<1>3. CamInv
  BY <1>0, <1>1, <1>2 DEF CamInv, LastUnit
<1>4. jpeg \in Seq(Units) /\ Len(jpeg) <= JpegCap
  BY <1>0 DEF Init
<1>5. TypeOK
  <2>1. prev \in 0..2 /\ frameFid \in 0..1 /\ fid \in 0..1 /\ lastFid \in 0..2 /\ tries \in 0..4
    BY DEF Init
  <2>2. reads \in 0..(UframeLimit + 1)
    <3>1. reads = 0
      BY DEF Init
    <3>2. QED
      BY <1>0, <3>1
  <2>3. pc = "idle" /\ result = "none" /\ why = "none" /\ saw \in BOOLEAN
    BY DEF Init
  <2>4. QED
    BY <1>0, <1>2, <1>4, <2>1, <2>2, <2>3 DEF TypeOK, CamStates
<1>6. CollectInv /\ OutcomeInv
  BY <1>4 DEF Init, CollectInv, OutcomeInv, ReturnedFrameSound
<1>7. QED
  BY <1>3, <1>5, <1>6 DEF CaptureInv

\* The state of a capture keeps its shape: the counters their range and the
\* assembly buffer its capacity.
THEOREM TypeCorrect == Spec => []TypeOK
<1>1. CaptureInv => TypeOK
  BY DEF CaptureInv
<1>2. CaptureInv /\ [Next]_vars => CaptureInv'
  BY CaptureStep
<1>3. QED
  BY <1>1, <1>2, CaptureBegins, PTL DEF Spec

\* Whatever the lengths of frames and packets, a frame that capture_frame returns
\* starts with SOI, ends with EOI and mixes no frame ids; while nothing is lost it
\* is exactly one real frame of the camera; and the buffer is never overrun
\* (capture.rs, try_frame and UvcPacket::append).
THEOREM FramesAreSound == Spec => []ReturnedFrameSound
<1>1. CaptureInv => ReturnedFrameSound
  BY DEF CaptureInv, OutcomeInv
<1>2. CaptureInv /\ [Next]_vars => CaptureInv'
  BY CaptureStep
<1>3. QED
  BY <1>1, <1>2, CaptureBegins, PTL DEF Spec

=============================================================================
