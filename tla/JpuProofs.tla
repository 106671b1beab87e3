----------------------------- MODULE JpuProofs ------------------------------
(***************************************************************************)
(* Proofs about decoding: the session, for every pool geometry and any      *)
(* number of frames; and the header parser with what the decoder programs   *)
(* from its result, for every header and every cut.                         *)
(***************************************************************************)
EXTENDS JpuSession, JpegHeader, FiniteSetTheorems, SequenceTheorems, TLAPS

YuvType == [top : 0..MaxFrames, bottom : 0..MaxFrames]

\* The JPU runs only while the main loop polls it, works on the frame at hand,
\* and has written what its progress says; DONE means that it has finished.
RunInv ==
    /\ mpc # "poll" => hw = "idle"
    /\ mpc = "poll" => job = frames
    /\ hw = "bottom" => yuv.top = frames
    /\ (mpc = "poll" /\ "DONE" \in status) =>
            hw = "idle" /\ yuv.top = frames /\ yuv.bottom = frames

\* A picture that decoded stays in the buffer until the next decode begins.
KeepInv ==
    /\ (mpc \in {"notify", "idle"} /\ outcome) => yuv.top = frames /\ yuv.bottom = frames
    /\ mpc = "idle" => ann.n = frames

JpuInv == yuv \in YuvType /\ job \in 0..MaxFrames /\ frames \in 0..MaxFrames
              /\ RunInv /\ KeepInv

\* A step of the main loop.
LEMMA MainKeeps ==
    ASSUME JpuInv, Captured \/ DecodeStep
    PROVE  JpuInv'
<1> USE JpuSessionAssumption DEF JpuInv, RunInv, KeepInv, jpuVars
<1>1. CASE Captured
  BY <1>1 DEF Captured
<1>2. CASE FirstCreate
  BY <1>2 DEF FirstCreate
<1>3. CASE DecodePanics \/ DecodeRejected
  BY <1>3 DEF DecodePanics, DecodeRejected
<1>4. CASE DecodeStart
  BY <1>4 DEF DecodeStart
<1>5. CASE PollDone
  BY <1>5 DEF PollDone
<1>6. CASE PollError
  BY <1>6 DEF PollError, HardReset
<1>7. CASE PollTimeout
  BY <1>7 DEF PollTimeout, HardReset
<1>8. CASE Recover
  BY <1>8 DEF Recover
<1>9. CASE NotifyYuv \/ NotifyMjpegOnly
  <2>1. mpc = "notify" /\ mpc' = "idle" /\ ann'.n = frames
    BY <1>9 DEF NotifyYuv, NotifyMjpegOnly
  <2>2. UNCHANGED <<frames, outcome, hw, job, yuv>>
    BY <1>9 DEF NotifyYuv, NotifyMjpegOnly
  <2>3. QED
    BY <2>1, <2>2
<1>10. QED
  BY <1>1, <1>2, <1>3, <1>4, <1>5, <1>6, <1>7, <1>8, <1>9 DEF DecodeStep

\* A step of the JPU, which finishes, fails or wedges.
LEMMA JpuKeeps ==
    ASSUME JpuInv, JpuWrites \/ JpuError \/ JpuWedge
    PROVE  JpuInv'
<1> USE JpuSessionAssumption DEF JpuInv, RunInv, KeepInv, mainVars, YuvType
<1>1. CASE JpuWrites /\ hw = "top"
  <2>1. yuv' = [yuv EXCEPT !.top = job] /\ hw' = "bottom" /\ status' = status
    BY <1>1 DEF JpuWrites
  <2>2. yuv'.top = job /\ yuv'.bottom = yuv.bottom /\ yuv' \in YuvType
    BY <2>1
  <2>3. QED
    BY <1>1, <2>1, <2>2 DEF JpuWrites
<1>2. CASE JpuWrites /\ hw = "bottom"
  <2>1. yuv' = [yuv EXCEPT !.bottom = job] /\ hw' = "idle"
    BY <1>2 DEF JpuWrites
  <2>2. yuv'.bottom = job /\ yuv'.top = yuv.top /\ yuv' \in YuvType
    BY <2>1
  <2>3. QED
    BY <1>2, <2>1, <2>2 DEF JpuWrites
<1>3. CASE JpuError
  BY <1>3 DEF JpuError
<1>4. CASE JpuWedge
  BY <1>4 DEF JpuWedge
<1>5. QED
  BY <1>1, <1>2, <1>3, <1>4 DEF JpuWrites

\* The big core only reads, so both facts hold throughout.
LEMMA JpuInvariant == Spec => []JpuInv
<1>1. Init => JpuInv
  BY JpuSessionAssumption DEF Init, JpuInv, RunInv, KeepInv, YuvType
<1>2. JpuInv /\ [Next]_vars => JpuInv'
  <2> SUFFICES ASSUME JpuInv, [Next]_vars PROVE JpuInv'
    OBVIOUS
  <2>1. CASE UNCHANGED vars
    BY <2>1 DEF vars, mainVars, jpuVars, JpuInv, RunInv, KeepInv
  <2>2. CASE ReadBegin \/ ReadHalf \/ ReadCheck \/ ReadAgain
    <3>1. UNCHANGED <<mainVars, jpuVars>>
      BY <2>2 DEF ReadBegin, ReadHalf, ReadCheck, ReadAgain
    <3>2. QED
      BY <3>1 DEF mainVars, jpuVars, JpuInv, RunInv, KeepInv
  <2>3. QED
    BY <2>1, <2>2, MainKeeps, JpuKeeps DEF Next
<1>3. QED
  BY <1>1, <1>2, PTL DEF Spec

\* Between two frames, and while one is announced, the JPU is idle: a picture
\* abandoned at the 200 ms timeout has been stopped by hard_reset and no longer
\* writes the shared buffer (decoder.rs:97-98).
THEOREM DecoderAtRest == Spec => []JpuAtRest
<1>1. JpuInv => JpuAtRest
  BY DEF JpuInv, RunInv, JpuAtRest
<1>2. QED
  BY <1>1, JpuInvariant, PTL

\* A frame that was decoded is in the shared buffer, whole, from its announcement
\* until the next decode begins, whatever errors, timeouts and rebuilds came before.
THEOREM DecodedInPlace == Spec => []DecodedYuvInPlace
<1>1. JpuInv => DecodedYuvInPlace
  BY DEF JpuInv, KeepInv, DecodedYuvInPlace
<1>2. QED
  BY <1>1, JpuInvariant, PTL
-----------------------------------------------------------------------------
(* The stream buffer *)

LEMMA StreamPagesPositive == StreamPages \in Nat \ {0}
<1>1. /\ PageUnits \in Nat \ {0} /\ StreamSize \in Nat \ {0}
      /\ StreamSize + PageUnits - 1 \in Nat /\ StreamSize + PageUnits - 1 >= PageUnits
  BY JpuSessionAssumption
<1>2. \A x \in Nat : x >= PageUnits => x \div PageUnits \in Nat \ {0}
  BY <1>1
<1>3. QED
  BY <1>1, <1>2 DEF StreamPages

\* alloc on an empty pool finds a run at page 0 if it finds one at all.
LEMMA FirstRunAtZero ==
    ASSUME Runs(Pages) # {}
    PROVE  FirstRun(Pages) = 0..(StreamPages - 1) /\ 0..(StreamPages - 1) \subseteq Pages
<1>1. PICK p \in Pages : \A q \in p..(p + StreamPages - 1) : q \in Pages
  BY DEF Runs
<1>2. /\ StreamPages \in Nat \ {0} /\ p \in Nat /\ PoolSize \div PageUnits \in Nat
  BY StreamPagesPositive, JpuSessionAssumption DEF Pages
<1>3. p + StreamPages - 1 \in Pages
  BY <1>1, <1>2
<1>4. 0..(StreamPages - 1) \subseteq Pages /\ 0 \in Pages
  BY <1>2, <1>3 DEF Pages
<1>5. 0 \in Runs(Pages) /\ \A q \in Runs(Pages) : q \in Nat
  BY <1>2, <1>4 DEF Runs, Pages
<1>6. \A s \in Runs(Pages) : (\A q \in Runs(Pages) : s <= q) => s = 0
  BY <1>5
<1> DEFINE start == CHOOSE s \in Runs(Pages) : \A q \in Runs(Pages) : s <= q
<1>7. start = 0
  BY <1>5, <1>6
<1>8. FirstRun(Pages) = start..(start + StreamPages - 1)
  BY DEF FirstRun
<1> HIDE DEF start
<1>9. 0 + StreamPages - 1 = StreamPages - 1
  BY <1>2
<1>10. QED
  BY <1>4, <1>7, <1>8, <1>9

\* What create_decoder leaves, whatever was there before.
LEMMA CreateOwns ==
    ASSUME CreateDecoder
    PROVE  StreamBufOwned' /\ present' \in BOOLEAN /\ stream' \subseteq Pages /\ free' \subseteq Pages
<1>1. CASE Runs(Pages) = {}
  BY <1>1 DEF CreateDecoder, StreamBufOwned
<1>2. CASE Runs(Pages) # {}
  <2>1. /\ present' = TRUE /\ stream' = 0..(StreamPages - 1) /\ stream' \subseteq Pages
        /\ free' = Pages \ stream'
    BY <1>2, FirstRunAtZero DEF CreateDecoder
  <2>2. Cardinality(0..(StreamPages - 1)) = StreamPages
    BY StreamPagesPositive, FS_Interval
  <2>3. QED
    BY <2>1, <2>2 DEF StreamBufOwned
<1>3. QED
  BY <1>1, <1>2

\* However often the decoder is dropped and rebuilt, its stream buffer has all
\* its pages, and none of them is free for another allocation (mem.rs, alloc).
THEOREM StreamBufKept == Spec => []StreamBufOwned
<1>1. Init => StreamBufOwned
  BY DEF Init, StreamBufOwned
<1>2. StreamBufOwned /\ [Next]_vars => StreamBufOwned'
  <2> SUFFICES ASSUME StreamBufOwned, [Next]_vars PROVE StreamBufOwned'
    OBVIOUS
  <2>1. CASE FirstCreate \/ Recover
    BY <2>1, CreateOwns DEF FirstCreate, Recover
  <2>2. CASE UNCHANGED memVars
    BY <2>2 DEF memVars, StreamBufOwned
  <2>3. CASE \/ Captured \/ DecodePanics \/ DecodeRejected \/ DecodeStart
             \/ PollDone \/ PollError \/ PollTimeout \/ NotifyYuv \/ NotifyMjpegOnly
    BY <2>2, <2>3 DEF Captured, DecodePanics, DecodeRejected, DecodeStart, PollDone, PollError,
           PollTimeout, NotifyYuv, NotifyMjpegOnly
  <2>4. CASE \/ JpuWrites \/ JpuError \/ JpuWedge
             \/ ReadBegin \/ ReadHalf \/ ReadCheck \/ ReadAgain
    BY <2>2, <2>4 DEF JpuWrites, JpuError, JpuWedge, ReadBegin, ReadHalf, ReadCheck, ReadAgain
  <2>5. QED
    BY <2>1, <2>2, <2>3, <2>4 DEF Next, DecodeStep, vars
<1>3. QED
  BY <1>1, <1>2, PTL DEF Spec

-----------------------------------------------------------------------------
(* Types *)

LEMMA FlagsInWord ==
    ASSUME NEW w, NEW h
    PROVE  encode_dims(w, h) \subseteq 0..31
<1>1. Bits(w) \subseteq 0..11 /\ Bits(h) \subseteq 0..11
  BY DEF Bits
<1>2. QED
  BY <1>1 DEF encode_dims

LEMMA TypesKept ==
    ASSUME TypeOK, [Next]_vars
    PROVE  TypeOK'
<1> USE DEF TypeOK, mainVars, memVars, jpuVars
<1>0. /\ MaxFrames \in Nat /\ YuvBufSize \in Nat
      /\ Pictures \subseteq [w : Nat, h : Nat, size : Nat, jpeg : Nat, fatal : BOOLEAN]
  BY JpuSessionAssumption
<1>1. CASE Captured
  BY <1>0, <1>1 DEF Captured
<1>2. CASE FirstCreate \/ Recover
  <2>1. present' \in BOOLEAN /\ stream' \subseteq Pages /\ free' \subseteq Pages
    BY <1>2, CreateOwns DEF FirstCreate, Recover
  <2>2. QED
    BY <1>2, <2>1 DEF FirstCreate, Recover
<1>3. CASE DecodeRejected \/ DecodeStart
  BY <1>3 DEF DecodeRejected, DecodeStart
<1>4. CASE DecodePanics
  <2>1. ann' \in [n : 0..MaxFrames \cup {PANIC_FC}, size : Nat, flags : SUBSET (0..31)]
    BY <1>4 DEF DecodePanics
  <2>2. mpc' = "panic" /\ UNCHANGED <<frames, pic, outcome, memVars, jpuVars, rd>>
    BY <1>4 DEF DecodePanics
  <2>3. QED
    BY <2>1, <2>2
<1>5. CASE PollDone \/ PollError \/ PollTimeout
  BY <1>5 DEF PollDone, PollError, PollTimeout, HardReset
<1>6. CASE NotifyYuv \/ NotifyMjpegOnly
  <2>0. pic.size \in Nat /\ pic.jpeg \in Nat
    BY <1>0
  <2>1. ann' \in [n : 0..MaxFrames \cup {PANIC_FC}, size : Nat, flags : SUBSET (0..31)]
    <3>1. /\ {FLAG_SOI, FLAG_EOI, FLAG_YUV_READY} \cup encode_dims(pic.w, pic.h) \subseteq 0..31
          /\ {FLAG_SOI, FLAG_EOI} \cup encode_dims(640, 480) \subseteq 0..31
      BY FlagsInWord DEF FLAG_SOI, FLAG_EOI, FLAG_YUV_READY
    <3>2. CASE NotifyYuv
      BY <1>0, <2>0, <3>1, <3>2 DEF NotifyYuv
    <3>3. CASE NotifyMjpegOnly
      BY <2>0, <3>1, <3>3 DEF NotifyMjpegOnly
    <3>4. QED
      BY <1>6, <3>2, <3>3
  <2>2. mpc' = "idle" /\ UNCHANGED <<frames, pic, outcome, memVars, jpuVars, rd>>
    BY <1>6 DEF NotifyYuv, NotifyMjpegOnly
  <2>3. QED
    BY <2>1, <2>2
<1>7. CASE JpuWrites \/ JpuError \/ JpuWedge
  BY <1>7 DEF JpuWrites, JpuError, JpuWedge
<1>8. CASE ReadBegin \/ ReadCheck \/ ReadAgain
  BY <1>8 DEF ReadBegin, ReadCheck, ReadAgain
<1>9. CASE ReadHalf
  BY <1>9 DEF ReadHalf
<1>10. CASE UNCHANGED vars
  BY <1>10 DEF vars
<1>11. QED
  BY <1>1, <1>2, <1>3, <1>4, <1>5, <1>6, <1>7, <1>8, <1>9, <1>10 DEF Next, DecodeStep

\* Frame counters, the flags word, the page sets and the reader's copy keep their
\* types: in particular encode_dims stays within the 32 bits of the word.
THEOREM TypeCorrect == Spec => []TypeOK
<1>1. Init => TypeOK
  <2> SUFFICES ASSUME Init PROVE TypeOK
    OBVIOUS
  <2>1. 0 \in 0..MaxFrames
    BY JpuSessionAssumption
  <2>2. ann \in [n : 0..MaxFrames \cup {PANIC_FC}, size : Nat, flags : SUBSET (0..31)]
    BY <2>1 DEF Init
  <2>3. yuv \in [top : 0..MaxFrames, bottom : 0..MaxFrames]
    BY <2>1 DEF Init
  <2>4. rd \in [pc : {"idle", "top", "bottom", "check", "accepted"},
                seq : 0..MaxFrames \cup {PANIC_FC},
                top : 0..MaxFrames, bottom : 0..MaxFrames]
    BY <2>1 DEF Init
  <2>5. QED
    BY <2>1, <2>2, <2>3, <2>4 DEF Init, TypeOK
<1>2. QED
  BY <1>1, TypesKept, PTL DEF Spec

-----------------------------------------------------------------------------
(* Where the scan begins *)

\* Whatever page and byte the header ends at, the two pages gram_setup loads and the
\* pointers it sets make the JPU read that byte first (decoder.rs, gram_setup).
LEMMA FirstByteIs ==
    ASSUME NEW ecs \in Nat
    PROVE  FirstByte(ecs) = ecs
<1> DEFINE page == ecs \div 256
<1> DEFINE rest == ecs % 256
<1> DEFINE at == word_ptr(ecs) * 4 + bit_ptr(ecs) \div 8
<1>1. page \in Nat /\ rest \in 0..255 /\ ecs = page * 256 + rest
  OBVIOUS
<1>2. 16 * (rest \div 16) + (ecs % 16) = rest
  OBVIOUS
<1>3. bit_ptr(ecs) \div 8 = ecs % 16
  BY DEF bit_ptr
<1>4. word_ptr(ecs) = (rest \div 16) * 4 + (IF page % 2 = 1 THEN 64 ELSE 0)
  BY DEF word_ptr, page_ptr, PageBytes
<1>5. at = rest + (IF page % 2 = 1 THEN 256 ELSE 0)
  <2>1. rest \div 16 \in Nat /\ ecs % 16 \in Nat
    OBVIOUS
  <2> HIDE DEF rest, page
  <2>2. QED
    BY <1>2, <1>3, <1>4, <2>1
<1>6. page % 2 \in 0..1
  OBVIOUS
<1>7. FirstByte(ecs) = Loaded(ecs)[at \div 256] * 256 + (at % 256)
  BY DEF FirstByte, PageBytes
<1>8. \A half \in 0..1 : Loaded(ecs)[half] = CHOOSE p \in {page, page + 1} : p % 2 = half
  BY DEF Loaded, page_ptr, PageBytes
<1> HIDE DEF at, rest
<1>9. at \div 256 = page % 2 /\ at % 256 = rest
  BY <1>1, <1>5, <1>6
<1>10. Loaded(ecs)[page % 2] = page
  <2> HIDE DEF page
  <2>1. (page + 1) % 2 # page % 2
    BY <1>1
  <2>2. \A p \in {page, page + 1} : p % 2 = page % 2 => p = page
    BY <2>1
  <2>3. (CHOOSE p \in {page, page + 1} : p % 2 = page % 2) = page
    BY <2>2
  <2>4. QED
    BY <1>6, <1>8, <2>3
<1> HIDE DEF page
<1>11. QED
  BY <1>1, <1>7, <1>9, <1>10

-----------------------------------------------------------------------------
(* The blocks of an MCU *)

LEMMA MaxIs ==
    ASSUME NEW S, \A x \in S : x \in Nat, NEW m \in S, \A y \in S : y <= m
    PROVE  Max(S) = m
<1>1. m \in S /\ \A y \in S : m >= y
  OBVIOUS
<1>2. Max(S) \in S /\ \A y \in S : Max(S) >= y
  BY <1>1 DEF Max
<1>3. QED
  BY <1>1, <1>2

LEMMA ComponentsAre ==
    /\ info.num_components = 3 => Components(info) = 1..3
    /\ info.num_components = 1 => Components(info) = {1}
<1>1. Min({3, 3}) = 3 /\ Min({1, 3}) = 1
  BY DEF Min
<1>2. 1..1 = {1}
  OBVIOUS
<1>3. QED
  BY <1>1, <1>2 DEF Components

\* Blocks of component c in an MCU.
BlocksOf(c) == info.sampling[c][1] * info.sampling[c][2]

\* g sums up the blocks of a set of components, one component after the other.
SumsBlocks(g, S) ==
    g = [s \in SUBSET S |->
            IF s = {} THEN 0
            ELSE BlocksOf(CHOOSE x \in s : TRUE) + g[s \ {CHOOSE x \in s : TRUE}]]

LEMMA BlocksAre ==
    ASSUME NEW S, S = Components(info), S \in SUBSET {1, 2, 3}, \A c \in S : BlocksOf(c) \in Nat
    PROVE  mcu_block_num(info) = (IF 1 \in S THEN BlocksOf(1) ELSE 0)
              + (IF 2 \in S THEN BlocksOf(2) ELSE 0) + (IF 3 \in S THEN BlocksOf(3) ELSE 0)
<1> DEFINE part(c, s) == IF c \in s THEN BlocksOf(c) ELSE 0
<1> DEFINE total(s) == part(1, s) + part(2, s) + part(3, s)
<1> DEFINE r == CHOOSE g : SumsBlocks(g, S)
<1>1. mcu_block_num(info) = r[S]
  BY DEF mcu_block_num, MapThenSumSet, MapThenFoldSet, SumsBlocks, BlocksOf
<1>2. ASSUME NEW s \in SUBSET S, NEW x \in s
      PROVE  total(s) = BlocksOf(x) + total(s \ {x}) /\ total(s) \in Nat
  <2>1. x = 1 \/ x = 2 \/ x = 3
    OBVIOUS
  <2>2. \A c \in s : BlocksOf(c) \in Nat
    OBVIOUS
  <2>3. QED
    BY <2>1, <2>2
<1>3. total({}) = 0
  OBVIOUS
<1> DEFINE h == [s \in SUBSET S |-> total(s)]
<1>4. SumsBlocks(h, S)
  <2>1. ASSUME NEW s \in SUBSET S
        PROVE  h[s] = IF s = {} THEN 0
                      ELSE BlocksOf(CHOOSE x \in s : TRUE) + h[s \ {CHOOSE x \in s : TRUE}]
    <3> DEFINE x == CHOOSE y \in s : TRUE
    <3>1. CASE s = {}
      BY <1>3, <3>1
    <3>2. CASE s # {}
      <4>1. x \in s
        BY <3>2
      <4> HIDE DEF x, total
      <4>2. s \ {x} \in SUBSET S /\ h[s] = total(s) /\ h[s \ {x}] = total(s \ {x})
        OBVIOUS
      <4> HIDE DEF h
      <4>3. h[s] = BlocksOf(x) + h[s \ {x}]
        BY <1>2, <4>1, <4>2
      <4>4. QED
        BY <3>2, <4>3 DEF x
    <3>3. QED
      BY <3>1, <3>2
  <2> DEFINE k == [s \in SUBSET S |->
                     IF s = {} THEN 0
                     ELSE BlocksOf(CHOOSE x \in s : TRUE) + h[s \ {CHOOSE x \in s : TRUE}]]
  <2> HIDE DEF total
  <2>2. h = k
    BY <2>1
  <2>3. QED
    BY <2>2 DEF SumsBlocks
<1> HIDE DEF h, total
<1>5. SumsBlocks(r, S)
  BY <1>4
<1> HIDE DEF r
<1>6. r[{}] = 0
  BY <1>5 DEF SumsBlocks
<1>7. ASSUME NEW s \in SUBSET S, s # {} PROVE \E x \in s : r[s] = BlocksOf(x) + r[s \ {x}]
  <2>1. (CHOOSE x \in s : TRUE) \in s
    BY <1>7
  <2>2. r[s] = BlocksOf(CHOOSE x \in s : TRUE) + r[s \ {CHOOSE x \in s : TRUE}]
    BY <1>5, <1>7 DEF SumsBlocks
  <2>3. QED
    BY <2>1, <2>2
\* One component, two, and three.
<1>8. ASSUME NEW s \in SUBSET S, s # {}, \A x \in s : r[s \ {x}] = total(s \ {x})
      PROVE  r[s] = total(s)
  <2>1. PICK x \in s : r[s] = BlocksOf(x) + r[s \ {x}]
    BY <1>7, <1>8
  <2>2. QED
    BY <1>2, <1>8, <2>1
<1>9. ASSUME NEW a \in S PROVE r[{a}] = total({a})
  <2>1. {a} \in SUBSET S /\ {a} # {} /\ \A x \in {a} : {a} \ {x} = {}
    OBVIOUS
  <2>2. QED
    BY <1>3, <1>6, <1>8, <2>1
<1>10. ASSUME NEW a \in S, NEW b \in S, a # b PROVE r[{a, b}] = total({a, b})
  <2>1. {a, b} \in SUBSET S /\ {a, b} # {} /\ {a, b} \ {a} = {b} /\ {a, b} \ {b} = {a}
    BY <1>10
  <2>2. \A x \in {a, b} : r[{a, b} \ {x}] = total({a, b} \ {x})
    BY <1>9, <2>1
  <2>3. QED
    BY <1>8, <2>1, <2>2
<1>11. ASSUME S = {1, 2, 3} PROVE r[S] = total(S)
  <2>1. S # {} /\ S \ {1} = {2, 3} /\ S \ {2} = {1, 3} /\ S \ {3} = {1, 2}
    BY <1>11
  <2>2. r[{2, 3}] = total({2, 3}) /\ r[{1, 3}] = total({1, 3}) /\ r[{1, 2}] = total({1, 2})
    BY <1>10, <1>11
  <2>3. \A x \in S : r[S \ {x}] = total(S \ {x})
    BY <1>11, <2>1, <2>2
  <2>4. QED
    BY <1>8, <2>1, <2>3
<1>12. r[S] = total(S)
  <2>1. \/ S = {} \/ S = {1, 2, 3} \/ (\E a \in S : S = {a}) \/ (\E a, b \in S : a # b /\ S = {a, b})
    OBVIOUS
  <2>2. CASE S = {}
    BY <1>3, <1>6, <2>2
  <2>3. CASE \E a \in S : S = {a}
    BY <1>9, <2>3
  <2>4. CASE \E a, b \in S : a # b /\ S = {a, b}
    BY <1>10, <2>4
  <2>5. QED
    BY <1>11, <2>1, <2>2, <2>3, <2>4
<1>13. QED
  BY <1>1, <1>12 DEF total

-----------------------------------------------------------------------------
(* The planes *)

LEMMA AlignIs ==
    ASSUME NEW x \in Nat, NEW n \in {8, 16}
    PROVE  \E m \in Nat : Align(x, n) = n * m
<1>1. (x + n - 1) \div n \in Nat
  <2>1. CASE n = 8
    BY <2>1
  <2>2. CASE n = 16
    BY <2>2
  <2>3. QED
    BY <2>1, <2>2
<1>2. \A m \in Nat : m * n = n * m
  OBVIOUS
<1>3. QED
  BY <1>1, <1>2 DEF Align

LEMMA Areas ==
    ASSUME NEW a \in Nat, NEW b \in Nat, NEW P, P = a * b
    PROVE  /\ P \in Nat
           /\ (8 * a) * (8 * b) = 64 * P /\ (16 * a) * (8 * b) = 128 * P
           /\ (8 * a) * (16 * b) = 128 * P /\ (16 * a) * (16 * b) = 256 * P
  OBVIOUS

\* What PlanesHoldPicture asks of the parsed header.
PlanesHold ==
    LET comps == Components(info)
        hmax == Max({info.sampling[c][1] : c \in comps})
        vmax == Max({info.sampling[c][2] : c \in comps})
        cols(c) == (Align(info.width, 8 * hmax) * info.sampling[c][1]) \div hmax
        rows(c) == (Align(info.height, 8 * vmax) * info.sampling[c][2]) \div vmax
        plane(c) == Planes(info)[c]
        limit(c) == IF c + 1 \in comps THEN plane(c + 1).at ELSE frame_size(info)
        mcus == (aligned_width(info) * aligned_height(info)) \div (64 * hmax * vmax)
    IN  /\ \A c \in comps :
            /\ plane(c).stride >= cols(c)
            /\ plane(c).at + plane(c).stride * rows(c) <= limit(c)
        /\ 64 * mcus * mcu_block_num(info) = frame_size(info)

\* One component.
LEMMA GreyHolds ==
    ASSUME info.width \in Nat, info.height \in Nat, info.num_components = 1,
           info.sampling[1] = <<1, 1>>, info.format = FORMAT_400
    PROVE  PlanesHold
<1> DEFINE w == Align(info.width, 8)
<1> DEFINE h == Align(info.height, 8)
<1>1. PICK a \in Nat : w = 8 * a
  BY AlignIs
<1>2. PICK b \in Nat : h = 8 * b
  BY AlignIs
<1> DEFINE P == a * b
<1>3. /\ P \in Nat /\ w * h = 64 * P /\ w \in Nat /\ h \in Nat
  <2>1. P \in Nat /\ (8 * a) * (8 * b) = 64 * P
    BY Areas
  <2>2. QED
    BY <1>1, <1>2, <2>1
<1> HIDE DEF w, h, P
<1>4. aligned_width(info) = w /\ aligned_height(info) = h
  BY DEF aligned_width, aligned_height, FORMAT_400, FORMAT_420, FORMAT_422, FORMAT_224, w, h
<1>5. luma_size(info) = 64 * P /\ chroma_size(info) = 0
  BY <1>3, <1>4 DEF luma_size, chroma_size, FORMAT_400, FORMAT_420, FORMAT_422, FORMAT_224, FORMAT_444
<1>6. frame_size(info) = 64 * P
  BY <1>3, <1>5 DEF frame_size
<1>7. Components(info) = {1}
  BY ComponentsAre
<1>8. info.sampling[1][1] = 1 /\ info.sampling[1][2] = 1
  OBVIOUS
<1>9. /\ Max({info.sampling[c][1] : c \in Components(info)}) = 1
      /\ Max({info.sampling[c][2] : c \in Components(info)}) = 1
  <2>1. /\ {info.sampling[c][1] : c \in {1}} = {1}
        /\ {info.sampling[c][2] : c \in {1}} = {1}
    BY <1>8
  <2>2. Max({1}) = 1
    BY MaxIs
  <2>3. QED
    BY <1>7, <2>1, <2>2
<1>10. mcu_block_num(info) = 1
  <2>1. BlocksOf(1) = 1
    BY <1>8 DEF BlocksOf
  <2>2. QED
    BY <1>7, <2>1, BlocksAre
<1>11. Planes(info)[1].at = 0 /\ Planes(info)[1].stride = w
  BY <1>4 DEF Planes
<1>12. /\ (Align(info.width, 8 * 1) * 1) \div 1 = w
       /\ (Align(info.height, 8 * 1) * 1) \div 1 = h
       /\ (w * h) \div (64 * 1 * 1) = P
  BY <1>3 DEF w, h
<1>13. \A c \in Components(info) : c = 1 /\ c + 1 \notin Components(info)
  BY <1>7
<1>14. w >= w /\ 0 + w * h <= 64 * P /\ 64 * P * 1 = 64 * P
  BY <1>3
<1>15. QED
  BY <1>4, <1>6, <1>8, <1>9, <1>10, <1>11, <1>12, <1>13, <1>14 DEF PlanesHold

\* Three components, the chroma planes with one block in each MCU.
LEMMA ColourHolds ==
    ASSUME info.width \in Nat, info.height \in Nat, info.num_components = 3,
           NEW H \in {1, 2}, NEW V \in {1, 2}, info.sampling[1] = <<H, V>>,
           info.sampling[2] = <<1, 1>>, info.sampling[3] = <<1, 1>>,
           info.format = FormatOf(info.sampling)
    PROVE  PlanesHold
<1> DEFINE w == Align(info.width, 8 * H)
<1> DEFINE h == Align(info.height, 8 * V)
<1>0. 8 * H \in {8, 16} /\ 8 * V \in {8, 16}
  OBVIOUS
<1>1. PICK a \in Nat : w = 8 * H * a
  BY <1>0, AlignIs
<1>2. PICK b \in Nat : h = 8 * V * b
  BY <1>0, AlignIs
<1> DEFINE P == a * b
<1>3. /\ P \in Nat /\ w * h = 64 * H * V * P /\ (8 * a) * (8 * b) = 64 * P
      /\ w \in Nat /\ h \in Nat /\ (8 * a) * h = 64 * V * P
  <2>1. /\ P \in Nat /\ (8 * a) * (8 * b) = 64 * P /\ (16 * a) * (8 * b) = 128 * P
        /\ (8 * a) * (16 * b) = 128 * P /\ (16 * a) * (16 * b) = 256 * P
    BY Areas
  <2> HIDE DEF w, h, P
  <2>2. CASE H = 1 /\ V = 1
    BY <1>1, <1>2, <2>1, <2>2
  <2>3. CASE H = 2 /\ V = 1
    BY <1>1, <1>2, <2>1, <2>3
  <2>4. CASE H = 1 /\ V = 2
    BY <1>1, <1>2, <2>1, <2>4
  <2>5. CASE H = 2 /\ V = 2
    BY <1>1, <1>2, <2>1, <2>5
  <2>6. QED
    BY <2>2, <2>3, <2>4, <2>5
<1> HIDE DEF P
<1>4. info.format = IF H = 2 THEN IF V = 2 THEN FORMAT_420 ELSE FORMAT_422
                    ELSE IF V = 2 THEN FORMAT_224 ELSE FORMAT_444
  BY DEF FormatOf
<1>5. aligned_width(info) = w /\ aligned_height(info) = h
  BY <1>4 DEF aligned_width, aligned_height, FORMAT_444, FORMAT_420, FORMAT_422, FORMAT_224
<1> HIDE DEF w, h
<1>6. luma_size(info) = 64 * H * V * P
  BY <1>3, <1>5 DEF luma_size
<1>7. stride_c(info) = 8 * a
  <2>1. H = 2 => w \div 2 = 8 * a
    BY <1>1
  <2>2. QED
    BY <1>1, <1>4, <1>5, <2>1 DEF stride_c, FORMAT_400, FORMAT_444, FORMAT_420, FORMAT_422, FORMAT_224
<1>8. chroma_size(info) = 64 * P
  <2>1. /\ H = 2 /\ V = 2 => ((8 * a) * h) \div 2 = 64 * P
        /\ H # V => luma_size(info) \div 2 = 64 * P
        /\ H = 1 /\ V = 1 => luma_size(info) = 64 * P
    BY <1>3, <1>6
  <2>2. QED
    BY <1>4, <1>5, <1>7, <2>1 DEF chroma_size, FORMAT_444, FORMAT_420, FORMAT_422, FORMAT_224
<1>9. frame_size(info) = 64 * H * V * P + 128 * P
  BY <1>3, <1>6, <1>8 DEF frame_size
<1>10. Components(info) = 1..3
  BY ComponentsAre
<1>11. /\ info.sampling[1][1] = H /\ info.sampling[1][2] = V
       /\ info.sampling[2][1] = 1 /\ info.sampling[2][2] = 1
       /\ info.sampling[3][1] = 1 /\ info.sampling[3][2] = 1
  OBVIOUS
<1>12. /\ Max({info.sampling[c][1] : c \in Components(info)}) = H
       /\ Max({info.sampling[c][2] : c \in Components(info)}) = V
  <2>1. /\ {info.sampling[c][1] : c \in 1..3} = {H, 1}
        /\ {info.sampling[c][2] : c \in 1..3} = {V, 1}
    <3>1. \A c \in 1..3 : c = 1 \/ c = 2 \/ c = 3
      OBVIOUS
    <3>2. 1 \in 1..3 /\ 2 \in 1..3
      OBVIOUS
    <3>3. QED
      BY <1>11, <3>1, <3>2
  <2>2. Max({H, 1}) = H /\ Max({V, 1}) = V
    BY MaxIs
  <2>3. QED
    BY <1>10, <2>1, <2>2
<1>13. mcu_block_num(info) = H * V + 2
  <2>1. BlocksOf(1) = H * V /\ BlocksOf(2) = 1 /\ BlocksOf(3) = 1
    BY <1>11 DEF BlocksOf
  <2>2. 1..3 = {1, 2, 3}
    OBVIOUS
  <2>3. H * V \in Nat
    OBVIOUS
  <2> DEFINE S == {1, 2, 3}
  <2>4. S = Components(info) /\ S \in SUBSET {1, 2, 3} /\ \A c \in S : BlocksOf(c) \in Nat
    BY <1>10, <2>1, <2>2, <2>3
  <2>5. mcu_block_num(info) = (IF 1 \in S THEN BlocksOf(1) ELSE 0)
           + (IF 2 \in S THEN BlocksOf(2) ELSE 0) + (IF 3 \in S THEN BlocksOf(3) ELSE 0)
    BY <2>4, BlocksAre
  <2>6. QED
    BY <2>1, <2>3, <2>5
<1>14. /\ Planes(info)[1].at = 0 /\ Planes(info)[1].stride = w
       /\ Planes(info)[2].at = 64 * H * V * P /\ Planes(info)[2].stride = 8 * a
       /\ Planes(info)[3].at = 64 * H * V * P + 64 * P /\ Planes(info)[3].stride = 8 * a
  BY <1>5, <1>6, <1>7, <1>8 DEF Planes
<1>15. /\ (w * H) \div H = w /\ (h * V) \div V = h
       /\ (w * 1) \div H = 8 * a /\ (h * 1) \div V = 8 * b
       /\ (w * h) \div (64 * H * V) = P
       /\ 64 * P * (H * V + 2) = 64 * H * V * P + 128 * P
  <2>1. CASE H = 1 /\ V = 1
    BY <1>1, <1>2, <1>3, <2>1
  <2>2. CASE H = 2 /\ V = 1
    BY <1>1, <1>2, <1>3, <2>2
  <2>3. CASE H = 1 /\ V = 2
    BY <1>1, <1>2, <1>3, <2>3
  <2>4. CASE H = 2 /\ V = 2
    BY <1>1, <1>2, <1>3, <2>4
  <2>5. QED
    BY <2>1, <2>2, <2>3, <2>4
<1> DEFINE plane(c) == Planes(info)[c]
<1> DEFINE cols(c) == (w * info.sampling[c][1]) \div H
<1> DEFINE rows(c) == (h * info.sampling[c][2]) \div V
<1> DEFINE limit(c) == IF c + 1 \in Components(info) THEN plane(c + 1).at ELSE frame_size(info)
<1>16. /\ cols(1) = w /\ rows(1) = h /\ cols(2) = 8 * a /\ rows(2) = 8 * b
       /\ cols(3) = 8 * a /\ rows(3) = 8 * b
  BY <1>11, <1>15
<1>17. /\ limit(1) = 64 * H * V * P /\ limit(2) = 64 * H * V * P + 64 * P
       /\ limit(3) = 64 * H * V * P + 128 * P
  <2>1. 1 + 1 \in 1..3 /\ 2 + 1 \in 1..3 /\ 3 + 1 \notin 1..3 /\ 1 + 1 = 2 /\ 2 + 1 = 3
    OBVIOUS
  <2>2. QED
    BY <1>9, <1>10, <1>14, <2>1
<1>18. 64 * H * V * P \in Nat
  BY <1>3
<1> DEFINE fits(c) == plane(c).stride >= cols(c) /\ plane(c).at + plane(c).stride * rows(c) <= limit(c)
<1>19. fits(1)
  BY <1>3, <1>14, <1>16, <1>17
<1>20. fits(2)
  BY <1>3, <1>14, <1>16, <1>17, <1>18
<1>21. fits(3)
  BY <1>3, <1>14, <1>16, <1>17, <1>18
<1>22. \A c \in 1..3 : c = 1 \/ c = 2 \/ c = 3
  OBVIOUS
<1>23. \A c \in Components(info) : fits(c)
  <2> HIDE DEF fits
  <2>1. QED
    BY <1>10, <1>19, <1>20, <1>21, <1>22
<1>24. 64 * ((w * h) \div (64 * H * V)) * mcu_block_num(info) = frame_size(info)
  BY <1>9, <1>13, <1>15
<1>25. QED
  BY <1>5, <1>12, <1>23, <1>24 DEF PlanesHold, w, h

-----------------------------------------------------------------------------
(* The parser *)

Ones == [c \in 1..3 |-> <<1, 1>>]

\* The fields the planes and the position of the scan are computed from.
LaidOutBy == {"width", "height", "num_components", "sampling", "format", "ecs_offset"}

\* Format and sampling factors are those of one frame header, and of a grey picture
\* they are a grey picture's.
FormatInv ==
    /\ \/ info.format = FORMAT_400 /\ info.sampling = Ones
       \/ info.format = FormatOf(info.sampling)
    /\ info.num_components = 1 => info.format = FORMAT_400 /\ info.sampling = Ones

\* Whatever the bytes are, the parser's positions and what it reads are numbers.
ParserInv ==
    /\ data \in Seq(0..255) /\ i \in Nat /\ end \in Nat
    /\ LaidOutBy \subseteq DOMAIN info
    /\ info.width \in Nat /\ info.height \in Nat /\ info.ecs_offset \in Nat
    /\ FormatInv

LEMMA ByteIs ==
    ASSUME data \in Seq(0..255), NEW k \in Nat, InData(k)
    PROVE  Byte(k) \in 0..255
<1>1. k + 1 \in 1..Len(data)
  BY DEF InData
<1>2. data[k + 1] \in 0..255
  BY <1>1, ElementOfSeq
<1>3. QED
  BY <1>2 DEF Byte

LEMMA be16Is ==
    ASSUME data \in Seq(0..255), NEW k \in Nat, InData(k + 1)
    PROVE  be16(k) \in Nat
<1>1. InData(k)
  BY DEF InData
<1>2. Byte(k) \in 0..255 /\ Byte(k + 1) \in 0..255
  BY <1>1, ByteIs
<1>3. \A a, b \in 0..255 : a * 256 + b \in Nat
  OBVIOUS
<1>4. be16(k) = Byte(k) * 256 + Byte(k + 1)
  BY DEF be16
<1>5. QED
  BY <1>2, <1>3, <1>4

LEMMA PastIs ==
    ASSUME data \in Seq(0..255), i \in Nat, HasLength
    PROVE  Past \in Nat
<1>1. i + 2 \in Nat /\ (i + 2) + 1 = i + 3
  OBVIOUS
<1>2. be16(i + 2) \in Nat
  BY <1>1, be16Is DEF HasLength
<1>3. QED
  BY <1>2 DEF Past, seg_length

\* A step that changes other fields only.
LEMMA ParserKeeps ==
    ASSUME ParserInv, data' = data, i' \in Nat, end' \in Nat,
           LaidOutBy \subseteq DOMAIN info',
           info'.width = info.width, info'.height = info.height,
           info'.num_components = info.num_components, info'.sampling = info.sampling,
           info'.format = info.format, info'.ecs_offset \in Nat
    PROVE  ParserInv'
  BY DEF ParserInv, FormatInv, FormatOf, Ones

LEMMA ParserStep ==
    ASSUME ParserInv, [ParseNext]_parseVars
    PROVE  ParserInv'
<1>0. /\ data \in Seq(0..255) /\ i \in Nat /\ end \in Nat /\ LaidOutBy \subseteq DOMAIN info
      /\ info.width \in Nat /\ info.height \in Nat /\ info.ecs_offset \in Nat
  BY DEF ParserInv
<1>1. ASSUME UNCHANGED <<data, info>>, i' \in Nat, end' \in Nat
      PROVE  ParserInv'
  BY <1>0, <1>1, ParserKeeps
<1>2. CASE SkipByte \/ SkipFill \/ SkipPair \/ NoLength
  <2>1. UNCHANGED <<data, end, info>> /\ (i' = i + 1 \/ i' = i + 2)
    BY <1>2 DEF SkipByte, SkipFill, SkipPair, NoLength, Move
  <2>2. QED
    BY <1>0, <1>1, <2>1
<1>3. CASE SkipSegment
  <2>1. UNCHANGED <<data, end, info>> /\ i' = IF HasLength THEN Past ELSE i + 2
    BY <1>3 DEF SkipSegment, Move
  <2>2. i' \in Nat
    BY <1>0, <2>1, PastIs
  <2>3. QED
    BY <1>0, <1>1, <2>1, <2>2
<1>4. CASE SofTooShort \/ NotFound
  BY <1>0, <1>1, <1>4 DEF SofTooShort, NotFound, Stop
<1>5. CASE TablesDone
  BY <1>0, <1>1, <1>5 DEF TablesDone
<1>6. CASE Dht \/ Dqt
  <2>1. HasLength /\ end' = Past /\ UNCHANGED <<data, i, info>>
    BY <1>6 DEF Dht, Dqt, Enter
  <2>2. QED
    BY <1>0, <1>1, <2>1, PastIs
<1>7. CASE Dri
  <2>1. /\ UNCHANGED <<data, end>> /\ i' = IF HasLength THEN Past ELSE i + 1
        /\ info' = info \/ \E v : info' = [info EXCEPT !.restart_interval = v]
    BY <1>7 DEF Dri, Move
  <2>2. i' \in Nat
    BY <1>0, <2>1, PastIs
  <2>3. ASSUME NEW v, info' = [info EXCEPT !.restart_interval = v] PROVE ParserInv'
    BY <1>0, <2>1, <2>2, <2>3, ParserKeeps DEF LaidOutBy
  <2>4. QED
    BY <1>0, <1>1, <2>1, <2>2, <2>3
<1>8. CASE DhtTable
  <2>1. UNCHANGED <<data, i, end>> /\ (info' = info \/ \E v : info' = [info EXCEPT !.huff = v])
    BY <1>8 DEF DhtTable
  <2>2. ASSUME NEW v, info' = [info EXCEPT !.huff = v] PROVE ParserInv'
    BY <1>0, <2>1, <2>2, ParserKeeps DEF LaidOutBy
  <2>3. QED
    BY <1>0, <1>1, <2>1, <2>2
<1>9. CASE DqtTable
  <2>1. /\ UNCHANGED <<data, i, end>>
        /\ info' = info \/ \E v, u : info' = [info EXCEPT !.quant = v, !.quant_table_count = u]
    BY <1>9 DEF DqtTable
  <2>2. ASSUME NEW v, NEW u, info' = [info EXCEPT !.quant = v, !.quant_table_count = u]
        PROVE  ParserInv'
    BY <1>0, <2>1, <2>2, ParserKeeps DEF LaidOutBy
  <2>3. QED
    BY <1>0, <1>1, <2>1, <2>2
<1>10. CASE Sos
  <2>1. /\ HasLength /\ UNCHANGED <<data, i, end>>
        /\ \E v, u : info' = [info EXCEPT !.dc_huff_tbl = v, !.ac_huff_tbl = u, !.ecs_offset = Past]
    BY <1>10 DEF Sos, Stop
  <2>2. Past \in Nat
    BY <1>0, <2>1, PastIs
  <2>3. ASSUME NEW v, NEW u,
               info' = [info EXCEPT !.dc_huff_tbl = v, !.ac_huff_tbl = u, !.ecs_offset = Past]
        PROVE  ParserInv'
    BY <1>0, <2>1, <2>2, <2>3, ParserKeeps DEF LaidOutBy
  <2>4. QED
    BY <2>1, <2>3
<1>11. CASE Sof
  <2> DEFINE inf == [info EXCEPT !.height = be16(i + 5), !.width = be16(i + 7),
                                 !.num_components = Byte(i + 9)]
  <2>1. /\ InData(i + 10) /\ i' = Past /\ UNCHANGED <<data, end>>
        /\ info' = IF inf.num_components = 3 THEN SofComponents(inf)
                   ELSE [inf EXCEPT !.sampling = Ones, !.format = FORMAT_400]
    BY <1>11 DEF Sof, Move, Ones
  <2>2. InData(i + 3) /\ InData((i + 5) + 1) /\ InData((i + 7) + 1)
    BY <1>0, <2>1 DEF InData
  <2>3. Past \in Nat /\ be16(i + 5) \in Nat /\ be16(i + 7) \in Nat
    <3>1. i + 5 \in Nat /\ i + 7 \in Nat
      BY <1>0
    <3>2. QED
      BY <1>0, <2>2, <3>1, PastIs, be16Is DEF HasLength
  <2>4. /\ LaidOutBy \subseteq DOMAIN inf /\ inf.width \in Nat /\ inf.height \in Nat
        /\ inf.ecs_offset = info.ecs_offset /\ inf.sampling = info.sampling /\ inf.format = info.format
    BY <1>0, <2>3 DEF LaidOutBy
  <2> HIDE DEF inf
  <2>5. CASE inf.num_components = 3
    <3>1. CASE info' = inf
      <4>1. FormatInv'
        BY <2>4, <2>5, <3>1 DEF ParserInv, FormatInv, FormatOf, Ones
      <4>2. QED
        BY <1>0, <2>1, <2>3, <2>4, <3>1, <4>1 DEF ParserInv
    <3>2. ASSUME NEW s, NEW q,
                 info' = [inf EXCEPT !.sampling = s, !.quant_tbl = q, !.format = FormatOf(s)]
          PROVE  ParserInv'
      <4>1. /\ LaidOutBy \subseteq DOMAIN info' /\ info'.width \in Nat /\ info'.height \in Nat
            /\ info'.ecs_offset = info.ecs_offset /\ info'.sampling = s
            /\ info'.format = FormatOf(s) /\ info'.num_components = 3
        BY <2>4, <2>5, <3>2 DEF LaidOutBy
      <4>2. FormatInv'
        BY <4>1 DEF FormatInv, FormatOf
      <4>3. QED
        BY <1>0, <2>1, <2>3, <4>1, <4>2 DEF ParserInv
    <3>3. info' = inf \/ \E s, q : info' = [inf EXCEPT !.sampling = s, !.quant_tbl = q, !.format = FormatOf(s)]
      BY <2>1, <2>5 DEF SofComponents
    <3>4. QED
      BY <3>1, <3>2, <3>3
  <2>6. CASE inf.num_components # 3
    <3>1. info' = [inf EXCEPT !.sampling = Ones, !.format = FORMAT_400]
      BY <2>1, <2>6
    <3>2. /\ LaidOutBy \subseteq DOMAIN info' /\ info'.width \in Nat /\ info'.height \in Nat
          /\ info'.ecs_offset = info.ecs_offset /\ info'.sampling = Ones /\ info'.format = FORMAT_400
      BY <2>4, <3>1 DEF LaidOutBy
    <3>3. QED
      BY <1>0, <2>1, <2>3, <3>2 DEF ParserInv, FormatInv, Ones
  <2>7. QED
    BY <2>5, <2>6
<1>12. CASE UNCHANGED parseVars
  BY <1>0, <1>1, <1>12 DEF parseVars
<1>13. QED
  BY <1>2, <1>3, <1>4, <1>5, <1>6, <1>7, <1>8, <1>9, <1>10, <1>11, <1>12 DEF ParseNext

LEMMA ParserBegins == ParseInit => ParserInv
<1> SUFFICES ASSUME ParseInit PROVE ParserInv
  OBVIOUS
<1>1. data \in Seq(0..255)
  <2>1. PICK cut \in Cuts : /\ cut < Len(FrameBytes(written))
                            /\ data = SubSeq(FrameBytes(written), 1, Len(FrameBytes(written)) - cut)
    BY DEF ParseInit
  <2>2. FrameBytes(written) \in Seq(0..255)
    BY HeadersAssumption DEF ParseInit
  <2>3. cut \in Nat
    BY JpegHeaderAssumption
  <2> DEFINE all == FrameBytes(written)
             n == Len(all) - cut
  <2>4. n \in 0..Len(all) /\ \A k \in 1..n : k \in 1..Len(all)
    BY <2>1, <2>2, <2>3
  <2>5. data = SubSeq(all, 1, n) /\ all \in Seq(0..255)
    BY <2>1, <2>2
  <2> HIDE DEF all, n
  <2>6. \A k \in 1..n : all[k] \in 0..255
    BY <2>4, <2>5, ElementOfSeq
  <2>7. QED
    BY <2>4, <2>5, <2>6, SubSeqProperties
<1>2. i = 0 /\ end = 0 /\ info = NewInfo
  BY DEF ParseInit
<1>3. /\ LaidOutBy \subseteq DOMAIN NewInfo /\ NewInfo.width = 0 /\ NewInfo.height = 0
      /\ NewInfo.ecs_offset = 0 /\ NewInfo.num_components = 0 /\ NewInfo.format = FORMAT_420
      /\ NewInfo.sampling = <<<<2, 2>>, <<1, 1>>, <<1, 1>>>>
  BY DEF NewInfo, LaidOutBy
<1>4. FormatOf(NewInfo.sampling) = FORMAT_420
  BY <1>3 DEF FormatOf
<1>5. QED
  BY <1>1, <1>2, <1>3, <1>4 DEF ParserInv, FormatInv

LEMMA ParserHolds == ParseSpec => []ParserInv
  BY ParserBegins, ParserStep, PTL DEF ParseSpec

\* Wherever the scan of an accepted header begins, the JPU reads its first byte first
\* (decoder.rs, gram_setup).
THEOREM ScanStarts == ParseSpec => []ScanStartsAtEcs
<1>1. ParserInv => ScanStartsAtEcs
  BY FirstByteIs DEF ParserInv, ScanStartsAtEcs
<1>2. QED
  BY <1>1, ParserHolds, PTL

\* The picture is one that frame_layout knows: grey, or with one block of each chroma
\* plane in an MCU of one or two blocks a side.  A colour frame header that follows a
\* grey one and is cut off in its component list keeps the grey format.
KnownLayout ==
    \/ info.num_components = 1
    \/ /\ info.num_components = 3 /\ info.format # FORMAT_400
       /\ \E h, v \in {1, 2} : info.sampling[1] = <<h, v>>
       /\ info.sampling[2] = <<1, 1>> /\ info.sampling[3] = <<1, 1>>

\* Whatever its size, the planes of a picture of a known layout hold what the JPU
\* writes, do not overlap, and are exactly the frame_size that is compared with the
\* output buffer (decoder.rs, frame_layout, mcu_info and start_decode).
THEOREM PlanesHoldPictures == ParseSpec => [](KnownLayout => PlanesHoldPicture)
<1>1. ParserInv => (KnownLayout => PlanesHoldPicture)
  <2> SUFFICES ASSUME ParserInv, KnownLayout PROVE PlanesHold
    BY DEF PlanesHold, PlanesHoldPicture
  <2>1. info.width \in Nat /\ info.height \in Nat /\ FormatInv
    BY DEF ParserInv
  <2>2. CASE info.num_components = 1
    <3>1. info.format = FORMAT_400 /\ info.sampling[1] = <<1, 1>>
      BY <2>1, <2>2 DEF FormatInv, Ones
    <3>2. QED
      BY <2>1, <2>2, <3>1, GreyHolds
  <2>3. CASE info.num_components # 1
    <3>1. PICK h \in {1, 2}, v \in {1, 2} : info.sampling[1] = <<h, v>>
      BY <2>3 DEF KnownLayout
    <3>2. /\ info.num_components = 3 /\ info.sampling[2] = <<1, 1>> /\ info.sampling[3] = <<1, 1>>
          /\ info.format = FormatOf(info.sampling)
      BY <2>1, <2>3 DEF KnownLayout, FormatInv
    <3>3. QED
      BY <2>1, <3>1, <3>2, ColourHolds
  <2>4. QED
    BY <2>2, <2>3
<1>2. QED
  BY <1>1, ParserHolds, PTL

-----------------------------------------------------------------------------
(* Recursion over the positions of a sequence *)

LEMMA SetInduction ==
    ASSUME NEW N \in Nat, NEW S, 0 \in S, \A n \in 0..(N - 1) : n \in S => n + 1 \in S
    PROVE  \A n \in 0..N : n \in S
<1> SUFFICES ASSUME NEW k \in 0..N, k \notin S PROVE FALSE
  OBVIOUS
<1> DEFINE T == {n \in 0..N : n \notin S}
<1>1. T \subseteq Nat /\ T # {}
  OBVIOUS
<1>2. PICK m \in T : \A y \in T : ~(<<y, m>> \in OpToRel(<, Nat))
  BY <1>1, NatLessThanWellFounded, WFMin
<1>3. m \in 1..N /\ m - 1 \in 0..(N - 1) /\ (m - 1) + 1 = m /\ m - 1 \in 0..N
  OBVIOUS
<1>4. m - 1 \in Nat /\ m \in Nat /\ m - 1 < m
  BY <1>3
<1>5. <<m - 1, m>> \in OpToRel(<, Nat)
  BY <1>4, Zenon DEF OpToRel
<1>6. m - 1 \notin T
  BY <1>2, <1>5
<1>7. QED
  BY <1>3, <1>6

\* g starts with base and goes from each position to the next with step.
Recursion(g, N, T, base, step) ==
    /\ g \in [0..N -> T]
    /\ g = [n \in 0..N |-> IF n = 0 THEN base ELSE step[n][g[n - 1]]]

\* A function defined by recursion exists.
LEMMA RecursionExists ==
    ASSUME NEW N \in Nat, NEW T, NEW base \in T, NEW step \in [1..N -> [T -> T]]
    PROVE  \E g : Recursion(g, N, T, base, step)
<1> DEFINE Is(k, g) == /\ g \in [0..k -> T]
                       /\ g = [n \in 0..k |-> IF n = 0 THEN base ELSE step[n][g[n - 1]]]
<1> DEFINE S == {k \in 0..N : \E g : Is(k, g)}
<1>1. 0 \in S
  <2>1. Is(0, [n \in 0..0 |-> base])
    OBVIOUS
  <2> HIDE DEF Is
  <2>2. \E g : Is(0, g)
    BY <2>1
  <2>3. QED
    BY <2>2
<1>2. ASSUME NEW k \in 0..(N - 1), k \in S PROVE k + 1 \in S
  <2>1. PICK g : Is(k, g)
    BY <1>2
  <2> DEFINE h == [n \in 0..(k + 1) |-> IF n = k + 1 THEN step[k + 1][g[k]] ELSE g[n]]
  <2>2. h \in [0..(k + 1) -> T]
    BY <2>1
  <2>3. ASSUME NEW n \in 0..(k + 1)
        PROVE  h[n] = IF n = 0 THEN base ELSE step[n][h[n - 1]]
    <3>1. CASE n = k + 1
      <4>1. n # 0 /\ n - 1 = k /\ k \in 0..(k + 1) /\ k # k + 1
        BY <3>1
      <4>2. h[k] = g[k] /\ h[n] = step[n][g[k]]
        BY <3>1, <4>1
      <4> HIDE DEF h
      <4>3. QED
        BY <4>1, <4>2
    <3>2. CASE n # k + 1
      <4>1. n \in 0..k /\ (n # 0 => n - 1 \in 0..(k + 1) /\ n - 1 # k + 1)
        BY <3>2
      <4>2. h[n] = g[n] /\ (n # 0 => h[n - 1] = g[n - 1])
        BY <3>2, <4>1
      <4>3. g[n] = IF n = 0 THEN base ELSE step[n][g[n - 1]]
        BY <2>1, <4>1
      <4> HIDE DEF h
      <4>4. QED
        BY <4>2, <4>3
    <3>3. QED
      BY <3>1, <3>2
  <2>4. h = [n \in 0..(k + 1) |-> IF n = 0 THEN base ELSE step[n][h[n - 1]]]
    BY <2>3
  <2>5. Is(k + 1, h)
    BY <2>2, <2>4
  <2> HIDE DEF h, Is
  <2>6. QED
    BY <2>5
<1> HIDE DEF S
<1>3. \A n \in 0..N : n \in S
  BY <1>1, <1>2, SetInduction
<1>4. N \in S
  BY <1>3
<1>5. QED
  BY <1>4 DEF S, Recursion

-----------------------------------------------------------------------------
(* Sums over a set *)

\* g sums f over the subsets of S, one element after the other.
Sums(g, f, S) ==
    g = [s \in SUBSET S |->
            IF s = {} THEN 0
            ELSE f[CHOOSE x \in s : TRUE] + g[s \ {CHOOSE x \in s : TRUE}]]

LEMMA LessOne ==
    ASSUME NEW S, IsFiniteSet(S), NEW s \in SUBSET S, NEW x \in s
    PROVE  /\ s \ {x} \in SUBSET S /\ Cardinality(s) \in Nat /\ Cardinality(s \ {x}) \in Nat
           /\ Cardinality(s) = Cardinality(s \ {x}) + 1
<1>1. IsFiniteSet(s)
  BY FS_Subset
<1>2. Cardinality(s) \in Nat /\ IsFiniteSet(s \ {x}) /\ Cardinality(s \ {x}) = Cardinality(s) - 1
  BY <1>1, FS_RemoveElement, FS_CardinalityType
<1>3. Cardinality(s \ {x}) \in Nat
  BY <1>2, FS_CardinalityType
<1>4. QED
  BY <1>2, <1>3

LEMMA SumExists ==
    ASSUME NEW S, IsFiniteSet(S), NEW f, \A x \in S : f[x] \in Nat
    PROVE  \E g : Sums(g, f, S)
<1> DEFINE c(s) == CHOOSE x \in s : TRUE
<1> DEFINE Low(n) == {s \in SUBSET S : Cardinality(s) <= n}
<1> DEFINE Is(n, g) == /\ g \in [Low(n) -> Nat]
                       /\ \A s \in Low(n) : g[s] = IF s = {} THEN 0 ELSE f[c(s)] + g[s \ {c(s)}]
<1> DEFINE N == Cardinality(S)
<1> DEFINE K == {n \in 0..N : \E g : Is(n, g)}
<1>0. N \in Nat /\ \A s \in SUBSET S : Cardinality(s) \in Nat /\ Cardinality(s) <= N
                                       /\ (Cardinality(s) = 0 <=> s = {})
  BY FS_Subset, FS_CardinalityType, FS_EmptySet
<1>1. \A s \in SUBSET S : s # {} => c(s) \in s
  OBVIOUS
<1> HIDE DEF c, N
<1>2. 0 \in K
  <2>1. \A s \in Low(0) : s = {}
    BY <1>0
  <2>2. Is(0, [s \in Low(0) |-> 0])
    BY <2>1
  <2> HIDE DEF Is
  <2>3. \E g : Is(0, g)
    BY <2>2
  <2>4. QED
    BY <1>0, <2>3
<1>3. ASSUME NEW n \in 0..(N - 1), n \in K PROVE n + 1 \in K
  <2>1. PICK g : Is(n, g)
    BY <1>3
  <2> DEFINE h == [s \in Low(n + 1) |-> IF s \in Low(n) THEN g[s] ELSE f[c(s)] + g[s \ {c(s)}]]
  <2>2. ASSUME NEW s \in Low(n + 1), s # {}
        PROVE  c(s) \in s /\ s \ {c(s)} \in Low(n) /\ s \ {c(s)} \in Low(n + 1)
    <3>1. c(s) \in s
      BY <1>1, <2>2
    <3>2. s \ {c(s)} \in SUBSET S /\ Cardinality(s \ {c(s)}) \in Nat
          /\ Cardinality(s) = Cardinality(s \ {c(s)}) + 1
      BY <3>1, LessOne
    <3>3. n \in Nat /\ Cardinality(s) <= n + 1
      BY <1>0
    <3>4. Cardinality(s \ {c(s)}) <= n
      BY <3>2, <3>3
    <3>5. QED
      BY <3>1, <3>2, <3>3, <3>4
  <2>3. \A s \in Low(n + 1) : s \notin Low(n) => s # {}
    <3>1. {} \in Low(n)
      BY <1>0
    <3>2. QED
      BY <3>1
  <2> HIDE DEF Low
  <2>4. ASSUME NEW s \in Low(n + 1)
        PROVE  h[s] \in Nat /\ h[s] = IF s = {} THEN 0 ELSE f[c(s)] + h[s \ {c(s)}]
    <3>1. s # {} => /\ f[c(s)] \in Nat /\ g[s \ {c(s)}] \in Nat
                    /\ h[s \ {c(s)}] = g[s \ {c(s)}]
      <4>1. s \in SUBSET S
        BY DEF Low
      <4>2. QED
        BY <2>1, <2>2, <4>1
    <3>2. CASE s \in Low(n)
      <4>1. h[s] = g[s] /\ g[s] \in Nat
        BY <2>1, <3>2
      <4> HIDE DEF h
      <4>2. QED
        BY <2>1, <3>1, <3>2, <4>1
    <3>3. CASE s \notin Low(n)
      <4>1. s # {} /\ h[s] = f[c(s)] + g[s \ {c(s)}]
        BY <2>3, <3>3
      <4> HIDE DEF h
      <4>2. QED
        BY <3>1, <4>1
    <3>4. QED
      BY <3>2, <3>3
  <2>5. Is(n + 1, h)
    <3>1. h = [s \in Low(n + 1) |-> h[s]]
      OBVIOUS
    <3> HIDE DEF h
    <3>2. h \in [Low(n + 1) -> Nat]
      BY <2>4, <3>1
    <3>3. QED
      BY <2>4, <3>2
  <2> HIDE DEF Is, h
  <2>6. \E k : Is(n + 1, k)
    BY <2>5
  <2>7. QED
    BY <1>0, <2>6
<1>4. N \in K
  <2> HIDE DEF K
  <2>1. \A n \in 0..N : n \in K
    BY <1>0, <1>2, <1>3, SetInduction
  <2>2. QED
    BY <1>0, <2>1
<1>5. PICK g : Is(N, g)
  BY <1>4
<1>6. Low(N) = SUBSET S
  BY <1>0
<1> HIDE DEF Low
<1>7. g = [s \in SUBSET S |-> IF s = {} THEN 0 ELSE f[c(s)] + g[s \ {c(s)}]]
  BY <1>5, <1>6
<1>8. QED
  BY <1>7 DEF Sums, c

\* The order does not matter.
LEMMA SumIs ==
    ASSUME NEW S, IsFiniteSet(S), NEW f, \A x \in S : f[x] \in Nat, NEW g, Sums(g, f, S)
    PROVE  /\ g[{}] = 0
           /\ \A s \in SUBSET S : g[s] \in Nat /\ \A x \in s : g[s] = f[x] + g[s \ {x}]
<1> DEFINE c(s) == CHOOSE x \in s : TRUE
<1> DEFINE Ok(s) == g[s] \in Nat /\ \A x \in s : g[s] = f[x] + g[s \ {x}]
<1> DEFINE N == Cardinality(S)
<1> DEFINE K == {n \in 0..N : \A s \in SUBSET S : Cardinality(s) <= n => Ok(s)}
<1>0. N \in Nat /\ \A s \in SUBSET S : Cardinality(s) \in Nat /\ Cardinality(s) <= N
                                       /\ (Cardinality(s) = 0 <=> s = {})
  BY FS_Subset, FS_CardinalityType, FS_EmptySet
<1>1. g[{}] = 0
  BY DEF Sums
<1>2. ASSUME NEW s \in SUBSET S, s # {} PROVE c(s) \in s /\ g[s] = f[c(s)] + g[s \ {c(s)}]
  BY <1>2 DEF Sums
<1> HIDE DEF c, N
<1>3. 0 \in K
  <2>1. Ok({})
    BY <1>1
  <2>2. QED
    BY <1>0, <2>1
<1>4. ASSUME NEW n \in 0..(N - 1), n \in K PROVE n + 1 \in K
  <2>1. ASSUME NEW s \in SUBSET S, Cardinality(s) = n + 1 PROVE Ok(s)
    <3>1. s # {} /\ n \in Nat
      BY <1>0, <2>1
    <3>2. c(s) \in s /\ g[s] = f[c(s)] + g[s \ {c(s)}]
      BY <1>2, <3>1
    <3>3. ASSUME NEW x \in s PROVE s \ {x} \in SUBSET S /\ Ok(s \ {x})
      <4>1. s \ {x} \in SUBSET S /\ Cardinality(s \ {x}) \in Nat
            /\ Cardinality(s) = Cardinality(s \ {x}) + 1
        BY LessOne
      <4>2. Cardinality(s \ {x}) <= n
        BY <2>1, <3>1, <4>1
      <4> HIDE DEF Ok
      <4>3. QED
        BY <1>4, <4>1, <4>2
    <3>4. ASSUME NEW x \in s PROVE g[s] = f[x] + g[s \ {x}]
      <4>1. CASE x = c(s)
        BY <3>2, <4>1
      <4>2. CASE x # c(s)
        <5>1. x \in s \ {c(s)} /\ c(s) \in s \ {x} /\ (s \ {c(s)}) \ {x} = (s \ {x}) \ {c(s)}
          BY <3>2, <4>2
        <5> DEFINE u == g[(s \ {x}) \ {c(s)}]
        <5>2. g[s \ {c(s)}] = f[x] + u
          BY <3>2, <3>3, <5>1
        <5>3. g[s \ {x}] = f[c(s)] + u
          BY <3>3, <5>1
        <5>4. f[x] \in Nat /\ f[c(s)] \in Nat
          BY <3>2
        <5>5. u \in Nat
          <6> DEFINE t == s \ {x}
          <6>1. t \in SUBSET S /\ c(s) \in t /\ Cardinality(t) <= n
            <7>1. /\ t \in SUBSET S /\ Cardinality(t) \in Nat /\ Cardinality(s) = Cardinality(t) + 1
              BY LessOne
            <7>2. QED
              BY <2>1, <3>1, <5>1, <7>1
          <6> DEFINE v == t \ {c(s)}
          <6> HIDE DEF t
          <6>2. /\ v \in SUBSET S /\ Cardinality(v) \in Nat /\ Cardinality(t) = Cardinality(v) + 1
            BY <6>1, LessOne
          <6>3. Cardinality(v) <= n
            BY <3>1, <6>1, <6>2
          <6>4. g[v] \in Nat
            BY <1>4, <6>2, <6>3
          <6>5. QED
            BY <6>4 DEF t
        <5> HIDE DEF u
        <5>6. QED
          BY <3>2, <5>2, <5>3, <5>4, <5>5
      <4>3. QED
        BY <4>1, <4>2
    <3>5. g[s] \in Nat
      <4>1. f[c(s)] \in Nat /\ g[s \ {c(s)}] \in Nat
        BY <3>2, <3>3
      <4>2. QED
        BY <3>2, <4>1
    <3>6. QED
      BY <3>4, <3>5
  <2> HIDE DEF Ok
  <2>2. ASSUME NEW s \in SUBSET S, Cardinality(s) <= n + 1 PROVE Ok(s)
    <3>1. Cardinality(s) <= n \/ Cardinality(s) = n + 1
      BY <1>0, <2>2
    <3>2. QED
      BY <1>4, <2>1, <3>1
  <2>3. n + 1 \in 0..N
    BY <1>0
  <2>4. QED
    BY <2>2, <2>3
<1>5. \A n \in 0..N : n \in K
  <2> HIDE DEF K
  <2>1. QED
    BY <1>0, <1>3, <1>4, SetInduction
<1>6. ASSUME NEW s \in SUBSET S PROVE Ok(s)
  <2>1. Cardinality(s) \in 0..N /\ Cardinality(s) <= Cardinality(s)
    BY <1>0
  <2> HIDE DEF Ok
  <2>2. QED
    BY <1>5, <2>1
<1>7. QED
  BY <1>1, <1>6

\* Sums over a set and over a part of it agree.
LEMMA SumsAgree ==
    ASSUME NEW S, IsFiniteSet(S), NEW T \in SUBSET S, NEW f,
           NEW g, Sums(g, f, S), NEW h, Sums(h, f, T)
    PROVE  h[T] = g[T]
<1> DEFINE c(s) == CHOOSE x \in s : TRUE
<1> DEFINE N == Cardinality(T)
<1> DEFINE K == {n \in 0..N : \A s \in SUBSET T : Cardinality(s) = n => h[s] = g[s]}
<1>0. IsFiniteSet(T)
  BY FS_Subset
<1>1. N \in Nat /\ \A s \in SUBSET T : Cardinality(s) \in Nat /\ Cardinality(s) <= N
                                       /\ (Cardinality(s) = 0 <=> s = {})
  BY <1>0, FS_Subset, FS_CardinalityType, FS_EmptySet
<1>2. g[{}] = 0 /\ h[{}] = 0
  BY DEF Sums
<1>3. ASSUME NEW s \in SUBSET T, s # {}
      PROVE  c(s) \in s /\ g[s] = f[c(s)] + g[s \ {c(s)}] /\ h[s] = f[c(s)] + h[s \ {c(s)}]
  <2>1. s \in SUBSET S
    OBVIOUS
  <2>2. QED
    BY <1>3, <2>1 DEF Sums
<1> HIDE DEF c, N
<1>4. 0 \in K
  BY <1>1, <1>2
<1>5. ASSUME NEW n \in 0..(N - 1), n \in K PROVE n + 1 \in K
  <2>1. ASSUME NEW s \in SUBSET T, Cardinality(s) = n + 1 PROVE h[s] = g[s]
    <3>1. s # {} /\ n \in Nat
      BY <1>1, <2>1
    <3>2. c(s) \in s
      BY <1>3, <3>1
    <3>3. /\ s \ {c(s)} \in SUBSET T /\ Cardinality(s \ {c(s)}) \in Nat
          /\ Cardinality(s) = Cardinality(s \ {c(s)}) + 1
      BY <1>0, <3>2, LessOne
    <3>4. Cardinality(s \ {c(s)}) = n
      BY <2>1, <3>1, <3>3
    <3>5. h[s \ {c(s)}] = g[s \ {c(s)}]
      BY <1>5, <3>3, <3>4
    <3>6. QED
      BY <1>3, <3>1, <3>5
  <2>2. n + 1 \in 0..N
    BY <1>1
  <2>3. QED
    BY <2>1, <2>2
<1>6. N \in K
  <2> HIDE DEF K
  <2>1. \A n \in 0..N : n \in K
    BY <1>1, <1>4, <1>5, SetInduction
  <2>2. QED
    BY <1>1, <2>1
<1>7. QED
  BY <1>6 DEF N

\* The sum of the first counts of a table.
LEMMA SumOfIs ==
    ASSUME NEW N \in Nat, NEW b, \A j \in 1..N : b[j] \in Nat
    PROVE  /\ SumOf(b, 0) = 0
           /\ \A n \in 0..N : SumOf(b, n) \in Nat
           /\ \A n \in 1..N : SumOf(b, n) = SumOf(b, n - 1) + b[n]
<1> DEFINE Sum(n) == CHOOSE g : Sums(g, b, 1..n)
<1>1. ASSUME NEW n \in 0..N
      PROVE  SumOf(b, n) = Sum(n)[1..n] /\ IsFiniteSet(1..n) /\ Sums(Sum(n), b, 1..n)
             /\ \A j \in 1..n : b[j] \in Nat
  <2>1. IsFiniteSet(1..n)
    BY FS_Interval
  <2>2. \A j \in 1..n : b[j] \in Nat
    OBVIOUS
  <2>3. \E g : Sums(g, b, 1..n)
    BY <2>1, <2>2, SumExists
  <2>4. SumOf(b, n) = Sum(n)[1..n]
    BY DEF SumOf, MapThenSumSet, MapThenFoldSet, Sums
  <2>5. QED
    BY <2>1, <2>2, <2>3, <2>4
<1> HIDE DEF Sum
<1>2. SumOf(b, 0) = 0
  <2>1. 1..0 = {} /\ 0 \in 0..N
    OBVIOUS
  <2>2. QED
    BY <1>1, <2>1, SumIs
<1>3. ASSUME NEW n \in 0..N
      PROVE  SumOf(b, n) \in Nat /\ \A x \in 1..n : SumOf(b, n) = b[x] + Sum(n)[(1..n) \ {x}]
  <2> DEFINE S == 1..n
             g == Sum(n)
  <2>1. SumOf(b, n) = g[S] /\ IsFiniteSet(S) /\ Sums(g, b, S) /\ \A j \in S : b[j] \in Nat
    BY <1>1
  <2> HIDE DEF S, g
  <2>2. g[S] \in Nat /\ \A x \in S : g[S] = b[x] + g[S \ {x}]
    <3>1. S \in SUBSET S
      OBVIOUS
    <3>2. QED
      BY <2>1, <3>1, SumIs
  <2>3. QED
    BY <2>1, <2>2 DEF S, g
<1>4. ASSUME NEW n \in 1..N PROVE SumOf(b, n) = SumOf(b, n - 1) + b[n]
  <2>1. /\ n \in 0..N /\ n - 1 \in 0..N /\ n \in 1..n /\ b[n] \in Nat
        /\ (1..n) \ {n} = 1..(n - 1) /\ 1..(n - 1) \in SUBSET (1..n)
    OBVIOUS
  <2>2. SumOf(b, n) = b[n] + Sum(n)[1..(n - 1)]
    <3>1. SumOf(b, n) = b[n] + Sum(n)[(1..n) \ {n}]
      BY <1>3, <2>1
    <3>2. QED
      BY <2>1, <3>1
  <2>3. SumOf(b, n - 1) = Sum(n - 1)[1..(n - 1)] /\ Sums(Sum(n - 1), b, 1..(n - 1))
    BY <1>1, <2>1
  <2>4. SumOf(b, n - 1) = Sum(n)[1..(n - 1)]
    <3>1. IsFiniteSet(1..n) /\ Sums(Sum(n), b, 1..n)
      BY <1>1, <2>1
    <3>2. QED
      BY <2>1, <2>3, <3>1, SumsAgree
  <2>5. SumOf(b, n - 1) \in Nat
    BY <1>3, <2>1
  <2>6. QED
    BY <2>1, <2>2, <2>4, <2>5
<1>5. QED
  BY <1>2, <1>3, <1>4

-----------------------------------------------------------------------------
(* HuffTable::generate *)

Lengths == 1..HUFF_LENGTH_COUNT

\* The code tables that belong to bits, the numbers of codes of each length: the first
\* code of a length is twice the one after the last code of the length before, the
\* last follows from their number, and the first value is the one after those of all
\* shorter codes, in the byte that holds it (T.81, C.2 and F.2.2.3).
Canonical(t, bits) ==
    \E first \in [1..(HUFF_LENGTH_COUNT + 1) -> Nat] :
        /\ first[1] = 0
        /\ \A l \in Lengths :
            /\ first[l + 1] = 2 * (first[l] + bits[l])
            /\ bits[l] # 0 => /\ t.min[l] = first[l]
                              /\ t.max[l] = first[l] + bits[l] - 1
                              /\ t.ptr[l] = SumOf(bits, l - 1) % 256

CodeType == [code : Nat, count : Nat, min : Seq(Nat), max : Seq(Nat), ptr : Seq(Nat)]

CodeBase == [code |-> 0, count |-> 0, min |-> <<>>, max |-> <<>>, ptr |-> <<>>]

\* One length more.
CodeStep(s, n) ==
    IF n = 0
      THEN [s EXCEPT !.code = @ * 2,
                     !.min = Append(@, HUFF_NO_CODE),
                     !.max = Append(@, HUFF_NO_CODE),
                     !.ptr = Append(@, HUFF_NO_PTR)]
      ELSE [code |-> (s.code + n) * 2, count |-> s.count + n,
            min |-> Append(s.min, s.code),
            max |-> Append(s.max, s.code + n - 1),
            ptr |-> Append(s.ptr, s.count % 256)]

\* g goes through the lengths.
Generates(g, bits) ==
    g = [k \in 0..HUFF_LENGTH_COUNT |->
            IF k = 0 THEN CodeBase ELSE CodeStep(g[k - 1], bits[k])]

LEMMA CodeStepIs ==
    ASSUME NEW s \in CodeType, NEW n \in Nat
    PROVE  LET t == CodeStep(s, n)
           IN  /\ t \in CodeType
               /\ t.code = 2 * (s.code + n) /\ t.count = s.count + n
               /\ t.min = Append(s.min, IF n = 0 THEN HUFF_NO_CODE ELSE s.code)
               /\ t.max = Append(s.max, IF n = 0 THEN HUFF_NO_CODE ELSE s.code + n - 1)
               /\ t.ptr = Append(s.ptr, IF n = 0 THEN HUFF_NO_PTR ELSE s.count % 256)
<1>0. /\ s.code \in Nat /\ s.count \in Nat /\ s.min \in Seq(Nat) /\ s.max \in Seq(Nat)
      /\ s.ptr \in Seq(Nat) /\ HUFF_NO_CODE \in Nat /\ HUFF_NO_PTR \in Nat
  BY JpegHeaderAssumption DEF CodeType
<1>1. CASE n = 0
  <2>1. /\ Append(s.min, HUFF_NO_CODE) \in Seq(Nat) /\ Append(s.max, HUFF_NO_CODE) \in Seq(Nat)
        /\ Append(s.ptr, HUFF_NO_PTR) \in Seq(Nat) /\ s.code * 2 \in Nat
        /\ s.code * 2 = 2 * (s.code + n) /\ s.count = s.count + n
    BY <1>0, <1>1, AppendProperties
  <2>2. QED
    BY <1>1, <2>1 DEF CodeStep, CodeType
<1>2. CASE n # 0
  <2>1. s.code + n - 1 \in Nat /\ s.count % 256 \in Nat
    BY <1>0, <1>2
  <2>2. /\ Append(s.min, s.code) \in Seq(Nat) /\ Append(s.max, s.code + n - 1) \in Seq(Nat)
        /\ Append(s.ptr, s.count % 256) \in Seq(Nat) /\ (s.code + n) * 2 \in Nat
        /\ (s.code + n) * 2 = 2 * (s.code + n) /\ s.count + n \in Nat
    BY <1>0, <2>1, AppendProperties
  <2>3. QED
    BY <1>2, <2>2 DEF CodeStep, CodeType
<1>3. QED
  BY <1>1, <1>2

LEMMA GenerateRuns ==
    ASSUME NEW bits, \A j \in Lengths : bits[j] \in Nat
    PROVE  \E g : Generates(g, bits) /\ generate(bits) = g[HUFF_LENGTH_COUNT]
<1> DEFINE N == HUFF_LENGTH_COUNT
<1>0. N \in Nat
  BY JpuProgramAssumption
<1> DEFINE st == [n \in 1..N |-> [s \in CodeType |-> CodeStep(s, bits[n])]]
<1>1. CodeBase \in CodeType
  BY DEF CodeBase, CodeType
<1>2. st \in [1..N -> [CodeType -> CodeType]]
  <2>1. \A n \in 1..N : \A s \in CodeType : CodeStep(s, bits[n]) \in CodeType
    BY CodeStepIs DEF Lengths
  <2>2. QED
    BY <2>1
<1>3. PICK h : Recursion(h, N, CodeType, CodeBase, st)
  <2> HIDE DEF st, N
  <2>1. QED
    BY <1>0, <1>1, <1>2, RecursionExists
<1>4. Generates(h, bits)
  <2>1. ASSUME NEW k \in 0..N, k # 0 PROVE st[k][h[k - 1]] = CodeStep(h[k - 1], bits[k])
    <3>1. k - 1 \in 0..N /\ k \in 1..N
      BY <1>0, <2>1
    <3>2. h[k - 1] \in CodeType
      BY <1>3, <3>1 DEF Recursion
    <3>3. QED
      BY <3>1, <3>2
  <2> HIDE DEF st
  <2>2. h = [k \in 0..N |-> IF k = 0 THEN CodeBase ELSE st[k][h[k - 1]]]
    BY <1>3 DEF Recursion
  <2>3. \A k \in 0..N : h[k] = IF k = 0 THEN CodeBase ELSE CodeStep(h[k - 1], bits[k])
    BY <2>1, <2>2
  <2>4. h = [k \in 0..N |-> IF k = 0 THEN CodeBase ELSE CodeStep(h[k - 1], bits[k])]
    BY <2>2, <2>3
  <2>5. QED
    BY <2>4 DEF Generates
<1> DEFINE r == CHOOSE g : Generates(g, bits)
<1>5. Generates(r, bits)
  BY <1>4
<1>6. generate(bits) = r[HUFF_LENGTH_COUNT]
  BY DEF generate, Generates, CodeBase, CodeStep
<1> HIDE DEF r
<1>7. QED
  BY <1>5, <1>6

\* Whatever the numbers are, the tables have an entry for each length and are
\* canonical.
LEMMA GenerateIs ==
    ASSUME NEW bits, \A j \in Lengths : bits[j] \in Nat
    PROVE  LET c == generate(bits)
           IN  /\ \A phase \in {"min", "max", "ptr"} :
                     c[phase] \in Seq(Nat) /\ Len(c[phase]) = HUFF_LENGTH_COUNT
               /\ Canonical(c, bits)
<1> DEFINE N == HUFF_LENGTH_COUNT
<1>0. N \in Nat
  BY JpuProgramAssumption
<1>1. PICK g : Generates(g, bits) /\ generate(bits) = g[N]
  BY GenerateRuns
<1>2. g[0] = CodeBase /\ \A k \in 1..N : g[k] = CodeStep(g[k - 1], bits[k])
  <2>1. \A k \in 1..N : k \in 0..N /\ k # 0
    OBVIOUS
  <2>2. QED
    BY <1>0, <1>1, <2>1 DEF Generates
<1>3. /\ SumOf(bits, 0) = 0
      /\ \A n \in 0..N : SumOf(bits, n) \in Nat
      /\ \A n \in 1..N : SumOf(bits, n) = SumOf(bits, n - 1) + bits[n]
  BY <1>0, SumOfIs DEF Lengths
<1> DEFINE Entry(s, l) ==
        bits[l] # 0 => /\ s.min[l] = g[l - 1].code
                       /\ s.max[l] = g[l - 1].code + bits[l] - 1
                       /\ s.ptr[l] = SumOf(bits, l - 1) % 256
<1> DEFINE Ok(k) == /\ g[k] \in CodeType /\ g[k].count = SumOf(bits, k)
                    /\ Len(g[k].min) = k /\ Len(g[k].max) = k /\ Len(g[k].ptr) = k
                    /\ \A l \in 1..k : Entry(g[k], l)
<1> DEFINE K == {k \in 0..N : Ok(k)}
<1>4. 0 \in K
  <2>1. CodeBase \in CodeType /\ CodeBase.count = 0 /\ Len(CodeBase.min) = 0
        /\ Len(CodeBase.max) = 0 /\ Len(CodeBase.ptr) = 0
    BY DEF CodeBase, CodeType
  <2>2. 1..0 = {} /\ 0 \in 0..N
    BY <1>0
  <2> HIDE DEF Entry
  <2>3. QED
    BY <1>2, <1>3, <2>1, <2>2
<1>5. ASSUME NEW k \in 0..(N - 1), k \in K PROVE k + 1 \in K
  <2>0. k \in Nat /\ k + 1 \in 1..N /\ k + 1 \in 0..N /\ (k + 1) - 1 = k /\ \A l \in 1..(k + 1) : l \in 1..k \/ l = k + 1
    BY <1>0
  <2> DEFINE n == bits[k + 1]
             s == g[k]
             t == g[k + 1]
  <2>1. t = CodeStep(s, n) /\ n \in Nat /\ s \in CodeType
    BY <1>2, <1>5, <2>0 DEF Lengths
  <2>2. /\ t \in CodeType /\ t.count = s.count + n
        /\ t.min = Append(s.min, IF n = 0 THEN HUFF_NO_CODE ELSE s.code)
        /\ t.max = Append(s.max, IF n = 0 THEN HUFF_NO_CODE ELSE s.code + n - 1)
        /\ t.ptr = Append(s.ptr, IF n = 0 THEN HUFF_NO_PTR ELSE s.count % 256)
    <3> HIDE DEF t, s, n
    <3>1. QED
      BY <2>1, CodeStepIs
  <2>3. /\ s.min \in Seq(Nat) /\ s.max \in Seq(Nat) /\ s.ptr \in Seq(Nat)
        /\ s.code \in Nat /\ s.count = SumOf(bits, k) /\ s.count \in Nat
        /\ Len(s.min) = k /\ Len(s.max) = k /\ Len(s.ptr) = k
    BY <1>5, <2>1 DEF CodeType
  <2>4. /\ (IF n = 0 THEN HUFF_NO_CODE ELSE s.code) \in Nat
        /\ (IF n = 0 THEN HUFF_NO_CODE ELSE s.code + n - 1) \in Nat
        /\ (IF n = 0 THEN HUFF_NO_PTR ELSE s.count % 256) \in Nat
    BY <2>1, <2>3, JpegHeaderAssumption
  <2> HIDE DEF t, s, n
  <2>5. \A w \in Seq(Nat), e \in Nat : Len(w) = k =>
            /\ Len(Append(w, e)) = k + 1
            /\ \A l \in 1..k : Append(w, e)[l] = w[l]
            /\ Append(w, e)[k + 1] = e
    BY AppendProperties
  <2>6. /\ Len(t.min) = k + 1 /\ Len(t.max) = k + 1 /\ Len(t.ptr) = k + 1
        /\ \A l \in 1..k : t.min[l] = s.min[l] /\ t.max[l] = s.max[l] /\ t.ptr[l] = s.ptr[l]
        /\ n # 0 => /\ t.min[k + 1] = s.code /\ t.max[k + 1] = s.code + n - 1
                    /\ t.ptr[k + 1] = s.count % 256
    <3>1. /\ Len(t.min) = k + 1
          /\ \A l \in 1..k : t.min[l] = s.min[l]
          /\ t.min[k + 1] = IF n = 0 THEN HUFF_NO_CODE ELSE s.code
      BY <2>2, <2>3, <2>4, <2>5
    <3>2. /\ Len(t.max) = k + 1
          /\ \A l \in 1..k : t.max[l] = s.max[l]
          /\ t.max[k + 1] = IF n = 0 THEN HUFF_NO_CODE ELSE s.code + n - 1
      BY <2>2, <2>3, <2>4, <2>5
    <3>3. /\ Len(t.ptr) = k + 1
          /\ \A l \in 1..k : t.ptr[l] = s.ptr[l]
          /\ t.ptr[k + 1] = IF n = 0 THEN HUFF_NO_PTR ELSE s.count % 256
      BY <2>2, <2>3, <2>4, <2>5
    <3>4. QED
      BY <3>1, <3>2, <3>3
  <2>7. t.count = SumOf(bits, k + 1)
    BY <1>3, <2>0, <2>2, <2>3 DEF n
  <2>8. ASSUME NEW l \in 1..(k + 1) PROVE Entry(t, l)
    <3>1. CASE l \in 1..k
      <4>1. Entry(s, l)
        BY <1>5, <3>1 DEF s
      <4>2. QED
        BY <2>6, <3>1, <4>1
    <3>2. CASE l = k + 1
      <4>1. l - 1 = k /\ g[l - 1] = s /\ bits[l] = n
        BY <2>0, <3>2 DEF s, n
      <4>2. QED
        BY <2>3, <2>6, <3>2, <4>1
    <3>3. QED
      BY <2>0, <3>1, <3>2
  <2>9. Ok(k + 1)
    <3> HIDE DEF Entry
    <3>1. QED
      BY <2>2, <2>6, <2>7, <2>8 DEF t
  <2> HIDE DEF Ok
  <2>10. QED
    BY <2>0, <2>9
<1>6. \A k \in 0..N : Ok(k)
  <2> HIDE DEF Ok
  <2>1. \A k \in 0..N : k \in K
    <3> HIDE DEF K, N
    <3>1. QED
      BY <1>0, <1>4, <1>5, SetInduction
  <2>2. QED
    BY <2>1
<1>7. Ok(N)
  <2> HIDE DEF Ok
  <2>1. QED
    BY <1>0, <1>6
<1> DEFINE first == [l \in 1..(N + 1) |-> g[l - 1].code]
<1>8. first \in [1..(N + 1) -> Nat] /\ first[1] = 0
  <2>1. ASSUME NEW l \in 1..(N + 1) PROVE g[l - 1].code \in Nat
    <3>1. l - 1 \in 0..N
      BY <1>0
    <3>2. g[l - 1] \in CodeType
      BY <1>6, <3>1
    <3>3. QED
      BY <3>2 DEF CodeType
  <2>2. g[0].code = 0 /\ 1 \in 1..(N + 1) /\ 1 - 1 = 0
    BY <1>0, <1>2 DEF CodeBase
  <2>3. QED
    BY <2>1, <2>2
<1>9. ASSUME NEW l \in Lengths PROVE first[l + 1] = 2 * (first[l] + bits[l])
  <2>1. l \in 1..N /\ l \in 1..(N + 1) /\ l + 1 \in 1..(N + 1) /\ (l + 1) - 1 = l /\ l - 1 \in 0..N
    BY <1>0 DEF Lengths
  <2>2. g[l - 1] \in CodeType /\ g[l] = CodeStep(g[l - 1], bits[l])
    BY <1>2, <1>6, <2>1
  <2>3. g[l].code = 2 * (g[l - 1].code + bits[l])
    BY <2>2, CodeStepIs
  <2>4. QED
    BY <2>1, <2>3
<1>10. ASSUME NEW l \in Lengths, bits[l] # 0
       PROVE  /\ generate(bits).min[l] = first[l]
              /\ generate(bits).max[l] = first[l] + bits[l] - 1
              /\ generate(bits).ptr[l] = SumOf(bits, l - 1) % 256
  <2>1. l \in 1..N /\ l \in 1..(N + 1)
    BY <1>0 DEF Lengths
  <2>2. Entry(g[N], l)
    BY <1>7, <2>1
  <2>3. QED
    BY <1>1, <1>10, <2>1, <2>2
<1>11. Canonical(generate(bits), bits)
  <2> DEFINE c == generate(bits)
  <2> HIDE DEF first, c
  <2>1. /\ first[1] = 0
        /\ \A l \in Lengths :
            /\ first[l + 1] = 2 * (first[l] + bits[l])
            /\ bits[l] # 0 => /\ c.min[l] = first[l]
                              /\ c.max[l] = first[l] + bits[l] - 1
                              /\ c.ptr[l] = SumOf(bits, l - 1) % 256
    BY <1>8, <1>9, <1>10 DEF c
  <2>2. Canonical(c, bits)
    BY <1>8, <2>1, Zenon DEF Canonical
  <2>3. QED
    BY <2>2 DEF c
<1>12. ASSUME NEW phase \in {"min", "max", "ptr"}
       PROVE  g[N][phase] \in Seq(Nat) /\ Len(g[N][phase]) = N
  BY <1>7 DEF CodeType
<1>13. QED
  BY <1>1, <1>11, <1>12

-----------------------------------------------------------------------------
(* The tables the parser keeps *)

IsTable(t) ==
    /\ \A j \in Lengths : t.bits[j] \in 0..255
    /\ t.num_values \in Nat
    /\ \A phase \in {"min", "max", "ptr"} :
            t[phase] \in Seq(Nat) /\ Len(t[phase]) = HUFF_LENGTH_COUNT
    /\ Canonical(t, t.bits)

HuffInv ==
    /\ offset \in Nat
    /\ "huff" \in DOMAIN info /\ DOMAIN info.huff = 0..3
    /\ \A slot \in 0..3 : IsTable(info.huff[slot])

\* The number of values of a table, as far as its lengths are there.
LEMMA CountIs ==
    ASSUME data \in Seq(0..255), offset \in Nat, NEW S \in SUBSET Lengths,
           \A j \in S : InData(offset + j)
    PROVE  MapThenSumSet(LAMBDA j : Byte(offset + j), S) \in Nat
<1> DEFINE f == [j \in S |-> Byte(offset + j)]
<1> DEFINE Is(g) == g = [s \in SUBSET S |->
                            IF s = {} THEN 0
                            ELSE Byte(offset + (CHOOSE x \in s : TRUE))
                                    + g[s \ {CHOOSE x \in s : TRUE}]]
<1>1. IsFiniteSet(S)
  <2>1. IsFiniteSet(Lengths)
    BY JpuProgramAssumption, FS_Interval DEF Lengths
  <2>2. QED
    BY <2>1, FS_Subset
<1>2. \A j \in S : f[j] \in Nat
  <2>1. ASSUME NEW j \in S PROVE Byte(offset + j) \in 0..255
    <3>1. offset + j \in Nat
      BY JpuProgramAssumption DEF Lengths
    <3>2. QED
      BY <3>1, ByteIs
  <2>2. ASSUME NEW j \in S PROVE f[j] \in Nat
    <3> DEFINE b == Byte(offset + j)
    <3>1. f[j] = b
      OBVIOUS
    <3>2. b \in 0..255
      BY <2>1
    <3> HIDE DEF b
    <3>3. b \in Nat
      BY <3>2
    <3>4. QED
      BY <3>1, <3>3
  <2>3. QED
    BY <2>2
<1>3. ASSUME NEW g PROVE Is(g) <=> Sums(g, f, S)
  <2>1. ASSUME NEW s \in SUBSET S
        PROVE  (IF s = {} THEN 0 ELSE Byte(offset + (CHOOSE x \in s : TRUE))
                                        + g[s \ {CHOOSE x \in s : TRUE}])
             = (IF s = {} THEN 0 ELSE f[CHOOSE x \in s : TRUE] + g[s \ {CHOOSE x \in s : TRUE}])
    <3>1. CASE s = {}
      BY <3>1
    <3>2. CASE s # {}
      <4> DEFINE x == CHOOSE y \in s : TRUE
      <4>1. x \in S
        BY <3>2
      <4> HIDE DEF x
      <4>2. f[x] = Byte(offset + x)
        BY <4>1
      <4> HIDE DEF f
      <4>3. QED
        BY <4>2 DEF x
    <3>3. QED
      BY <3>1, <3>2
  <2> DEFINE one == [s \in SUBSET S |->
                       IF s = {} THEN 0 ELSE Byte(offset + (CHOOSE x \in s : TRUE))
                                               + g[s \ {CHOOSE x \in s : TRUE}]]
             two == [s \in SUBSET S |->
                       IF s = {} THEN 0 ELSE f[CHOOSE x \in s : TRUE] + g[s \ {CHOOSE x \in s : TRUE}]]
  <2> HIDE DEF f
  <2>2. one = two
    BY <2>1
  <2>3. QED
    BY <2>2 DEF Sums
<1> DEFINE r == CHOOSE g : Is(g)
<1>4. MapThenSumSet(LAMBDA j : Byte(offset + j), S) = r[S]
  BY DEF MapThenSumSet, MapThenFoldSet
<1> HIDE DEF f, Is
<1>5. Sums(r, f, S)
  <2>1. \E g : Is(g)
    BY <1>1, <1>2, <1>3, SumExists
  <2>2. Is(r)
    BY <2>1
  <2>3. QED
    BY <1>3, <2>2
<1> HIDE DEF r
<1>6. QED
  <2>1. S \in SUBSET S
    OBVIOUS
  <2>2. QED
    BY <1>1, <1>2, <1>4, <1>5, <2>1, SumIs

LEMMA HuffKeeps ==
    ASSUME HuffInv, offset' \in Nat, "huff" \in DOMAIN info', info'.huff = info.huff
    PROVE  HuffInv'
<1>1. /\ DOMAIN info.huff = 0..3
      /\ \A slot \in 0..3 : IsTable(info.huff[slot])
  BY DEF HuffInv
<1>2. \A slot \in 0..3 : IsTable(info'.huff[slot])
  BY <1>1
<1>3. QED
  BY <1>1, <1>2 DEF HuffInv

LEMMA DhtKeeps ==
    ASSUME ParserInv, HuffInv, DhtTable
    PROVE  HuffInv'
<1> DEFINE slot == huff_slot(Byte(offset) \div 16, Byte(offset) % 16)
           old  == info.huff[slot]
           have == {j \in Lengths : InData(offset + j)}
           num  == MapThenSumSet(LAMBDA j : Byte(offset + j), have)
           at(j) == offset + HUFF_LENGTH_COUNT + j
           bits == [j \in Lengths |-> IF j \in have THEN Byte(offset + j) ELSE old.bits[j]]
           vals == [j \in 1..MAX_VALUES |->
                      IF j <= num /\ InData(at(j)) THEN Byte(at(j)) ELSE old.values[j]]
           tbl == [bits |-> bits, num_values |-> num, values |-> vals,
                   min |-> generate(bits).min, max |-> generate(bits).max,
                   ptr |-> generate(bits).ptr]
<1>0. /\ data \in Seq(0..255) /\ offset \in Nat /\ HUFF_LENGTH_COUNT \in Nat
      /\ "huff" \in DOMAIN info /\ DOMAIN info.huff = 0..3
      /\ \A s \in 0..3 : IsTable(info.huff[s])
  BY JpuProgramAssumption DEF ParserInv, HuffInv
<1>1. CASE UNCHANGED <<offset, info>>
  BY <1>0, <1>1, HuffKeeps
<1>2. CASE info' = [info EXCEPT !.huff[slot] = tbl] /\ offset' = offset + 1 + HUFF_LENGTH_COUNT + num
  <2>1. slot \in 0..3
    <3>1. InData(offset)
      BY <1>0 DEF DhtTable, InTable, InData
    <3>2. Byte(offset) \in 0..255
      BY <1>0, <3>1, ByteIs
    <3>3. \A b \in 0..255 : (((b % 16) % 2) * 2) + ((b \div 16) % 2) \in 0..3
      OBVIOUS
    <3>4. QED
      BY <3>2, <3>3 DEF huff_slot
  <2>2. num \in Nat
    <3>1. have \in SUBSET Lengths /\ \A j \in have : InData(offset + j)
      OBVIOUS
    <3> HIDE DEF have
    <3>2. QED
      BY <1>0, <3>1, CountIs
  <2>3. \A j \in Lengths : bits[j] \in 0..255
    <3>1. ASSUME NEW j \in Lengths, InData(offset + j) PROVE Byte(offset + j) \in 0..255
      <4>1. offset + j \in Nat
        BY <1>0 DEF Lengths
      <4>2. QED
        BY <1>0, <3>1, <4>1, ByteIs
    <3>2. \A j \in Lengths : old.bits[j] \in 0..255
      BY <1>0, <2>1 DEF IsTable
    <3> HIDE DEF old
    <3>3. QED
      BY <3>1, <3>2
  <2>4. IsTable(tbl)
    <3> HIDE DEF bits, num, vals
    <3> DEFINE c == generate(bits)
    <3>1. \A j \in Lengths : bits[j] \in Nat
      BY <2>3
    <3>2. /\ \A phase \in {"min", "max", "ptr"} :
                c[phase] \in Seq(Nat) /\ Len(c[phase]) = HUFF_LENGTH_COUNT
          /\ Canonical(c, bits)
      BY <3>1, GenerateIs
    <3> HIDE DEF c
    <3> DEFINE t == [bits |-> bits, num_values |-> num, values |-> vals,
                     min |-> c.min, max |-> c.max, ptr |-> c.ptr]
    <3>3. /\ t.bits = bits /\ t.num_values = num /\ t.min = c.min /\ t.max = c.max /\ t.ptr = c.ptr
          /\ t["min"] = c["min"] /\ t["max"] = c["max"] /\ t["ptr"] = c["ptr"]
      OBVIOUS
    <3> HIDE DEF t
    <3>4. Canonical(t, bits)
      <4> DEFINE Codes(u, first) ==
                    /\ first[1] = 0
                    /\ \A l \in Lengths :
                        /\ first[l + 1] = 2 * (first[l] + bits[l])
                        /\ bits[l] # 0 => /\ u.min[l] = first[l]
                                          /\ u.max[l] = first[l] + bits[l] - 1
                                          /\ u.ptr[l] = SumOf(bits, l - 1) % 256
      <4>1. PICK first \in [1..(HUFF_LENGTH_COUNT + 1) -> Nat] : Codes(c, first)
        BY <3>2, Zenon DEF Canonical
      <4>2. Codes(t, first)
        BY <3>3, <4>1
      <4>3. QED
        BY <4>2, Zenon DEF Canonical
    <3>5. IsTable(t)
      BY <2>2, <2>3, <3>2, <3>3, <3>4 DEF IsTable
    <3>6. QED
      BY <3>5 DEF t, c
  <2> HIDE DEF slot, tbl, num
  <2>5. /\ "huff" \in DOMAIN info' /\ DOMAIN info'.huff = 0..3
        /\ \A s \in 0..3 : info'.huff[s] = IF s = slot THEN tbl ELSE info.huff[s]
    BY <1>0, <1>2, <2>1
  <2>6. offset' \in Nat
    BY <1>0, <1>2, <2>2
  <2>7. \A s \in 0..3 : IsTable(info'.huff[s])
    BY <1>0, <2>4, <2>5
  <2>8. QED
    BY <2>5, <2>6, <2>7 DEF HuffInv
<1>3. QED
  BY <1>1, <1>2 DEF DhtTable, Lengths

LEMMA HuffStep ==
    ASSUME ParserInv, HuffInv, [ParseNext]_parseVars
    PROVE  HuffInv'
<1>0. i \in Nat /\ offset \in Nat /\ "huff" \in DOMAIN info
  BY DEF ParserInv, HuffInv
<1>1. CASE UNCHANGED <<offset, info>>
  BY <1>0, <1>1, HuffKeeps
<1>2. CASE SkipByte \/ SkipFill \/ SkipPair \/ NoLength \/ SkipSegment
  BY <1>1, <1>2 DEF SkipByte, SkipFill, SkipPair, NoLength, SkipSegment, Move
<1>3. CASE SofTooShort \/ NotFound \/ TablesDone
  BY <1>1, <1>3 DEF SofTooShort, NotFound, TablesDone, Stop
<1>4. CASE Dht \/ Dqt
  <2>1. offset' = i + 4 /\ info' = info
    BY <1>4 DEF Dht, Dqt, Enter
  <2>2. QED
    BY <1>0, <2>1, HuffKeeps
<1>5. CASE Dri
  <2>1. offset' = offset /\ (info' = info \/ \E v : info' = [info EXCEPT !.restart_interval = v])
    BY <1>5 DEF Dri, Move
  <2>2. "huff" \in DOMAIN info' /\ info'.huff = info.huff
    BY <1>0, <2>1
  <2>3. QED
    BY <1>0, <2>1, <2>2, HuffKeeps
<1>6. CASE DhtTable
  BY <1>6, DhtKeeps
<1>7. CASE DqtTable
  <2> DEFINE wide == Byte(offset) \div 16 # 0
  <2>1. \/ UNCHANGED <<offset, info>>
        \/ /\ \E v, u : info' = [info EXCEPT !.quant = v, !.quant_table_count = u]
           /\ offset' = offset + 1 + DQT_TABLE_ENTRIES * (IF wide THEN 2 ELSE 1)
    BY <1>7 DEF DqtTable
  <2>2. ASSUME NEW v, NEW u, info' = [info EXCEPT !.quant = v, !.quant_table_count = u],
               offset' = offset + 1 + DQT_TABLE_ENTRIES * (IF wide THEN 2 ELSE 1)
        PROVE  HuffInv'
    <3>1. "huff" \in DOMAIN info' /\ info'.huff = info.huff
      BY <1>0, <2>2
    <3>2. DQT_TABLE_ENTRIES * 1 \in Nat /\ DQT_TABLE_ENTRIES * 2 \in Nat
      BY JpegHeaderAssumption
    <3>3. offset' \in Nat
      BY <1>0, <2>2, <3>2
    <3>4. QED
      BY <3>1, <3>3, HuffKeeps
  <2>3. QED
    BY <1>1, <2>1, <2>2
<1>8. CASE Sos
  <2>1. /\ offset' = offset
        /\ \E v, u : info' = [info EXCEPT !.dc_huff_tbl = v, !.ac_huff_tbl = u, !.ecs_offset = Past]
    BY <1>8 DEF Sos, Stop
  <2>2. "huff" \in DOMAIN info' /\ info'.huff = info.huff
    BY <1>0, <2>1
  <2>3. QED
    BY <1>0, <2>1, <2>2, HuffKeeps
<1>9. CASE Sof
  <2> DEFINE inf == [info EXCEPT !.height = be16(i + 5), !.width = be16(i + 7),
                                 !.num_components = Byte(i + 9)]
  <2>1. /\ offset' = offset
        /\ \/ info' = inf
           \/ \E s, q, f : info' = [inf EXCEPT !.sampling = s, !.quant_tbl = q, !.format = f]
           \/ \E s, f : info' = [inf EXCEPT !.sampling = s, !.format = f]
    BY <1>9 DEF Sof, SofComponents, Move
  <2>2. "huff" \in DOMAIN inf /\ inf.huff = info.huff
    BY <1>0
  <2> HIDE DEF inf
  <2>3. "huff" \in DOMAIN info' /\ info'.huff = info.huff
    BY <2>1, <2>2
  <2>4. QED
    BY <1>0, <2>1, <2>3, HuffKeeps
<1>10. CASE UNCHANGED parseVars
  BY <1>1, <1>10 DEF parseVars
<1>11. QED
  BY <1>2, <1>3, <1>4, <1>5, <1>6, <1>7, <1>8, <1>9, <1>10 DEF ParseNext

LEMMA EmptyIs == IsTable(EmptyTable)
<1> DEFINE N == HUFF_LENGTH_COUNT
           t == EmptyTable
<1>0. N \in Nat /\ HUFF_NO_CODE \in Nat /\ HUFF_NO_PTR \in Nat
  BY JpuProgramAssumption, JpegHeaderAssumption
<1>1. /\ \A j \in Lengths : t.bits[j] = 0 /\ t.num_values = 0
      /\ t.min = [j \in 1..N |-> HUFF_NO_CODE] /\ t.max = [j \in 1..N |-> HUFF_NO_CODE]
      /\ t.ptr = [j \in 1..N |-> HUFF_NO_PTR]
  BY DEF EmptyTable, Lengths
<1>2. ASSUME NEW e \in Nat PROVE [j \in 1..N |-> e] \in Seq(Nat) /\ Len([j \in 1..N |-> e]) = N
  BY <1>0
<1>3. \A phase \in {"min", "max", "ptr"} : t[phase] \in Seq(Nat) /\ Len(t[phase]) = N
  BY <1>0, <1>1, <1>2
<1>4. t.num_values \in Nat
  BY DEF EmptyTable
<1> HIDE DEF t
<1>5. Canonical(t, t.bits)
  <2> DEFINE first == [l \in 1..(N + 1) |-> 0]
  <2>1. first \in [1..(N + 1) -> Nat] /\ first[1] = 0
    BY <1>0
  <2>2. ASSUME NEW l \in Lengths PROVE first[l + 1] = 2 * (first[l] + t.bits[l]) /\ t.bits[l] = 0
    <3>1. l \in 1..(N + 1) /\ l + 1 \in 1..(N + 1)
      BY <1>0 DEF Lengths
    <3>2. QED
      BY <1>1, <3>1
  <2> HIDE DEF first
  <2>3. QED
    BY <2>1, <2>2, Zenon DEF Canonical
<1>6. QED
  BY <1>1, <1>3, <1>4, <1>5 DEF IsTable, t

LEMMA HuffBegins == ParseInit => HuffInv
<1> SUFFICES ASSUME ParseInit PROVE HuffInv
  OBVIOUS
<1>1. offset = 0 /\ info = NewInfo
  BY DEF ParseInit
<1>2. "huff" \in DOMAIN NewInfo /\ NewInfo.huff = [slot \in 0..3 |-> EmptyTable]
  BY DEF NewInfo
<1>3. QED
  BY <1>1, <1>2, EmptyIs DEF HuffInv

LEMMA HuffHolds == ParseSpec => []HuffInv
  BY ParserBegins, ParserStep, HuffBegins, HuffStep, PTL DEF ParseSpec

HuffCanonical ==
    \A slot \in 0..3 : Canonical(info.huff[slot], info.huff[slot].bits)

\* Whatever bytes are parsed, each of the four tables has the canonical codes of its
\* numbers of codes: HuffTable::generate runs after every change of bits, also when
\* the segment is cut off inside the table (header.rs, parse_dht and generate).
THEOREM CodesCanonical == ParseSpec => []HuffCanonical
<1>1. HuffInv => HuffCanonical
  BY DEF HuffInv, IsTable, HuffCanonical
<1>2. QED
  BY <1>1, HuffHolds, PTL

-----------------------------------------------------------------------------
(* The tables in the JPU *)

\* Four rows of words, one after the other.
LEMMA FourRows ==
    ASSUME NEW S, NEW rows, rows \in [1..4 -> Seq(S)]
    PROVE  FlattenSeq(rows) = ((rows[1] \o rows[2]) \o rows[3]) \o rows[4]
<1> DEFINE Is(g) == g = [k \in 1..Len(rows) |-> IF k = 1 THEN rows[k] ELSE g[k - 1] \o rows[k]]
<1> DEFINE r == CHOOSE g : Is(g)
<1>1. Len(rows) = 4
  OBVIOUS
<1>2. FlattenSeq(rows) = r[Len(rows)]
  BY <1>1 DEF FlattenSeq
<1> DEFINE two == rows[1] \o rows[2]
           three == two \o rows[3]
           four == three \o rows[4]
           h == [k \in 1..4 |-> IF k = 1 THEN rows[1] ELSE IF k = 2 THEN two ELSE
                                IF k = 3 THEN three ELSE four]
<1>3. Is(h)
  <2>1. h[1] = rows[1] /\ h[2] = two /\ h[3] = three /\ h[4] = four
    <3> HIDE DEF two, three, four
    <3>1. QED
      OBVIOUS
  <2>2. ASSUME NEW k \in 1..4 PROVE h[k] = IF k = 1 THEN rows[k] ELSE h[k - 1] \o rows[k]
    <3>1. k = 1 \/ k = 2 \/ k = 3 \/ k = 4
      OBVIOUS
    <3>2. 2 - 1 = 1 /\ 3 - 1 = 2 /\ 4 - 1 = 3
      OBVIOUS
    <3> HIDE DEF h
    <3>3. QED
      BY <2>1, <3>1, <3>2
  <2>3. h = [k \in 1..4 |-> h[k]]
    OBVIOUS
  <2> HIDE DEF h
  <2>4. QED
    BY <1>1, <2>2, <2>3
<1>4. Is(r)
  <2> HIDE DEF Is, h
  <2>1. QED
    BY <1>3
<1> HIDE DEF r
<1>5. r[1] = rows[1] /\ r[2] = r[1] \o rows[2] /\ r[3] = r[2] \o rows[3] /\ r[4] = r[3] \o rows[4]
  <2>1. \A k \in 1..4 : r[k] = IF k = 1 THEN rows[k] ELSE r[k - 1] \o rows[k]
    BY <1>1, <1>4
  <2>2. 2 - 1 = 1 /\ 3 - 1 = 2 /\ 4 - 1 = 3
    OBVIOUS
  <2>3. QED
    BY <2>1, <2>2
<1>6. QED
  BY <1>1, <1>2, <1>5

\* Where a word of a row comes to stand.
LEMMA RowsStand ==
    ASSUME NEW S, NEW rows \in [1..4 -> Seq(S)]
    PROVE  LET all == FlattenSeq(rows)
           IN  /\ \A k \in 1..Len(rows[1]) : all[k] = rows[1][k]
               /\ \A k \in 1..Len(rows[2]) : all[Len(rows[1]) + k] = rows[2][k]
               /\ \A k \in 1..Len(rows[3]) : all[Len(rows[1]) + Len(rows[2]) + k] = rows[3][k]
               /\ \A k \in 1..Len(rows[4]) :
                    all[Len(rows[1]) + Len(rows[2]) + Len(rows[3]) + k] = rows[4][k]
<1> DEFINE a == rows[1]
           b == rows[2]
           c == rows[3]
           d == rows[4]
           na == Len(a)
           nb == Len(b)
           nc == Len(c)
           nd == Len(d)
<1>1. a \in Seq(S) /\ b \in Seq(S) /\ c \in Seq(S) /\ d \in Seq(S)
  OBVIOUS
<1>2. FlattenSeq(rows) = ((a \o b) \o c) \o d
  BY FourRows
<1>3. na \in Nat /\ nb \in Nat /\ nc \in Nat /\ nd \in Nat
  BY <1>1
<1> HIDE DEF a, b, c, d
<1> DEFINE ab == a \o b
<1>4. /\ ab \in Seq(S) /\ Len(ab) = na + nb
      /\ \A k \in 1..(na + nb) : ab[k] = IF k <= na THEN a[k] ELSE b[k - na]
  BY <1>1, ConcatProperties, Zenon
<1> HIDE DEF ab
<1> DEFINE abc == ab \o c
<1>5. /\ abc \in Seq(S) /\ Len(abc) = na + nb + nc
      /\ \A k \in 1..(na + nb + nc) : abc[k] = IF k <= na + nb THEN ab[k] ELSE c[k - (na + nb)]
  <2>1. ab \in Seq(S) /\ c \in Seq(S)
    BY <1>1, <1>4
  <2>2. /\ ab \o c \in Seq(S) /\ Len(ab \o c) = Len(ab) + Len(c)
        /\ \A k \in 1..(Len(ab) + Len(c)) :
                (ab \o c)[k] = IF k <= Len(ab) THEN ab[k] ELSE c[k - Len(ab)]
    BY <2>1, ConcatProperties, Zenon
  <2>3. QED
    BY <1>4, <2>2
<1> HIDE DEF abc
<1> DEFINE all == abc \o d
<1>6. \A k \in 1..(na + nb + nc + nd) :
            all[k] = IF k <= na + nb + nc THEN abc[k] ELSE d[k - (na + nb + nc)]
  <2>1. \A k \in 1..(Len(abc) + Len(d)) :
            (abc \o d)[k] = IF k <= Len(abc) THEN abc[k] ELSE d[k - Len(abc)]
    <3>1. abc \in Seq(S) /\ d \in Seq(S)
      BY <1>1, <1>5
    <3>2. QED
      BY <3>1, ConcatProperties, Zenon
  <2>2. QED
    BY <1>5, <2>1
<1>7. FlattenSeq(rows) = all
  BY <1>2 DEF ab, abc
<1> HIDE DEF all, na, nb, nc, nd
<1>8. \A k \in 1..na : all[k] = a[k]
  <2>1. ASSUME NEW k \in 1..na
        PROVE  /\ k \in 1..(na + nb + nc + nd) /\ k \in 1..(na + nb + nc) /\ k \in 1..(na + nb)
               /\ k <= na /\ k <= na + nb /\ k <= na + nb + nc
    BY <1>3
  <2>2. QED
    BY <1>4, <1>5, <1>6, <2>1
<1>9. \A k \in 1..nb : all[na + k] = b[k]
  <2>1. ASSUME NEW k \in 1..nb
        PROVE  /\ na + k \in 1..(na + nb + nc + nd) /\ na + k \in 1..(na + nb + nc)
               /\ na + k \in 1..(na + nb) /\ ~(na + k <= na) /\ na + k <= na + nb
               /\ na + k <= na + nb + nc /\ (na + k) - na = k
    BY <1>3
  <2>2. QED
    BY <1>4, <1>5, <1>6, <2>1
<1>10. \A k \in 1..nc : all[na + nb + k] = c[k]
  <2>1. ASSUME NEW k \in 1..nc
        PROVE  /\ na + nb + k \in 1..(na + nb + nc + nd) /\ na + nb + k \in 1..(na + nb + nc)
               /\ ~(na + nb + k <= na + nb) /\ na + nb + k <= na + nb + nc
               /\ (na + nb + k) - (na + nb) = k
    BY <1>3
  <2>2. QED
    BY <1>5, <1>6, <2>1
<1>11. \A k \in 1..nd : all[na + nb + nc + k] = d[k]
  <2>1. ASSUME NEW k \in 1..nd
        PROVE  /\ na + nb + nc + k \in 1..(na + nb + nc + nd)
               /\ ~(na + nb + nc + k <= na + nb + nc) /\ (na + nb + nc + k) - (na + nb + nc) = k
    BY <1>3
  <2>2. QED
    BY <1>6, <2>1
<1>12. QED
  BY <1>7, <1>8, <1>9, <1>10, <1>11 DEF na, nb, nc, nd, a, b, c, d

\* The words of the four tables in the order of the upload.
LEMMA CodesStand ==
    ASSUME HuffInv, NEW phase \in {"min", "max", "ptr"}, NEW tc \in 0..1, NEW th \in 0..1,
           NEW l \in Lengths
    PROVE  CodeStream(info, phase)[(2 * tc + th) * HUFF_LENGTH_COUNT + l]
               = info.huff[huff_slot(tc, th)][phase][l]
<1> DEFINE rows == [k \in 1..4 |-> info.huff[UploadOrder[k]][phase]]
           N == HUFF_LENGTH_COUNT
<1>0. N \in Nat
  BY JpuProgramAssumption
<1>1. rows \in [1..4 -> Seq(Nat)] /\ \A k \in 1..4 : Len(rows[k]) = N
  <2>1. \A k \in 1..4 : UploadOrder[k] \in 0..3
    BY DEF UploadOrder
  <2>2. \A slot \in 0..3 : info.huff[slot][phase] \in Seq(Nat) /\ Len(info.huff[slot][phase]) = N
    BY DEF HuffInv, IsTable
  <2>3. QED
    BY <2>1, <2>2
<1>2. /\ rows[1] = info.huff[0][phase] /\ rows[2] = info.huff[2][phase]
      /\ rows[3] = info.huff[1][phase] /\ rows[4] = info.huff[3][phase]
  BY DEF UploadOrder
<1>3. /\ huff_slot(0, 0) = 0 /\ huff_slot(0, 1) = 2 /\ huff_slot(1, 0) = 1 /\ huff_slot(1, 1) = 3
  BY DEF huff_slot
<1>4. CodeStream(info, phase) = FlattenSeq(rows)
  BY DEF CodeStream
<1> HIDE DEF rows
<1> DEFINE all == FlattenSeq(rows)
<1>5. /\ \A k \in 1..N : all[k] = rows[1][k]
      /\ \A k \in 1..N : all[N + k] = rows[2][k]
      /\ \A k \in 1..N : all[N + N + k] = rows[3][k]
      /\ \A k \in 1..N : all[N + N + N + k] = rows[4][k]
  <2>1. /\ \A k \in 1..Len(rows[1]) : all[k] = rows[1][k]
        /\ \A k \in 1..Len(rows[2]) : all[Len(rows[1]) + k] = rows[2][k]
        /\ \A k \in 1..Len(rows[3]) : all[Len(rows[1]) + Len(rows[2]) + k] = rows[3][k]
        /\ \A k \in 1..Len(rows[4]) :
                all[Len(rows[1]) + Len(rows[2]) + Len(rows[3]) + k] = rows[4][k]
    BY <1>1, RowsStand
  <2>2. Len(rows[1]) = N /\ Len(rows[2]) = N /\ Len(rows[3]) = N /\ Len(rows[4]) = N
    BY <1>1
  <2> HIDE DEF all
  <2>3. QED
    BY <2>1, <2>2
<1> HIDE DEF all
<1>6. /\ (2 * 0 + 0) * N + l = l /\ (2 * 0 + 1) * N + l = N + l
      /\ (2 * 1 + 0) * N + l = N + N + l /\ (2 * 1 + 1) * N + l = N + N + N + l /\ l \in 1..N
  BY <1>0 DEF Lengths
<1>7. (tc = 0 \/ tc = 1) /\ (th = 0 \/ th = 1)
  OBVIOUS
<1> HIDE DEF N
<1>8. QED
  BY <1>2, <1>3, <1>4, <1>5, <1>6, <1>7 DEF all, N

Counted(slot) ==
    SumOf(info.huff[slot].bits, IF IsDc(slot) THEN DC_LENGTHS ELSE HUFF_LENGTH_COUNT)

Room(slot) == IF IsDc(slot) THEN DC_WORDS ELSE AC_WORDS

\* No table counts more values than the JPU has words for, or than it was given.
FittingTables ==
    \A slot \in 0..3 :
        Counted(slot) <= Room(slot) /\ Counted(slot) <= info.huff[slot].num_values

LEMMA WordsAre ==
    ASSUME HuffInv, FittingTables, NEW slot \in 0..3, NEW S, Pad \in S,
           \A j \in Nat : info.huff[slot].values[j] \in S
    PROVE  /\ ValueWords(info, slot) \in Seq(S) /\ Len(ValueWords(info, slot)) = Room(slot)
           /\ Counted(slot) \in Nat
           /\ \A k \in 1..Counted(slot) : ValueWords(info, slot)[k] = info.huff[slot].values[k]
<1> DEFINE t == info.huff[slot]
           n == Counted(slot)
           room == Room(slot)
           m == IF n < room THEN room - n ELSE 0
           vals == [j \in 1..Min({n, t.num_values}) |-> t.values[j]]
           pad == [j \in 1..m |-> Pad]
<1>1. n \in Nat
  <2>0. \A j \in 1..HUFF_LENGTH_COUNT : t.bits[j] \in 0..255
    BY DEF HuffInv, IsTable, Lengths
  <2> HIDE DEF t
  <2>1. \A j \in 1..HUFF_LENGTH_COUNT : t.bits[j] \in Nat
    <3>1. \A b \in 0..255 : b \in Nat
      OBVIOUS
    <3>2. QED
      BY <2>0, <3>1, Zenon
  <2>2. /\ HUFF_LENGTH_COUNT \in Nat /\ DC_LENGTHS \in 0..HUFF_LENGTH_COUNT
        /\ HUFF_LENGTH_COUNT \in 0..HUFF_LENGTH_COUNT
    BY JpuProgramAssumption
  <2>3. \A q \in 0..HUFF_LENGTH_COUNT : SumOf(t.bits, q) \in Nat
    BY <2>1, <2>2, SumOfIs
  <2>4. QED
    BY <2>2, <2>3 DEF Counted, t
<1>2. t.num_values \in Nat /\ n <= t.num_values /\ n <= room /\ room \in Nat
  BY JpuProgramAssumption DEF HuffInv, IsTable, FittingTables, Room
<1>3. ValueWords(info, slot) = vals \o pad
  BY DEF ValueWords, Counted, Room
<1> HIDE DEF n, room
<1>4. Min({n, t.num_values}) = n
  <2> DEFINE x == t.num_values
  <2>1. x \in Nat /\ n <= x
    BY <1>2
  <2> HIDE DEF x
  <2>2. Min({n, x}) \in {n, x} /\ \A y \in {n, x} : Min({n, x}) <= y
    <3>1. n \in {n, x} /\ \A y \in {n, x} : n <= y
      BY <1>1, <2>1
    <3>2. QED
      BY <3>1 DEF Min
  <2>3. Min({n, x}) = n
    BY <1>1, <2>1, <2>2
  <2>4. QED
    BY <2>3 DEF x
<1>5. vals = [j \in 1..n |-> t.values[j]]
  BY <1>4
<1>6. vals \in Seq(S) /\ Len(vals) = n /\ \A k \in 1..n : vals[k] = t.values[k]
  <2>1. \A j \in 1..n : t.values[j] \in S
    BY <1>1
  <2> HIDE DEF t, vals
  <2>2. QED
    BY <1>1, <1>5, <2>1
<1>7. m \in Nat /\ n + m = room
  BY <1>1, <1>2
<1> HIDE DEF m
<1>8. pad \in Seq(S) /\ Len(pad) = m
  BY <1>7
<1> HIDE DEF vals, pad
<1>9. /\ vals \o pad \in Seq(S) /\ Len(vals \o pad) = n + m
      /\ \A k \in 1..(n + m) : (vals \o pad)[k] = IF k <= n THEN vals[k] ELSE pad[k - n]
  <2>1. /\ vals \o pad \in Seq(S) /\ Len(vals \o pad) = Len(vals) + Len(pad)
        /\ \A k \in 1..(Len(vals) + Len(pad)) :
                (vals \o pad)[k] = IF k <= Len(vals) THEN vals[k] ELSE pad[k - Len(vals)]
    BY <1>6, <1>8, ConcatProperties, Zenon
  <2>2. QED
    BY <1>6, <1>8, <2>1
<1>10. \A k \in 1..n : k \in 1..(n + m) /\ k <= n
  BY <1>1, <1>7
<1>11. \A k \in 1..n : (vals \o pad)[k] = t.values[k]
  BY <1>6, <1>9, <1>10
<1>12. QED
  BY <1>1, <1>3, <1>7, <1>9, <1>11 DEF n, room

\* The words of the four tables' values.
LEMMA ValuesStand ==
    ASSUME HuffInv, FittingTables, NEW tc \in 0..1, NEW th \in 0..1,
           NEW k \in 1..Counted(huff_slot(tc, th))
    PROVE  ValueStream(info)[(IF tc = 0 THEN th * DC_WORDS ELSE 2 * DC_WORDS + th * AC_WORDS) + k]
               = info.huff[huff_slot(tc, th)].values[k]
<1> DEFINE S == (UNION {{info.huff[slot].values[j] : j \in Nat} : slot \in 0..3}) \cup {Pad}
           rows == [q \in 1..4 |-> ValueWords(info, UploadOrder[q])]
           D == DC_WORDS
           A == AC_WORDS
<1>0. D \in Nat /\ A \in Nat
  BY JpuProgramAssumption
<1>1. Pad \in S /\ \A slot \in 0..3 : \A j \in Nat : info.huff[slot].values[j] \in S
  <2>1. Pad \in S
    OBVIOUS
  <2>2. ASSUME NEW slot \in 0..3, NEW j \in Nat PROVE info.huff[slot].values[j] \in S
    <3> DEFINE of(n) == {info.huff[n].values[q] : q \in Nat}
    <3>1. info.huff[slot].values[j] \in of(slot)
      BY Zenon
    <3>2. of(slot) \in {of(n) : n \in 0..3}
      BY Zenon
    <3>3. QED
      BY <3>1, <3>2, Zenon
  <2>3. QED
    BY <2>1, <2>2
<1> HIDE DEF S
<1>2. ASSUME NEW slot \in 0..3
      PROVE  /\ ValueWords(info, slot) \in Seq(S) /\ Len(ValueWords(info, slot)) = Room(slot)
             /\ Counted(slot) \in Nat /\ Room(slot) \in Nat /\ Counted(slot) <= Room(slot)
             /\ \A j \in 1..Counted(slot) : ValueWords(info, slot)[j] = info.huff[slot].values[j]
  <2>1. Room(slot) \in Nat /\ Counted(slot) <= Room(slot)
    BY <1>0 DEF Room, FittingTables
  <2>2. QED
    BY <1>1, <2>1, WordsAre
<1>3. rows \in [1..4 -> Seq(S)]
  <2>1. \A q \in 1..4 : UploadOrder[q] \in 0..3
    BY DEF UploadOrder
  <2>2. QED
    BY <1>2, <2>1
<1>4. /\ rows[1] = ValueWords(info, 0) /\ rows[2] = ValueWords(info, 2)
      /\ rows[3] = ValueWords(info, 1) /\ rows[4] = ValueWords(info, 3)
  BY DEF UploadOrder
<1>5. Room(0) = D /\ Room(2) = D /\ Room(1) = A /\ Room(3) = A
  BY DEF Room, IsDc
<1>6. /\ huff_slot(0, 0) = 0 /\ huff_slot(0, 1) = 2 /\ huff_slot(1, 0) = 1 /\ huff_slot(1, 1) = 3
  BY DEF huff_slot
<1>7. ValueStream(info) = FlattenSeq(rows)
  BY DEF ValueStream
<1> HIDE DEF rows, D, A
<1> DEFINE all == FlattenSeq(rows)
<1>8. /\ \A j \in 1..D : all[j] = rows[1][j]
      /\ \A j \in 1..D : all[D + j] = rows[2][j]
      /\ \A j \in 1..A : all[D + D + j] = rows[3][j]
      /\ \A j \in 1..A : all[D + D + A + j] = rows[4][j]
  <2>1. /\ \A j \in 1..Len(rows[1]) : all[j] = rows[1][j]
        /\ \A j \in 1..Len(rows[2]) : all[Len(rows[1]) + j] = rows[2][j]
        /\ \A j \in 1..Len(rows[3]) : all[Len(rows[1]) + Len(rows[2]) + j] = rows[3][j]
        /\ \A j \in 1..Len(rows[4]) :
                all[Len(rows[1]) + Len(rows[2]) + Len(rows[3]) + j] = rows[4][j]
    BY <1>3, RowsStand
  <2>2. Len(rows[1]) = D /\ Len(rows[2]) = D /\ Len(rows[3]) = A /\ Len(rows[4]) = A
    BY <1>2, <1>4, <1>5
  <2> HIDE DEF all
  <2>3. QED
    BY <2>1, <2>2
<1> HIDE DEF all
<1>9. ASSUME NEW slot \in 0..3, NEW j \in 1..Counted(slot)
      PROVE  j \in 1..Room(slot) /\ ValueWords(info, slot)[j] = info.huff[slot].values[j]
             /\ j \in Nat
  <2>1. Counted(slot) \in Nat /\ Room(slot) \in Nat /\ Counted(slot) <= Room(slot)
    BY <1>2
  <2>2. j \in Nat /\ j \in 1..Room(slot)
    BY <2>1
  <2>3. QED
    BY <1>2, <2>2
<1>10. CASE tc = 0 /\ th = 0
  <2>1. k \in 1..Counted(0)
    BY <1>6, <1>10
  <2>2. k \in 1..D /\ rows[1][k] = info.huff[0].values[k] /\ 0 * D + k = k
    BY <1>0, <1>4, <1>5, <1>9, <2>1
  <2>3. QED
    BY <1>6, <1>7, <1>8, <1>10, <2>2 DEF all, D
<1>11. CASE tc = 0 /\ th = 1
  <2>1. k \in 1..Counted(2)
    BY <1>6, <1>11
  <2>2. k \in 1..D /\ rows[2][k] = info.huff[2].values[k] /\ 1 * D + k = D + k
    BY <1>0, <1>4, <1>5, <1>9, <2>1
  <2>3. QED
    BY <1>6, <1>7, <1>8, <1>11, <2>2 DEF all, D
<1>12. CASE tc = 1 /\ th = 0
  <2>1. k \in 1..Counted(1)
    BY <1>6, <1>12
  <2>2. k \in 1..A /\ rows[3][k] = info.huff[1].values[k] /\ (2 * D + 0 * A) + k = D + D + k
    BY <1>0, <1>4, <1>5, <1>9, <2>1
  <2>3. QED
    BY <1>6, <1>7, <1>8, <1>12, <2>2 DEF all, D, A
<1>13. CASE tc = 1 /\ th = 1
  <2>1. k \in 1..Counted(3)
    BY <1>6, <1>13
  <2>2. k \in 1..A /\ rows[4][k] = info.huff[3].values[k] /\ (2 * D + 1 * A) + k = D + D + A + k
    BY <1>0, <1>4, <1>5, <1>9, <2>1
  <2>3. QED
    BY <1>6, <1>7, <1>8, <1>13, <2>2 DEF all, D, A
<1>14. QED
  BY <1>10, <1>11, <1>12, <1>13

\* The values of a length end no later than those of any greater length.
LEMMA ValuesWithin ==
    ASSUME NEW N \in Nat, NEW b, \A j \in 1..N : b[j] \in Nat, NEW l \in 1..N
    PROVE  /\ SumOf(b, l - 1) \in Nat
           /\ \A n \in l..N : SumOf(b, n) \in Nat /\ SumOf(b, l - 1) + b[l] <= SumOf(b, n)
<1>1. /\ \A n \in 0..N : SumOf(b, n) \in Nat
      /\ \A n \in 1..N : SumOf(b, n) = SumOf(b, n - 1) + b[n]
  BY SumOfIs
<1> DEFINE S == {n \in 0..(N - l) : SumOf(b, l - 1) + b[l] <= SumOf(b, l + n)}
<1>2. \A n \in 0..(N - l) : n \in S
  <2>1. N - l \in Nat
    OBVIOUS
  <2>2. 0 \in S
    <3>1. 0 \in 0..(N - l) /\ l + 0 = l /\ l \in 0..N /\ SumOf(b, l) \in Nat
      BY <1>1
    <3>2. SumOf(b, l) = SumOf(b, l - 1) + b[l]
      BY <1>1
    <3>3. SumOf(b, l - 1) + b[l] <= SumOf(b, l + 0)
      BY <3>1, <3>2
    <3>4. QED
      BY <3>1, <3>3
  <2>3. ASSUME NEW n \in 0..((N - l) - 1), n \in S PROVE n + 1 \in S
    <3>1. /\ l + n \in 0..N /\ l + (n + 1) \in 1..N /\ (l + (n + 1)) - 1 = l + n
          /\ l - 1 \in 0..N /\ n + 1 \in 0..(N - l)
      OBVIOUS
    <3>2. SumOf(b, l + (n + 1)) = SumOf(b, l + n) + b[l + (n + 1)]
      BY <1>1, <3>1
    <3>3. /\ SumOf(b, l + n) \in Nat /\ b[l + (n + 1)] \in Nat /\ SumOf(b, l - 1) \in Nat
          /\ b[l] \in Nat
      BY <1>1, <3>1
    <3>4. SumOf(b, l - 1) + b[l] <= SumOf(b, l + n)
      BY <2>3
    <3>5. SumOf(b, l - 1) + b[l] <= SumOf(b, l + (n + 1))
      BY <3>2, <3>3, <3>4
    <3>6. QED
      BY <3>1, <3>5
  <2> HIDE DEF S
  <2>4. QED
    BY <2>1, <2>2, <2>3, SetInduction
<1>3. ASSUME NEW n \in l..N
      PROVE  SumOf(b, n) \in Nat /\ SumOf(b, l - 1) + b[l] <= SumOf(b, n)
  <2>1. n - l \in 0..(N - l) /\ l + (n - l) = n /\ n \in 0..N
    OBVIOUS
  <2>2. SumOf(b, l - 1) + b[l] <= SumOf(b, l + (n - l))
    BY <1>2, <2>1
  <2>3. QED
    BY <1>1, <2>1, <2>2
<1>4. l - 1 \in 0..N
  OBVIOUS
<1>5. QED
  BY <1>1, <1>3, <1>4

\* Where a table points for a code is within what upload_huff_tables counts of it.
LEMMA PointsWithin ==
    ASSUME HuffInv, NEW slot \in 0..3, NEW k \in Nat \ {0},
           NEW l \in 1..(IF IsDc(slot) THEN DC_LENGTHS ELSE HUFF_LENGTH_COUNT),
           k <= info.huff[slot].bits[l]
    PROVE  /\ l \in Lengths /\ info.huff[slot].ptr[l] \in Nat
           /\ info.huff[slot].ptr[l] + k \in 1..Counted(slot)
<1> DEFINE t == info.huff[slot]
           b == t.bits
           n == IF IsDc(slot) THEN DC_LENGTHS ELSE HUFF_LENGTH_COUNT
<1>1. HUFF_LENGTH_COUNT \in Nat /\ n \in 1..HUFF_LENGTH_COUNT /\ l \in 1..n
  BY JpuProgramAssumption
<1>2. IsTable(t) /\ Counted(slot) = SumOf(b, n)
  BY DEF HuffInv, Counted
<1>3. k <= b[l]
  OBVIOUS
<1> HIDE DEF b, n
<1>4. l \in 1..HUFF_LENGTH_COUNT /\ n \in l..HUFF_LENGTH_COUNT
  BY <1>1
<1>5. \A j \in 1..HUFF_LENGTH_COUNT : b[j] \in 0..255
  BY <1>2 DEF IsTable, Lengths, b
<1>6. \A j \in 1..HUFF_LENGTH_COUNT : b[j] \in Nat
  <2>1. \A x \in 0..255 : x \in Nat
    OBVIOUS
  <2>2. QED
    BY <1>5, <2>1, Zenon
<1>7. SumOf(b, l - 1) \in Nat /\ SumOf(b, n) \in Nat /\ SumOf(b, l - 1) + b[l] <= SumOf(b, n)
  BY <1>1, <1>4, <1>6, ValuesWithin
<1>8. b[l] \in Nat /\ b[l] # 0
  BY <1>3, <1>4, <1>6
<1>9. t.ptr[l] = SumOf(b, l - 1) % 256
  BY <1>2, <1>4, <1>8 DEF IsTable, Canonical, Lengths, b
<1>10. SumOf(b, l - 1) % 256 \in Nat /\ SumOf(b, l - 1) % 256 <= SumOf(b, l - 1)
  BY <1>7
<1>11. t.ptr[l] \in Nat /\ t.ptr[l] + k \in 1..SumOf(b, n)
  BY <1>3, <1>7, <1>8, <1>9, <1>10
<1>12. QED
  BY <1>2, <1>4, <1>11 DEF Lengths

\* Whatever bytes are parsed, the codes of all four tables stand where the JPU looks for
\* them, DC tables first, and so does each value an AC code, or a DC code of up to
\* DC_LENGTHS bits, points to, as long as no table counts more values than it has or than
\* the JPU has words for (decoder.rs, upload_huff_tables).
THEOREM TablesStand == ParseSpec => [](FittingTables => HuffInPlace)
<1>1. ASSUME HuffInv, FittingTables PROVE HuffInPlace
  <2>1. ASSUME NEW tc \in 0..1, NEW th \in 0..1
        PROVE  CodesInPlace(tc, th)
    <3>1. \A phase \in Kinds, l \in 1..HUFF_LENGTH_COUNT :
                CodeStream(info, phase)[(2 * tc + th) * HUFF_LENGTH_COUNT + l]
                    = info.huff[huff_slot(tc, th)][phase][l]
      BY <1>1, CodesStand DEF Lengths, Kinds
    <3>2. QED
      BY <3>1, Zenon DEF CodesInPlace
  <2>2. ASSUME NEW tc \in 0..1, NEW th \in 0..1,
               NEW l \in 1..(IF tc = 0 THEN DC_LENGTHS ELSE HUFF_LENGTH_COUNT)
        PROVE  LengthInPlace(tc, th, l)
    <3> DEFINE slot == huff_slot(tc, th)
               table == info.huff[slot]
    <3>1. slot \in 0..3 /\ (IsDc(slot) <=> tc = 0)
      BY DEF IsDc, huff_slot
    <3>2. ASSUME NEW k \in 1..table.bits[l]
          PROVE  ValueStream(info)[ValuesFrom(tc, th) + table.ptr[l] + k]
                    = table.values[table.ptr[l] + k]
      <4>1. l \in 1..HUFF_LENGTH_COUNT
        BY JpuProgramAssumption
      <4>2. table.bits[l] \in 0..255
        BY <1>1, <3>1, <4>1 DEF HuffInv, IsTable, Lengths
      <4>3. k \in Nat \ {0} /\ k <= table.bits[l]
        BY <4>2
      <4>4. l \in 1..(IF IsDc(slot) THEN DC_LENGTHS ELSE HUFF_LENGTH_COUNT)
        BY <3>1
      <4> HIDE DEF slot
      <4>5. table.ptr[l] \in Nat /\ table.ptr[l] + k \in 1..Counted(slot)
        BY <1>1, <3>1, <4>3, <4>4, PointsWithin
      <4>6. ValueStream(info)[ValuesFrom(tc, th) + (table.ptr[l] + k)]
                = table.values[table.ptr[l] + k]
        BY <1>1, <4>5, ValuesStand DEF ValuesFrom, slot
      <4>7. ValuesFrom(tc, th) \in Nat
        BY JpuProgramAssumption DEF ValuesFrom
      <4> DEFINE from == ValuesFrom(tc, th)
                 ptr == table.ptr[l]
      <4>8. from + (ptr + k) = from + ptr + k
        <5> HIDE DEF from, ptr, table
        <5>1. from \in Nat /\ ptr \in Nat /\ k \in Nat
          BY <4>3, <4>5, <4>7 DEF from, ptr
        <5>2. QED
          BY <5>1
      <4>9. QED
        BY <4>6, <4>8
    <3>3. QED
      BY <3>2, Zenon DEF LengthInPlace
  <2>3. QED
    BY <2>1, <2>2, Zenon DEF HuffInPlace
<1>2. QED
  BY <1>1, HuffHolds, PTL
=============================================================================
