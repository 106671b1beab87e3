--------------------------- MODULE UvcStreamProofs ---------------------------
(***************************************************************************)
(* Proofs about the opening of a camera, for every configuration           *)
(* descriptor and every preference: the frame and the interval the camera  *)
(* is committed to, the endpoint and the alternate setting it streams on,  *)
(* the entities its settings are sent to and the settings left in them.    *)
(* Most compare a scan, which keeps a few running values, with the         *)
(* descriptor read as a whole.                                             *)
(***************************************************************************)
EXTENDS UvcControl, WellFoundedInduction, NaturalsInduction, FiniteSetTheorems, TLAPS

\* The frames of the streaming interfaces that the scan is past.
SeenFrames(m) == {k \in VsFrames : k < i /\ cfg[k].mjpeg = m}

\* pick was taken from frame descriptor k.
TakenFrom(pick, k) ==
    /\ pick.fmt = FormatOf(k) /\ pick.frame = cfg[k].ix
    /\ pick.w = cfg[k].w /\ pick.h = cfg[k].h
    /\ pick.ival = parse_vs_frame(cfg[k], FormatOf(k)).ival /\ ~ClampPanics(cfg[k])

\* A running pick is the best of the frames so far.
PickInv(o, m) ==
    \/ o = << >> /\ SeenFrames(m) = {}
    \/ /\ o # << >>
       /\ \E k \in SeenFrames(m) :
             /\ TakenFrom(o[1], k)
             /\ \A c \in SeenFrames(m) : frame_rank(cfg[c]) <= frame_rank(cfg[k])

\* The scan's running state says what the descriptor so far says.
ScanInv ==
    /\ cfg \in Configs
    /\ pc # "panic" =>
         /\ i \in 1..(Len(cfg) + 1)
         /\ cur.vs <=> InVs(i - 1)
         /\ fmtIx = FormatOf(i - 1)
         /\ PickInv(mjpeg, TRUE) /\ PickInv(uncomp, FALSE)

Pick == IF mjpeg # << >> THEN mjpeg[1] ELSE uncomp[1]

\* v has the frame that was picked.
ForPick(v) == v.fmt = Pick.fmt /\ v.frame = Pick.frame

IsSel(s) == s = [ifc |-> s.ifc, alt |-> s.alt, ep |-> s.ep, raw |-> s.raw, fmt |-> s.fmt,
                 frame |-> s.frame, interval |-> s.interval, payload |-> s.payload,
                 alts |-> s.alts]

IsProbe(v) == v = [fmt |-> v.fmt, frame |-> v.frame, ival |-> v.ival, payload |-> v.payload]

Starting == {"alt0", "setprobe", "getmax", "getprobe", "commit", "arm", "armed"}

\* The pick is handed on from the selection to PROBE, from there to the buffer of
\* start_stream, and to COMMIT.
HandInv ==
    /\ cam = [alt |-> cam.alt, probe |-> cam.probe, commit |-> cam.commit]
    /\ pc \in Starting =>
         /\ i > Len(cfg) /\ (mjpeg # << >> \/ uncomp # << >>)
         /\ IsSel(sel) /\ ForPick(sel)
    /\ pc \in {"getmax", "getprobe"} => IsProbe(cam.probe) /\ ForPick(cam.probe)
    /\ pc \in {"commit", "arm", "armed"} => ForPick(probe)
    /\ pc \in {"arm", "armed"} => cam.commit = probe

\* What the scan records of isochronous endpoint k.
AltOf(k) == [alt |-> cfg[ScopeOf(k)].alt, raw |-> cfg[k].raw]
BestRecord(k) ==
    [alt |-> cfg[ScopeOf(k)].alt, ep |-> cfg[k].ep, raw |-> cfg[k].raw, ifc |-> cfg[ScopeOf(k)].num]

Seen == {k \in IsochIn : k < i}

\* The table has room for every alternate setting of the camera.
TableHolds == Cardinality(IsochIn) <= MaxAlts

\* The endpoints found so far are the camera's, and while the table has room for
\* all of them none is missing.
EndpointInv ==
    pc # "panic" =>
      /\ ScopeOf(i - 1) # 0 => cur.num = cfg[ScopeOf(i - 1)].num /\ cur.alt = cfg[ScopeOf(i - 1)].alt
      /\ alts \in Seq({AltOf(k) : k \in IsochIn})
      /\ best = << >> \/ \E k \in IsochIn : best = <<BestRecord(k)>>
      /\ best # << >> => alts # << >>
      /\ Len(alts) <= Cardinality(Seen)
      /\ TableHolds => \A k \in Seen : \E n \in 1..Len(alts) : alts[n] = AltOf(k)

\* The entry of table t that Reselect takes for payload size p; without a payload
\* size the endpoint the scan ended with stays.
Entry(t, p) == IF BestFit(t, p) # << >> THEN BestFit(t, p)[1] ELSE Widest(t)[1]
Chosen(p) == IF alts = << >> \/ p = 0 THEN best[1] ELSE Entry(alts, p)

\* The picked interval as it comes back from nanoseconds.
PickTicks == to_uvc_ticks(from_uvc_ticks(Pick.ival))

\* The selection and what is asked of the camera agree with the scan, the camera's
\* answer and each other.
NegotiationInv ==
    /\ pc \in Starting =>
         /\ sel.interval = from_uvc_ticks(Pick.ival)
         /\ best # << >> /\ sel.ifc = best[1].ifc /\ sel.ep = best[1].ep /\ sel.alts = alts
    /\ pc \in {"alt0", "setprobe", "getmax", "getprobe"} =>
         sel.alt = best[1].alt /\ sel.raw = best[1].raw
    /\ pc \in {"getmax", "getprobe"} => cam.probe.ival = PickTicks
    /\ pc \in {"commit", "arm", "armed"} =>
         /\ probe.ival = PickTicks
         /\ cam.probe.payload \in Nat
         /\ sel.alt = Chosen(cam.probe.payload).alt /\ sel.raw = Chosen(cam.probe.payload).raw
         /\ wmax_mps(sel.raw) > 0 => probe.payload <= wmax_mps(sel.raw)
    /\ pc = "armed" => cam.alt = sel.alt

\* Entity id and bm were found among the descriptors of S before position n.
Found(S, n, id, bm) ==
    \/ id = 0 /\ \A k \in S : k >= n
    \/ \E k \in S : k < n /\ id = cfg[k].ix /\ bm = cfg[k].bm

\* The entities found so far are the last ones of the control interface so far.
EntityInv ==
    /\ cfg \in Configs
    /\ ci \in 1..(Len(cfg) + 1) /\ (cpc # "scan" => ci = Len(cfg) + 1)
    /\ inVc <=> InVc(ci - 1)
    /\ ent = [ifc |-> ent.ifc, ct |-> ent.ct, ctBm |-> ent.ctBm, pu |-> ent.pu, puBm |-> ent.puBm]
    /\ Found(Units, ci, ent.pu, ent.puBm) /\ Found(Terminals, ci, ent.ct, ent.ctBm)

-----------------------------------------------------------------------------
(* Scopes *)

LEMMA MaxIs ==
    ASSUME NEW S, \A x \in S : x \in Nat, NEW m \in S, \A y \in S : y <= m
    PROVE  Max(S) = m
<1>1. m \in S /\ \A y \in S : m >= y
  OBVIOUS
<1>2. Max(S) \in S /\ \A y \in S : Max(S) >= y
  BY <1>1 DEF Max
<1>3. QED
  BY <1>1, <1>2

LEMMA MinIs ==
    ASSUME NEW S, \A x \in S : x \in Nat, NEW m \in S, \A y \in S : m <= y
    PROVE  Min(S) = m
<1>1. m \in S /\ \A y \in S : m <= y
  OBVIOUS
<1>2. Min(S) \in S /\ \A y \in S : Min(S) <= y
  BY <1>1 DEF Min
<1>3. QED
  BY <1>1, <1>2

\* Where a set of positions ends when position n + 1 is or is not in it.
LEMMA LastPosition ==
    ASSUME NEW n \in Nat, NEW S, NEW T, \A x \in S : x \in 1..n,
           T = S \cup {n + 1}
    PROVE  T # {} /\ Max(T) = n + 1
<1>1. \A x \in T : x \in Nat /\ x <= n + 1
  OBVIOUS
<1>2. n + 1 \in T
  OBVIOUS
<1>3. QED
  BY <1>1, <1>2, MaxIs

LEMMA ScopeStep ==
    ASSUME NEW n \in Nat
    PROVE  /\ cfg[n + 1].ty = "interface" => ScopeOf(n + 1) = n + 1
           /\ cfg[n + 1].ty # "interface" => ScopeOf(n + 1) = ScopeOf(n)
<1> DEFINE Before(k) == {j \in 1..k : cfg[j].ty = "interface"}
<1>1. \A j : j \in 1..(n + 1) <=> j \in 1..n \/ j = n + 1
  OBVIOUS
<1>2. \A k : ScopeOf(k) = IF Before(k) = {} THEN 0 ELSE Max(Before(k))
  BY DEF ScopeOf
<1>3. CASE cfg[n + 1].ty = "interface"
  <2>1. Before(n + 1) = Before(n) \cup {n + 1} /\ \A x \in Before(n) : x \in 1..n
    BY <1>1, <1>3
  <2> HIDE DEF Before
  <2>2. Before(n + 1) # {} /\ Max(Before(n + 1)) = n + 1
    BY <2>1, LastPosition
  <2>3. QED
    BY <1>2, <1>3, <2>2
<1>4. CASE cfg[n + 1].ty # "interface"
  <2>1. Before(n + 1) = Before(n)
    BY <1>1, <1>4
  <2> HIDE DEF Before
  <2>2. QED
    BY <1>2, <1>4, <2>1
<1>5. QED
  BY <1>3, <1>4

LEMMA InVsStep ==
    ASSUME NEW n \in Nat
    PROVE  /\ cfg[n + 1].ty = "interface" => (InVs(n + 1) <=> cfg[n + 1].vs)
           /\ cfg[n + 1].ty # "interface" => (InVs(n + 1) <=> InVs(n))
<1>1. n + 1 # 0
  OBVIOUS
<1>2. QED
  BY <1>1, ScopeStep DEF InVs

LEMMA InVcStep ==
    ASSUME NEW n \in Nat
    PROVE  /\ cfg[n + 1].ty = "interface" => (InVc(n + 1) <=> cfg[n + 1].vc)
           /\ cfg[n + 1].ty # "interface" => (InVc(n + 1) <=> InVc(n))
<1>1. n + 1 # 0
  OBVIOUS
<1>2. QED
  BY <1>1, ScopeStep DEF InVc

LEMMA FormatStep ==
    ASSUME NEW n \in Nat
    PROVE  /\ cfg[n + 1].ty = "format" /\ InVs(n + 1) => FormatOf(n + 1) = cfg[n + 1].ix
           /\ ~(cfg[n + 1].ty = "format" /\ InVs(n + 1)) => FormatOf(n + 1) = FormatOf(n)
<1> DEFINE P(j) == cfg[j].ty = "format" /\ InVs(j)
<1> DEFINE Before(k) == {j \in 1..k : cfg[j].ty = "format" /\ InVs(j)}
<1>1. \A j : j \in 1..(n + 1) <=> j \in 1..n \/ j = n + 1
  OBVIOUS
<1>2. \A k : FormatOf(k) = IF Before(k) = {} THEN 0 ELSE cfg[Max(Before(k))].ix
  BY DEF FormatOf
<1>3. CASE P(n + 1)
  <2>1. Before(n + 1) = Before(n) \cup {n + 1} /\ \A x \in Before(n) : x \in 1..n
    BY <1>1, <1>3
  <2> HIDE DEF Before
  <2>2. Before(n + 1) # {} /\ Max(Before(n + 1)) = n + 1
    BY <2>1, LastPosition
  <2>3. QED
    BY <1>2, <1>3, <2>2
<1>4. CASE ~P(n + 1)
  <2>1. Before(n + 1) = Before(n)
    BY <1>1, <1>4
  <2> HIDE DEF Before
  <2>2. QED
    BY <1>2, <1>4, <2>1
<1>5. QED
  BY <1>3, <1>4

\* Before the first descriptor there is no interface and no format.
LEMMA NothingBefore == ~InVs(0) /\ ~InVc(0) /\ FormatOf(0) = 0
<1>1. 1..0 = {}
  OBVIOUS
<1>2. ScopeOf(0) = 0 /\ FormatOf(0) = 0
  BY <1>1 DEF ScopeOf, FormatOf
<1>3. QED
  BY <1>2 DEF InVs, InVc

-----------------------------------------------------------------------------
(* Recursion over the positions of a sequence *)

LEMMA SetInduction ==
    ASSUME NEW N \in Nat, NEW S, 0 \in S, \A n \in 0..(N - 1) : n \in S => n + 1 \in S
    PROVE  \A n \in 0..N : n \in S
<1> SUFFICES ASSUME NEW k \in 0..N, k \notin S PROVE FALSE
  OBVIOUS
<1> DEFINE T == {n \in 0..N : n \notin S}
<1>1. T \subseteq Nat /\ T # {}
  OBVIOUS
<1>2. PICK m \in T : \A y \in T : ~(<<y, m>> \in OpToRel(<, Nat))
  BY <1>1, NatLessThanWellFounded, WFMin
<1>3. m \in 1..N /\ m - 1 \in 0..(N - 1) /\ (m - 1) + 1 = m /\ m - 1 \in 0..N
  OBVIOUS
<1>4. m - 1 \in Nat /\ m \in Nat /\ m - 1 < m
  BY <1>3
<1>5. <<m - 1, m>> \in OpToRel(<, Nat)
  BY <1>4, Zenon DEF OpToRel
<1>6. m - 1 \notin T
  BY <1>2, <1>5
<1>7. QED
  BY <1>3, <1>6

\* g starts with base and goes from each position to the next with step.
Recursion(g, N, T, base, step) ==
    /\ g \in [0..N -> T]
    /\ g = [n \in 0..N |-> IF n = 0 THEN base ELSE step[n][g[n - 1]]]

\* A function defined by recursion exists.
LEMMA RecursionExists ==
    ASSUME NEW N \in Nat, NEW T, NEW base \in T, NEW step \in [1..N -> [T -> T]]
    PROVE  \E g : Recursion(g, N, T, base, step)
<1> DEFINE Is(k, g) == /\ g \in [0..k -> T]
                       /\ g = [n \in 0..k |-> IF n = 0 THEN base ELSE step[n][g[n - 1]]]
<1> DEFINE S == {k \in 0..N : \E g : Is(k, g)}
<1>1. 0 \in S
  <2>1. Is(0, [n \in 0..0 |-> base])
    OBVIOUS
  <2> HIDE DEF Is
  <2>2. \E g : Is(0, g)
    BY <2>1
  <2>3. QED
    BY <2>2
<1>2. ASSUME NEW k \in 0..(N - 1), k \in S PROVE k + 1 \in S
  <2>1. PICK g : Is(k, g)
    BY <1>2
  <2> DEFINE h == [n \in 0..(k + 1) |-> IF n = k + 1 THEN step[k + 1][g[k]] ELSE g[n]]
  <2>2. h \in [0..(k + 1) -> T]
    BY <2>1
  <2>3. ASSUME NEW n \in 0..(k + 1)
        PROVE  h[n] = IF n = 0 THEN base ELSE step[n][h[n - 1]]
    <3>1. CASE n = k + 1
      <4>1. n # 0 /\ n - 1 = k /\ k \in 0..(k + 1) /\ k # k + 1
        BY <3>1
      <4>2. h[k] = g[k] /\ h[n] = step[n][g[k]]
        BY <3>1, <4>1
      <4> HIDE DEF h
      <4>3. QED
        BY <4>1, <4>2
    <3>2. CASE n # k + 1
      <4>1. n \in 0..k /\ (n # 0 => n - 1 \in 0..(k + 1) /\ n - 1 # k + 1)
        BY <3>2
      <4>2. h[n] = g[n] /\ (n # 0 => h[n - 1] = g[n - 1])
        BY <3>2, <4>1
      <4>3. g[n] = IF n = 0 THEN base ELSE step[n][g[n - 1]]
        BY <2>1, <4>1
      <4> HIDE DEF h
      <4>4. QED
        BY <4>2, <4>3
    <3>3. QED
      BY <3>1, <3>2
  <2>4. h = [n \in 0..(k + 1) |-> IF n = 0 THEN base ELSE step[n][h[n - 1]]]
    BY <2>3
  <2>5. Is(k + 1, h)
    BY <2>2, <2>4
  <2> HIDE DEF h, Is
  <2>6. QED
    BY <2>5
<1> HIDE DEF S
<1>3. \A n \in 0..N : n \in S
  BY <1>1, <1>2, SetInduction
<1>4. N \in S
  BY <1>3
<1>5. QED
  BY <1>4 DEF S, Recursion

\* An option of X: nothing, or one of its elements.
Option(X) == {<< >>} \cup {<<v>> : v \in X}

\* g keeps, while going through x, the element at a position of E when it costs
\* less than the one kept so far.
KeepsCheapest(g, N, X, x, E, c) ==
    /\ g[0] = << >>
    /\ \A n \in 1..N : \A v \in X :
          /\ g[n - 1] = << >> => g[n] = IF n \in E THEN <<x[n]>> ELSE << >>
          /\ g[n - 1] = <<v>> => g[n] = IF n \in E /\ c[x[n]] < c[v] THEN <<x[n]>> ELSE <<v>>

\* o is nothing, or a cheapest element.
IsCheapest(o, x, E, c) ==
    \/ o = << >> /\ E = {}
    \/ \E m \in E : o = <<x[m]>> /\ \A k \in E : c[x[m]] <= c[x[k]]

LEMMA RunningBest ==
    ASSUME NEW N \in Nat, NEW X, NEW x \in [1..N -> X], NEW E \in SUBSET (1..N),
           NEW c \in [X -> Int], NEW g, KeepsCheapest(g, N, X, x, E, c)
    PROVE  IsCheapest(g[N], x, E, c)
<1> DEFINE Best(n, m) == m <= n /\ g[n] = <<x[m]>> /\ \A k \in E : k <= n => c[x[m]] <= c[x[k]]
<1> DEFINE S == {n \in 0..N : \/ g[n] = << >> /\ \A k \in E : k > n
                              \/ \E m \in E : Best(n, m)}
<1>0. \A k \in E : k \in Nat /\ k >= 1 /\ k <= N /\ x[k] \in X /\ c[x[k]] \in Int
  OBVIOUS
<1>1. 0 \in S
  BY <1>0 DEF KeepsCheapest
<1>2. ASSUME NEW n \in 0..(N - 1), n \in S PROVE n + 1 \in S
  <2>0. n + 1 \in 1..N /\ (n + 1) - 1 = n /\ n + 1 \in 0..N
    OBVIOUS
  <2>1. n + 1 \in 1..N /\ (n + 1) - 1 = n /\ n + 1 \in 0..N /\ x[n + 1] \in X /\ c[x[n + 1]] \in Int
    BY <2>0
  <2>2. ASSUME NEW k \in E PROVE (k <= n + 1 <=> k <= n \/ k = n + 1) /\ (k > n /\ k # n + 1 => k > n + 1)
    BY <1>0
  <2>3. CASE g[n] = << >> /\ \A k \in E : k > n
    <3>1. g[n + 1] = IF n + 1 \in E THEN <<x[n + 1]>> ELSE << >>
      BY <2>1, <2>3 DEF KeepsCheapest
    <3>2. CASE n + 1 \in E
      <4>1. \A k \in E : k <= n + 1 => k = n + 1
        BY <1>0, <2>2, <2>3
      <4>2. c[x[n + 1]] <= c[x[n + 1]] /\ n + 1 <= n + 1
        BY <2>1
      <4>3. Best(n + 1, n + 1)
        BY <3>1, <3>2, <4>1, <4>2
      <4> HIDE DEF Best
      <4>4. QED
        BY <2>1, <3>2, <4>3
    <3>3. CASE n + 1 \notin E
      <4>1. \A k \in E : k > n + 1
        BY <2>2, <2>3, <3>3
      <4>2. QED
        BY <2>1, <3>1, <3>3, <4>1
    <3>4. QED
      BY <3>2, <3>3
  <2>4. ASSUME NEW m \in E, Best(n, m) PROVE n + 1 \in S
    <3>1. /\ m <= n /\ g[n] = <<x[m]>> /\ x[m] \in X /\ c[x[m]] \in Int
          /\ \A k \in E : k <= n => c[x[m]] <= c[x[k]]
      BY <1>0, <2>4
    <3>2. g[n + 1] = IF n + 1 \in E /\ c[x[n + 1]] < c[x[m]] THEN <<x[n + 1]>> ELSE <<x[m]>>
      BY <2>1, <3>1 DEF KeepsCheapest
    <3>3. CASE n + 1 \in E /\ c[x[n + 1]] < c[x[m]]
      <4>1. ASSUME NEW k \in E, k <= n + 1 PROVE c[x[n + 1]] <= c[x[k]]
        <5>1. CASE k <= n
          <6>1. c[x[m]] <= c[x[k]] /\ c[x[k]] \in Int
            BY <1>0, <3>1, <5>1
          <6>2. QED
            BY <2>1, <3>1, <3>3, <6>1
        <5>2. CASE k = n + 1
          BY <2>1, <5>2
        <5>3. QED
          BY <2>2, <4>1, <5>1, <5>2
      <4>2. Best(n + 1, n + 1)
        BY <2>1, <3>2, <3>3, <4>1
      <4> HIDE DEF Best
      <4>3. QED
        BY <2>1, <3>3, <4>2
    <3>4. CASE ~(n + 1 \in E /\ c[x[n + 1]] < c[x[m]])
      <4>1. ASSUME NEW k \in E, k <= n + 1 PROVE c[x[m]] <= c[x[k]]
        <5>1. CASE k <= n
          BY <3>1, <5>1
        <5>2. CASE k = n + 1
          BY <2>1, <3>1, <3>4, <5>2
        <5>3. QED
          BY <2>2, <4>1, <5>1, <5>2
      <4>2. m <= n + 1
        <5>1. m \in Nat /\ n \in Nat
          BY <1>0
        <5>2. QED
          BY <3>1, <5>1
      <4>3. Best(n + 1, m)
        BY <3>2, <3>4, <4>1, <4>2
      <4> HIDE DEF Best
      <4>4. QED
        BY <2>1, <4>3
    <3>5. QED
      BY <3>3, <3>4
  <2>5. QED
    BY <1>2, <2>3, <2>4
<1> HIDE DEF S
<1>3. \A n \in 0..N : n \in S
  BY <1>1, <1>2, SetInduction
<1>4. N \in S
  BY <1>3
<1>5. QED
  BY <1>0, <1>4 DEF S, IsCheapest

-----------------------------------------------------------------------------
(* The scan for a stream *)

LEMMA ConfigFacts ==
    ASSUME cfg \in Configs
    PROVE  /\ Len(cfg) \in Nat /\ DOMAIN cfg = 1..Len(cfg)
           /\ \A k \in DOMAIN cfg :
                 /\ cfg[k].ty = "interface" => cfg[k].vs \in BOOLEAN
                 /\ cfg[k].ty = "frame" =>
                       /\ cfg[k].w \in Nat /\ cfg[k].h \in Nat /\ cfg[k].mjpeg \in BOOLEAN
                       /\ cfg[k].dflt \in Nat /\ cfg[k].ivals \in Seq(Nat)
                       /\ cfg[k].continuous \in BOOLEAN
                 /\ cfg[k].ty = "endpoint" => cfg[k].raw \in Nat
  BY UvcStreamAssumption

LEMMA Products == \A a, b \in Nat : a * b \in Nat
  OBVIOUS

\* Ranks can be compared.
LEMMA RankType ==
    ASSUME NEW f, f.w \in Nat, f.h \in Nat
    PROVE  frame_rank(f) \in Int
<1>1. f.w * f.h \in Nat /\ PrefArea \in Nat
  BY Products, UvcStreamAssumption DEF PrefArea
<1>2. QED
  BY <1>1 DEF frame_rank, EXACT_RANK

\* What the frames seen become with the next descriptor.
LEMMA SeenStep ==
    ASSUME ScanInv, pc # "panic", NEW m \in BOOLEAN,
           i \in DOMAIN cfg, i' = i + 1, cfg' = cfg
    PROVE  SeenFrames(m)' = SeenFrames(m) \cup
              (IF cfg[i].ty = "frame" /\ InVs(i) /\ cfg[i].mjpeg = m THEN {i} ELSE {})
<1>1. i \in Nat /\ \A k \in DOMAIN cfg : k \in Nat
  BY ConfigFacts DEF ScanInv
<1>2. \A k \in DOMAIN cfg : k < i + 1 <=> k < i \/ k = i
  BY <1>1
<1>3. VsFrames' = VsFrames
  BY DEF VsFrames, InVs, ScopeOf
<1>4. SeenFrames(m)' = {k \in VsFrames : k < i + 1 /\ cfg[k].mjpeg = m}
  BY <1>3 DEF SeenFrames
<1>5. \A k \in VsFrames : k \in DOMAIN cfg
  BY DEF VsFrames
<1>6. i \in VsFrames <=> cfg[i].ty = "frame" /\ InVs(i)
  BY DEF VsFrames
<1>7. CASE cfg[i].ty = "frame" /\ InVs(i) /\ cfg[i].mjpeg = m
  <2>1. \A k : k \in SeenFrames(m)' <=> k \in SeenFrames(m) \cup {i}
    BY <1>2, <1>4, <1>5, <1>6, <1>7 DEF SeenFrames
  <2>2. QED
    BY <1>7, <2>1
<1>8. CASE ~(cfg[i].ty = "frame" /\ InVs(i) /\ cfg[i].mjpeg = m)
  <2>1. \A k : k \in SeenFrames(m)' <=> k \in SeenFrames(m)
    BY <1>2, <1>4, <1>5, <1>6, <1>8 DEF SeenFrames
  <2>2. QED
    BY <1>8, <2>1
<1>9. QED
  BY <1>7, <1>8

\* A pick stays the best while no further frame is seen.
LEMMA PickStays ==
    ASSUME NEW o, NEW m, PickInv(o, m), SeenFrames(m)' = SeenFrames(m), cfg' = cfg
    PROVE  PickInv(o, m)'
<1>1. \A k : FormatOf(k)' = FormatOf(k)
  BY DEF FormatOf, InVs, ScopeOf
<1>2. QED
  BY <1>1 DEF PickInv, TakenFrom, frame_rank

\* The next frame is taken if it is the first or better than the pick so far.
LEMMA PickStep ==
    ASSUME ScanInv, pc # "panic", i \in DOMAIN cfg, cfg[i].ty = "frame", InVs(i), cfg' = cfg,
           NEW m \in BOOLEAN, NEW o, PickInv(o, m), SeenFrames(m)' = SeenFrames(m) \cup {i},
           NEW pick, TakenFrom(pick, i), NEW n,
           n = IF o = << >> \/ frame_rank(pick) > frame_rank(o[1]) THEN <<pick>> ELSE o
    PROVE  PickInv(n, m)'
<1>0. \A k : FormatOf(k)' = FormatOf(k)
  BY DEF FormatOf, InVs, ScopeOf
<1>1. \A k \in SeenFrames(m) \cup {i} : frame_rank(cfg[k]) \in Int
  <2>1. \A k \in SeenFrames(m) \cup {i} : cfg[k].w \in Nat /\ cfg[k].h \in Nat
    BY ConfigFacts DEF SeenFrames, VsFrames, ScanInv
  <2>2. QED
    BY <2>1, RankType
<1>2. frame_rank(pick) = frame_rank(cfg[i])
  BY DEF TakenFrom, frame_rank
<1>3. ASSUME NEW k \in SeenFrames(m) \cup {i}, n # << >>, TakenFrom(n[1], k),
             \A c \in SeenFrames(m) \cup {i} : frame_rank(cfg[c]) <= frame_rank(cfg[k])
      PROVE  PickInv(n, m)'
  BY <1>0, <1>3 DEF PickInv, TakenFrom, frame_rank
<1>4. CASE o = << >> /\ SeenFrames(m) = {}
  <2>1. n # << >> /\ n[1] = pick
    BY <1>4
  <2>2. frame_rank(cfg[i]) <= frame_rank(cfg[i])
    BY <1>1
  <2>3. \A c \in SeenFrames(m) \cup {i} : c = i
    BY <1>4
  <2>4. QED
    BY <1>3, <2>1, <2>2, <2>3
<1>5. CASE o # << >>
  <2>1. PICK k \in SeenFrames(m) :
            /\ TakenFrom(o[1], k)
            /\ \A c \in SeenFrames(m) : frame_rank(cfg[c]) <= frame_rank(cfg[k])
    BY <1>5 DEF PickInv
  <2>2. frame_rank(o[1]) = frame_rank(cfg[k])
    BY <2>1 DEF TakenFrom, frame_rank
  <2> DEFINE R(c) == frame_rank(cfg[c])
  <2>3. \A c \in SeenFrames(m) \cup {i} : R(c) \in Int
    BY <1>1
  <2>4. \A c \in SeenFrames(m) : R(c) <= R(k)
    BY <2>1
  <2>5. CASE frame_rank(pick) > frame_rank(o[1])
    <3>1. n # << >> /\ n[1] = pick
      BY <2>5
    <3>2. R(i) > R(k)
      BY <1>2, <2>2, <2>5
    <3> HIDE DEF R
    <3>3. \A c \in SeenFrames(m) \cup {i} : R(c) <= R(i)
      BY <2>3, <2>4, <3>2
    <3>4. QED
      BY <1>3, <3>1, <3>3 DEF R
  <2>6. CASE ~(frame_rank(pick) > frame_rank(o[1]))
    <3>1. n = o
      BY <1>5, <2>6
    <3>2. ~(R(i) > R(k))
      BY <1>2, <2>2, <2>6
    <3> HIDE DEF R
    <3>3. \A c \in SeenFrames(m) \cup {i} : R(c) <= R(k)
      BY <2>3, <2>4, <3>2
    <3>4. QED
      BY <1>3, <1>5, <2>1, <3>1, <3>3 DEF R
  <2>7. QED
    BY <2>5, <2>6
<1>6. QED
  BY <1>4, <1>5 DEF PickInv

LEMMA ScanStep ==
    ASSUME ScanInv, [Next]_vars
    PROVE  ScanInv'
<1>0. /\ Len(cfg) \in Nat /\ DOMAIN cfg = 1..Len(cfg) /\ cfg \in Configs
      /\ pc # "panic" => i \in Nat \ {0} /\ i - 1 \in Nat
  <2>1. cfg \in Configs /\ (pc # "panic" => i \in 1..(Len(cfg) + 1))
    BY DEF ScanInv
  <2>2. Len(cfg) \in Nat /\ DOMAIN cfg = 1..Len(cfg)
    BY <2>1, ConfigFacts
  <2>3. QED
    BY <2>1, <2>2
\* Steps that do not scan.
<1>1. ASSUME UNCHANGED <<cfg, i, cur, fmtIx, mjpeg, uncomp>>, pc # "panic" \/ pc' = "panic"
      PROVE  ScanInv'
  <2>1. /\ \A x : (InVs(x)' <=> InVs(x)) /\ FormatOf(x)' = FormatOf(x)
        /\ \A m : SeenFrames(m)' = SeenFrames(m)
    BY <1>1 DEF SeenFrames, VsFrames, FormatOf, InVs, ScopeOf
  <2>2. CASE pc' = "panic"
    BY <1>0, <1>1, <2>2 DEF ScanInv
  <2>3. CASE pc # "panic"
    <3>1. PickInv(mjpeg, TRUE) /\ PickInv(uncomp, FALSE)
      BY <2>3 DEF ScanInv
    <3>2. PickInv(mjpeg, TRUE)' /\ PickInv(uncomp, FALSE)'
      BY <1>1, <2>1, <3>1, PickStays
    <3>3. (cur'.vs <=> InVs(i - 1)') /\ fmtIx' = FormatOf(i - 1)'
      BY <1>1, <2>1, <2>3 DEF ScanInv
    <3>4. QED
      BY <1>0, <1>1, <2>3, <3>2, <3>3 DEF ScanInv
  <2>4. QED
    BY <1>1, <2>2, <2>3
\* A descriptor that is not a frame of a streaming interface leaves the picks.
<1>2. ASSUME pc = "scan", i <= Len(cfg), i' = i + 1, UNCHANGED <<cfg, pc, mjpeg, uncomp>>,
             ~(cfg[i].ty = "frame" /\ InVs(i)),
             cur'.vs <=> InVs(i), fmtIx' = FormatOf(i)
      PROVE  ScanInv'
  <2>1. i \in DOMAIN cfg /\ i' \in 1..(Len(cfg) + 1) /\ i' - 1 = i
    BY <1>0, <1>2
  <2>2. SeenFrames(TRUE)' = SeenFrames(TRUE) /\ SeenFrames(FALSE)' = SeenFrames(FALSE)
    BY <1>2, <2>1, SeenStep
  <2>3. PickInv(mjpeg, TRUE) /\ PickInv(uncomp, FALSE)
    BY <1>2 DEF ScanInv
  <2>4. PickInv(mjpeg, TRUE)' /\ PickInv(uncomp, FALSE)'
    BY <1>2, <2>2, <2>3, PickStays
  <2>5. \A x : (InVs(x)' <=> InVs(x)) /\ FormatOf(x)' = FormatOf(x)
    BY <1>2 DEF InVs, ScopeOf, FormatOf
  <2>6. (cur'.vs <=> InVs(i - 1)') /\ fmtIx' = FormatOf(i - 1)'
    BY <1>2, <2>1, <2>5
  <2>7. QED
    BY <1>0, <1>2, <2>1, <2>4, <2>6 DEF ScanInv
<1>3. ASSUME pc = "scan", i <= Len(cfg)
      PROVE  /\ i \in DOMAIN cfg /\ pc # "panic"
             /\ cfg[i].ty # "interface" => (cur.vs <=> InVs(i))
             /\ cfg[i].ty = "interface" => (cfg[i].vs <=> InVs(i))
             /\ ~(cfg[i].ty = "format" /\ InVs(i)) => FormatOf(i) = fmtIx
             /\ cfg[i].ty = "format" /\ InVs(i) => FormatOf(i) = cfg[i].ix
  <2>1. i \in DOMAIN cfg /\ pc # "panic" /\ i - 1 \in Nat /\ (i - 1) + 1 = i
    BY <1>0, <1>3
  <2>2. (cur.vs <=> InVs(i - 1)) /\ fmtIx = FormatOf(i - 1)
    BY <2>1 DEF ScanInv
  <2>3. /\ cfg[i].ty = "interface" => (InVs(i) <=> cfg[i].vs)
        /\ cfg[i].ty # "interface" => (InVs(i) <=> InVs(i - 1))
    BY <2>1, InVsStep
  <2>4. /\ cfg[i].ty = "format" /\ InVs(i) => FormatOf(i) = cfg[i].ix
        /\ ~(cfg[i].ty = "format" /\ InVs(i)) => FormatOf(i) = FormatOf(i - 1)
    BY <2>1, FormatStep
  <2>5. QED
    BY <2>1, <2>2, <2>3, <2>4
<1>4. CASE ScanInterface
  <2>1. /\ pc = "scan" /\ i <= Len(cfg) /\ i' = i + 1 /\ cfg[i].ty = "interface"
        /\ UNCHANGED <<cfg, pc, mjpeg, uncomp, fmtIx>> /\ cur'.vs = cfg[i].vs
    BY <1>4 DEF ScanInterface, AtDesc
  <2>2. QED
    BY <1>2, <1>3, <2>1
<1>5. CASE ScanFormat
  <2>1. /\ pc = "scan" /\ i <= Len(cfg) /\ i' = i + 1 /\ cfg[i].ty = "format"
        /\ UNCHANGED <<cfg, pc, mjpeg, uncomp, cur>>
        /\ fmtIx' = IF cur.vs THEN cfg[i].ix ELSE fmtIx
    BY <1>5 DEF ScanFormat, AtDesc
  <2>2. fmtIx' = FormatOf(i)
    BY <1>3, <2>1
  <2>3. QED
    BY <1>2, <1>3, <2>1, <2>2
<1>6. CASE ScanFrame
  <2> DEFINE pick == parse_vs_frame(cfg[i], fmtIx)
  <2> DEFINE prev == IF pick.mjpeg THEN mjpeg ELSE uncomp
  <2> DEFINE beats == InStreaming /\ (prev = << >> \/ frame_rank(pick) > frame_rank(prev[1]))
  <2>1. /\ pc = "scan" /\ i <= Len(cfg) /\ i' = i + 1 /\ cfg[i].ty = "frame"
        /\ UNCHANGED <<cfg, pc, fmtIx, cur>>
        /\ mjpeg' = IF beats /\ pick.mjpeg THEN <<pick>> ELSE mjpeg
        /\ uncomp' = IF beats /\ ~pick.mjpeg THEN <<pick>> ELSE uncomp
        /\ ~(InStreaming /\ ClampPanics(cfg[i]))
    BY <1>6 DEF ScanFrame, AtDesc
  <2>2. /\ i \in DOMAIN cfg /\ pc # "panic" /\ (cur.vs <=> InVs(i)) /\ FormatOf(i) = fmtIx
    BY <1>3, <2>1
  <2>3. (InVs(i) => TakenFrom(pick, i)) /\ pick.mjpeg = cfg[i].mjpeg /\ cfg[i].mjpeg \in BOOLEAN
    <3>1. /\ pick.fmt = fmtIx /\ pick.frame = cfg[i].ix /\ pick.w = cfg[i].w /\ pick.h = cfg[i].h
          /\ pick.mjpeg = cfg[i].mjpeg
      BY DEF parse_vs_frame
    <3>2. InVs(i) => ~ClampPanics(cfg[i])
      BY <2>1, <2>2 DEF InStreaming
    <3>3. cfg[i].mjpeg \in BOOLEAN
      BY <1>0, <2>1, <2>2, ConfigFacts
    <3>4. QED
      BY <2>2, <3>1, <3>2, <3>3 DEF TakenFrom
  <2> HIDE DEF pick
  <2>4. CASE ~InVs(i)
    <3>1. UNCHANGED <<mjpeg, uncomp>>
      BY <2>1, <2>2, <2>4 DEF InStreaming
    <3>2. QED
      BY <1>2, <2>1, <2>2, <2>4, <3>1
  <2>5. CASE InVs(i)
    <3>1. PickInv(mjpeg, TRUE) /\ PickInv(uncomp, FALSE)
      BY <2>2 DEF ScanInv
    <3>2. ASSUME cfg[i].mjpeg = TRUE
          PROVE  PickInv(mjpeg, TRUE)' /\ PickInv(uncomp, FALSE)'
      <4>1. SeenFrames(TRUE)' = SeenFrames(TRUE) \cup {i} /\ SeenFrames(FALSE)' = SeenFrames(FALSE)
        BY <2>1, <2>2, <2>5, <3>2, SeenStep
      <4>2. /\ mjpeg' = IF mjpeg = << >> \/ frame_rank(pick) > frame_rank(mjpeg[1])
                        THEN <<pick>> ELSE mjpeg
            /\ uncomp' = uncomp
        BY <2>1, <2>2, <2>3, <2>5, <3>2 DEF InStreaming
      <4>3. PickInv(mjpeg, TRUE)'
        BY <2>1, <2>2, <2>3, <2>5, <3>1, <4>1, <4>2, PickStep
      <4>4. PickInv(uncomp, FALSE)'
        BY <2>1, <3>1, <4>1, <4>2, PickStays
      <4>5. QED
        BY <4>3, <4>4
    <3>3. ASSUME cfg[i].mjpeg = FALSE
          PROVE  PickInv(mjpeg, TRUE)' /\ PickInv(uncomp, FALSE)'
      <4>1. SeenFrames(FALSE)' = SeenFrames(FALSE) \cup {i} /\ SeenFrames(TRUE)' = SeenFrames(TRUE)
        BY <2>1, <2>2, <2>5, <3>3, SeenStep
      <4>2. /\ uncomp' = IF uncomp = << >> \/ frame_rank(pick) > frame_rank(uncomp[1])
                         THEN <<pick>> ELSE uncomp
            /\ mjpeg' = mjpeg
        BY <2>1, <2>2, <2>3, <2>5, <3>3 DEF InStreaming
      <4>3. PickInv(uncomp, FALSE)'
        BY <2>1, <2>2, <2>3, <2>5, <3>1, <4>1, <4>2, PickStep
      <4>4. PickInv(mjpeg, TRUE)'
        BY <2>1, <3>1, <4>1, <4>2, PickStays
      <4>5. QED
        BY <4>3, <4>4
    <3>4. PickInv(mjpeg, TRUE)' /\ PickInv(uncomp, FALSE)'
      BY <2>3, <3>2, <3>3
    <3>5. \A x : (InVs(x)' <=> InVs(x)) /\ FormatOf(x)' = FormatOf(x)
      BY <2>1 DEF InVs, ScopeOf, FormatOf
    <3>6. i' \in 1..(Len(cfg) + 1) /\ i' - 1 = i
      BY <1>0, <2>1, <2>2
    <3>7. (cur'.vs <=> InVs(i - 1)') /\ fmtIx' = FormatOf(i - 1)'
      BY <2>1, <2>2, <3>5, <3>6
    <3>8. QED
      BY <1>0, <2>1, <3>4, <3>6, <3>7 DEF ScanInv
  <2>6. QED
    BY <2>4, <2>5
<1>7. CASE ScanFramePanics
  BY <1>0, <1>7 DEF ScanFramePanics, ScanInv
<1>8. CASE ScanEndpoint \/ ScanOther
  <2>1. /\ pc = "scan" /\ i <= Len(cfg) /\ i' = i + 1 /\ cfg[i].ty \in {"endpoint", "other", "terminal"}
        /\ UNCHANGED <<cfg, pc, mjpeg, uncomp, fmtIx, cur>>
    BY <1>8 DEF ScanEndpoint, ScanOther, AtDesc
  <2>2. QED
    BY <1>2, <1>3, <2>1
<1>9. CASE ScanFails \/ Select
  BY <1>1, <1>9 DEF ScanFails, Select, scanVars
<1>10. CASE \/ SetAlt0 \/ SetProbe \/ SetProbeFails \/ GetMax
            \/ GetProbe \/ GetProbeFails \/ SetCommit \/ SetCommitFails \/ Arm \/ ArmFails
  BY <1>1, <1>10 DEF SetAlt0, SetProbe, SetProbeFails, GetMax, GetProbe, GetProbeFails,
     SetCommit, SetCommitFails, Arm, ArmFails, Ok, Fails, scanVars
<1>11. CASE UNCHANGED vars
  <2>1. UNCHANGED <<cfg, i, cur, fmtIx, mjpeg, uncomp, pc>>
    BY <1>11 DEF vars, scanVars
  <2>2. QED
    BY <1>1, <2>1
<1>12. QED
  BY <1>4, <1>5, <1>6, <1>7, <1>8, <1>9, <1>10, <1>11 DEF Next

LEMMA ScanBegins == Init => ScanInv
<1> SUFFICES ASSUME Init PROVE ScanInv
  OBVIOUS
<1>1. /\ cfg \in Configs /\ i = 1 /\ cur.vs = FALSE /\ fmtIx = 0
      /\ mjpeg = << >> /\ uncomp = << >> /\ i - 1 = 0
  BY DEF Init
<1>2. Len(cfg) \in Nat /\ \A k \in DOMAIN cfg : k \in Nat \ {0}
  BY <1>1, ConfigFacts
<1>3. SeenFrames(TRUE) = {} /\ SeenFrames(FALSE) = {}
  BY <1>1, <1>2 DEF SeenFrames, VsFrames
<1>4. PickInv(mjpeg, TRUE) /\ PickInv(uncomp, FALSE)
  BY <1>1, <1>3 DEF PickInv
<1>5. i \in 1..(Len(cfg) + 1)
  BY <1>1, <1>2
<1>6. (cur.vs <=> InVs(i - 1)) /\ fmtIx = FormatOf(i - 1)
  BY <1>1, NothingBefore
<1>7. QED
  BY <1>1, <1>4, <1>5, <1>6 DEF ScanInv

-----------------------------------------------------------------------------
(* From the pick to COMMIT *)

\* What a request may do to the camera.
LEMMA CamSet ==
    ASSUME cam = [alt |-> cam.alt, probe |-> cam.probe, commit |-> cam.commit], NEW v
    PROVE  /\ CamIs("alt", v) => cam' = [alt |-> v, probe |-> cam.probe, commit |-> cam.commit]
           /\ CamIs("probe", v) => cam' = [alt |-> cam.alt, probe |-> v, commit |-> cam.commit]
           /\ CamIs("commit", v) => cam' = [alt |-> cam.alt, probe |-> cam.probe, commit |-> v]
<1>1. ASSUME NEW a, NEW b, NEW d
      PROVE  /\ [[alt |-> a, probe |-> b, commit |-> d] EXCEPT !.alt = v] =
                    [alt |-> v, probe |-> b, commit |-> d]
             /\ [[alt |-> a, probe |-> b, commit |-> d] EXCEPT !.probe = v] =
                    [alt |-> a, probe |-> v, commit |-> d]
             /\ [[alt |-> a, probe |-> b, commit |-> d] EXCEPT !.commit = v] =
                    [alt |-> a, probe |-> b, commit |-> v]
  OBVIOUS
<1>2. /\ [cam EXCEPT !["alt"] = v] = [cam EXCEPT !.alt = v]
      /\ [cam EXCEPT !["probe"] = v] = [cam EXCEPT !.probe = v]
      /\ [cam EXCEPT !["commit"] = v] = [cam EXCEPT !.commit = v]
  OBVIOUS
<1>3. /\ [cam EXCEPT !.alt = v] = [alt |-> v, probe |-> cam.probe, commit |-> cam.commit]
      /\ [cam EXCEPT !.probe = v] = [alt |-> cam.alt, probe |-> v, commit |-> cam.commit]
      /\ [cam EXCEPT !.commit = v] = [alt |-> cam.alt, probe |-> cam.probe, commit |-> v]
  BY <1>1
<1>4. QED
  BY <1>2, <1>3 DEF CamIs

\* A selection under another alternate setting.
WithAlt(s, v, w) == [s EXCEPT !.alt = v, !.raw = w]

SelOf(s, alt, raw, payload) ==
    [ifc |-> s.ifc, alt |-> alt, ep |-> s.ep, raw |-> raw, fmt |-> s.fmt,
     frame |-> s.frame, interval |-> s.interval, payload |-> payload, alts |-> s.alts]

LEMMA SelOfIsSel ==
    ASSUME NEW s, NEW a, NEW r, NEW p
    PROVE  /\ IsSel(SelOf(s, a, r, p))
           /\ SelOf(s, a, r, p).fmt = s.fmt /\ SelOf(s, a, r, p).frame = s.frame
  BY DEF IsSel, SelOf

LEMMA PayloadSet ==
    ASSUME NEW s, IsSel(s), NEW v
    PROVE  [s EXCEPT !.payload = v] = SelOf(s, s.alt, s.raw, v)
<1>1. s = SelOf(s, s.alt, s.raw, s.payload)
  BY DEF IsSel, SelOf
<1>2. ASSUME NEW a, NEW r, NEW p
      PROVE  [SelOf(s, a, r, p) EXCEPT !.payload = v] = SelOf(s, a, r, v)
  BY DEF SelOf
<1>3. QED
  BY <1>1, <1>2

LEMMA SelSet ==
    ASSUME NEW s, IsSel(s), NEW v
    PROVE  /\ IsSel([s EXCEPT !.payload = v])
           /\ [s EXCEPT !.payload = v].fmt = s.fmt /\ [s EXCEPT !.payload = v].frame = s.frame
  BY PayloadSet, SelOfIsSel

LEMMA AltSet ==
    ASSUME NEW s, IsSel(s), NEW v, NEW w
    PROVE  WithAlt(s, v, w) = SelOf(s, v, w, s.payload)
<1>1. s = SelOf(s, s.alt, s.raw, s.payload)
  BY DEF IsSel, SelOf
<1>2. ASSUME NEW a, NEW r, NEW p
      PROVE  /\ [SelOf(s, a, r, p) EXCEPT !.alt = v] = SelOf(s, v, r, p)
             /\ [SelOf(s, a, r, p) EXCEPT !.raw = w] = SelOf(s, a, w, p)
  BY DEF SelOf
<1>3. [s EXCEPT !.alt = v] = SelOf(s, v, s.raw, s.payload)
  BY <1>1, <1>2
<1>4. [SelOf(s, v, s.raw, s.payload) EXCEPT !.raw = w] = SelOf(s, v, w, s.payload)
  BY <1>2
<1>5. WithAlt(s, v, w) = [[s EXCEPT !.alt = v] EXCEPT !.raw = w]
  BY DEF WithAlt
<1>6. QED
  BY ONLY <1>3, <1>4, <1>5

LEMMA ProbeSet ==
    ASSUME NEW v, IsProbe(v), NEW x
    PROVE  /\ IsProbe([v EXCEPT !.payload = x])
           /\ [v EXCEPT !.payload = x].fmt = v.fmt /\ [v EXCEPT !.payload = x].frame = v.frame
<1>1. [v EXCEPT !.payload = x] = [fmt |-> v.fmt, frame |-> v.frame, ival |-> v.ival, payload |-> x]
  BY DEF IsProbe
<1>2. QED
  BY <1>1 DEF IsProbe

\* Choosing another alternate setting leaves the frame.
LEMMA ReselectKeeps ==
    ASSUME NEW s, IsSel(s)
    PROVE  IsSel(Reselect(s)) /\ Reselect(s).fmt = s.fmt /\ Reselect(s).frame = s.frame
<1>1. Reselect(s) = s \/ \E v, w : Reselect(s) = WithAlt(s, v, w)
  BY Zenon DEF Reselect, WithAlt
<1>2. CASE Reselect(s) = s
  BY <1>2
<1>3. ASSUME NEW v, NEW w, Reselect(s) = WithAlt(s, v, w)
      PROVE  IsSel(Reselect(s)) /\ Reselect(s).fmt = s.fmt /\ Reselect(s).frame = s.frame
  <2>1. Reselect(s) = SelOf(s, v, w, s.payload)
    BY <1>3, AltSet
  <2>2. QED
    BY <2>1, SelOfIsSel
<1>4. QED
  BY <1>1, <1>2, <1>3

LEMMA HandStep ==
    ASSUME HandInv, [Next]_vars
    PROVE  HandInv'
<1>0. /\ cam = [alt |-> cam.alt, probe |-> cam.probe, commit |-> cam.commit]
      /\ {"scan", "error", "panic"} \cap Starting = {}
  BY DEF HandInv, Starting
\* The scan, and what ends the opening.
<1>1. ASSUME pc' \in {"scan", "error", "panic"},
             cam' = [alt |-> cam'.alt, probe |-> cam'.probe, commit |-> cam'.commit]
      PROVE  HandInv'
  BY <1>1 DEF HandInv, Starting
<1>2. CASE \/ ScanInterface \/ ScanFormat \/ ScanFrame \/ ScanFramePanics
           \/ ScanEndpoint \/ ScanOther \/ ScanFails
  <2>1. pc' \in {"scan", "error", "panic"} /\ cam' = cam
    BY <1>2 DEF ScanInterface, ScanFormat, ScanFrame, ScanFramePanics, ScanEndpoint, ScanOther,
       ScanFails, AtDesc
  <2>2. QED
    BY <1>0, <1>1, <2>1
<1>3. CASE Select
  <2>1. /\ pc = "scan" /\ i > Len(cfg) /\ (mjpeg # << >> \/ uncomp # << >>) /\ pc' = "alt0"
        /\ UNCHANGED <<cfg, i, mjpeg, uncomp, cam>>
        /\ sel' = [ifc |-> best[1].ifc, alt |-> best[1].alt, ep |-> best[1].ep,
                   raw |-> best[1].raw, fmt |-> Pick.fmt, frame |-> Pick.frame,
                   interval |-> from_uvc_ticks(Pick.ival), payload |-> 0, alts |-> alts]
    BY <1>3 DEF Select, scanVars, Pick
  <2>2. IsSel(sel') /\ sel'.fmt = Pick.fmt /\ sel'.frame = Pick.frame
    BY <2>1 DEF IsSel
  <2>3. Pick' = Pick
    BY <2>1 DEF Pick
  <2>4. QED
    BY <1>0, <2>1, <2>2, <2>3 DEF HandInv, Starting, ForPick, IsSel
\* The steps of start_stream.
<1>4. ASSUME pc \in Starting, UNCHANGED scanVars
      PROVE  /\ Pick' = Pick /\ UNCHANGED <<cfg, i, mjpeg, uncomp>>
             /\ i > Len(cfg) /\ (mjpeg # << >> \/ uncomp # << >>) /\ IsSel(sel) /\ ForPick(sel)
  BY <1>4 DEF HandInv, scanVars, Pick
<1>5. CASE SetProbeFails \/ GetProbeFails \/ SetCommitFails \/ ArmFails
  <2>1. pc' = "error"
    BY <1>5 DEF SetProbeFails, GetProbeFails, SetCommitFails, ArmFails, Fails
  <2>2. cam' = [alt |-> cam'.alt, probe |-> cam'.probe, commit |-> cam'.commit]
    BY <1>0, <1>5, CamSet DEF SetProbeFails, GetProbeFails, SetCommitFails, ArmFails
  <2>3. QED
    BY <1>1, <2>1, <2>2
<1>6. CASE SetAlt0
  <2>1. pc = "alt0" /\ pc' = "setprobe" /\ UNCHANGED <<scanVars, sel>>
    BY <1>6 DEF SetAlt0, Ok
  <2>2. cam' = [alt |-> cam'.alt, probe |-> cam'.probe, commit |-> cam'.commit]
    BY <1>0, <1>6, CamSet DEF SetAlt0
  <2>3. QED
    BY <1>4, <2>1, <2>2 DEF HandInv, Starting, ForPick, IsSel
<1>7. CASE SetProbe
  <2>1. /\ pc = "setprobe" /\ pc' = "getmax" /\ UNCHANGED <<scanVars, sel>>
        /\ CamIs("probe", build_probe_commit_payload)
    BY <1>7 DEF SetProbe, Ok
  <2>2. cam' = [alt |-> cam.alt, probe |-> build_probe_commit_payload, commit |-> cam.commit]
    BY <1>0, <2>1, CamSet
  <2>3. /\ cam' = [alt |-> cam'.alt, probe |-> cam'.probe, commit |-> cam'.commit]
        /\ cam'.probe = build_probe_commit_payload
    BY <2>2
  <2>4. IsProbe(cam'.probe) /\ cam'.probe.fmt = sel.fmt /\ cam'.probe.frame = sel.frame
    BY <2>3 DEF IsProbe, build_probe_commit_payload
  <2>5. QED
    BY <1>4, <2>1, <2>3, <2>4 DEF HandInv, Starting, ForPick, IsSel, IsProbe
<1>8. CASE GetMax
  <2>1. pc = "getmax" /\ pc' = "getprobe" /\ UNCHANGED <<scanVars, sel, cam>>
    BY <1>8 DEF GetMax, Ok
  <2>2. QED
    BY <1>0, <1>4, <2>1 DEF HandInv, Starting, ForPick, IsSel, IsProbe
<1>9. CASE GetProbe
  <2>1. PICK p \in Payloads :
            LET answer == [cam.probe EXCEPT !.payload = p]
                chosen == Reselect([sel EXCEPT !.payload = p])
            IN  /\ CamIs("probe", answer)
                /\ sel' = [chosen EXCEPT !.payload = CommitPayload(chosen)]
                /\ probe' = [answer EXCEPT !.payload = CommitPayload(chosen)]
    BY <1>9 DEF GetProbe
  <2> DEFINE answer == [cam.probe EXCEPT !.payload = p]
  <2> DEFINE chosen == Reselect([sel EXCEPT !.payload = p])
  <2>2. pc = "getprobe" /\ pc' = "commit" /\ UNCHANGED scanVars
    BY <1>9 DEF GetProbe, Ok
  <2>3. IsProbe(cam.probe) /\ ForPick(cam.probe)
    BY <2>2 DEF HandInv
  <2>4. IsProbe(answer) /\ answer.fmt = Pick.fmt /\ answer.frame = Pick.frame
    BY <2>3, ProbeSet DEF ForPick
  <2>5. IsSel(chosen) /\ chosen.fmt = Pick.fmt /\ chosen.frame = Pick.frame
    <3>1. IsSel(sel) /\ sel.fmt = Pick.fmt /\ sel.frame = Pick.frame
      BY <1>4, <2>2 DEF Starting, ForPick
    <3> DEFINE s == [sel EXCEPT !.payload = p]
    <3>2. IsSel(s) /\ s.fmt = Pick.fmt /\ s.frame = Pick.frame
      BY <3>1, SelSet
    <3> HIDE DEF s
    <3>3. IsSel(Reselect(s)) /\ Reselect(s).fmt = Pick.fmt /\ Reselect(s).frame = Pick.frame
      BY <3>2, ReselectKeeps
    <3>4. QED
      BY <3>3 DEF s
  <2> HIDE DEF answer, chosen
  <2>6. /\ CamIs("probe", answer)
        /\ sel' = [chosen EXCEPT !.payload = CommitPayload(chosen)]
        /\ probe' = [answer EXCEPT !.payload = CommitPayload(chosen)]
    BY <2>1 DEF answer, chosen
  <2>7. IsSel(sel') /\ sel'.fmt = Pick.fmt /\ sel'.frame = Pick.frame
    BY <2>5, <2>6, SelSet
  <2>8. probe'.fmt = Pick.fmt /\ probe'.frame = Pick.frame
    BY <2>4, <2>6, ProbeSet
  <2>9. cam' = [alt |-> cam'.alt, probe |-> cam'.probe, commit |-> cam'.commit]
    BY <1>0, <2>6, CamSet
  <2>10. QED
    BY <1>4, <2>2, <2>7, <2>8, <2>9 DEF HandInv, Starting, ForPick, IsSel
<1>10. CASE SetCommit
  <2>1. pc = "commit" /\ pc' = "arm" /\ UNCHANGED <<scanVars, sel, probe>> /\ CamIs("commit", probe)
    BY <1>10 DEF SetCommit, Ok
  <2>2. cam' = [alt |-> cam.alt, probe |-> cam.probe, commit |-> probe]
    BY <1>0, <2>1, CamSet
  <2>3. cam' = [alt |-> cam'.alt, probe |-> cam'.probe, commit |-> cam'.commit] /\ cam'.commit = probe
    BY <2>2
  <2>4. ForPick(probe)
    BY <2>1 DEF HandInv
  <2>5. QED
    BY <1>4, <2>1, <2>3, <2>4 DEF HandInv, Starting, ForPick, IsSel
<1>11. CASE Arm
  <2>1. pc = "arm" /\ pc' = "armed" /\ UNCHANGED <<scanVars, sel, probe>> /\ CamIs("alt", sel.alt)
    BY <1>11 DEF Arm, Ok
  <2>2. cam' = [alt |-> sel.alt, probe |-> cam.probe, commit |-> cam.commit]
    BY <1>0, <2>1, CamSet
  <2>3. /\ cam' = [alt |-> cam'.alt, probe |-> cam'.probe, commit |-> cam'.commit]
        /\ cam'.commit = cam.commit
    BY <2>2
  <2>4. ForPick(probe) /\ cam.commit = probe
    BY <2>1 DEF HandInv
  <2>5. QED
    BY <1>4, <2>1, <2>3, <2>4 DEF HandInv, Starting, ForPick, IsSel
<1>12. CASE UNCHANGED vars
  <2>1. UNCHANGED <<cfg, i, mjpeg, uncomp, pc, sel, probe, cam>> /\ Pick' = Pick
    BY <1>12 DEF vars, scanVars, Pick
  <2>2. QED
    BY <2>1 DEF HandInv, ForPick, IsSel, IsProbe
<1>13. QED
  BY <1>2, <1>3, <1>5, <1>6, <1>7, <1>8, <1>9, <1>10, <1>11, <1>12 DEF Next

LEMMA HandBegins == Init => HandInv
  BY DEF Init, HandInv, Starting

\* The order of the ranks is the order of preference.
LEMMA RankOrder ==
    ASSUME NEW f, f.w \in Nat, f.h \in Nat, NEW g, g.w \in Nat, g.h \in Nat,
           frame_rank(g) <= frame_rank(f)
    PROVE  /\ g.w = PrefW /\ g.h = PrefH => f.w = PrefW /\ f.h = PrefH
           /\ g.w * g.h <= PrefArea => f.w * f.h <= PrefArea
           /\ f.w * f.h > PrefArea /\ g.w * g.h > PrefArea => f.w * f.h <= g.w * g.h
<1> DEFINE a == f.w * f.h
<1> DEFINE b == g.w * g.h
<1> DEFINE ef == f.w = PrefW /\ f.h = PrefH
<1> DEFINE eg == g.w = PrefW /\ g.h = PrefH
<1>1. a \in Nat /\ b \in Nat /\ PrefArea \in Nat /\ PrefArea < 2000000
  BY Products, UvcStreamAssumption DEF PrefArea, EXACT_RANK
<1>2. (ef => a = PrefArea) /\ (eg => b = PrefArea)
  BY DEF PrefArea
<1>3. /\ frame_rank(f) = IF ef THEN 2000000 ELSE IF a <= PrefArea THEN PrefArea - a ELSE -(a - PrefArea)
      /\ frame_rank(g) = IF eg THEN 2000000 ELSE IF b <= PrefArea THEN PrefArea - b ELSE -(b - PrefArea)
  BY DEF frame_rank, EXACT_RANK
<1> HIDE DEF a, b, ef, eg
<1>4. (eg => ef) /\ (b <= PrefArea => a <= PrefArea) /\ (a > PrefArea /\ b > PrefArea => a <= b)
  BY <1>1, <1>2, <1>3
<1>5. QED
  BY <1>4 DEF a, b, ef, eg

\* Once the camera streams, the pick is the best of all frames it could have been
\* taken from, and the camera is committed to it.
LEMMA PickedFrame ==
    ASSUME ScanInv, HandInv, Armed
    PROVE  \E k \in Offered :
              /\ k \in VsFrames /\ TakenFrom(Pick, k) /\ Committed(k)
              /\ \A c \in Offered : c \in VsFrames /\ frame_rank(cfg[c]) <= frame_rank(cfg[k])
<1>1. /\ pc = "armed" /\ i > Len(cfg) /\ (mjpeg # << >> \/ uncomp # << >>)
      /\ cam.commit.fmt = Pick.fmt /\ cam.commit.frame = Pick.frame
  BY DEF Armed, HandInv, Starting, ForPick
<1>2. /\ cfg \in Configs /\ i \in Nat /\ PickInv(mjpeg, TRUE) /\ PickInv(uncomp, FALSE)
      /\ Len(cfg) \in Nat /\ \A k \in VsFrames : k \in Nat /\ k < i
  <2>1. cfg \in Configs /\ i \in 1..(Len(cfg) + 1) /\ PickInv(mjpeg, TRUE) /\ PickInv(uncomp, FALSE)
    BY <1>1 DEF ScanInv
  <2>2. Len(cfg) \in Nat /\ \A k \in VsFrames : k \in 1..Len(cfg)
    BY <2>1, ConfigFacts DEF VsFrames
  <2>3. i \in Nat
    BY <2>1, <2>2
  <2>4. ASSUME NEW k \in VsFrames PROVE k \in Nat /\ k < i
    BY <1>1, <2>2, <2>3
  <2>5. QED
    BY <2>1, <2>2, <2>3, <2>4
<1>3. \A k \in VsFrames : cfg[k].w \in Nat /\ cfg[k].h \in Nat /\ cfg[k].mjpeg \in BOOLEAN
  BY <1>2, ConfigFacts DEF VsFrames
<1>4. SeenFrames(TRUE) = {k \in VsFrames : cfg[k].mjpeg}
  BY <1>2, <1>3 DEF SeenFrames
<1>5. \E k \in Offered :
          /\ TakenFrom(Pick, k)
          /\ \A c \in Offered : frame_rank(cfg[c]) <= frame_rank(cfg[k])
  <2>1. CASE mjpeg # << >>
    <3>1. Pick = mjpeg[1] /\ SeenFrames(TRUE) # {}
      BY <1>2, <2>1 DEF Pick, PickInv
    <3>2. Offered = SeenFrames(TRUE)
      BY <1>4, <3>1 DEF Offered
    <3>3. QED
      BY <1>2, <2>1, <3>1, <3>2 DEF PickInv
  <2>2. CASE mjpeg = << >>
    <3>1. Pick = uncomp[1] /\ uncomp # << >> /\ SeenFrames(TRUE) = {}
      BY <1>1, <1>2, <2>2 DEF Pick, PickInv
    <3>2. Offered = VsFrames
      BY <1>4, <3>1 DEF Offered
    <3>3. SeenFrames(FALSE) = VsFrames
      BY <1>2, <1>3, <1>4, <3>1 DEF SeenFrames
    <3>4. QED
      BY <1>2, <3>1, <3>2, <3>3 DEF PickInv
  <2>3. QED
    BY <2>1, <2>2
<1>6. PICK k \in Offered :
          /\ TakenFrom(Pick, k)
          /\ \A c \in Offered : frame_rank(cfg[c]) <= frame_rank(cfg[k])
  BY <1>5
<1>7. \A c \in Offered : c \in VsFrames
  BY DEF Offered
<1>8. Committed(k)
  BY <1>1, <1>6 DEF Committed, TakenFrom
<1>9. QED
  BY <1>6, <1>7, <1>8

\* Whatever the camera's descriptors offer and whatever it answers, it ends up
\* committed to a frame of a streaming interface, an MJPEG one if there is any, of the
\* preferred size if there is one, within the preferred area if one is, and else to
\* the smallest (descriptor.rs, parse_uvc_video_stream and frame_rank; stream.rs,
\* start_stream).
THEOREM CommitsToPreferred == Spec => []CommittedFramePreferred
<1>1. ScanInv /\ HandInv => CommittedFramePreferred
  <2> SUFFICES ASSUME ScanInv, HandInv, Armed PROVE CommittedFramePreferred
    BY DEF CommittedFramePreferred
  <2>1. PICK k \in Offered :
            /\ k \in VsFrames /\ Committed(k)
            /\ \A c \in Offered : c \in VsFrames /\ frame_rank(cfg[c]) <= frame_rank(cfg[k])
    BY PickedFrame
  <2>2. \A c \in VsFrames : cfg[c].w \in Nat /\ cfg[c].h \in Nat
    BY ConfigFacts DEF ScanInv, VsFrames
  <2>3. ASSUME NEW c \in Offered
        PROVE  /\ Exact(c) => Exact(k)
               /\ Area(c) <= PrefArea => Area(k) <= PrefArea
               /\ Area(k) > PrefArea /\ Area(c) > PrefArea => Area(k) <= Area(c)
    BY <2>1, <2>2, RankOrder DEF Exact, Area
  <2>4. QED
    BY <2>1, <2>3 DEF CommittedFramePreferred
<1>2. ScanInv /\ HandInv /\ [Next]_vars => (ScanInv /\ HandInv)'
  BY ScanStep, HandStep
<1>3. QED
  BY <1>1, <1>2, ScanBegins, HandBegins, PTL DEF Spec

-----------------------------------------------------------------------------
(* The choice of an interval *)

LEMMA DistanceType == \A v \in Nat : Distance(v) \in Int
  BY UvcStreamAssumption DEF Distance

\* choose_frame_interval's loop ends with the closest of the candidates that are
\* not 0.
LEMMA BestOfIs ==
    ASSUME NEW s \in Seq(Nat)
    PROVE  \/ BestOf(s) = << >> /\ \A n \in 1..Len(s) : s[n] = 0
           \/ \E m \in 1..Len(s) :
                 /\ BestOf(s) = <<s[m]>> /\ s[m] # 0
                 /\ \A n \in 1..Len(s) : s[n] # 0 => Distance(s[m]) <= Distance(s[n])
<1> DEFINE N == Len(s)
<1> DEFINE T == Option(Nat)
<1> DEFINE step == [n \in 1..N |-> [b \in T |-> BestFor(b, s[n])]]
<1> DEFINE Is(g) == g = [n \in 0..N |-> IF n = 0 THEN << >> ELSE BestFor(g[n - 1], s[n])]
<1> DEFINE r == CHOOSE g : Is(g)
<1>1. N \in Nat /\ s \in [1..N -> Nat]
  OBVIOUS
<1>2. BestOf(s) = r[N]
  BY DEF BestOf
<1>3. step \in [1..N -> [T -> T]] /\ << >> \in T
  <2>1. ASSUME NEW n \in 1..N, NEW b \in T PROVE BestFor(b, s[n]) \in T
    BY <1>1 DEF BestFor, Option
  <2>2. QED
    BY <2>1 DEF Option
<1> HIDE DEF N, T
<1>4. \E g : Is(g)
  <2> HIDE DEF step
  <2>0. \E g : Recursion(g, N, T, << >>, step)
    BY <1>1, <1>3, RecursionExists
  <2> USE DEF step
  <2>1. PICK g : g \in [0..N -> T] /\ g = [n \in 0..N |-> IF n = 0 THEN << >> ELSE step[n][g[n - 1]]]
    BY <2>0 DEF Recursion
  <2>2. ASSUME NEW n \in 0..N PROVE g[n] = IF n = 0 THEN << >> ELSE BestFor(g[n - 1], s[n])
    <3>1. n # 0 => n \in 1..N /\ n - 1 \in 0..N
      BY <1>1
    <3>2. n # 0 => step[n][g[n - 1]] = BestFor(g[n - 1], s[n])
      BY <2>1, <3>1
    <3>3. QED
      BY <2>1, <3>2
  <2>3. Is(g)
    BY <2>1, <2>2
  <2>4. QED
    BY <2>3
<1>5. Is(r)
  BY <1>4
<1> HIDE DEF r
<1>6. r[0] = << >> /\ \A n \in 1..N : r[n] = BestFor(r[n - 1], s[n])
  BY <1>1, <1>5
<1> DEFINE E == {n \in 1..N : s[n] # 0}
<1> DEFINE c == [v \in Nat |-> Distance(v)]
<1>7. E \in SUBSET (1..N) /\ c \in [Nat -> Int] /\ \A v \in Nat : c[v] = Distance(v)
  BY DistanceType
<1>8. ASSUME NEW n \in 1..N, NEW v \in Nat
      PROVE  /\ r[n - 1] = << >> => r[n] = IF n \in E THEN <<s[n]>> ELSE << >>
             /\ r[n - 1] = <<v>> => r[n] = IF n \in E /\ c[s[n]] < c[v] THEN <<s[n]>> ELSE <<v>>
  <2>1. s[n] \in Nat /\ c[s[n]] = Distance(s[n]) /\ c[v] = Distance(v) /\ (n \in E <=> s[n] # 0)
    BY <1>1
  <2>2. r[n] = BestFor(r[n - 1], s[n]) /\ <<v>> # << >> /\ <<v>>[1] = v
    BY <1>6
  <2>3. QED
    BY <2>1, <2>2 DEF BestFor
<1> HIDE DEF E, c
<1>k. KeepsCheapest(r, N, Nat, s, E, c)
  BY <1>6, <1>8 DEF KeepsCheapest
<1>9. IsCheapest(r[N], s, E, c)
  BY <1>1, <1>7, <1>k, RunningBest
<1>10. \A n \in 1..N : s[n] \in Nat
  BY <1>1
<1>11. QED
  BY <1>2, <1>7, <1>9, <1>10 DEF E, N, IsCheapest

\* A sequence of candidates stands for a set of intervals.
LEMMA ClosestOf ==
    ASSUME NEW s \in Seq(Nat), NEW I \in SUBSET Nat, I # {},
           \A n \in 1..Len(s) : s[n] # 0 => s[n] \in I,
           \A w \in I : \E n \in 1..Len(s) : s[n] # 0 /\ Distance(s[n]) <= Distance(w)
    PROVE  /\ BestOf(s) # << >> /\ BestOf(s)[1] \in I /\ BestOf(s)[1] # 0
           /\ \A w \in I : Distance(BestOf(s)[1]) <= Distance(w)
<1>1. PICK m \in 1..Len(s) :
          /\ BestOf(s) = <<s[m]>> /\ s[m] # 0
          /\ \A n \in 1..Len(s) : s[n] # 0 => Distance(s[m]) <= Distance(s[n])
  BY BestOfIs
<1>2. BestOf(s) # << >> /\ BestOf(s)[1] = s[m]
  BY <1>1
<1>3. ASSUME NEW w \in I PROVE Distance(s[m]) <= Distance(w)
  <2>1. PICK n \in 1..Len(s) : s[n] # 0 /\ Distance(s[n]) <= Distance(w)
    OBVIOUS
  <2>2. Distance(s[m]) \in Int /\ Distance(s[n]) \in Int /\ Distance(w) \in Int
    BY DistanceType
  <2>3. Distance(s[m]) <= Distance(s[n])
    BY <1>1, <2>1
  <2>4. QED
    BY <2>1, <2>2, <2>3
<1>4. QED
  BY <1>1, <1>2, <1>3

\* Clamping takes the closest interval of a range.
LEMMA ClampClosest ==
    ASSUME NEW lo \in Nat, NEW hi \in Nat, lo <= hi
    PROVE  /\ Clamp(PrefTicks, lo, hi) \in lo..hi
           /\ \A w \in lo..hi : Distance(Clamp(PrefTicks, lo, hi)) <= Distance(w)
  BY UvcStreamAssumption DEF Clamp, Distance

\* No supported interval is closer to the preferred one than the interval
\* parse_vs_frame picks for a frame, and that one is supported unless the steps of
\* the frame's range miss the place.
LEMMA IntervalClosest ==
    ASSUME NEW k, cfg[k].dflt \in Nat, cfg[k].ivals \in Seq(Nat), cfg[k].continuous \in BOOLEAN,
           PrefTicks > 0, ~ClampPanics(cfg[k]), Intervals(k) # {}, NEW ix
    PROVE  /\ parse_vs_frame(cfg[k], ix).ival \in Intervals(k) \/ BetweenSteps(k)
           /\ parse_vs_frame(cfg[k], ix).ival \in Nat
           /\ \A w \in Intervals(k) : Distance(parse_vs_frame(cfg[k], ix).ival) <= Distance(w)
<1> DEFINE f == cfg[k]
<1> DEFINE I == Intervals(k)
<1>0. PrefTicks \in Nat /\ PrefTicks # 0
  BY UvcStreamAssumption
\* J is what the code takes for the intervals of the frame.
<1>1. ASSUME NEW s \in Seq(Nat), NEW J \in SUBSET Nat, I \subseteq J,
             choose_frame_interval(f) = IF PrefTicks = 0 \/ BestOf(s) = << >> THEN 0 ELSE BestOf(s)[1],
             \A n \in 1..Len(s) : s[n] # 0 => s[n] \in J,
             \A w \in J : \E n \in 1..Len(s) : s[n] # 0 /\ Distance(s[n]) <= Distance(w)
      PROVE  /\ parse_vs_frame(f, ix).ival \in J /\ parse_vs_frame(f, ix).ival \in Nat
             /\ \A w \in I : Distance(parse_vs_frame(f, ix).ival) <= Distance(w)
  <2> DEFINE v == choose_frame_interval(f)
  <2>0. J # {}
    BY <1>1
  <2> HIDE DEF I
  <2>1. /\ BestOf(s) # << >> /\ BestOf(s)[1] \in J /\ BestOf(s)[1] # 0
        /\ \A w \in J : Distance(BestOf(s)[1]) <= Distance(w)
    BY <1>1, <2>0, ClosestOf
  <2>2. v = BestOf(s)[1]
    BY <1>0, <1>1, <2>1
  <2> HIDE DEF v
  <2>3. v \in J /\ v \in Nat /\ v # 0 /\ \A w \in I : Distance(v) <= Distance(w)
    BY <1>1, <2>1, <2>2
  <2>4. parse_vs_frame(f, ix).ival = IF v > 0 THEN v
            ELSE IF MinInterval(f) > 0 THEN MinInterval(f) ELSE f.dflt
    BY DEF parse_vs_frame, v
  <2> HIDE DEF f
  <2>5. v > 0
    BY <2>3
  <2>6. QED
    BY <2>3, <2>4, <2>5
<1>2. \A v \in Nat : Distance(v) <= Distance(v)
  BY DistanceType
<1>3. CASE ~f.continuous
  <2> DEFINE s == Append(f.ivals, f.dflt)
  <2>1. /\ s \in Seq(Nat) /\ Len(s) = Len(f.ivals) + 1 /\ Len(f.ivals) \in Nat
        /\ s[Len(f.ivals) + 1] = f.dflt /\ \A n \in 1..Len(f.ivals) : s[n] = f.ivals[n]
    OBVIOUS
  <2>2. choose_frame_interval(f) = IF PrefTicks = 0 \/ BestOf(s) = << >> THEN 0 ELSE BestOf(s)[1]
    BY <1>3 DEF choose_frame_interval
  <2>3. I = ({f.dflt} \cup {f.ivals[n] : n \in 1..Len(f.ivals)}) \ {0}
    BY <1>3 DEF Intervals, ToSet
  <2>4. I \in SUBSET Nat
    BY <2>3
  <2> HIDE DEF s, I
  <2>5. ASSUME NEW n \in 1..Len(s), s[n] # 0 PROVE s[n] \in I
    <3>1. n = Len(f.ivals) + 1 \/ n \in 1..Len(f.ivals)
      BY <2>1
    <3>2. QED
      BY <2>1, <2>3, <2>5, <3>1
  <2>6. ASSUME NEW w \in I PROVE \E n \in 1..Len(s) : s[n] # 0 /\ Distance(s[n]) <= Distance(w)
    <3>1. \E n \in 1..Len(s) : s[n] = w
      <4>1. Len(f.ivals) + 1 \in 1..Len(s) /\ \A n \in 1..Len(f.ivals) : n \in 1..Len(s)
        BY <2>1
      <4>2. QED
        BY <2>1, <2>3, <4>1
    <3>2. QED
      BY <1>2, <2>3, <2>4, <3>1
  <2>7. QED
    BY <1>1, <2>1, <2>2, <2>4, <2>5, <2>6 DEF I
<1>4. CASE f.continuous /\ HasRange(f) /\ f.ivals[1] > 0 /\ f.ivals[2] > 0
  <2> DEFINE lo == f.ivals[1]
  <2> DEFINE hi == f.ivals[2]
  <2> DEFINE v == Clamp(PrefTicks, lo, hi)
  <2> DEFINE s == Append(<<v>>, f.dflt)
  <2> DEFINE J == I \cup {v}
  <2>1. lo \in Nat /\ hi \in Nat /\ Len(f.ivals) = 3
    BY <1>4 DEF HasRange
  <2>2. lo <= hi /\ lo > 0
    BY <1>0, <1>4, <2>1 DEF ClampPanics
  <2>3. choose_frame_interval(f) = IF PrefTicks = 0 \/ BestOf(s) = << >> THEN 0 ELSE BestOf(s)[1]
    BY <1>4 DEF choose_frame_interval
  <2>4. I = ({f.dflt} \cup {w \in lo..hi : OnStep(f, w)}) \ {0}
    BY <1>4, <2>1 DEF Intervals
  <2>5. v \in lo..hi /\ \A w \in lo..hi : Distance(v) <= Distance(w)
    BY <2>1, <2>2, ClampClosest
  <2>6. v \in I \/ BetweenSteps(k)
    <3>1. CASE OnStep(f, v)
      <4>1. v # 0
        BY <2>1, <2>2, <2>5
      <4>2. v \in {w \in lo..hi : OnStep(f, w)}
        BY <2>5, <3>1
      <4>3. QED
        BY <2>4, <4>1, <4>2
    <3>2. CASE ~OnStep(f, v)
      BY <1>4, <3>2 DEF BetweenSteps
    <3>3. QED
      BY <3>1, <3>2
  <2> HIDE DEF lo, hi
  <2>7. J \in SUBSET Nat /\ v \in Nat /\ v # 0
    BY <2>1, <2>2, <2>4, <2>5
  <2> HIDE DEF v, I
  <2>8. s \in Seq(Nat) /\ Len(s) = 2 /\ s[1] = v /\ s[2] = f.dflt
    BY <2>7
  <2> HIDE DEF s
  <2>9. \A n \in 1..Len(s) : n = 1 \/ n = 2
    BY <2>8
  <2>10. \A n \in 1..Len(s) : s[n] # 0 => s[n] \in J
    BY <2>4, <2>8, <2>9
  <2>11. ASSUME NEW w \in J PROVE \E n \in 1..Len(s) : s[n] # 0 /\ Distance(s[n]) <= Distance(w)
    <3>1. 1 \in 1..Len(s) /\ 2 \in 1..Len(s)
      BY <2>8
    <3>2. CASE w \in lo..hi
      BY <2>5, <2>7, <2>8, <3>1, <3>2
    <3>3. CASE w = f.dflt /\ w # 0
      BY <1>2, <2>8, <3>1, <3>3
    <3>4. QED
      BY <2>4, <2>5, <3>2, <3>3
  <2>12. I \subseteq J
    OBVIOUS
  <2> HIDE DEF J
  <2>13. parse_vs_frame(f, ix).ival \in J /\ parse_vs_frame(f, ix).ival \in Nat
         /\ \A w \in I : Distance(parse_vs_frame(f, ix).ival) <= Distance(w)
    BY <1>1, <2>3, <2>7, <2>8, <2>10, <2>11, <2>12 DEF I
  <2>14. QED
    BY <2>6, <2>13 DEF I, J
<1>5. CASE f.continuous /\ ~(HasRange(f) /\ f.ivals[1] > 0 /\ f.ivals[2] > 0)
  <2> DEFINE s == Append(<< >>, f.dflt)
  <2>1. choose_frame_interval(f) = IF PrefTicks = 0 \/ BestOf(s) = << >> THEN 0 ELSE BestOf(s)[1]
    BY <1>5 DEF choose_frame_interval
  <2>2. I = {f.dflt} \ {0}
    <3>1. CASE HasRange(f) /\ f.ivals[1] > 0
      <4>1. f.ivals[1] \in Nat /\ f.ivals[2] \in Nat /\ ~(f.ivals[2] > 0)
        BY <1>5, <3>1 DEF HasRange
      <4>2. f.ivals[1]..f.ivals[2] = {}
        BY <3>1, <4>1
      <4>3. QED
        BY <1>5, <3>1, <4>2 DEF Intervals
    <3>2. CASE ~(HasRange(f) /\ f.ivals[1] > 0)
      BY <1>5, <3>2 DEF Intervals
    <3>3. QED
      BY <3>1, <3>2
  <2>3. s \in Seq(Nat) /\ Len(s) = 1 /\ s[1] = f.dflt
    OBVIOUS
  <2> HIDE DEF s, I
  <2>4. 1 \in 1..Len(s) /\ \A n \in 1..Len(s) : n = 1
    BY <2>3
  <2>5. I \in SUBSET Nat /\ \A n \in 1..Len(s) : s[n] # 0 => s[n] \in I
    BY <2>2, <2>3, <2>4
  <2>6. \A w \in I : \E n \in 1..Len(s) : s[n] # 0 /\ Distance(s[n]) <= Distance(w)
    BY <1>2, <2>2, <2>3, <2>4
  <2>7. QED
    BY <1>1, <2>1, <2>3, <2>5, <2>6 DEF I
<1>6. QED
  BY <1>3, <1>4, <1>5

-----------------------------------------------------------------------------
(* The isochronous endpoints *)

LEMMA IsochFinite ==
    ASSUME cfg \in Configs
    PROVE  IsFiniteSet(IsochIn) /\ Cardinality(IsochIn) \in Nat /\ \A k \in IsochIn : k \in Nat
<1>1. Len(cfg) \in Nat /\ DOMAIN cfg = 1..Len(cfg)
  BY ConfigFacts
<1>2. IsFiniteSet(1..Len(cfg)) /\ IsochIn \subseteq 1..Len(cfg)
  BY <1>1, FS_Interval DEF IsochIn
<1>3. IsFiniteSet(IsochIn)
  BY <1>2, FS_Subset
<1>4. QED
  BY <1>2, <1>3, FS_CardinalityType

LEMMA SeenCounts ==
    ASSUME cfg \in Configs
    PROVE  /\ IsFiniteSet(Seen) /\ Cardinality(Seen) \in Nat
           /\ i \in IsochIn /\ i \in Nat =>
                /\ Cardinality(Seen \cup {i}) = Cardinality(Seen) + 1
                /\ Cardinality(Seen) + 1 <= Cardinality(IsochIn)
<1>1. IsFiniteSet(IsochIn) /\ Cardinality(IsochIn) \in Nat /\ Seen \subseteq IsochIn
  BY IsochFinite DEF Seen
<1>2. IsFiniteSet(Seen) /\ Cardinality(Seen) \in Nat
  BY <1>1, FS_Subset, FS_CardinalityType
<1>3. ASSUME i \in IsochIn, i \in Nat
      PROVE  /\ Cardinality(Seen \cup {i}) = Cardinality(Seen) + 1
             /\ Cardinality(Seen) + 1 <= Cardinality(IsochIn)
  <2>1. i \notin Seen /\ Seen \cup {i} \subseteq IsochIn
    BY <1>1, <1>3 DEF Seen
  <2>2. Cardinality(Seen \cup {i}) = Cardinality(Seen) + 1
    BY <1>2, <2>1, FS_AddElement
  <2>3. Cardinality(Seen \cup {i}) <= Cardinality(IsochIn)
    BY <1>1, <2>1, FS_Subset
  <2>4. QED
    BY <2>2, <2>3
<1>4. QED
  BY <1>2, <1>3

\* How the scan's running state changes what EndpointInv says.
LEMMA SeenIsochStep ==
    ASSUME ScanInv, pc # "panic", i \in DOMAIN cfg, i' = i + 1, cfg' = cfg
    PROVE  /\ i \in Nat /\ i - 1 \in Nat /\ (i - 1) + 1 = i /\ i' - 1 = i
           /\ IsochIn' = IsochIn /\ (TableHolds' <=> TableHolds)
           /\ \A k : AltOf(k)' = AltOf(k) /\ BestRecord(k)' = BestRecord(k) /\ ScopeOf(k)' = ScopeOf(k)
           /\ Seen' = IF i \in IsochIn THEN Seen \cup {i} ELSE Seen
<1>1. i \in Nat /\ i - 1 \in Nat /\ (i - 1) + 1 = i /\ i' - 1 = i
  BY ConfigFacts DEF ScanInv
<1>2. \A k : ScopeOf(k)' = ScopeOf(k) /\ (InVs(k)' <=> InVs(k))
  BY DEF ScopeOf, InVs
<1>3. IsochIn' = IsochIn
  BY <1>2 DEF IsochIn
<1>4. \A k \in IsochIn : k \in Nat
  BY IsochFinite DEF ScanInv
<1>5. \A k \in IsochIn : k < i + 1 <=> k < i \/ k = i
  BY <1>1, <1>4
<1>6. Seen' = {k \in IsochIn : k < i + 1}
  BY <1>3 DEF Seen
<1>7. Seen' = IF i \in IsochIn THEN Seen \cup {i} ELSE Seen
  BY <1>5, <1>6 DEF Seen
<1>8. \A k : AltOf(k)' = AltOf(k) /\ BestRecord(k)' = BestRecord(k)
  BY <1>2 DEF AltOf, BestRecord
<1>9. QED
  BY <1>1, <1>2, <1>3, <1>7, <1>8 DEF TableHolds

LEMMA EndpointStep ==
    ASSUME ScanInv, EndpointInv, [Next]_vars
    PROVE  EndpointInv'
\* Steps that do not scan.
<1>1. ASSUME UNCHANGED <<cfg, i, cur, best, alts>>, pc # "panic" \/ pc' = "panic"
      PROVE  EndpointInv'
  <2>1. \A k : ScopeOf(k)' = ScopeOf(k) /\ (InVs(k)' <=> InVs(k))
    BY <1>1 DEF ScopeOf, InVs
  <2>2. IsochIn' = IsochIn
    BY <1>1, <2>1 DEF IsochIn
  <2>3. Seen' = Seen /\ (TableHolds' <=> TableHolds) /\ ScopeOf(i - 1)' = ScopeOf(i - 1)
    BY <1>1, <2>1, <2>2 DEF Seen, TableHolds
  <2>4. \A k : AltOf(k)' = AltOf(k) /\ BestRecord(k)' = BestRecord(k)
    BY <1>1, <2>1 DEF AltOf, BestRecord
  <2>5. {AltOf(k)' : k \in IsochIn'} = {AltOf(k) : k \in IsochIn}
    BY <2>2, <2>4
  <2>6. QED
    BY <1>1, <2>2, <2>3, <2>4, <2>5 DEF EndpointInv
\* A descriptor that is no isochronous endpoint.
<1>2. ASSUME pc = "scan", i <= Len(cfg), i' = i + 1, UNCHANGED <<cfg, pc, best, alts>>,
             i \notin IsochIn,
             ScopeOf(i) # 0 => cur'.num = cfg[ScopeOf(i)].num /\ cur'.alt = cfg[ScopeOf(i)].alt
      PROVE  EndpointInv'
  <2>1. i \in DOMAIN cfg /\ pc # "panic"
    BY <1>2, ConfigFacts DEF ScanInv
  <2>2. /\ IsochIn' = IsochIn /\ (TableHolds' <=> TableHolds) /\ i' - 1 = i /\ Seen' = Seen
        /\ \A k : AltOf(k)' = AltOf(k) /\ BestRecord(k)' = BestRecord(k) /\ ScopeOf(k)' = ScopeOf(k)
    BY <1>2, <2>1, SeenIsochStep
  <2>3. ScopeOf(i - 1)' = ScopeOf(i)
    BY <2>2 DEF ScopeOf
  <2>4. {AltOf(k)' : k \in IsochIn'} = {AltOf(k) : k \in IsochIn}
    BY <2>2
  <2>5. QED
    BY <1>2, <2>1, <2>2, <2>3, <2>4 DEF EndpointInv
<1>3. ASSUME pc = "scan", i <= Len(cfg)
      PROVE  /\ i \in DOMAIN cfg /\ pc # "panic"
             /\ cfg[i].ty = "interface" => ScopeOf(i) = i
             /\ cfg[i].ty # "interface" =>
                   /\ ScopeOf(i) # 0 => cur.num = cfg[ScopeOf(i)].num /\ cur.alt = cfg[ScopeOf(i)].alt
                   /\ cur.vs <=> InVs(i)
  <2>1. i \in DOMAIN cfg /\ pc # "panic" /\ i - 1 \in Nat /\ (i - 1) + 1 = i
    BY <1>3, ConfigFacts DEF ScanInv
  <2>2. /\ cfg[i].ty = "interface" => ScopeOf(i) = i
        /\ cfg[i].ty # "interface" => ScopeOf(i) = ScopeOf(i - 1) /\ (InVs(i) <=> InVs(i - 1))
    BY <2>1, ScopeStep, InVsStep
  <2>3. cur.vs <=> InVs(i - 1)
    BY <2>1 DEF ScanInv
  <2>4. QED
    BY <2>1, <2>2, <2>3 DEF EndpointInv
<1>4. CASE ScanInterface
  <2>1. /\ pc = "scan" /\ i <= Len(cfg) /\ i' = i + 1 /\ cfg[i].ty = "interface"
        /\ UNCHANGED <<cfg, pc, best, alts>> /\ cur'.num = cfg[i].num /\ cur'.alt = cfg[i].alt
    BY <1>4 DEF ScanInterface, AtDesc
  <2>2. i \notin IsochIn
    BY <2>1 DEF IsochIn
  <2>3. QED
    BY <1>2, <1>3, <2>1, <2>2
<1>5. CASE ScanFormat \/ ScanFrame \/ ScanOther
  <2>1. /\ pc = "scan" /\ i <= Len(cfg) /\ i' = i + 1
        /\ cfg[i].ty \in {"format", "frame", "other", "terminal"}
        /\ UNCHANGED <<cfg, pc, best, alts, cur>>
    BY <1>5 DEF ScanFormat, ScanFrame, ScanOther, AtDesc
  <2>2. i \notin IsochIn
    BY <2>1 DEF IsochIn
  <2>3. QED
    BY <1>2, <1>3, <2>1, <2>2
<1>6. CASE ScanFramePanics
  BY <1>6 DEF ScanFramePanics, EndpointInv
<1>7. CASE ScanEndpoint
  <2> DEFINE e == cfg[i]
  <2> DEFINE counts == cur.vs /\ e.in /\ e.isoch
  <2> DEFINE rec == [alt |-> cur.alt, ep |-> e.ep, raw |-> e.raw, ifc |-> cur.num]
  <2>1. /\ pc = "scan" /\ i <= Len(cfg) /\ i' = i + 1 /\ cfg[i].ty = "endpoint"
        /\ UNCHANGED <<cfg, pc, cur>>
        /\ best' = best \/ (counts /\ best' = <<rec>>)
        /\ counts /\ best = << >> => best' = <<rec>>
        /\ alts' = IF counts THEN Table(alts, [alt |-> cur.alt, raw |-> e.raw]) ELSE alts
    BY <1>7 DEF ScanEndpoint, AtDesc, InStreaming
  <2>2. i \in DOMAIN cfg /\ pc # "panic" /\ cfg \in Configs
    BY <1>3, <2>1 DEF ScanInv
  <2>3. /\ ScopeOf(i) # 0 => cur.num = cfg[ScopeOf(i)].num /\ cur.alt = cfg[ScopeOf(i)].alt
        /\ cur.vs <=> InVs(i)
    BY <1>3, <2>1
  <2>4. counts <=> i \in IsochIn
    BY <2>1, <2>2, <2>3 DEF IsochIn
  <2>5. CASE i \notin IsochIn
    <3>1. UNCHANGED <<best, alts>>
      BY <2>1, <2>4, <2>5
    <3>2. QED
      BY <1>2, <2>1, <2>3, <2>5, <3>1
  <2>6. CASE i \in IsochIn
    <3>1. ScopeOf(i) # 0
      BY <2>6 DEF IsochIn, InVs
    <3>2. rec = BestRecord(i) /\ [alt |-> cur.alt, raw |-> e.raw] = AltOf(i)
      BY <2>3, <3>1 DEF BestRecord, AltOf
    <3> DEFINE X == {AltOf(k) : k \in IsochIn}
    <3>3. /\ alts' = Table(alts, AltOf(i))
          /\ best' = best \/ best' = <<BestRecord(i)>>
      BY <2>1, <2>4, <2>6, <3>2
    <3>4. /\ alts \in Seq(X) /\ Len(alts) <= Cardinality(Seen)
          /\ best = << >> \/ \E k \in IsochIn : best = <<BestRecord(k)>>
          /\ TableHolds => \A k \in Seen : \E n \in 1..Len(alts) : alts[n] = AltOf(k)
      BY <2>2 DEF EndpointInv
    <3>5. /\ IsochIn' = IsochIn /\ (TableHolds' <=> TableHolds) /\ i' - 1 = i /\ i \in Nat
          /\ Seen' = Seen \cup {i}
          /\ \A k : AltOf(k)' = AltOf(k) /\ BestRecord(k)' = BestRecord(k) /\ ScopeOf(k)' = ScopeOf(k)
      BY <2>1, <2>2, <2>6, SeenIsochStep
    <3>6. /\ Cardinality(Seen) \in Nat /\ Cardinality(Seen') = Cardinality(Seen) + 1
          /\ Cardinality(Seen) + 1 <= Cardinality(IsochIn) /\ Cardinality(IsochIn) \in Nat
      BY <2>2, <2>6, <3>5, SeenCounts, IsochFinite
    <3>7. AltOf(i) \in X /\ Len(alts) \in Nat /\ MaxAlts \in Nat \ {0}
      BY <2>6, <3>4, UvcStreamAssumption
    <3> HIDE DEF X, rec, counts, e
    <3>8. /\ alts' \in Seq(X) /\ alts' # << >>
          /\ Len(alts') <= Cardinality(Seen')
      <4>1. CASE Len(alts) < MaxAlts
        <5>1. alts' = Append(alts, AltOf(i))
          BY <3>3, <4>1 DEF Table
        <5>2. alts' \in Seq(X) /\ Len(alts') = Len(alts) + 1 /\ alts' # << >>
          BY <3>4, <3>7, <5>1
        <5>3. QED
          BY <3>4, <3>6, <3>7, <5>2
      <4>2. CASE ~(Len(alts) < MaxAlts)
        <5>1. alts' = alts /\ Len(alts) # 0
          BY <3>3, <3>7, <4>2 DEF Table
        <5>2. alts # << >>
          BY <5>1
        <5>3. QED
          BY <3>4, <3>6, <3>7, <5>1, <5>2
      <4>3. QED
        BY <4>1, <4>2
    <3>9. ASSUME TableHolds, NEW k \in Seen' PROVE \E n \in 1..Len(alts') : alts'[n] = AltOf(k)
      <4>1. Len(alts) < MaxAlts
        BY <3>4, <3>6, <3>7, <3>9 DEF TableHolds
      <4>2. alts' = Append(alts, AltOf(i))
        BY <3>3, <4>1 DEF Table
      <4>3. /\ Len(alts') = Len(alts) + 1 /\ alts'[Len(alts) + 1] = AltOf(i)
            /\ \A n \in 1..Len(alts) : n \in 1..Len(alts') /\ alts'[n] = alts[n]
            /\ Len(alts) + 1 \in 1..Len(alts')
        BY <3>4, <3>7, <4>2
      <4>4. k = i \/ k \in Seen
        BY <3>5, <3>9
      <4>5. QED
        BY <3>4, <3>9, <4>3, <4>4
    <3>10. ScopeOf(i - 1)' = ScopeOf(i)
      BY <3>5 DEF ScopeOf
    <3>11. {AltOf(k)' : k \in IsochIn'} = X
      BY <3>5 DEF X
    <3>12. best' = << >> \/ \E k \in IsochIn : best' = <<BestRecord(k)>>
      BY <2>6, <3>3, <3>4
    <3>13. QED
      BY <2>1, <2>3, <3>5, <3>8, <3>9, <3>10, <3>11, <3>12 DEF EndpointInv
  <2>7. QED
    BY <2>5, <2>6
<1>8. CASE ScanFails \/ Select
  BY <1>1, <1>8 DEF ScanFails, Select, scanVars
<1>9. CASE \/ SetAlt0 \/ SetProbe \/ SetProbeFails \/ GetMax
           \/ GetProbe \/ GetProbeFails \/ SetCommit \/ SetCommitFails \/ Arm \/ ArmFails
  BY <1>1, <1>9 DEF SetAlt0, SetProbe, SetProbeFails, GetMax, GetProbe, GetProbeFails,
     SetCommit, SetCommitFails, Arm, ArmFails, Ok, Fails, scanVars
<1>10. CASE UNCHANGED vars
  <2>1. UNCHANGED <<cfg, i, cur, best, alts, pc>>
    BY <1>10 DEF vars, scanVars
  <2>2. QED
    BY <1>1, <2>1
<1>11. QED
  BY <1>4, <1>5, <1>6, <1>7, <1>8, <1>9, <1>10 DEF Next

LEMMA EndpointBegins == Init => EndpointInv
<1> SUFFICES ASSUME Init PROVE EndpointInv
  OBVIOUS
<1>1. /\ cfg \in Configs /\ i = 1 /\ best = << >> /\ alts = << >> /\ i - 1 = 0
  BY DEF Init
<1>2. ScopeOf(i - 1) = 0
  <2>1. 1..0 = {}
    OBVIOUS
  <2>2. QED
    BY <1>1, <2>1 DEF ScopeOf
<1>3. Cardinality(Seen) \in Nat
  BY <1>1, SeenCounts
<1>4. Seen = {}
  <2>1. \A k \in IsochIn : k \in 1..Len(cfg) /\ Len(cfg) \in Nat
    BY <1>1, ConfigFacts DEF IsochIn
  <2>2. QED
    BY <1>1, <2>1 DEF Seen
<1>5. alts \in Seq({AltOf(k) : k \in IsochIn}) /\ Len(alts) <= Cardinality(Seen)
  BY <1>1, <1>3
<1>6. QED
  BY <1>1, <1>2, <1>4, <1>5 DEF EndpointInv

-----------------------------------------------------------------------------
(* The choice of an alternate setting *)

\* The loop of reselect_isoch_alt_for_payload ends with the narrowest entry that
\* carries p in best_fit, if there is one ...
LEMMA BestFitIs ==
    ASSUME NEW X, \A a \in X : wmax_mps(a.raw) \in Nat, NEW t \in Seq(X), NEW p
    PROVE  IsCheapest(BestFit(t, p), t, {n \in 1..Len(t) : wmax_mps(t[n].raw) >= p},
                      [a \in X |-> wmax_mps(a.raw)])
<1> DEFINE N == Len(t)
<1> DEFINE T == Option(X)
<1> DEFINE step == [n \in 1..N |-> [b \in T |-> FitFor(b, t[n], p)]]
<1> DEFINE Is(g) == g = [n \in 0..N |-> IF n = 0 THEN << >> ELSE FitFor(g[n - 1], t[n], p)]
<1> DEFINE r == CHOOSE g : Is(g)
<1>1. N \in Nat /\ t \in [1..N -> X]
  OBVIOUS
<1>2. BestFit(t, p) = r[N]
  BY DEF BestFit
<1>3. step \in [1..N -> [T -> T]] /\ << >> \in T
  <2>1. ASSUME NEW n \in 1..N, NEW b \in T PROVE FitFor(b, t[n], p) \in T
    BY <1>1 DEF FitFor, Option
  <2>2. QED
    BY <2>1 DEF Option
<1> HIDE DEF N, T
<1>4. Is(r)
  <2> HIDE DEF step
  <2>0. \E g : Recursion(g, N, T, << >>, step)
    BY <1>1, <1>3, RecursionExists
  <2> USE DEF step
  <2>1. PICK g : g \in [0..N -> T] /\ g = [n \in 0..N |-> IF n = 0 THEN << >> ELSE step[n][g[n - 1]]]
    BY <2>0 DEF Recursion
  <2>2. ASSUME NEW n \in 0..N PROVE g[n] = IF n = 0 THEN << >> ELSE FitFor(g[n - 1], t[n], p)
    <3>1. n # 0 => n \in 1..N /\ n - 1 \in 0..N
      BY <1>1
    <3>2. n # 0 => step[n][g[n - 1]] = FitFor(g[n - 1], t[n], p)
      BY <2>1, <3>1
    <3>3. QED
      BY <2>1, <3>2
  <2>3. Is(g)
    BY <2>1, <2>2
  <2>4. QED
    BY <2>3
<1> HIDE DEF r
<1>5. r[0] = << >> /\ \A n \in 1..N : r[n] = FitFor(r[n - 1], t[n], p)
  BY <1>1, <1>4
<1> DEFINE E == {n \in 1..N : wmax_mps(t[n].raw) >= p}
<1> DEFINE c == [a \in X |-> wmax_mps(a.raw)]
<1>6. E \in SUBSET (1..N) /\ c \in [X -> Int]
  OBVIOUS
<1>7. ASSUME NEW n \in 1..N, NEW v \in X
      PROVE  /\ r[n - 1] = << >> => r[n] = IF n \in E THEN <<t[n]>> ELSE << >>
             /\ r[n - 1] = <<v>> => r[n] = IF n \in E /\ c[t[n]] < c[v] THEN <<t[n]>> ELSE <<v>>
  <2>1. /\ c[t[n]] = wmax_mps(t[n].raw) /\ c[v] = wmax_mps(v.raw)
        /\ wmax_mps(t[n].raw) \in Nat /\ wmax_mps(v.raw) \in Nat
        /\ n \in E <=> wmax_mps(t[n].raw) >= p
    BY <1>1
  <2>2. r[n] = FitFor(r[n - 1], t[n], p) /\ <<v>> # << >> /\ <<v>>[1] = v
    BY <1>5
  <2>3. c[t[n]] < c[v] <=> wmax_mps(v.raw) > wmax_mps(t[n].raw)
    BY <2>1
  <2>4. QED
    BY <2>1, <2>2, <2>3 DEF FitFor
<1> HIDE DEF E, c
<1>8. KeepsCheapest(r, N, X, t, E, c)
  BY <1>5, <1>7 DEF KeepsCheapest
<1>9. IsCheapest(r[N], t, E, c)
  BY <1>1, <1>6, <1>8, RunningBest
<1>10. QED
  BY <1>2, <1>9 DEF E, c, N

\* ... and with the widest in best_max.
LEMMA WidestIs ==
    ASSUME NEW X, \A a \in X : wmax_mps(a.raw) \in Nat, NEW t \in Seq(X)
    PROVE  IsCheapest(Widest(t), t, 1..Len(t), [a \in X |-> -wmax_mps(a.raw)])
<1> DEFINE N == Len(t)
<1> DEFINE T == Option(X)
<1> DEFINE step == [n \in 1..N |-> [b \in T |-> WidestFor(b, t[n])]]
<1> DEFINE Is(g) == g = [n \in 0..N |-> IF n = 0 THEN << >> ELSE WidestFor(g[n - 1], t[n])]
<1> DEFINE r == CHOOSE g : Is(g)
<1>1. N \in Nat /\ t \in [1..N -> X]
  OBVIOUS
<1>2. Widest(t) = r[N]
  BY DEF Widest
<1>3. step \in [1..N -> [T -> T]] /\ << >> \in T
  <2>1. ASSUME NEW n \in 1..N, NEW b \in T PROVE WidestFor(b, t[n]) \in T
    BY <1>1 DEF WidestFor, Option
  <2>2. QED
    BY <2>1 DEF Option
<1> HIDE DEF N, T
<1>4. Is(r)
  <2> HIDE DEF step
  <2>0. \E g : Recursion(g, N, T, << >>, step)
    BY <1>1, <1>3, RecursionExists
  <2> USE DEF step
  <2>1. PICK g : g \in [0..N -> T] /\ g = [n \in 0..N |-> IF n = 0 THEN << >> ELSE step[n][g[n - 1]]]
    BY <2>0 DEF Recursion
  <2>2. ASSUME NEW n \in 0..N PROVE g[n] = IF n = 0 THEN << >> ELSE WidestFor(g[n - 1], t[n])
    <3>1. n # 0 => n \in 1..N /\ n - 1 \in 0..N
      BY <1>1
    <3>2. n # 0 => step[n][g[n - 1]] = WidestFor(g[n - 1], t[n])
      BY <2>1, <3>1
    <3>3. QED
      BY <2>1, <3>2
  <2>3. Is(g)
    BY <2>1, <2>2
  <2>4. QED
    BY <2>3
<1> HIDE DEF r
<1>5. r[0] = << >> /\ \A n \in 1..N : r[n] = WidestFor(r[n - 1], t[n])
  BY <1>1, <1>4
<1> DEFINE c == [a \in X |-> -wmax_mps(a.raw)]
<1>6. 1..N \in SUBSET (1..N) /\ c \in [X -> Int]
  OBVIOUS
<1>7. ASSUME NEW n \in 1..N, NEW v \in X
      PROVE  /\ r[n - 1] = << >> => r[n] = IF n \in 1..N THEN <<t[n]>> ELSE << >>
             /\ r[n - 1] = <<v>> => r[n] = IF n \in 1..N /\ c[t[n]] < c[v] THEN <<t[n]>> ELSE <<v>>
  <2>1. /\ c[t[n]] = -wmax_mps(t[n].raw) /\ c[v] = -wmax_mps(v.raw)
        /\ wmax_mps(t[n].raw) \in Nat /\ wmax_mps(v.raw) \in Nat
    BY <1>1
  <2>2. r[n] = WidestFor(r[n - 1], t[n]) /\ <<v>> # << >> /\ <<v>>[1] = v
    BY <1>5
  <2>3. c[t[n]] < c[v] <=> wmax_mps(v.raw) < wmax_mps(t[n].raw)
    BY <2>1
  <2>4. QED
    BY <2>1, <2>2, <2>3 DEF WidestFor
<1> HIDE DEF c
<1>8. KeepsCheapest(r, N, X, t, 1..N, c)
  BY <1>5, <1>7 DEF KeepsCheapest
<1>9. IsCheapest(r[N], t, 1..N, c)
  BY <1>1, <1>6, <1>8, RunningBest
<1>10. QED
  BY <1>2, <1>9 DEF c, N

\* An entry of the table is chosen; it carries p and none that does is narrower, or
\* none carries p and none is wider.
LEMMA EntryFits ==
    ASSUME cfg \in Configs, NEW t \in Seq({AltOf(k) : k \in IsochIn}), t # << >>, NEW p \in Nat
    PROVE  \E n \in 1..Len(t) :
              /\ Entry(t, p) = t[n]
              /\ \/ /\ wmax_mps(t[n].raw) >= p
                    /\ \A m \in 1..Len(t) :
                          wmax_mps(t[m].raw) >= p => wmax_mps(t[n].raw) <= wmax_mps(t[m].raw)
                 \/ \A m \in 1..Len(t) :
                       wmax_mps(t[m].raw) < p /\ wmax_mps(t[m].raw) <= wmax_mps(t[n].raw)
<1> DEFINE X == {AltOf(k) : k \in IsochIn}
<1> DEFINE W(n) == wmax_mps(t[n].raw)
<1> DEFINE E == {n \in 1..Len(t) : wmax_mps(t[n].raw) >= p}
<1> DEFINE c == [a \in X |-> wmax_mps(a.raw)]
<1> DEFINE d == [a \in X |-> -wmax_mps(a.raw)]
<1>1. \A a \in X : wmax_mps(a.raw) \in Nat
  <2>1. \A k \in IsochIn : cfg[k].raw \in Nat
    BY ConfigFacts DEF IsochIn
  <2>2. \A r \in Nat : wmax_mps(r) \in Nat
    BY DEF wmax_mps
  <2>3. \A k \in IsochIn : AltOf(k).raw = cfg[k].raw
    BY DEF AltOf
  <2>4. QED
    BY <2>1, <2>2, <2>3
<1>2. Len(t) \in Nat \ {0} /\ \A n \in 1..Len(t) : t[n] \in X /\ W(n) \in Nat
  BY <1>1
<1>3. /\ IsCheapest(BestFit(t, p), t, E, c)
      /\ IsCheapest(Widest(t), t, 1..Len(t), d)
  BY <1>1, BestFitIs, WidestIs
<1>4. \A n \in 1..Len(t) : c[t[n]] = W(n) /\ d[t[n]] = -W(n)
  BY <1>2
<1>5. \A n \in 1..Len(t) : n \in E <=> W(n) >= p
  OBVIOUS
<1>6. \A n \in E : n \in 1..Len(t)
  OBVIOUS
<1> HIDE DEF X, E, c, d, W
<1>7. \E n \in 1..Len(t) :
          /\ Entry(t, p) = t[n]
          /\ \/ W(n) >= p /\ \A m \in 1..Len(t) : W(m) >= p => W(n) <= W(m)
             \/ \A m \in 1..Len(t) : W(m) < p /\ W(m) <= W(n)
  <2>1. CASE BestFit(t, p) = << >> /\ E = {}
    <3>1. PICK n \in 1..Len(t) : Widest(t) = <<t[n]>> /\ \A m \in 1..Len(t) : d[t[n]] <= d[t[m]]
      <4>1. 1 \in 1..Len(t)
        BY <1>2
      <4>2. QED
        BY <1>3, <4>1 DEF IsCheapest
    <3>2. Entry(t, p) = t[n]
      BY <2>1, <3>1 DEF Entry
    <3>3. ASSUME NEW m \in 1..Len(t) PROVE W(m) < p /\ W(m) <= W(n)
      <4>1. -W(n) <= -W(m) /\ W(n) \in Nat /\ W(m) \in Nat
        BY <1>2, <1>4, <3>1
      <4>2. ~(W(m) >= p)
        BY <1>5, <2>1
      <4>3. QED
        BY <4>1, <4>2
    <3>4. QED
      BY <3>2, <3>3
  <2>2. ASSUME NEW n \in E, BestFit(t, p) = <<t[n]>>, \A m \in E : c[t[n]] <= c[t[m]]
        PROVE  /\ n \in 1..Len(t) /\ Entry(t, p) = t[n] /\ W(n) >= p
               /\ \A m \in 1..Len(t) : W(m) >= p => W(n) <= W(m)
    BY <1>4, <1>5, <1>6, <2>2 DEF Entry
  <2>3. QED
    BY <1>3, <2>1, <2>2 DEF IsCheapest
<1>8. QED
  BY <1>7 DEF W

\* The selection's alternate setting and packet size are those of one endpoint.
LEMMA ChosenIs ==
    ASSUME cfg \in Configs, EndpointInv, pc # "panic", best # << >>, NEW p \in Nat
    PROVE  \E k \in IsochIn : Chosen(p).alt = cfg[ScopeOf(k)].alt /\ Chosen(p).raw = cfg[k].raw
<1>1. CASE alts = << >> \/ p = 0
  <2>1. PICK k \in IsochIn : best = <<BestRecord(k)>>
    BY DEF EndpointInv
  <2>2. Chosen(p) = BestRecord(k)
    BY <1>1, <2>1 DEF Chosen
  <2>3. QED
    BY <2>2 DEF BestRecord
<1>2. CASE ~(alts = << >> \/ p = 0)
  <2>1. alts \in Seq({AltOf(k) : k \in IsochIn})
    BY DEF EndpointInv
  <2>2. PICK n \in 1..Len(alts) : Entry(alts, p) = alts[n]
    BY <1>2, <2>1, EntryFits
  <2>3. PICK k \in IsochIn : alts[n] = AltOf(k)
    BY <2>1
  <2>4. Chosen(p) = AltOf(k)
    BY <1>2, <2>2, <2>3 DEF Chosen
  <2>5. QED
    BY <2>4 DEF AltOf
<1>3. QED
  BY <1>1, <1>2

-----------------------------------------------------------------------------
(* The negotiation *)

LEMMA SelFields ==
    ASSUME NEW s, NEW a, NEW r, NEW p, NEW o, o = SelOf(s, a, r, p)
    PROVE  /\ IsSel(o) /\ o.ifc = s.ifc /\ o.ep = s.ep /\ o.interval = s.interval /\ o.alts = s.alts
           /\ o.alt = a /\ o.raw = r /\ o.payload = p
  BY DEF IsSel, SelOf

\* Reselect takes the alternate setting and the packet size of the entry, no more.
LEMMA ReselectIs ==
    ASSUME NEW s, IsSel(s)
    PROVE  /\ s.alts = << >> \/ s.payload = 0 => Reselect(s) = s
           /\ ~(s.alts = << >> \/ s.payload = 0) =>
                 Reselect(s) = SelOf(s, Entry(s.alts, s.payload).alt,
                                     Entry(s.alts, s.payload).raw, s.payload)
<1> DEFINE e == Entry(s.alts, s.payload)
<1>1. Reselect(s) = IF s.alts = << >> \/ s.payload = 0 THEN s ELSE WithAlt(s, e.alt, e.raw)
  BY Zenon DEF Reselect, WithAlt, Entry
<1> HIDE DEF e
<1>2. WithAlt(s, e.alt, e.raw) = SelOf(s, e.alt, e.raw, s.payload)
  BY AltSet
<1>3. QED
  BY <1>1, <1>2 DEF e

LEMMA ProbeFields ==
    ASSUME NEW v, IsProbe(v), NEW x, NEW o, o = [v EXCEPT !.payload = x]
    PROVE  IsProbe(o) /\ o.ival = v.ival /\ o.payload = x
<1>1. o = [fmt |-> v.fmt, frame |-> v.frame, ival |-> v.ival, payload |-> x]
  BY DEF IsProbe
<1>2. QED
  BY <1>1 DEF IsProbe

\* What GetProbe makes of the camera's answer.
LEMMA AnswerTaken ==
    ASSUME cfg \in Configs, EndpointInv, pc # "panic", best # << >>, NEW p \in Nat,
           IsSel(sel), sel.alts = alts, sel.alt = best[1].alt, sel.raw = best[1].raw,
           NEW s, s = [sel EXCEPT !.payload = p], NEW new, new = Reselect(s)
    PROVE  /\ IsSel(new) /\ new.ifc = sel.ifc /\ new.ep = sel.ep
           /\ new.interval = sel.interval /\ new.alts = sel.alts
           /\ new.alt = Chosen(p).alt /\ new.raw = Chosen(p).raw
           /\ wmax_mps(new.raw) > 0 => CommitPayload(new) <= wmax_mps(new.raw)
<1>1. s = SelOf(sel, sel.alt, sel.raw, p)
  BY PayloadSet
<1>2. /\ IsSel(s) /\ s.ifc = sel.ifc /\ s.ep = sel.ep /\ s.interval = sel.interval
      /\ s.alts = sel.alts /\ s.alt = sel.alt /\ s.raw = sel.raw /\ s.payload = p
  BY <1>1, SelFields
<1>3. /\ IsSel(new) /\ new.ifc = s.ifc /\ new.ep = s.ep /\ new.interval = s.interval
      /\ new.alts = s.alts /\ new.payload = p
      /\ new.alt = Chosen(p).alt /\ new.raw = Chosen(p).raw
  <2>1. CASE alts = << >> \/ p = 0
    <3>1. new = s /\ Chosen(p) = best[1]
      BY <1>2, <2>1, ReselectIs DEF Chosen
    <3>2. QED
      BY <1>2, <3>1
  <2>2. CASE ~(alts = << >> \/ p = 0)
    <3>1. new = SelOf(s, Chosen(p).alt, Chosen(p).raw, p)
      BY <1>2, <2>2, ReselectIs DEF Chosen
    <3> DEFINE a == Chosen(p).alt
    <3> DEFINE r == Chosen(p).raw
    <3>2. new = SelOf(s, a, r, p)
      BY <3>1
    <3> HIDE DEF a, r
    <3>3. /\ IsSel(new) /\ new.ifc = s.ifc /\ new.ep = s.ep /\ new.interval = s.interval
          /\ new.alts = s.alts /\ new.alt = a /\ new.raw = r /\ new.payload = p
      BY ONLY <3>2, SelFields
    <3>4. QED
      BY <3>3 DEF a, r
  <2>3. QED
    BY <2>1, <2>2
<1>4. new.raw \in Nat
  <2>1. PICK k \in IsochIn : Chosen(p).raw = cfg[k].raw
    BY ChosenIs
  <2>2. cfg[k].raw \in Nat
    BY ConfigFacts DEF IsochIn
  <2>3. QED
    BY <1>3, <2>1, <2>2
<1>5. wmax_mps(new.raw) \in Nat
  BY <1>4 DEF wmax_mps
<1>6. CommitPayload(new) = IF wmax_mps(new.raw) > 0 /\ wmax_mps(new.raw) < p
                           THEN wmax_mps(new.raw) ELSE p
  BY <1>3 DEF CommitPayload, wmax_payload_per_uframe
<1>7. wmax_mps(new.raw) > 0 => CommitPayload(new) <= wmax_mps(new.raw)
  BY <1>5, <1>6
<1>8. QED
  BY <1>2, <1>3, <1>7

LEMMA NegotiationStep ==
    ASSUME ScanInv, HandInv, EndpointInv, NegotiationInv, [Next]_vars
    PROVE  NegotiationInv'
<1>0. /\ cam = [alt |-> cam.alt, probe |-> cam.probe, commit |-> cam.commit]
      /\ {"scan", "error", "panic"} \cap Starting = {} /\ cfg \in Configs
  BY DEF HandInv, Starting, ScanInv
\* The scan, and what ends the opening.
<1>1. ASSUME pc' \in {"scan", "error", "panic"}
      PROVE  NegotiationInv'
  BY <1>1 DEF NegotiationInv, Starting
<1>2. CASE \/ ScanInterface \/ ScanFormat \/ ScanFrame \/ ScanFramePanics
           \/ ScanEndpoint \/ ScanOther \/ ScanFails
           \/ SetProbeFails \/ GetProbeFails \/ SetCommitFails \/ ArmFails
  <2>1. pc' \in {"scan", "error", "panic"}
    BY <1>2 DEF ScanInterface, ScanFormat, ScanFrame, ScanFramePanics, ScanEndpoint, ScanOther,
       ScanFails, AtDesc, SetProbeFails, GetProbeFails, SetCommitFails, ArmFails, Fails
  <2>2. QED
    BY <1>1, <2>1
<1>3. CASE Select
  <2>1. /\ pc' = "alt0" /\ best # << >> /\ UNCHANGED <<best, alts, mjpeg, uncomp>>
        /\ sel' = [ifc |-> best[1].ifc, alt |-> best[1].alt, ep |-> best[1].ep,
                   raw |-> best[1].raw, fmt |-> Pick.fmt, frame |-> Pick.frame,
                   interval |-> from_uvc_ticks(Pick.ival), payload |-> 0, alts |-> alts]
    BY <1>3 DEF Select, scanVars, Pick
  <2>2. /\ sel'.ifc = best[1].ifc /\ sel'.ep = best[1].ep /\ sel'.alts = alts
        /\ sel'.alt = best[1].alt /\ sel'.raw = best[1].raw
        /\ sel'.interval = from_uvc_ticks(Pick.ival)
    BY <2>1
  <2>3. Pick' = Pick
    BY <2>1 DEF Pick
  <2>4. QED
    BY <2>1, <2>2, <2>3 DEF NegotiationInv, Starting
\* The steps of start_stream.
<1>4. ASSUME pc \in Starting, UNCHANGED scanVars
      PROVE  /\ Pick' = Pick /\ PickTicks' = PickTicks /\ UNCHANGED <<best, alts>> /\ pc # "panic"
             /\ \A p : Chosen(p)' = Chosen(p)
             /\ sel.interval = from_uvc_ticks(Pick.ival) /\ best # << >>
             /\ sel.ifc = best[1].ifc /\ sel.ep = best[1].ep /\ sel.alts = alts /\ IsSel(sel)
  <2>1. UNCHANGED <<best, alts, mjpeg, uncomp>>
    BY <1>4 DEF scanVars
  <2>2. Pick' = Pick
    BY <2>1 DEF Pick
  <2>3. PickTicks' = PickTicks
    BY <2>2 DEF PickTicks
  <2>4. \A p : Chosen(p)' = Chosen(p)
    BY <2>1 DEF Chosen
  <2>5. QED
    BY <1>4, <2>1, <2>2, <2>3, <2>4 DEF NegotiationInv, HandInv, Starting
<1>5. CASE SetAlt0
  <2>1. pc = "alt0" /\ pc' = "setprobe" /\ UNCHANGED <<scanVars, sel>>
    BY <1>5 DEF SetAlt0, Ok
  <2>2. sel.alt = best[1].alt /\ sel.raw = best[1].raw
    BY <2>1 DEF NegotiationInv
  <2>3. pc \in Starting
    BY <2>1 DEF Starting
  <2>4. QED
    BY <1>4, <2>1, <2>2, <2>3 DEF NegotiationInv
<1>6. CASE SetProbe
  <2>1. /\ pc = "setprobe" /\ pc' = "getmax" /\ UNCHANGED <<scanVars, sel>>
        /\ CamIs("probe", build_probe_commit_payload)
    BY <1>6 DEF SetProbe, Ok
  <2>2. pc \in Starting /\ sel.alt = best[1].alt /\ sel.raw = best[1].raw
    BY <2>1 DEF NegotiationInv, Starting
  <2>3. cam' = [alt |-> cam.alt, probe |-> build_probe_commit_payload, commit |-> cam.commit]
    BY <1>0, <2>1, CamSet
  <2>4. cam'.probe.ival = to_uvc_ticks(sel.interval)
    BY <2>3 DEF build_probe_commit_payload
  <2>5. cam'.probe.ival = PickTicks
    BY <1>4, <2>1, <2>2, <2>4 DEF PickTicks
  <2>6. QED
    BY <1>4, <2>1, <2>2, <2>5 DEF NegotiationInv
<1>7. CASE GetMax
  <2>1. pc = "getmax" /\ pc' = "getprobe" /\ UNCHANGED <<scanVars, sel, cam>>
    BY <1>7 DEF GetMax, Ok
  <2>2. /\ pc \in Starting /\ sel.alt = best[1].alt /\ sel.raw = best[1].raw
        /\ cam.probe.ival = PickTicks
    BY <2>1 DEF NegotiationInv, Starting
  <2>3. QED
    BY <1>4, <2>1, <2>2 DEF NegotiationInv
<1>8. CASE GetProbe
  <2>1. PICK p \in Payloads :
            LET answer == [cam.probe EXCEPT !.payload = p]
                chosen == Reselect([sel EXCEPT !.payload = p])
            IN  /\ CamIs("probe", answer)
                /\ sel' = [chosen EXCEPT !.payload = CommitPayload(chosen)]
                /\ probe' = [answer EXCEPT !.payload = CommitPayload(chosen)]
    BY <1>8 DEF GetProbe
  <2> DEFINE answer == [cam.probe EXCEPT !.payload = p]
  <2> DEFINE sized == [sel EXCEPT !.payload = p]
  <2> DEFINE new == Reselect(sized)
  <2>2. pc = "getprobe" /\ pc' = "commit" /\ UNCHANGED scanVars /\ p \in Nat
    BY <1>8, UvcStreamAssumption DEF GetProbe, Ok
  <2>3. /\ pc \in Starting /\ sel.alt = best[1].alt /\ sel.raw = best[1].raw
        /\ cam.probe.ival = PickTicks /\ IsProbe(cam.probe)
    BY <2>2 DEF NegotiationInv, HandInv, Starting
  <2>4. /\ CamIs("probe", answer)
        /\ sel' = [new EXCEPT !.payload = CommitPayload(new)]
        /\ probe' = [answer EXCEPT !.payload = CommitPayload(new)]
    BY <2>1
  <2>5. IsProbe(answer) /\ answer.ival = PickTicks /\ answer.payload = p
    BY <2>3, ProbeFields
  <2> HIDE DEF answer
  <2>6. probe'.ival = PickTicks /\ probe'.payload = CommitPayload(new)
    BY <2>4, <2>5, ProbeFields
  <2>7. cam'.probe = answer
    <3>1. cam' = [alt |-> cam.alt, probe |-> answer, commit |-> cam.commit]
      BY <1>0, <2>4, CamSet
    <3>2. QED
      BY <3>1
  <2> HIDE DEF sized
  <2>8. /\ IsSel(new) /\ new.ifc = sel.ifc /\ new.ep = sel.ep
        /\ new.interval = sel.interval /\ new.alts = sel.alts
        /\ new.alt = Chosen(p).alt /\ new.raw = Chosen(p).raw
        /\ wmax_mps(new.raw) > 0 => CommitPayload(new) <= wmax_mps(new.raw)
    <3>1. sized = [sel EXCEPT !.payload = p]
      BY DEF sized
    <3> HIDE DEF new
    <3>2. new = Reselect(sized)
      BY DEF new
    <3>3. /\ pc # "panic" /\ best # << >> /\ sel.alts = alts /\ IsSel(sel)
      BY <1>4, <2>2, <2>3
    <3>4. QED
      BY <1>0, <2>2, <2>3, <3>1, <3>2, <3>3, AnswerTaken
  <2> HIDE DEF new
  <2>9. sel' = SelOf(new, new.alt, new.raw, CommitPayload(new))
    BY <2>4, <2>8, PayloadSet
  <2>10. /\ sel'.ifc = new.ifc /\ sel'.ep = new.ep /\ sel'.interval = new.interval
         /\ sel'.alts = new.alts /\ sel'.alt = new.alt /\ sel'.raw = new.raw
    BY <2>9, SelFields
  <2>11. Chosen(cam.probe.payload)' = Chosen(p)
    BY <1>4, <2>2, <2>3, <2>5, <2>7 DEF Chosen
  <2>12. /\ sel'.alt = Chosen(cam.probe.payload)'.alt /\ sel'.raw = Chosen(cam.probe.payload)'.raw
         /\ cam'.probe.payload \in Nat /\ probe'.ival = PickTicks'
         /\ wmax_mps(sel'.raw) > 0 => probe'.payload <= wmax_mps(sel'.raw)
    BY <1>4, <2>2, <2>3, <2>5, <2>6, <2>7, <2>8, <2>10, <2>11
  <2>13. /\ sel'.interval = from_uvc_ticks(Pick'.ival)
         /\ best' # << >> /\ sel'.ifc = best'[1].ifc /\ sel'.ep = best'[1].ep /\ sel'.alts = alts'
    BY <1>4, <2>2, <2>3, <2>8, <2>10
  <2>14. QED
    BY <2>2, <2>12, <2>13 DEF NegotiationInv
\* From the answer on only the camera changes.
<1>9. ASSUME pc \in {"commit", "arm", "armed"}, pc' \in {"commit", "arm", "armed"},
             UNCHANGED <<scanVars, sel, probe>>, cam'.probe = cam.probe,
             pc' = "armed" => cam'.alt = sel.alt
      PROVE  NegotiationInv'
  <2>1. pc \in Starting
    BY <1>9 DEF Starting
  <2>2. /\ probe.ival = PickTicks
        /\ cam.probe.payload \in Nat
        /\ sel.alt = Chosen(cam.probe.payload).alt /\ sel.raw = Chosen(cam.probe.payload).raw
        /\ wmax_mps(sel.raw) > 0 => probe.payload <= wmax_mps(sel.raw)
    BY <1>9 DEF NegotiationInv
  <2>3. Chosen(cam.probe.payload)' = Chosen(cam.probe.payload)
    BY <1>4, <1>9, <2>1 DEF Chosen
  <2>4. QED
    BY <1>4, <1>9, <2>1, <2>2, <2>3 DEF NegotiationInv
<1>10. CASE SetCommit
  <2>1. pc = "commit" /\ pc' = "arm" /\ UNCHANGED <<scanVars, sel, probe>> /\ CamIs("commit", probe)
    BY <1>10 DEF SetCommit, Ok
  <2>2. cam' = [alt |-> cam.alt, probe |-> cam.probe, commit |-> probe]
    BY <1>0, <2>1, CamSet
  <2>3. cam'.probe = cam.probe
    BY <2>2
  <2>4. QED
    BY <1>9, <2>1, <2>3
<1>11. CASE Arm
  <2>1. pc = "arm" /\ pc' = "armed" /\ UNCHANGED <<scanVars, sel, probe>> /\ CamIs("alt", sel.alt)
    BY <1>11 DEF Arm, Ok
  <2>2. cam' = [alt |-> sel.alt, probe |-> cam.probe, commit |-> cam.commit]
    BY <1>0, <2>1, CamSet
  <2>3. cam'.probe = cam.probe /\ cam'.alt = sel.alt
    BY <2>2
  <2>4. QED
    BY <1>9, <2>1, <2>3
<1>12. CASE UNCHANGED vars
  <2>1. UNCHANGED <<best, alts, mjpeg, uncomp, pc, sel, probe, cam>> /\ Pick' = Pick
    BY <1>12 DEF vars, scanVars, Pick
  <2>2. PickTicks' = PickTicks /\ Chosen(cam.probe.payload)' = Chosen(cam.probe.payload)
    BY <2>1 DEF PickTicks, Chosen
  <2>3. QED
    BY <2>1, <2>2 DEF NegotiationInv
<1>13. QED
  BY <1>2, <1>3, <1>5, <1>6, <1>7, <1>8, <1>10, <1>11, <1>12 DEF Next

LEMMA NegotiationBegins == Init => NegotiationInv
  BY DEF Init, NegotiationInv, Starting

\* The negotiation rests on the scan's picks, its endpoints and the hand-over.
OpeningInv == ScanInv /\ HandInv /\ EndpointInv /\ NegotiationInv

LEMMA OpeningHolds == Spec => []OpeningInv
<1>1. OpeningInv /\ [Next]_vars => OpeningInv'
  BY ScanStep, HandStep, EndpointStep, NegotiationStep DEF OpeningInv
<1>2. Init => OpeningInv
  BY ScanBegins, HandBegins, EndpointBegins, NegotiationBegins DEF OpeningInv
<1>3. QED
  BY <1>1, <1>2, PTL DEF Spec

LEMMA TicksThere ==
    ASSUME NEW v \in Nat
    PROVE  to_uvc_ticks(from_uvc_ticks(v)) = v
  BY DEF to_uvc_ticks, from_uvc_ticks

\* With a preferred interval set, the camera ends up committed to an interval that is
\* no farther from the preferred one than any the committed frame supports, and that
\* the frame supports itself unless the steps of its range miss the place the clamp
\* takes: a list, a range of any step and the default interval are all considered, and
\* the detour through nanoseconds loses nothing (descriptor.rs, choose_frame_interval
\* and parse_vs_frame; stream.rs, build_probe_commit_payload and start_stream).
THEOREM CommitsToClosest == Spec => []CommittedIntervalClosest
<1>1. OpeningInv => CommittedIntervalClosest
  <2> SUFFICES ASSUME OpeningInv, Armed, PrefTicks > 0 PROVE CommittedIntervalClosest
    BY DEF CommittedIntervalClosest
  <2>1. PICK k \in Offered : k \in VsFrames /\ TakenFrom(Pick, k) /\ Committed(k)
    BY PickedFrame DEF OpeningInv
  <2>2. cam.commit.ival = to_uvc_ticks(from_uvc_ticks(Pick.ival))
    BY DEF Armed, OpeningInv, HandInv, NegotiationInv, PickTicks
  <2>3. /\ cfg[k].dflt \in Nat /\ cfg[k].ivals \in Seq(Nat) /\ cfg[k].continuous \in BOOLEAN
    BY <2>1, ConfigFacts DEF OpeningInv, ScanInv, VsFrames
  <2>4. Pick.ival = parse_vs_frame(cfg[k], FormatOf(k)).ival /\ ~ClampPanics(cfg[k])
    BY <2>1 DEF TakenFrom
  <2>5. ASSUME Intervals(k) # {}
        PROVE  /\ cam.commit.ival \in Intervals(k) \/ BetweenSteps(k)
               /\ \A v \in Intervals(k) : Distance(cam.commit.ival) <= Distance(v)
    <3>1. /\ Pick.ival \in Intervals(k) \/ BetweenSteps(k)
          /\ Pick.ival \in Nat
          /\ \A v \in Intervals(k) : Distance(Pick.ival) <= Distance(v)
      BY <2>3, <2>4, <2>5, IntervalClosest
    <3>2. cam.commit.ival = Pick.ival
      BY <2>2, <3>1, TicksThere
    <3>3. QED
      BY <3>1, <3>2
  <2>6. QED
    BY <2>1, <2>5 DEF CommittedIntervalClosest
<1>2. QED
  BY <1>1, OpeningHolds, PTL

\* What holds of the selection once the camera streams.
LEMMA ArmedWith ==
    ASSUME OpeningInv, Armed
    PROVE  /\ cfg \in Configs /\ pc # "panic" /\ best # << >> /\ cam.probe.payload \in Nat
           /\ cam.alt = sel.alt /\ sel.ifc = best[1].ifc /\ sel.ep = best[1].ep
           /\ sel.alt = Chosen(cam.probe.payload).alt /\ sel.raw = Chosen(cam.probe.payload).raw
           /\ wmax_mps(sel.raw) > 0 => cam.commit.payload <= wmax_mps(sel.raw)
           /\ i > Len(cfg)
<1>1. pc = "armed" /\ cfg \in Configs
  BY DEF Armed, OpeningInv, ScanInv
<1>2. i > Len(cfg) /\ cam.commit = probe
  BY <1>1 DEF OpeningInv, HandInv, Starting
<1>3. QED
  BY <1>1, <1>2 DEF OpeningInv, NegotiationInv, Starting

\* The camera's isochronous endpoints are the alternate settings of one endpoint.
OneEndpoint ==
    \A j, k \in IsochIn : cfg[ScopeOf(j)].num = cfg[ScopeOf(k)].num /\ cfg[j].ep = cfg[k].ep

\* A camera with one streaming endpoint ends up in an alternate setting that has it,
\* with the packet size the host counts on, and never sends more per microframe than it
\* carries, whatever it answered to PROBE (stream.rs, start_stream and
\* reselect_isoch_alt_for_payload).  With two endpoints the host may read one and arm
\* the other: the table keeps no endpoint and no interface.
THEOREM StreamFitsEndpoint == Spec => [](OneEndpoint => StreamFits)
<1>1. OpeningInv => (OneEndpoint => StreamFits)
  <2> SUFFICES ASSUME OpeningInv, OneEndpoint, Armed PROVE StreamFits
    BY DEF StreamFits
  <2>1. /\ cfg \in Configs /\ pc # "panic" /\ best # << >> /\ cam.probe.payload \in Nat
        /\ cam.alt = sel.alt /\ sel.ifc = best[1].ifc /\ sel.ep = best[1].ep
        /\ sel.alt = Chosen(cam.probe.payload).alt /\ sel.raw = Chosen(cam.probe.payload).raw
        /\ wmax_mps(sel.raw) > 0 => cam.commit.payload <= wmax_mps(sel.raw)
    BY ArmedWith
  <2>2. EndpointInv
    BY DEF OpeningInv
  <2>3. PICK k \in IsochIn : sel.alt = cfg[ScopeOf(k)].alt /\ sel.raw = cfg[k].raw
    BY <2>1, <2>2, ChosenIs
  <2>4. PICK j \in IsochIn : best = <<BestRecord(j)>>
    BY <2>1, <2>2 DEF EndpointInv
  <2>5. sel.ifc = cfg[ScopeOf(j)].num /\ sel.ep = cfg[j].ep
    BY <2>1, <2>4 DEF BestRecord
  <2>6. ArmedEndpoint(k)
    BY <2>1, <2>3, <2>5 DEF ArmedEndpoint, OneEndpoint
  <2>7. QED
    BY <2>1, <2>3, <2>6 DEF StreamFits
<1>2. QED
  BY <1>1, OpeningHolds, PTL

\* When the table has room for all of the camera's alternate settings, the one armed is
\* the narrowest of them that carries the payload size the camera asked for, or the
\* widest if none does (descriptor.rs, IsochCandidates::consider and
\* reselect_isoch_alt_for_payload).  A longer list is cut, and the choice with it.
THEOREM ArmsFittingAlt == Spec => [](TableHolds => ArmedAltFits)
<1>1. OpeningInv => (TableHolds => ArmedAltFits)
  <2> DEFINE size(k) == wmax_mps(cfg[k].raw)
  <2> DEFINE sizes == {wmax_mps(cfg[k].raw) : k \in IsochIn}
  <2> DEFINE enough == {s \in sizes : s >= cam.probe.payload}
  <2> SUFFICES ASSUME OpeningInv, TableHolds, Armed, cam.probe.payload > 0
               PROVE  wmax_mps(sel.raw) = IF enough # {} THEN Min(enough) ELSE Max(sizes)
    BY DEF ArmedAltFits
  <2>1. /\ cfg \in Configs /\ pc # "panic" /\ best # << >> /\ cam.probe.payload \in Nat
        /\ sel.raw = Chosen(cam.probe.payload).raw /\ i > Len(cfg)
    BY ArmedWith
  <2>2. /\ alts \in Seq({AltOf(k) : k \in IsochIn}) /\ alts # << >>
        /\ \A k \in Seen : \E n \in 1..Len(alts) : alts[n] = AltOf(k)
    BY <2>1 DEF OpeningInv, EndpointInv
  <2>3. Seen = IsochIn
    <3>1. Len(cfg) \in Nat /\ \A k \in IsochIn : k \in 1..Len(cfg)
      BY <2>1, ConfigFacts DEF IsochIn
    <3>2. i \in Nat
      BY <2>1, <3>1 DEF OpeningInv, ScanInv
    <3>3. \A k \in IsochIn : k < i
      BY <2>1, <3>1, <3>2
    <3>4. QED
      BY <3>3 DEF Seen
  <2> DEFINE W(n) == wmax_mps(alts[n].raw)
  <2>4. /\ \A n \in 1..Len(alts) : W(n) \in sizes
        /\ \A s \in sizes : \E n \in 1..Len(alts) : W(n) = s
        /\ \A s \in sizes : s \in Nat
    <3>1. \A k \in IsochIn : AltOf(k).raw = cfg[k].raw
      BY DEF AltOf
    <3>2. \A n \in 1..Len(alts) : \E k \in IsochIn : alts[n] = AltOf(k)
      BY <2>2
    <3>3. \A k \in IsochIn : cfg[k].raw \in Nat
      BY <2>1, ConfigFacts DEF IsochIn
    <3>4. \A r \in Nat : wmax_mps(r) \in Nat
      BY DEF wmax_mps
    <3>5. \A n \in 1..Len(alts) : W(n) \in sizes
      BY <3>1, <3>2
    <3>6. ASSUME NEW k \in IsochIn PROVE \E n \in 1..Len(alts) : W(n) = size(k)
      <4>1. PICK n \in 1..Len(alts) : alts[n] = AltOf(k)
        BY <2>2, <2>3
      <4>2. W(n) = size(k)
        BY <3>1, <4>1
      <4>3. QED
        BY <4>2
    <3> HIDE DEF W
    <3>7. \A s \in sizes : \E n \in 1..Len(alts) : W(n) = s
      BY <3>6
    <3>8. \A s \in sizes : s \in Nat
      BY <3>3, <3>4
    <3>9. QED
      BY <3>5, <3>7, <3>8
  <2>5. PICK p \in Nat : p = cam.probe.payload /\ p > 0
    BY <2>1
  <2>6. sel.raw = Entry(alts, p).raw
    BY <2>1, <2>2, <2>5 DEF Chosen
  <2>7. PICK n \in 1..Len(alts) :
            /\ Entry(alts, p) = alts[n]
            /\ \/ W(n) >= p /\ \A m \in 1..Len(alts) : W(m) >= p => W(n) <= W(m)
               \/ \A m \in 1..Len(alts) : W(m) < p /\ W(m) <= W(n)
    BY <2>1, <2>2, EntryFits
  <2>8. wmax_mps(sel.raw) = W(n)
    BY <2>6, <2>7
  <2>9. \A s : s \in enough <=> s \in sizes /\ s >= p
    BY <2>5
  <2> HIDE DEF sizes, enough, W
  <2>10. CASE W(n) >= p /\ \A m \in 1..Len(alts) : W(m) >= p => W(n) <= W(m)
    <3>1. W(n) \in enough /\ \A s \in enough : s \in Nat /\ W(n) <= s
      BY <2>4, <2>9, <2>10
    <3>2. Min(enough) = W(n) /\ enough # {}
      BY <3>1, MinIs
    <3>3. QED
      BY <2>8, <3>2
  <2>11. CASE \A m \in 1..Len(alts) : W(m) < p /\ W(m) <= W(n)
    <3>1. W(n) \in sizes /\ \A s \in sizes : s \in Nat /\ s < p /\ s <= W(n)
      BY <2>4, <2>11
    <3>2. enough = {}
      BY <2>9, <3>1
    <3>3. Max(sizes) = W(n)
      BY <3>1, MaxIs
    <3>4. QED
      BY <2>8, <3>2, <3>3
  <2>12. QED
    BY <2>7, <2>10, <2>11
<1>2. QED
  BY <1>1, OpeningHolds, PTL

-----------------------------------------------------------------------------
(* The control phase *)

\* The control phase changes nothing of the stream's, and its requests nothing of
\* the search for entities.
LEMMA CtlSteps ==
    ASSUME CtlNext
    PROVE  /\ UNCHANGED vars
           /\ \/ EntInterface \/ EntUnit \/ EntTerminal \/ EntOther \/ EntEnd
              \/ cpc # "scan" /\ cpc' # "scan" /\ UNCHANGED <<ci, inVc, ent>>
<1>1. CASE EntInterface \/ EntUnit \/ EntTerminal \/ EntOther \/ EntEnd
  BY <1>1 DEF EntInterface, EntUnit, EntTerminal, EntOther, EntEnd, AtEntity
<1>2. AfterUnit # "scan"
  BY DEF AfterUnit
<1>3. ASSUME NEW step, NEW next, At(step, next), step # "scan", next # "scan"
      PROVE  UNCHANGED vars /\ cpc # "scan" /\ cpc' # "scan" /\ UNCHANGED <<ci, inVc, ent>>
  BY <1>3 DEF At
<1>4. CASE ApplyItem
  BY <1>3, <1>4 DEF ApplyItem
<1>5. CASE WbAutoOff \/ WbTempDefault \/ WbAutoOn \/ WbRead
  BY <1>3, <1>5 DEF WbAutoOff, WbTempDefault, WbAutoOn, WbRead, Setting
<1>6. CASE WbManual \/ Wb4500 \/ HueAuto \/ PowerLine50
  BY <1>2, <1>3, <1>6 DEF WbManual, Wb4500, HueAuto, PowerLine50, Setting
<1>7. CASE AeSkipped \/ AeAccepted \/ AeTryNext \/ AePriority \/ FocusAuto
  BY <1>3, <1>7 DEF AeSkipped, AeAccepted, AeTryNext, AePriority, FocusAuto, Setting
<1>8. QED
  BY <1>1, <1>4, <1>5, <1>6, <1>7 DEF CtlNext

\* Seen from the stream, the control phase is a pause before start_stream.
LEMMA OpenSteps ==
    ASSUME [OpenNext]_openVars
    PROVE  [Next]_vars
  BY CtlSteps DEF OpenNext, openVars

\* Opening a camera with its image controls is opening its stream.
THEOREM OpenIsStream == OpenSpec => Spec
<1>1. OpenInit => Init
  BY DEF OpenInit
<1>2. [OpenNext]_openVars => [Next]_vars
  BY OpenSteps
<1>3. QED
  BY <1>1, <1>2, PTL DEF OpenSpec, Spec

\* The settings sent in between do not change which frame the camera is committed to.
THEOREM OpenCommitsToPreferred == OpenSpec => []CommittedFramePreferred
  BY OpenIsStream, CommitsToPreferred, PTL

\* Nor do they change the interval, the endpoint or the alternate setting.
THEOREM OpenNegotiates ==
    OpenSpec => [](/\ CommittedIntervalClosest
                   /\ OneEndpoint => StreamFits
                   /\ TableHolds => ArmedAltFits)
  BY OpenIsStream, CommitsToClosest, StreamFitsEndpoint, ArmsFittingAlt, PTL

\* The scan and the reading of the whole agree on the scope of the next descriptor.
LEMMA EntityAt ==
    ASSUME EntityInv, ci <= Len(cfg)
    PROVE  /\ ci \in DOMAIN cfg /\ ci \in Nat /\ ci + 1 \in 1..(Len(cfg) + 1)
           /\ cfg[ci].ty = "interface" => (InVc(ci) <=> cfg[ci].vc)
           /\ cfg[ci].ty # "interface" => (InVc(ci) <=> inVc)
<1>1. Len(cfg) \in Nat /\ DOMAIN cfg = 1..Len(cfg) /\ ci \in 1..(Len(cfg) + 1)
  BY ConfigFacts DEF EntityInv
<1>2. ci - 1 \in Nat /\ (ci - 1) + 1 = ci
  BY <1>1
<1>3. /\ cfg[ci].ty = "interface" => (InVc(ci) <=> cfg[ci].vc)
      /\ cfg[ci].ty # "interface" => (InVc(ci) <=> InVc(ci - 1))
  BY <1>2, InVcStep
<1>4. QED
  BY <1>1, <1>3 DEF EntityInv

LEMMA FoundStep ==
    ASSUME NEW S, \A k \in S : k \in Nat, NEW n \in Nat, NEW id, NEW bm
    PROVE  /\ Found(S, n, id, bm) /\ n \notin S => Found(S, n + 1, id, bm)
           /\ n \in S => Found(S, n + 1, cfg[n].ix, cfg[n].bm)
<1>1. \A k \in S : /\ k < n => k < n + 1
                   /\ (k >= n /\ k # n) => k >= n + 1
  OBVIOUS
<1>2. n < n + 1
  OBVIOUS
<1>3. ASSUME Found(S, n, id, bm), n \notin S PROVE Found(S, n + 1, id, bm)
  BY <1>1, <1>3 DEF Found
<1>4. ASSUME n \in S PROVE Found(S, n + 1, cfg[n].ix, cfg[n].bm)
  BY <1>2, <1>4 DEF Found
<1>5. QED
  BY <1>3, <1>4

\* A record of entities with another unit, terminal or interface.
LEMMA EntSet ==
    ASSUME ent = [ifc |-> ent.ifc, ct |-> ent.ct, ctBm |-> ent.ctBm,
                  pu |-> ent.pu, puBm |-> ent.puBm],
           NEW v, NEW w
    PROVE  /\ [ent EXCEPT !.ifc = v] =
                 [ifc |-> v, ct |-> ent.ct, ctBm |-> ent.ctBm, pu |-> ent.pu, puBm |-> ent.puBm]
           /\ [ent EXCEPT !.pu = v, !.puBm = w] =
                 [ifc |-> ent.ifc, ct |-> ent.ct, ctBm |-> ent.ctBm, pu |-> v, puBm |-> w]
           /\ [ent EXCEPT !.ct = v, !.ctBm = w] =
                 [ifc |-> ent.ifc, ct |-> v, ctBm |-> w, pu |-> ent.pu, puBm |-> ent.puBm]
<1> DEFINE Rec(a, b, c, d, e) == [ifc |-> a, ct |-> b, ctBm |-> c, pu |-> d, puBm |-> e]
<1>1. ASSUME NEW a, NEW b, NEW c, NEW d, NEW e
      PROVE  /\ [Rec(a, b, c, d, e) EXCEPT !.ifc = v] = Rec(v, b, c, d, e)
             /\ [Rec(a, b, c, d, e) EXCEPT !.ct = v] = Rec(a, v, c, d, e)
             /\ [Rec(a, b, c, d, e) EXCEPT !.ctBm = w] = Rec(a, b, w, d, e)
             /\ [Rec(a, b, c, d, e) EXCEPT !.pu = v] = Rec(a, b, c, v, e)
             /\ [Rec(a, b, c, d, e) EXCEPT !.puBm = w] = Rec(a, b, c, d, w)
  OBVIOUS
<1>2. /\ [ent EXCEPT !.pu = v, !.puBm = w] = [[ent EXCEPT !.pu = v] EXCEPT !.puBm = w]
      /\ [ent EXCEPT !.ct = v, !.ctBm = w] = [[ent EXCEPT !.ct = v] EXCEPT !.ctBm = w]
  OBVIOUS
<1>3. ent = Rec(ent.ifc, ent.ct, ent.ctBm, ent.pu, ent.puBm)
  OBVIOUS
<1> HIDE DEF Rec
<1>4. /\ [ent EXCEPT !.ifc = v] = Rec(v, ent.ct, ent.ctBm, ent.pu, ent.puBm)
      /\ [ent EXCEPT !.pu = v] = Rec(ent.ifc, ent.ct, ent.ctBm, v, ent.puBm)
      /\ [ent EXCEPT !.ct = v] = Rec(ent.ifc, v, ent.ctBm, ent.pu, ent.puBm)
  BY <1>1, <1>3
<1>5. /\ [Rec(ent.ifc, ent.ct, ent.ctBm, v, ent.puBm) EXCEPT !.puBm = w] =
             Rec(ent.ifc, ent.ct, ent.ctBm, v, w)
      /\ [Rec(ent.ifc, v, ent.ctBm, ent.pu, ent.puBm) EXCEPT !.ctBm = w] =
             Rec(ent.ifc, v, w, ent.pu, ent.puBm)
  BY <1>1
<1>6. /\ [ent EXCEPT !.pu = v, !.puBm = w] = Rec(ent.ifc, ent.ct, ent.ctBm, v, w)
      /\ [ent EXCEPT !.ct = v, !.ctBm = w] = Rec(ent.ifc, v, w, ent.pu, ent.puBm)
  BY ONLY <1>2, <1>4, <1>5
<1>7. QED
  BY <1>4, <1>6 DEF Rec

\* The descriptor stays the same.
LEMMA CfgFixed ==
    ASSUME [OpenNext]_openVars
    PROVE  UNCHANGED cfg
<1>1. CASE CtlNext
  BY <1>1, CtlSteps DEF vars, scanVars
<1>2. CASE UNCHANGED openVars
  BY <1>2 DEF openVars, vars, scanVars
<1>3. CASE Next
  <2>1. CASE ScanInterface \/ ScanFormat \/ ScanFrame \/ ScanFramePanics \/ ScanEndpoint \/ ScanOther
    BY <2>1 DEF ScanInterface, ScanFormat, ScanFrame, ScanFramePanics, ScanEndpoint, ScanOther
  <2>2. CASE \/ ScanFails \/ Select \/ SetAlt0 \/ SetProbe \/ SetProbeFails \/ GetMax
             \/ GetProbe \/ GetProbeFails \/ SetCommit \/ SetCommitFails \/ Arm \/ ArmFails
    BY <2>2 DEF ScanFails, Select, SetAlt0, SetProbe, SetProbeFails, GetMax, GetProbe,
       GetProbeFails, SetCommit, SetCommitFails, Arm, ArmFails, scanVars
  <2>3. QED
    BY <1>3, <2>1, <2>2 DEF Next
<1>4. QED
  BY <1>1, <1>2, <1>3 DEF OpenNext

LEMMA EntityStep ==
    ASSUME EntityInv, [OpenNext]_openVars
    PROVE  EntityInv'
<1>1. UNCHANGED cfg
  BY CfgFixed
\* The descriptor is read the same before and after.
<1>2. SUFFICES /\ ci' \in 1..(Len(cfg) + 1) /\ (cpc' # "scan" => ci' = Len(cfg) + 1)
               /\ inVc' <=> InVc(ci' - 1)
               /\ ent' = [ifc |-> ent'.ifc, ct |-> ent'.ct, ctBm |-> ent'.ctBm,
                          pu |-> ent'.pu, puBm |-> ent'.puBm]
               /\ Found(Units, ci', ent'.pu, ent'.puBm)
               /\ Found(Terminals, ci', ent'.ct, ent'.ctBm)
  <2>1. Units' = Units /\ Terminals' = Terminals /\ InVc(ci - 1)' = InVc(ci' - 1)
    BY <1>1 DEF Units, Terminals, IsUnit, IsCameraTerminal, InVc, ScopeOf
  <2>2. /\ Found(Units, ci, ent.pu, ent.puBm)' <=> Found(Units, ci', ent'.pu, ent'.puBm)
        /\ Found(Terminals, ci, ent.ct, ent.ctBm)' <=> Found(Terminals, ci', ent'.ct, ent'.ctBm)
    BY <1>1, <2>1 DEF Found
  <2>3. cfg' \in Configs
    BY <1>1 DEF EntityInv
  <2>4. QED
    BY <1>1, <2>1, <2>2, <2>3 DEF EntityInv
<1>3. CASE UNCHANGED <<ci, inVc, ent>> /\ (cpc' # "scan" => cpc # "scan" \/ ci > Len(cfg))
  <2>1. Len(cfg) \in Nat /\ ci \in 1..(Len(cfg) + 1)
    BY ConfigFacts DEF EntityInv
  <2>2. cpc' # "scan" => ci = Len(cfg) + 1
    BY <1>3, <2>1 DEF EntityInv
  <2>3. QED
    BY <1>3, <2>2 DEF EntityInv
<1>4. CASE EntInterface \/ EntUnit \/ EntTerminal \/ EntOther
  <2>1. ci <= Len(cfg) /\ ci' = ci + 1 /\ cpc = "scan" /\ cpc' = "scan"
    BY <1>4 DEF EntInterface, EntUnit, EntTerminal, EntOther, AtEntity
  <2>2. /\ ci \in DOMAIN cfg /\ ci \in Nat /\ ci' \in 1..(Len(cfg) + 1) /\ ci' - 1 = ci
        /\ cfg[ci].ty = "interface" => (InVc(ci) <=> cfg[ci].vc)
        /\ cfg[ci].ty # "interface" => (InVc(ci) <=> inVc)
    BY <2>1, EntityAt
  <2>3. /\ ci \in Units <=> IsUnit(ci) /\ InVc(ci)
        /\ ci \in Terminals <=> IsCameraTerminal(ci) /\ InVc(ci)
        /\ \A k \in Units \cup Terminals : k \in Nat
    <3>1. \A k \in DOMAIN cfg : k \in Nat
      BY ConfigFacts DEF EntityInv
    <3>2. QED
      BY <2>2, <3>1 DEF Units, Terminals
  <2>4. /\ ci \notin Units => Found(Units, ci', ent.pu, ent.puBm)
        /\ ci \in Units => Found(Units, ci', cfg[ci].ix, cfg[ci].bm)
        /\ ci \notin Terminals => Found(Terminals, ci', ent.ct, ent.ctBm)
        /\ ci \in Terminals => Found(Terminals, ci', cfg[ci].ix, cfg[ci].bm)
    <3>1. Found(Units, ci, ent.pu, ent.puBm) /\ Found(Terminals, ci, ent.ct, ent.ctBm)
      BY DEF EntityInv
    <3>2. QED
      BY <2>1, <2>2, <2>3, <3>1, FoundStep
  <2>5. ent = [ifc |-> ent.ifc, ct |-> ent.ct, ctBm |-> ent.ctBm, pu |-> ent.pu, puBm |-> ent.puBm]
    BY DEF EntityInv
  <2>6. CASE EntInterface
    <3>1. /\ cfg[ci].ty = "interface" /\ inVc' = cfg[ci].vc
          /\ ent' = IF cfg[ci].vc THEN [ent EXCEPT !.ifc = cfg[ci].num] ELSE ent
      BY <2>6 DEF EntInterface, AtEntity
    <3>2. ent' \in {ent, [ifc |-> cfg[ci].num, ct |-> ent.ct, ctBm |-> ent.ctBm,
                         pu |-> ent.pu, puBm |-> ent.puBm]}
      BY <2>5, <3>1, EntSet
    <3>3. /\ ent' = [ifc |-> ent'.ifc, ct |-> ent'.ct, ctBm |-> ent'.ctBm,
                     pu |-> ent'.pu, puBm |-> ent'.puBm]
          /\ ent'.pu = ent.pu /\ ent'.puBm = ent.puBm /\ ent'.ct = ent.ct /\ ent'.ctBm = ent.ctBm
      BY <2>5, <3>2
    <3>4. ci \notin Units /\ ci \notin Terminals
      BY <3>1 DEF Units, Terminals, IsUnit, IsCameraTerminal
    <3>5. inVc' <=> InVc(ci' - 1)
      BY <2>2, <3>1
    <3>6. QED
      BY <2>1, <2>2, <2>4, <3>3, <3>4, <3>5
  <2>7. ASSUME cfg[ci].ty # "interface", UNCHANGED inVc
        PROVE  inVc' <=> InVc(ci' - 1)
    BY <2>2, <2>7 DEF EntityInv
  <2>8. CASE EntUnit
    <3>1. /\ cfg[ci].ty = "frame" /\ UNCHANGED inVc
          /\ ent' = IF inVc /\ IsUnit(ci)
                      THEN [ent EXCEPT !.pu = cfg[ci].ix, !.puBm = cfg[ci].bm] ELSE ent
      BY <2>8 DEF EntUnit, AtEntity
    <3>2. ci \notin Terminals /\ (ci \in Units <=> inVc /\ IsUnit(ci))
      BY <2>2, <2>3, <3>1 DEF IsCameraTerminal
    <3>3. CASE ci \in Units
      <4>1. ent' = [ifc |-> ent.ifc, ct |-> ent.ct, ctBm |-> ent.ctBm,
                    pu |-> cfg[ci].ix, puBm |-> cfg[ci].bm]
        BY <2>5, <3>1, <3>2, <3>3, EntSet
      <4>2. QED
        BY <2>1, <2>2, <2>4, <2>7, <3>1, <3>2, <3>3, <4>1
    <3>4. CASE ci \notin Units
      BY <2>1, <2>2, <2>4, <2>5, <2>7, <3>1, <3>2, <3>4
    <3>5. QED
      BY <3>3, <3>4
  <2>9. CASE EntTerminal
    <3>1. /\ cfg[ci].ty = "terminal" /\ UNCHANGED inVc
          /\ ent' = IF inVc /\ IsCameraTerminal(ci)
                      THEN [ent EXCEPT !.ct = cfg[ci].ix, !.ctBm = cfg[ci].bm] ELSE ent
      BY <2>9 DEF EntTerminal, AtEntity
    <3>2. ci \notin Units /\ (ci \in Terminals <=> inVc /\ IsCameraTerminal(ci))
      BY <2>2, <2>3, <3>1 DEF IsUnit
    <3>3. CASE ci \in Terminals
      <4>1. ent' = [ifc |-> ent.ifc, ct |-> cfg[ci].ix, ctBm |-> cfg[ci].bm,
                    pu |-> ent.pu, puBm |-> ent.puBm]
        BY <2>5, <3>1, <3>2, <3>3, EntSet
      <4>2. QED
        BY <2>1, <2>2, <2>4, <2>7, <3>1, <3>2, <3>3, <4>1
    <3>4. CASE ci \notin Terminals
      BY <2>1, <2>2, <2>4, <2>5, <2>7, <3>1, <3>2, <3>4
    <3>5. QED
      BY <3>3, <3>4
  <2>10. CASE EntOther
    <3>1. cfg[ci].ty \in {"format", "endpoint", "other"} /\ UNCHANGED <<inVc, ent>>
      BY <2>10 DEF EntOther, AtEntity
    <3>2. ci \notin Units /\ ci \notin Terminals
      BY <3>1 DEF Units, Terminals, IsUnit, IsCameraTerminal
    <3>3. QED
      BY <2>1, <2>2, <2>4, <2>5, <2>7, <3>1, <3>2
  <2>11. QED
    BY <1>4, <2>6, <2>8, <2>9, <2>10
<1>5. CASE EntEnd
  BY <1>3, <1>5 DEF EntEnd
<1>6. CASE cpc # "scan" /\ UNCHANGED <<ci, inVc, ent>>
  BY <1>3, <1>6
<1>7. CASE UNCHANGED ctlVars
  BY <1>3, <1>7 DEF ctlVars
<1>8. QED
  BY <1>4, <1>5, <1>6, <1>7, CtlSteps DEF OpenNext, openVars

LEMMA EntityBegins == OpenInit => EntityInv
<1> SUFFICES ASSUME OpenInit PROVE EntityInv
  OBVIOUS
<1>1. /\ cfg \in Configs /\ ci = 1 /\ cpc = "scan" /\ inVc = FALSE
      /\ ent = [ifc |-> 0, ct |-> 0, ctBm |-> {}, pu |-> 0, puBm |-> {}]
  BY DEF OpenInit, Init, CtlInit
<1>2. Len(cfg) \in Nat /\ \A k \in Units \cup Terminals : k \in Nat /\ k >= 1
  BY <1>1, ConfigFacts DEF Units, Terminals
<1>3. ci \in 1..(Len(cfg) + 1) /\ ci - 1 = 0 /\ \A k \in Units \cup Terminals : k >= ci
  BY <1>1, <1>2
<1>4. Found(Units, ci, ent.pu, ent.puBm) /\ Found(Terminals, ci, ent.ct, ent.ctBm)
  BY <1>1, <1>3 DEF Found
<1>5. QED
  BY <1>1, <1>3, <1>4, NothingBefore DEF EntityInv

LEMMA EntityScope == EntityInv => EntitiesInScope
<1> SUFFICES ASSUME EntityInv, cpc # "scan" PROVE EntitiesInScope
  BY DEF EntitiesInScope
<1>1. cfg \in Configs /\ ci = Len(cfg) + 1 /\ Len(cfg) \in Nat /\ DOMAIN cfg = 1..Len(cfg)
  BY ConfigFacts DEF EntityInv
<1>2. \A k \in DOMAIN cfg : ~(k >= ci)
  BY <1>1
<1>3. \A k \in Units \cup Terminals : k \in DOMAIN cfg /\ cfg[k].ix # 0
  BY <1>1, UvcControlAssumption DEF Units, Terminals, IsUnit, IsCameraTerminal
<1>4. Found(Units, ci, ent.pu, ent.puBm) /\ Found(Terminals, ci, ent.ct, ent.ctBm)
  BY DEF EntityInv
<1>5. /\ \/ ent.pu = 0 /\ Units = {}
         \/ \E k \in Units : ent.pu = cfg[k].ix /\ ent.puBm = cfg[k].bm
      /\ \/ ent.ct = 0 /\ Terminals = {}
         \/ \E k \in Terminals : ent.ct = cfg[k].ix /\ ent.ctBm = cfg[k].bm
  BY <1>2, <1>3, <1>4 DEF Found
<1>6. QED
  BY <1>3, <1>5 DEF EntitiesInScope

\* For every configuration descriptor, the unit and the terminal that receive the
\* image settings are those of the control interface and are found when it has them
\* (descriptor.rs, parse_uvc_control_entities).
THEOREM EntitiesAreInScope == OpenSpec => []EntitiesInScope
<1>1. EntityInv /\ [OpenNext]_openVars => EntityInv'
  BY EntityStep
<1>2. QED
  BY <1>1, EntityScope, EntityBegins, PTL DEF OpenSpec

-----------------------------------------------------------------------------
(* The image settings *)

\* At most one unit and one camera terminal, with ids of their own.
SingleEntities ==
    /\ \A k, l \in Units : k = l
    /\ \A k, l \in Terminals : k = l
    /\ \A k \in Units, l \in Terminals : cfg[k].ix # cfg[l].ix

\* Steps of init_controls, from the last ones to earlier ones.
FromFocus == {"focus", "done"}
FromPriority == FromFocus \cup {"priority"}
FromAe == FromPriority \cup {"ae"}
FromLine == FromAe \cup {"line"}
FromHue == FromLine \cup {"hue"}
FromWb == FromHue \cup {"wb", "wbTemp", "wbManual", "wbOn", "wb4500", "wbRead"}
UnitSteps == (FromWb \ FromAe) \cup {"items"}

\* An advertised control of the unit, or of the terminal, has value v or was lost.
PuHas(b, v) == b \in ent.puBm => Has(<<ent.pu, b>>, v)
CtHas(b, v) == b \in ent.ctBm => Has(<<ent.ct, b>>, v)

\* What the steps so far have made of the unit's controls ...
UnitInv ==
    /\ cpc = "items" => item \in 1..8 /\ \A n \in 1..8 : n < item => PuHas(Items[n], 0)
    /\ cpc \in FromWb => \A n \in 1..8 : PuHas(Items[n], 0)
    /\ cpc \in {"wbTemp", "wbOn", "wbRead"} => 12 \in ent.puBm
    /\ cpc \in {"wbManual", "wb4500"} => 12 \notin ent.puBm
    /\ cpc = "wb4500" => 6 \in ent.puBm /\ WbTemp(ent.pu) \in lost
    /\ cpc \in FromHue \cup {"wbRead"} => PuHas(12, 1)
    /\ cpc \in FromHue /\ 12 \notin ent.puBm => PuHas(6, 0)
    /\ cpc \in FromLine => PuHas(11, 1)
    /\ cpc \in FromAe => PuHas(10, 1)
    /\ \A b \in 0..17 \ ent.puBm : val[<<ent.pu, b>>] = start

\* ... and of the terminal's.
TermInv ==
    /\ cpc = "ae" => \A n \in 1..3 : n < item => AeOrder[n] \notin modes \/ AeMode(ent.ct) \in lost
    /\ cpc = "priority" => 1 \in ent.ctBm
    /\ cpc \in FromPriority => \A n \in 1..3 : Preferred(n) => CtHas(1, AeOrder[n])
    /\ cpc \in FromFocus /\ 1 \in ent.ctBm => CtHas(2, 1)
    /\ cpc = "done" => CtHas(17, 1)
    /\ \A b \in 0..17 \ ent.ctBm : val[<<ent.ct, b>>] = start

Ids == {cfg[k].ix : k \in Units \cup Terminals}

\* The control phase is over before start_stream begins; its steps are those of the
\* entities there are.
PhaseInv ==
    /\ pc \in Starting \ {"alt0"} => cpc = "done"
    /\ cpc \in FromWb \cup {"scan", "items"}
    /\ cpc \in UnitSteps => ent.pu # 0
    /\ cpc \in FromAe \ {"done"} => ent.ct # 0
    /\ cpc \in (UnitSteps \ {"items"}) \cup {"scan"} => item = 1
    /\ cpc = "ae" => item \in 1..3

SettingInv ==
    /\ DOMAIN val = Ids \X (0..17)
    /\ cpc = "scan" => \A c \in DOMAIN val : val[c] = start
    /\ cpc # "scan" /\ SingleEntities =>
         /\ ent.pu # 0 => UnitInv
         /\ ent.ct # 0 => TermInv

\* A request changes no control outside C and forgets no loss.
Touches(C) ==
    /\ lost \subseteq lost' /\ DOMAIN val' = DOMAIN val
    /\ \A d \in DOMAIN val : d \notin C => val'[d] = val[d]

LEMMA Requests ==
    ASSUME NEW c, NEW v
    PROVE  /\ SetCur(c, v) => Touches({c})
           /\ SetCur(c, v) /\ Accepts(c, v) => val'[c] = v \/ c \in lost'
           /\ SetOk(c, v) => Accepts(c, v) /\ val'[c] = v
           /\ SetFails(c, v) /\ Accepts(c, v) => c \in lost'
           /\ GetOk(c) \/ GetFails(c) \/ Quiet => Touches({})
           /\ GetFails(c) /\ c \in DOMAIN val => c \in lost'
<1>1. SetOk(c, v) => Touches({c}) /\ Accepts(c, v) /\ val'[c] = v
  BY DEF SetOk, Accepts, Touches
<1>2. SetFails(c, v) => Touches({c})
  BY DEF SetFails, Loses, Touches
<1>3. SetFails(c, v) /\ Accepts(c, v) => c \in lost'
  BY DEF SetFails, Loses
<1>4. GetOk(c) \/ GetFails(c) \/ Quiet => Touches({})
  BY DEF GetOk, GetFails, Loses, Quiet, Touches
<1>5. GetFails(c) /\ c \in DOMAIN val => c \in lost'
  BY DEF GetFails, Loses
<1>6. QED
  BY <1>1, <1>2, <1>3, <1>4, <1>5 DEF SetCur

\* With one unit and one terminal, the entities found are all there are.
LEMMA TheEntities ==
    ASSUME EntityInv, cpc # "scan", SingleEntities
    PROVE  /\ Units # {} <=> ent.pu # 0
           /\ Terminals # {} <=> ent.ct # 0
           /\ \A k \in Units : cfg[k].ix = ent.pu /\ cfg[k].bm = ent.puBm
           /\ \A k \in Terminals : cfg[k].ix = ent.ct /\ cfg[k].bm = ent.ctBm
           /\ ent.pu # 0 => ent.pu \in Ids
           /\ ent.ct # 0 => ent.ct \in Ids
           /\ ent.pu # 0 /\ ent.ct # 0 => ent.pu # ent.ct
<1>1. EntitiesInScope
  BY EntityScope
<1>2. /\ Units # {} <=> ent.pu # 0
      /\ Terminals # {} <=> ent.ct # 0
      /\ \A k \in Units : cfg[k].ix = ent.pu /\ cfg[k].bm = ent.puBm
      /\ \A k \in Terminals : cfg[k].ix = ent.ct /\ cfg[k].bm = ent.ctBm
  BY <1>1 DEF EntitiesInScope, SingleEntities
<1>3. (ent.pu # 0 => ent.pu \in Ids) /\ (ent.ct # 0 => ent.ct \in Ids)
  BY <1>2 DEF Ids
<1>4. ent.pu # 0 /\ ent.ct # 0 => ent.pu # ent.ct
  BY <1>2 DEF SingleEntities
<1>5. QED
  BY <1>2, <1>3, <1>4

\* Which settings the camera accepts.
LEMMA Accepting ==
    ASSUME EntityInv, cpc # "scan", SingleEntities, DOMAIN val = Ids \X (0..17),
           NEW b \in 0..17, NEW v
    PROVE  /\ ent.pu # 0 => <<ent.pu, b>> \in DOMAIN val
           /\ ent.ct # 0 => <<ent.ct, b>> \in DOMAIN val
           /\ ent.pu # 0 /\ (b # 6 \/ 12 \notin ent.puBm) => Accepts(<<ent.pu, b>>, v)
           /\ ent.ct # 0 /\ (b # 1 \/ v \in modes) => Accepts(<<ent.ct, b>>, v)
           /\ ent.ct # 0 /\ Accepts(<<ent.ct, 1>>, v) => v \in modes
<1>1. (ent.pu # 0 => <<ent.pu, b>> \in DOMAIN val) /\ (ent.ct # 0 => <<ent.ct, b>> \in DOMAIN val)
  BY TheEntities
<1>2. /\ \A k \in Units : cfg[k].ix = ent.pu /\ cfg[k].bm = ent.puBm /\ ent.pu # 0
      /\ \A k \in Terminals : cfg[k].ix = ent.ct /\ ent.ct # 0
      /\ ent.ct # 0 => Terminals # {}
      /\ ent.pu # 0 /\ ent.ct # 0 => ent.pu # ent.ct
  BY TheEntities
<1>3. ASSUME NEW p, NEW x
      PROVE  /\ <<p, b>> = WbTemp(x) <=> p = x /\ b = 6
             /\ <<p, b>> = AeMode(x) <=> p = x /\ b = 1
  BY DEF WbTemp, AeMode
<1>4. ent.pu # 0 /\ (b # 6 \/ 12 \notin ent.puBm) => Accepts(<<ent.pu, b>>, v)
  BY <1>1, <1>2, <1>3 DEF Accepts
<1>5. ent.ct # 0 /\ (b # 1 \/ v \in modes) => Accepts(<<ent.ct, b>>, v)
  BY <1>1, <1>2, <1>3 DEF Accepts
<1>6. ent.ct # 0 /\ Accepts(<<ent.ct, 1>>, v) => v \in modes
  BY <1>2 DEF Accepts, AeMode
<1>7. QED
  BY <1>1, <1>4, <1>5, <1>6

\* What a request does not touch keeps its value.
LEMMA Untouched ==
    ASSUME NEW C, Touches(C), UNCHANGED <<ent, start>>,
           \A b \in 0..17 : ent.pu # 0 => <<ent.pu, b>> \in DOMAIN val,
           \A b \in 0..17 : ent.ct # 0 => <<ent.ct, b>> \in DOMAIN val,
           NEW b \in 0..17
    PROVE  /\ \A v : ent.pu # 0 /\ <<ent.pu, b>> \notin C /\ PuHas(b, v) => PuHas(b, v)'
           /\ \A v : ent.ct # 0 /\ <<ent.ct, b>> \notin C /\ CtHas(b, v) => CtHas(b, v)'
           /\ ent.pu # 0 /\ <<ent.pu, b>> \notin C => val'[<<ent.pu, b>>] = val[<<ent.pu, b>>]
           /\ ent.ct # 0 /\ <<ent.ct, b>> \notin C => val'[<<ent.ct, b>>] = val[<<ent.ct, b>>]
  BY DEF Touches, PuHas, CtHas, Has

LEMMA ItemFacts ==
    /\ Len(Items) = 8 /\ DOMAIN Items = 1..8
    /\ \A n \in 1..8 : Items[n] \in {0, 1, 2, 3, 4, 5, 8, 9}
    /\ \A m, n \in 1..8 : Items[m] = Items[n] => m = n
<1>1. Len(Items) = 8 /\ DOMAIN Items = 1..8
  BY DEF Items
<1>2. /\ Items[1] = 0 /\ Items[2] = 1 /\ Items[3] = 2 /\ Items[4] = 3
      /\ Items[5] = 4 /\ Items[6] = 5 /\ Items[7] = 8 /\ Items[8] = 9
  BY DEF Items
<1>3. \A n \in 1..8 : n = 1 \/ n = 2 \/ n = 3 \/ n = 4 \/ n = 5 \/ n = 6 \/ n = 7 \/ n = 8
  OBVIOUS
<1>4. QED
  BY <1>1, <1>2, <1>3

LEMMA AeFacts == Len(AeOrder) = 3 /\ AeOrder[1] = 2 /\ AeOrder[2] = 8 /\ AeOrder[3] = 4
  BY DEF AeOrder

\* A setting of the unit: what it sets, what it keeps.
LEMMA UnitSetting ==
    ASSUME EntityInv, SettingInv, SingleEntities, cpc # "scan", ent.pu # 0, UNCHANGED <<ent, start>>,
           NEW b \in 0..17, NEW v
    PROVE  /\ SetCur(<<ent.pu, b>>, v) =>
                 /\ b # 6 \/ 12 \notin ent.puBm => PuHas(b, v)'
                 /\ \A d \in 0..17 : \A w : d # b /\ PuHas(d, w) => PuHas(d, w)'
                 /\ \A d \in 0..17 : d # b => val'[<<ent.pu, d>>] = val[<<ent.pu, d>>]
                 /\ \A d \in 0..17 : ent.ct # 0 => val'[<<ent.ct, d>>] = val[<<ent.ct, d>>]
           /\ GetOk(<<ent.pu, b>>) \/ GetFails(<<ent.pu, b>>) \/ Quiet =>
                 /\ \A d \in 0..17 : \A w : PuHas(d, w) => PuHas(d, w)'
                 /\ \A d \in 0..17 : val'[<<ent.pu, d>>] = val[<<ent.pu, d>>]
                 /\ \A d \in 0..17 : ent.ct # 0 => val'[<<ent.ct, d>>] = val[<<ent.ct, d>>]
           /\ GetFails(<<ent.pu, b>>) => <<ent.pu, b>> \in lost'
<1>1. /\ \A d \in 0..17 : <<ent.pu, d>> \in DOMAIN val
      /\ \A d \in 0..17 : ent.ct # 0 => <<ent.ct, d>> \in DOMAIN val
      /\ b # 6 \/ 12 \notin ent.puBm => Accepts(<<ent.pu, b>>, v)
  BY Accepting DEF SettingInv
<1>2. ent.ct # 0 => ent.pu # ent.ct
  BY TheEntities
<1>3. /\ \A d \in 0..17 : <<ent.pu, d>> \in {<<ent.pu, b>>} <=> d = b
      /\ \A d \in 0..17 : ent.ct # 0 => <<ent.ct, d>> \notin {<<ent.pu, b>>}
  BY <1>2
<1>4. ASSUME SetCur(<<ent.pu, b>>, v)
      PROVE  /\ b # 6 \/ 12 \notin ent.puBm => PuHas(b, v)'
             /\ \A d \in 0..17 : \A w : d # b /\ PuHas(d, w) => PuHas(d, w)'
             /\ \A d \in 0..17 : d # b => val'[<<ent.pu, d>>] = val[<<ent.pu, d>>]
             /\ \A d \in 0..17 : ent.ct # 0 => val'[<<ent.ct, d>>] = val[<<ent.ct, d>>]
  <2>1. Touches({<<ent.pu, b>>})
    BY <1>4, Requests
  <2>2. b # 6 \/ 12 \notin ent.puBm => PuHas(b, v)'
    BY <1>1, <1>4, Requests DEF PuHas, Has
  <2>3. QED
    BY <1>1, <1>3, <2>1, <2>2, Untouched
<1>5. ASSUME GetOk(<<ent.pu, b>>) \/ GetFails(<<ent.pu, b>>) \/ Quiet
      PROVE  /\ \A d \in 0..17 : \A w : PuHas(d, w) => PuHas(d, w)'
             /\ \A d \in 0..17 : val'[<<ent.pu, d>>] = val[<<ent.pu, d>>]
             /\ \A d \in 0..17 : ent.ct # 0 => val'[<<ent.ct, d>>] = val[<<ent.ct, d>>]
  <2>1. Touches({})
    BY <1>5, Requests
  <2>2. \A d \in 0..17 :
            /\ \A w : PuHas(d, w) => PuHas(d, w)'
            /\ val'[<<ent.pu, d>>] = val[<<ent.pu, d>>]
            /\ ent.ct # 0 => val'[<<ent.ct, d>>] = val[<<ent.ct, d>>]
    BY <1>1, <2>1 DEF Touches, PuHas, CtHas, Has
  <2>3. QED
    BY <2>2
<1>6. GetFails(<<ent.pu, b>>) => <<ent.pu, b>> \in lost'
  BY <1>1, Requests
<1>7. QED
  BY <1>4, <1>5, <1>6

\* ... and of the terminal.
LEMMA TermSetting ==
    ASSUME EntityInv, SettingInv, SingleEntities, cpc # "scan", ent.ct # 0, UNCHANGED <<ent, start>>,
           NEW b \in 0..17, NEW v, SetCur(<<ent.ct, b>>, v) \/ Quiet
    PROVE  /\ lost \subseteq lost'
           /\ \A d \in 0..17 : \A w : d # b /\ CtHas(d, w) => CtHas(d, w)'
           /\ \A d \in 0..17 : d # b => val'[<<ent.ct, d>>] = val[<<ent.ct, d>>]
           /\ SetCur(<<ent.ct, b>>, v) /\ b # 1 => CtHas(b, v)'
           /\ Quiet => \A w : CtHas(b, w) => CtHas(b, w)'
           /\ Quiet => val'[<<ent.ct, b>>] = val[<<ent.ct, b>>]
           /\ ent.pu # 0 => \A d \in 0..17 : \A w : PuHas(d, w) => PuHas(d, w)'
           /\ ent.pu # 0 => \A d \in 0..17 : val'[<<ent.pu, d>>] = val[<<ent.pu, d>>]
<1>1. /\ \A d \in 0..17 : ent.pu # 0 => <<ent.pu, d>> \in DOMAIN val
      /\ \A d \in 0..17 : <<ent.ct, d>> \in DOMAIN val
      /\ b # 1 => Accepts(<<ent.ct, b>>, v)
  BY Accepting DEF SettingInv
<1>2. ent.pu # 0 => ent.pu # ent.ct
  BY TheEntities
<1>3. /\ \A d \in 0..17 : <<ent.ct, d>> \in {<<ent.ct, b>>} <=> d = b
      /\ \A d \in 0..17 : ent.pu # 0 => <<ent.pu, d>> \notin {<<ent.ct, b>>}
  BY <1>2
<1>4. SetCur(<<ent.ct, b>>, v) /\ b # 1 => CtHas(b, v)'
  BY <1>1, Requests DEF CtHas, Has
<1>5. CASE SetCur(<<ent.ct, b>>, v) /\ ~Quiet
  <2>1. Touches({<<ent.ct, b>>})
    BY <1>5, Requests
  <2>2. QED
    BY <1>1, <1>3, <1>4, <1>5, <2>1, Untouched DEF Touches
<1>6. CASE Quiet
  <2>1. Touches({})
    BY <1>6, Requests
  <2>2. \A d \in 0..17 :
            /\ \A w : CtHas(d, w) => CtHas(d, w)'
            /\ val'[<<ent.ct, d>>] = val[<<ent.ct, d>>]
            /\ ent.pu # 0 => \A w : PuHas(d, w) => PuHas(d, w)'
            /\ ent.pu # 0 => val'[<<ent.pu, d>>] = val[<<ent.pu, d>>]
    BY <1>1, <2>1 DEF Touches, PuHas, CtHas, Has
  <2>3. QED
    BY <1>4, <2>1, <2>2 DEF Touches
<1>7. QED
  BY <1>5, <1>6

\* No step is left once the settings are done.
LEMMA SettingSteps ==
    ASSUME CtlNext, cpc # "scan"
    PROVE  /\ cpc # "done" /\ UNCHANGED <<cfg, pc, ent, start, modes>>
           /\ \/ ApplyItem \/ WbAutoOff \/ WbTempDefault \/ WbAutoOn \/ WbRead \/ WbManual
              \/ Wb4500 \/ HueAuto \/ PowerLine50
              \/ AeSkipped \/ AeAccepted \/ AeTryNext \/ AePriority \/ FocusAuto
<1>1. \/ ApplyItem \/ WbAutoOff \/ WbTempDefault \/ WbAutoOn \/ WbRead \/ WbManual
      \/ Wb4500 \/ HueAuto \/ PowerLine50
      \/ AeSkipped \/ AeAccepted \/ AeTryNext \/ AePriority \/ FocusAuto
  BY DEF CtlNext, EntInterface, EntUnit, EntTerminal, EntOther, EntEnd, AtEntity
<1>2. ASSUME NEW step, NEW next, At(step, next), step # "done"
      PROVE  cpc # "done" /\ UNCHANGED <<cfg, pc, ent, start, modes>>
  BY <1>2 DEF At, vars, scanVars
<1>3. CASE ApplyItem
  BY <1>2, <1>3 DEF ApplyItem
<1>4. CASE WbAutoOff \/ WbTempDefault \/ WbAutoOn \/ WbRead \/ WbManual \/ Wb4500
  BY <1>2, <1>4 DEF WbAutoOff, WbTempDefault, WbAutoOn, WbRead, WbManual, Wb4500, Setting
<1>5. CASE \/ HueAuto \/ PowerLine50
           \/ AeSkipped \/ AeAccepted \/ AeTryNext \/ AePriority \/ FocusAuto
  BY <1>2, <1>5 DEF HueAuto, PowerLine50, AeSkipped, AeAccepted, AeTryNext, AePriority, FocusAuto,
     Setting
<1>6. QED
  BY <1>1, <1>3, <1>4, <1>5

\* pu_apply_one.
LEMMA ItemStep ==
    ASSUME EntityInv, SettingInv, SingleEntities, ent.pu # 0, ApplyItem
    PROVE  UnitInv'
<1>1. /\ cpc = "items" /\ UNCHANGED <<ent, start>>
      /\ \/ item < 8 /\ cpc' = "items" /\ item' = item + 1
         \/ item = 8 /\ cpc' = "wb"
  BY ItemFacts DEF ApplyItem, At
<1>2. /\ item \in 1..8 /\ \A n \in 1..8 : n < item => PuHas(Items[n], 0)
      /\ \A d \in 0..17 \ ent.puBm : val[<<ent.pu, d>>] = start
  BY <1>1 DEF SettingInv, UnitInv
<1>3. PICK b \in 0..17 :
          b = Items[item] /\ b # 6 /\ \A n \in 1..8 : Items[n] \in 0..17 /\ (n # item => Items[n] # b)
  BY <1>2, ItemFacts
<1>4. \/ b \notin ent.puBm /\ Quiet
      \/ b \in ent.puBm /\ GetFails(<<ent.pu, b>>)
      \/ b \in ent.puBm /\ GetOk(<<ent.pu, b>>) /\ val[<<ent.pu, b>>] = 0
      \/ b \in ent.puBm /\ SetCur(<<ent.pu, b>>, 0)
  BY <1>3 DEF ApplyItem
<1>5. /\ PuHas(b, 0)'
      /\ \A d \in 0..17 : d # b => (PuHas(d, 0) => PuHas(d, 0)')
      /\ \A d \in 0..17 \ ent.puBm : val'[<<ent.pu, d>>] = val[<<ent.pu, d>>]
  <2>1. CASE b \notin ent.puBm /\ Quiet
    BY <1>1, <1>3, <2>1, UnitSetting DEF PuHas
  <2>2. CASE b \in ent.puBm /\ GetFails(<<ent.pu, b>>)
    <3>1. PuHas(b, 0)'
      BY <1>1, <1>3, <2>2, UnitSetting DEF PuHas, Has
    <3>2. QED
      BY <1>1, <1>3, <2>2, <3>1, UnitSetting
  <2>3. CASE b \in ent.puBm /\ GetOk(<<ent.pu, b>>) /\ val[<<ent.pu, b>>] = 0
    <3>1. PuHas(b, 0)
      BY <2>3 DEF PuHas, Has
    <3>2. QED
      BY <1>1, <1>3, <2>3, <3>1, UnitSetting
  <2>4. CASE b \in ent.puBm /\ SetCur(<<ent.pu, b>>, 0)
    BY <1>1, <1>3, <2>4, UnitSetting
  <2>5. QED
    BY <1>4, <2>1, <2>2, <2>3, <2>4
<1>6. \A n \in 1..8 : n <= item => PuHas(Items[n], 0)'
  <2>1. ASSUME NEW n \in 1..8, n <= item PROVE PuHas(Items[n], 0)'
    <3>1. CASE n = item
      BY <1>3, <1>5, <3>1
    <3>2. CASE n # item
      BY <1>2, <1>3, <1>5, <2>1, <3>2
    <3>3. QED
      BY <3>1, <3>2
  <2>2. QED
    BY <2>1
<1>7. \A d \in 0..17 \ ent.puBm : val'[<<ent.pu, d>>] = start
  BY <1>2, <1>5
<1>8. CASE item < 8 /\ cpc' = "items" /\ item' = item + 1
  <2>1. item' \in 1..8 /\ \A n \in 1..8 : n < item' => n <= item
    BY <1>2, <1>8
  <2>2. \A n \in 1..8 : n < item' => PuHas(Items[n], 0)'
    BY <1>6, <2>1
  <2>3. QED
    BY <1>1, <1>7, <1>8, <2>1, <2>2
    DEF UnitInv, FromWb, FromHue, FromLine, FromAe, FromPriority, FromFocus
<1>9. CASE item = 8 /\ cpc' = "wb"
  <2>1. \A n \in 1..8 : PuHas(Items[n], 0)'
    BY <1>6, <1>9
  <2>2. QED
    BY <1>1, <1>7, <1>9, <2>1
    DEF UnitInv, FromWb, FromHue, FromLine, FromAe, FromPriority, FromFocus
<1>10. QED
  BY <1>1, <1>8, <1>9

\* The settings after the items.
Later(b, v) ==
    \/ SetCur(<<ent.pu, b>>, v) /\ b \in ent.puBm
    \/ GetOk(<<ent.pu, b>>) \/ GetFails(<<ent.pu, b>>) \/ Quiet

LEMMA LaterKeeps ==
    ASSUME EntityInv, SettingInv, SingleEntities, ent.pu # 0, UNCHANGED <<ent, start>>,
           cpc \in FromWb, NEW b \in {6, 10, 11, 12}, NEW v, Later(b, v)
    PROVE  /\ \A n \in 1..8 : PuHas(Items[n], 0)'
           /\ \A d \in 0..17 \ ent.puBm : val'[<<ent.pu, d>>] = start
           /\ \A d \in 0..17 : \A w : d # b /\ PuHas(d, w) => PuHas(d, w)'
<1>1. UnitInv /\ cpc # "scan"
  BY DEF SettingInv, FromWb, FromHue, FromLine, FromAe, FromPriority, FromFocus
<1>2. /\ \A n \in 1..8 : PuHas(Items[n], 0)
      /\ \A d \in 0..17 \ ent.puBm : val[<<ent.pu, d>>] = start
  BY <1>1 DEF UnitInv
<1>3. \A n \in 1..8 : Items[n] \in 0..17 /\ Items[n] # b
  BY ItemFacts
<1>4. b \in 0..17
  OBVIOUS
<1>5. /\ \A d \in 0..17 : \A w : d # b /\ PuHas(d, w) => PuHas(d, w)'
      /\ \A d \in 0..17 \ ent.puBm : val'[<<ent.pu, d>>] = val[<<ent.pu, d>>]
  <2>1. CASE SetCur(<<ent.pu, b>>, v) /\ b \in ent.puBm
    BY <1>1, <1>4, <2>1, UnitSetting
  <2>2. CASE GetOk(<<ent.pu, b>>) \/ GetFails(<<ent.pu, b>>) \/ Quiet
    BY <1>1, <1>4, <2>2, UnitSetting
  <2>3. QED
    BY <2>1, <2>2 DEF Later
<1>6. QED
  BY <1>2, <1>3, <1>5

LEMMA WhiteBalanceStep ==
    ASSUME EntityInv, SettingInv, SingleEntities, ent.pu # 0,
           WbAutoOff \/ WbTempDefault \/ WbAutoOn \/ WbRead \/ WbManual \/ Wb4500
    PROVE  UnitInv'
<1>0. /\ cpc \in FromWb => UnitInv /\ cpc # "scan"
      /\ {"wb", "wbTemp", "wbManual", "wbOn", "wb4500", "wbRead"} \subseteq FromWb
      /\ {"wbTemp", "wbManual", "wbOn", "wb4500", "wbRead", "hue"} \subseteq FromWb \ FromLine
  BY DEF SettingInv, FromWb, FromHue, FromLine, FromAe, FromPriority, FromFocus
<1>b. 6 \in 0..17 /\ 12 \in 0..17 /\ 6 # 12
  OBVIOUS
<1>1. ASSUME NEW b \in {6, 10, 11, 12}, NEW v, Later(b, v), UNCHANGED <<ent, start>>,
             cpc \in FromWb, cpc' \in FromWb \ FromLine,
             cpc' \in {"wbTemp", "wbOn", "wbRead"} => 12 \in ent.puBm,
             cpc' \in {"wbManual", "wb4500"} => 12 \notin ent.puBm,
             cpc' = "wb4500" => 6 \in ent.puBm /\ WbTemp(ent.pu) \in lost',
             cpc' \in {"hue", "wbRead"} => PuHas(12, 1)',
             cpc' = "hue" /\ 12 \notin ent.puBm => PuHas(6, 0)'
      PROVE  UnitInv'
  <2>1. /\ \A n \in 1..8 : PuHas(Items[n], 0)'
        /\ \A d \in 0..17 \ ent.puBm : val'[<<ent.pu, d>>] = start
    BY <1>1, LaterKeeps
  <2>2. WbTemp(ent.pu)' = WbTemp(ent.pu)
    BY <1>1 DEF WbTemp
  <2>3. QED
    BY <1>1, <2>1, <2>2
    DEF UnitInv, FromWb, FromHue, FromLine, FromAe, FromPriority, FromFocus
<1>2. CASE WbAutoOff
  <2>1. cpc = "wb" /\ UNCHANGED <<ent, start>>
    BY <1>2 DEF WbAutoOff, Setting, At
  <2>2. \/ 12 \in ent.puBm /\ cpc' = "wbTemp" /\ SetCur(<<ent.pu, 12>>, 0)
        \/ 12 \notin ent.puBm /\ cpc' = "wbManual" /\ Quiet
    BY <1>2 DEF WbAutoOff, Setting, At, WbAuto
  <2>3. Later(12, 0)
    BY <2>2 DEF Later
  <2>4. QED
    BY <1>0, <1>1, <2>1, <2>2, <2>3
<1>3. CASE WbTempDefault
  <2>1. cpc = "wbTemp" /\ cpc' = "wbOn" /\ UNCHANGED <<ent, start>>
    BY <1>3 DEF WbTempDefault, Setting, At
  <2>2. Later(6, 0)
    BY <1>3 DEF WbTempDefault, Setting, WbTemp, Later
  <2>3. 12 \in ent.puBm
    BY <1>0, <2>1 DEF UnitInv
  <2>4. QED
    BY <1>0, <1>1, <2>1, <2>2, <2>3
<1>4. CASE WbAutoOn
  <2>1. /\ cpc = "wbOn" /\ cpc' = "wbRead" /\ UNCHANGED <<ent, start>>
        /\ SetCur(<<ent.pu, 12>>, 1)
    BY <1>4 DEF WbAutoOn, Setting, At, WbAuto
  <2>2. 12 \in ent.puBm /\ cpc # "scan"
    BY <1>0, <2>1 DEF UnitInv
  <2>3. PuHas(12, 1)'
    BY <1>b, <2>1, <2>2, UnitSetting
  <2>4. Later(12, 1)
    BY <2>1, <2>2 DEF Later
  <2>5. QED
    BY <1>0, <1>1, <2>1, <2>2, <2>3, <2>4
<1>5. CASE WbRead
  <2>1. cpc = "wbRead" /\ cpc' = "hue" /\ UNCHANGED <<ent, start>>
    BY <1>5 DEF WbRead, At
  <2>2. Later(6, 0)
    BY <1>5 DEF WbRead, WbTemp, Later
  <2>3. 12 \in ent.puBm /\ PuHas(12, 1)
    BY <1>0, <2>1 DEF UnitInv
  <2>4. PuHas(12, 1)'
    BY <1>0, <1>b, <2>1, <2>2, <2>3, LaterKeeps
  <2>5. QED
    BY <1>0, <1>1, <2>1, <2>2, <2>3, <2>4
<1>6. CASE WbManual
  <2>1. /\ cpc = "wbManual" /\ UNCHANGED <<ent, start>>
        /\ \/ cpc' = "hue" /\ 6 \in ent.puBm /\ SetCur(<<ent.pu, 6>>, 0)
           \/ cpc' = "hue" /\ 6 \notin ent.puBm /\ Quiet
           \/ cpc' = "wb4500" /\ 6 \in ent.puBm /\ GetFails(<<ent.pu, 6>>)
    BY <1>6 DEF WbManual, Setting, At, WbTemp
  <2>2. 12 \notin ent.puBm /\ cpc # "scan"
    BY <1>0, <2>1 DEF UnitInv
  <2>3. Later(6, 0)
    BY <2>1 DEF Later
  <2>4. PuHas(12, 1)'
    BY <2>1, <2>2 DEF PuHas
  <2>5. CASE cpc' = "hue"
    <3>1. PuHas(6, 0)'
      <4>1. CASE 6 \in ent.puBm
        BY <2>1, <2>2, <2>5, <4>1, <1>b, UnitSetting
      <4>2. CASE 6 \notin ent.puBm
        BY <2>1, <4>2 DEF PuHas
      <4>3. QED
        BY <4>1, <4>2
    <3>2. QED
      BY <1>0, <1>1, <2>1, <2>2, <2>3, <2>4, <2>5, <3>1
  <2>6. CASE cpc' = "wb4500"
    <3>1. 6 \in ent.puBm /\ <<ent.pu, 6>> \in lost'
      BY <1>b, <2>1, <2>2, <2>6, UnitSetting
    <3>2. QED
      BY <1>0, <1>1, <2>1, <2>2, <2>3, <2>6, <3>1 DEF WbTemp
  <2>7. QED
    BY <2>1, <2>5, <2>6
<1>7. CASE Wb4500
  <2>1. /\ cpc = "wb4500" /\ cpc' = "hue" /\ UNCHANGED <<ent, start>>
        /\ SetCur(<<ent.pu, 6>>, 4500)
    BY <1>7 DEF Wb4500, Setting, At, WbTemp
  <2>2. 12 \notin ent.puBm /\ 6 \in ent.puBm /\ <<ent.pu, 6>> \in lost /\ cpc # "scan"
    BY <1>0, <2>1 DEF UnitInv, WbTemp
  <2>3. <<ent.pu, 6>> \in lost'
    BY <2>1, <2>2, Requests DEF Touches
  <2>4. PuHas(6, 0)' /\ PuHas(12, 1)'
    BY <2>1, <2>2, <2>3 DEF PuHas, Has
  <2>5. Later(6, 4500)
    BY <2>1, <2>2 DEF Later
  <2>6. QED
    BY <1>0, <1>1, <2>1, <2>2, <2>4, <2>5
<1>8. QED
  BY <1>2, <1>3, <1>4, <1>5, <1>6, <1>7

LEMMA HueLineStep ==
    ASSUME EntityInv, SettingInv, SingleEntities, ent.pu # 0, HueAuto \/ PowerLine50
    PROVE  UnitInv'
<1>0. /\ cpc \in FromWb => UnitInv /\ cpc # "scan"
      /\ {"hue", "line"} \subseteq FromWb /\ "line" \in FromLine /\ "hue" \in FromHue
      /\ AfterUnit \in FromAe
  BY DEF SettingInv, AfterUnit, FromWb, FromHue, FromLine, FromAe, FromPriority, FromFocus
<1>b. /\ 6 \in 0..17 /\ 10 \in 0..17 /\ 11 \in 0..17 /\ 12 \in 0..17
      /\ 10 \in {6, 10, 11, 12} /\ 11 \in {6, 10, 11, 12}
  OBVIOUS
<1>1. ASSUME NEW b \in {10, 11}, b \in ent.puBm => SetCur(<<ent.pu, b>>, 1),
             b \notin ent.puBm => Quiet, UNCHANGED <<ent, start>>, cpc \in FromHue
      PROVE  /\ \A n \in 1..8 : PuHas(Items[n], 0)'
             /\ \A d \in 0..17 \ ent.puBm : val'[<<ent.pu, d>>] = start
             /\ PuHas(b, 1)' /\ PuHas(12, 1)'
             /\ 12 \notin ent.puBm => PuHas(6, 0)'
             /\ b = 10 /\ cpc \in FromLine => PuHas(11, 1)'
  <2>0. cpc \in FromWb /\ UnitInv /\ cpc # "scan"
    BY <1>0, <1>1 DEF FromWb
  <2>b. b \in 0..17 /\ b # 6
    OBVIOUS
  <2>1. Later(b, 1)
    BY <1>1 DEF Later
  <2>2. /\ \A n \in 1..8 : PuHas(Items[n], 0)'
        /\ \A d \in 0..17 \ ent.puBm : val'[<<ent.pu, d>>] = start
        /\ \A d \in 0..17 : \A w : d # b /\ PuHas(d, w) => PuHas(d, w)'
    BY <1>1, <2>0, <2>1, LaterKeeps
  <2>3. PuHas(b, 1)'
    <3>1. CASE b \in ent.puBm
      BY <1>1, <2>0, <2>b, <3>1, UnitSetting
    <3>2. CASE b \notin ent.puBm
      BY <1>1, <3>2 DEF PuHas
    <3>3. QED
      BY <3>1, <3>2
  <2>4. /\ PuHas(12, 1) /\ (12 \notin ent.puBm => PuHas(6, 0))
        /\ cpc \in FromLine => PuHas(11, 1)
    BY <1>1, <2>0 DEF UnitInv
  <2>5. QED
    BY <1>1, <1>b, <2>2, <2>3, <2>4
<1>2. CASE HueAuto
  <2>1. /\ cpc = "hue" /\ cpc' = "line" /\ UNCHANGED <<ent, start>>
        /\ 11 \in ent.puBm => SetCur(<<ent.pu, 11>>, 1)
        /\ 11 \notin ent.puBm => Quiet
    BY <1>2 DEF HueAuto, Setting, At
  <2>2. /\ \A n \in 1..8 : PuHas(Items[n], 0)'
        /\ \A d \in 0..17 \ ent.puBm : val'[<<ent.pu, d>>] = start
        /\ PuHas(11, 1)' /\ PuHas(12, 1)'
        /\ 12 \notin ent.puBm => PuHas(6, 0)'
    BY <1>0, <1>1, <2>1
  <2>3. QED
    BY <2>1, <2>2 DEF UnitInv, FromWb, FromHue, FromLine, FromAe, FromPriority, FromFocus
<1>3. CASE PowerLine50
  <2>1. /\ cpc = "line" /\ cpc' \in FromAe /\ UNCHANGED <<ent, start>>
        /\ 10 \in ent.puBm => SetCur(<<ent.pu, 10>>, 1)
        /\ 10 \notin ent.puBm => Quiet
    BY <1>0, <1>3 DEF PowerLine50, Setting, At
  <2>2. cpc \in FromHue /\ cpc \in FromLine
    BY <1>0, <2>1 DEF FromHue
  <2>3. /\ \A n \in 1..8 : PuHas(Items[n], 0)'
        /\ \A d \in 0..17 \ ent.puBm : val'[<<ent.pu, d>>] = start
        /\ PuHas(10, 1)' /\ PuHas(11, 1)' /\ PuHas(12, 1)'
        /\ 12 \notin ent.puBm => PuHas(6, 0)'
    BY <1>1, <2>1, <2>2
  <2>4. QED
    BY <2>1, <2>3 DEF UnitInv, FromWb, FromHue, FromLine, FromAe, FromPriority, FromFocus
<1>4. QED
  BY <1>2, <1>3

\* The steps of the unit leave the terminal alone ...
LEMMA TermWaits ==
    ASSUME EntityInv, SettingInv, PhaseInv, SingleEntities, ent.ct # 0,
           \/ ApplyItem \/ WbAutoOff \/ WbTempDefault \/ WbAutoOn \/ WbRead \/ WbManual
           \/ Wb4500 \/ HueAuto \/ PowerLine50
    PROVE  TermInv'
<1>1. /\ cpc \in UnitSteps /\ cpc' \in UnitSteps \cup {"ae"} /\ UNCHANGED <<ent, start>>
      /\ cpc' = "ae" => item' = item /\ cpc = "line"
  <2>1. CASE ApplyItem
    BY <2>1 DEF ApplyItem, At, UnitSteps, FromWb, FromHue, FromLine, FromAe, FromPriority, FromFocus
  <2>2. CASE WbAutoOff \/ WbTempDefault \/ WbAutoOn \/ WbRead \/ WbManual \/ Wb4500 \/ HueAuto
    BY <2>2 DEF WbAutoOff, WbTempDefault, WbAutoOn, WbRead, WbManual, Wb4500, HueAuto, Setting, At,
       UnitSteps, FromWb, FromHue, FromLine, FromAe, FromPriority, FromFocus
  <2>3. CASE PowerLine50
    BY <2>3 DEF PowerLine50, AfterUnit, Setting, At,
       UnitSteps, FromWb, FromHue, FromLine, FromAe, FromPriority, FromFocus
  <2>4. QED
    BY <2>1, <2>2, <2>3
<1>2. ent.pu # 0 /\ cpc # "scan" /\ (cpc = "line" => item = 1) /\ TermInv
  BY <1>1 DEF PhaseInv, SettingInv, UnitSteps, FromWb, FromHue, FromLine, FromAe, FromPriority, FromFocus
<1>3. \E b \in 0..17 : \E v : SetCur(<<ent.pu, b>>, v) \/ GetOk(<<ent.pu, b>>) \/ GetFails(<<ent.pu, b>>)
                             \/ Quiet
  <2>0. 6 \in 0..17 /\ 10 \in 0..17 /\ 11 \in 0..17 /\ 12 \in 0..17
    OBVIOUS
  <2>1. CASE ApplyItem
    <3>1. item \in 1..8
      BY <1>2, <2>1 DEF ApplyItem, SettingInv, UnitInv
    <3>2. Items[item] \in 0..17
      BY <3>1, ItemFacts
    <3>3. QED
      BY <2>1, <3>2 DEF ApplyItem
  <2>2. CASE WbAutoOff \/ WbAutoOn
    BY <2>0, <2>2 DEF WbAutoOff, WbAutoOn, Setting, WbAuto
  <2>3. CASE WbTempDefault \/ WbRead \/ WbManual \/ Wb4500
    BY <2>0, <2>3 DEF WbTempDefault, WbRead, WbManual, Wb4500, Setting, WbTemp
  <2>4. CASE HueAuto \/ PowerLine50
    BY <2>0, <2>4 DEF HueAuto, PowerLine50, Setting
  <2>5. QED
    BY <2>1, <2>2, <2>3, <2>4
<1>4. \A d \in 0..17 : val'[<<ent.ct, d>>] = val[<<ent.ct, d>>]
  BY <1>1, <1>2, <1>3, UnitSetting
<1>5. \A d \in 0..17 \ ent.ctBm : val'[<<ent.ct, d>>] = start
  BY <1>2, <1>4 DEF TermInv
<1>6. cpc' = "ae" => item' = 1
  BY <1>1, <1>2
<1>7. \A n \in 1..3 : ~(n < 1)
  OBVIOUS
<1>8. QED
  BY <1>1, <1>5, <1>6, <1>7
  DEF TermInv, UnitSteps, FromWb, FromHue, FromLine, FromAe, FromPriority, FromFocus

\* ... and those of the terminal the unit.
LEMMA TermStep ==
    ASSUME EntityInv, SettingInv, PhaseInv, SingleEntities,
           AeSkipped \/ AeAccepted \/ AeTryNext \/ AePriority \/ FocusAuto
    PROVE  TermInv' /\ (ent.pu # 0 => UnitInv')
<1>b. 1 \in 0..17 /\ 2 \in 0..17 /\ 17 \in 0..17
  OBVIOUS
<1>0. /\ cpc \in FromAe \ {"done"} /\ cpc' \in FromAe /\ UNCHANGED <<ent, start, modes>>
  BY DEF AeSkipped, AeAccepted, AeTryNext, AePriority, FocusAuto, Setting, At,
     FromAe, FromPriority, FromFocus
<1>1. /\ ent.ct # 0 /\ cpc # "scan" /\ TermInv /\ (ent.pu # 0 => UnitInv)
      /\ cpc \in FromWb /\ cpc \in FromHue /\ cpc \in FromLine
      /\ cpc' \in FromWb /\ cpc' \in FromHue /\ cpc' \in FromLine
  BY <1>0 DEF PhaseInv, SettingInv, FromWb, FromHue, FromLine, FromAe, FromPriority, FromFocus
\* The unit.
<1>2. ASSUME NEW b \in 0..17, NEW v, SetCur(<<ent.ct, b>>, v) \/ Quiet, ent.pu # 0
      PROVE  UnitInv'
  <2>1. /\ \A d \in 0..17 : \A w : PuHas(d, w) => PuHas(d, w)'
        /\ \A d \in 0..17 : val'[<<ent.pu, d>>] = val[<<ent.pu, d>>]
    BY <1>0, <1>1, <1>2, TermSetting
  <2>2. /\ \A n \in 1..8 : PuHas(Items[n], 0)
        /\ PuHas(12, 1) /\ PuHas(11, 1) /\ PuHas(10, 1)
        /\ 12 \notin ent.puBm => PuHas(6, 0)
        /\ \A d \in 0..17 \ ent.puBm : val[<<ent.pu, d>>] = start
    BY <1>0, <1>1, <1>2 DEF UnitInv
  <2>3. /\ \A n \in 1..8 : Items[n] \in 0..17
        /\ 6 \in 0..17 /\ 10 \in 0..17 /\ 11 \in 0..17 /\ 12 \in 0..17
    BY ItemFacts
  <2>4. /\ \A n \in 1..8 : PuHas(Items[n], 0)'
        /\ PuHas(12, 1)' /\ PuHas(11, 1)' /\ PuHas(10, 1)'
        /\ 12 \notin ent.puBm => PuHas(6, 0)'
        /\ \A d \in 0..17 \ ent.puBm : val'[<<ent.pu, d>>] = start
    BY <2>1, <2>2, <2>3
  <2>5. /\ cpc' \notin {"items", "wbTemp", "wbOn", "wbRead", "wbManual", "wb4500"}
    BY <1>0 DEF FromAe, FromPriority, FromFocus
  <2>6. QED
    BY <1>0, <2>4, <2>5 DEF UnitInv
\* The terminal's controls that were not advertised.
<1>3. ASSUME NEW b \in 0..17, NEW v, (SetCur(<<ent.ct, b>>, v) /\ b \in ent.ctBm) \/ Quiet
      PROVE  \A d \in 0..17 \ ent.ctBm : val'[<<ent.ct, d>>] = start
  <2>1. \A d \in 0..17 \ ent.ctBm : val[<<ent.ct, d>>] = start
    BY <1>1 DEF TermInv
  <2>2. \A d \in 0..17 \ ent.ctBm : val'[<<ent.ct, d>>] = val[<<ent.ct, d>>]
    BY <1>0, <1>1, <1>3, TermSetting
  <2>3. QED
    BY <2>1, <2>2
<1>4. \A n : Preferred(n)' <=> Preferred(n)
  BY <1>0 DEF Preferred
<1>5. CASE AeSkipped
  <2>1. 1 \notin ent.ctBm /\ cpc' = "focus" /\ Quiet
    BY <1>5 DEF AeSkipped, At
  <2>2. \A d \in 0..17 \ ent.ctBm : val'[<<ent.ct, d>>] = start
    BY <1>3, <1>b, <2>1
  <2>3. \A v : CtHas(1, v)'
    BY <1>0, <2>1 DEF CtHas
  <2>4. TermInv'
    BY <1>0, <2>1, <2>2, <2>3 DEF TermInv
  <2>5. QED
    BY <1>2, <1>b, <2>1, <2>4
\* While modes are tried: those before were not among the camera's.
<1>6. ASSUME cpc = "ae"
      PROVE  /\ item \in 1..3
             /\ \A n \in 1..3 : n < item => AeOrder[n] \notin modes \/ <<ent.ct, 1>> \in lost
  BY <1>1, <1>6 DEF PhaseInv, TermInv, AeMode
<1>7. CASE AeAccepted
  <2>1. /\ 1 \in ent.ctBm /\ cpc = "ae" /\ cpc' = "priority"
        /\ SetOk(<<ent.ct, 1>>, AeOrder[item])
    BY <1>7 DEF AeAccepted, At, AeMode
  <2>2. SetCur(<<ent.ct, 1>>, AeOrder[item])
    BY <2>1 DEF SetCur
  <2>3. \A d \in 0..17 \ ent.ctBm : val'[<<ent.ct, d>>] = start
    BY <1>3, <1>b, <2>1, <2>2
  <2>4. val'[<<ent.ct, 1>>] = AeOrder[item] /\ AeOrder[item] \in modes /\ lost \subseteq lost'
    <3>1. Accepts(<<ent.ct, 1>>, AeOrder[item]) /\ val'[<<ent.ct, 1>>] = AeOrder[item]
      BY <2>1, Requests
    <3>2. AeOrder[item] \in modes
      BY <1>1, <1>b, <3>1, Accepting DEF SettingInv
    <3>3. QED
      BY <2>2, <3>1, <3>2, Requests DEF Touches
  <2>5. ASSUME NEW n \in 1..3, Preferred(n) PROVE CtHas(1, AeOrder[n])'
    <3>1. /\ AeOrder[n] \in modes /\ \A j \in 1..(n - 1) : AeOrder[j] \notin modes
          /\ item \in 1..3
          /\ \A m \in 1..3 : m < item => AeOrder[m] \notin modes \/ <<ent.ct, 1>> \in lost
      BY <1>6, <2>1, <2>5 DEF Preferred
    <3>2. item < n => item \in 1..(n - 1)
      BY <3>1
    <3>3. n = item \/ <<ent.ct, 1>> \in lost'
      BY <2>4, <3>1, <3>2
    <3>4. QED
      BY <1>0, <2>4, <3>3 DEF CtHas, Has
  <2>6. TermInv'
    BY <1>0, <1>4, <2>1, <2>3, <2>5 DEF TermInv, FromFocus
  <2>7. QED
    BY <1>2, <1>b, <2>2, <2>6
<1>8. CASE AeTryNext
  <2>1. /\ 1 \in ent.ctBm /\ cpc = "ae" /\ SetFails(<<ent.ct, 1>>, AeOrder[item])
        /\ \/ item < 3 /\ cpc' = "ae" /\ item' = item + 1
           \/ item = 3 /\ cpc' = "priority"
    BY <1>8, AeFacts DEF AeTryNext, At, AeMode
  <2>2. SetCur(<<ent.ct, 1>>, AeOrder[item])
    BY <2>1 DEF SetCur
  <2>3. \A d \in 0..17 \ ent.ctBm : val'[<<ent.ct, d>>] = start
    BY <1>3, <1>b, <2>1, <2>2
  <2>4. AeOrder[item] \notin modes \/ <<ent.ct, 1>> \in lost'
    <3>1. ASSUME AeOrder[item] \in modes PROVE Accepts(<<ent.ct, 1>>, AeOrder[item])
      BY <1>1, <1>b, <3>1, Accepting DEF SettingInv
    <3>2. QED
      BY <2>1, <3>1, Requests
  <2>5. lost \subseteq lost'
    BY <2>2, Requests DEF Touches
  <2>6. \A n \in 1..3 : n <= item => AeOrder[n] \notin modes \/ <<ent.ct, 1>> \in lost'
    BY <1>6, <2>1, <2>4, <2>5
  <2>7. CASE item < 3 /\ cpc' = "ae" /\ item' = item + 1
    <3>1. \A n \in 1..3 : n < item' => n <= item
      BY <1>6, <2>1, <2>7
    <3>2. \A n \in 1..3 : n < item' => AeOrder[n] \notin modes' \/ AeMode(ent'.ct) \in lost'
      BY <1>0, <2>6, <3>1 DEF AeMode
    <3>3. TermInv'
      BY <1>0, <2>3, <2>7, <3>2 DEF TermInv, AeMode, FromPriority, FromFocus
    <3>4. QED
      BY <1>2, <1>b, <2>2, <3>3
  <2>8. CASE item = 3 /\ cpc' = "priority"
    <3>1. ASSUME NEW n \in 1..3, Preferred(n) PROVE CtHas(1, AeOrder[n])'
      <4>1. <<ent.ct, 1>> \in lost'
        BY <2>6, <2>8, <3>1 DEF Preferred
      <4>2. QED
        BY <1>0, <4>1 DEF CtHas, Has
    <3>2. TermInv'
      BY <1>0, <1>4, <2>1, <2>3, <2>8, <3>1 DEF TermInv, FromFocus
    <3>3. QED
      BY <1>2, <1>b, <2>2, <3>2
  <2>9. QED
    BY <2>1, <2>7, <2>8
\* The last two settings.
<1>9. ASSUME NEW b \in {2, 17}, b \in ent.ctBm => SetCur(<<ent.ct, b>>, 1), b \notin ent.ctBm => Quiet
      PROVE  /\ CtHas(b, 1)'
             /\ \A d \in 0..17 \ ent.ctBm : val'[<<ent.ct, d>>] = start
             /\ \A d \in 0..17 : \A w : d # b /\ CtHas(d, w) => CtHas(d, w)'
             /\ ent.pu # 0 => UnitInv'
  <2>0. b \in 0..17 /\ b # 1
    OBVIOUS
  <2>1. CASE b \in ent.ctBm
    BY <1>0, <1>1, <1>2, <1>3, <1>9, <2>0, <2>1, TermSetting
  <2>2. CASE b \notin ent.ctBm
    <3>1. CtHas(b, 1)'
      BY <1>0, <2>2 DEF CtHas
    <3>2. QED
      BY <1>0, <1>1, <1>2, <1>3, <1>9, <2>0, <2>2, <3>1, TermSetting
  <2>3. QED
    BY <2>1, <2>2
<1>10. CASE AePriority
  <2>1. /\ cpc = "priority" /\ cpc' = "focus"
        /\ 2 \in ent.ctBm => SetCur(<<ent.ct, 2>>, 1)
        /\ 2 \notin ent.ctBm => Quiet
    BY <1>10 DEF AePriority, Setting, At
  <2>2. /\ CtHas(2, 1)'
        /\ \A d \in 0..17 \ ent.ctBm : val'[<<ent.ct, d>>] = start
        /\ \A w : CtHas(1, w) => CtHas(1, w)'
        /\ ent.pu # 0 => UnitInv'
    BY <1>9, <1>b, <2>1
  <2>3. \A n \in 1..3 : Preferred(n) => CtHas(1, AeOrder[n])
    BY <1>1, <2>1 DEF TermInv, FromPriority
  <2>4. \A n \in 1..3 : Preferred(n)' => CtHas(1, AeOrder[n])'
    BY <1>4, <2>2, <2>3
  <2>5. TermInv'
    BY <1>0, <2>1, <2>2, <2>4 DEF TermInv
  <2>6. QED
    BY <2>2, <2>5
<1>11. CASE FocusAuto
  <2>1. /\ cpc = "focus" /\ cpc' = "done"
        /\ 17 \in ent.ctBm => SetCur(<<ent.ct, 17>>, 1)
        /\ 17 \notin ent.ctBm => Quiet
    BY <1>11 DEF FocusAuto, Setting, At
  <2>2. /\ CtHas(17, 1)'
        /\ \A d \in 0..17 \ ent.ctBm : val'[<<ent.ct, d>>] = start
        /\ \A w : CtHas(1, w) => CtHas(1, w)'
        /\ CtHas(2, 1) => CtHas(2, 1)'
        /\ ent.pu # 0 => UnitInv'
    BY <1>9, <1>b, <2>1
  <2>3. /\ \A n \in 1..3 : Preferred(n) => CtHas(1, AeOrder[n])
        /\ 1 \in ent.ctBm => CtHas(2, 1)
    BY <1>1, <2>1 DEF TermInv, FromPriority, FromFocus
  <2>4. \A n \in 1..3 : Preferred(n)' => CtHas(1, AeOrder[n])'
    BY <1>4, <2>2, <2>3
  <2>5. TermInv'
    BY <1>0, <2>1, <2>2, <2>3, <2>4 DEF TermInv
  <2>6. QED
    BY <2>2, <2>5
<1>12. QED
  BY <1>5, <1>7, <1>8, <1>10, <1>11

LEMMA PhaseStep ==
    ASSUME PhaseInv, [OpenNext]_openVars
    PROVE  PhaseInv'
<1> USE DEF UnitSteps, FromWb, FromHue, FromLine, FromAe, FromPriority, FromFocus
<1>1. CASE UNCHANGED ctlVars /\ Next /\ (pc = "alt0" => cpc = "done")
  <2>1. pc' \in Starting \ {"alt0"} => pc \in Starting
    <3>1. CASE \/ ScanInterface \/ ScanFormat \/ ScanFrame \/ ScanFramePanics
               \/ ScanEndpoint \/ ScanOther \/ ScanFails \/ Select
      BY <3>1 DEF ScanInterface, ScanFormat, ScanFrame, ScanFramePanics, ScanEndpoint, ScanOther,
         ScanFails, Select, AtDesc, Starting
    <3>2. CASE \/ SetAlt0 \/ SetProbe \/ SetProbeFails \/ GetMax
               \/ GetProbe \/ GetProbeFails \/ SetCommit \/ SetCommitFails \/ Arm \/ ArmFails
      BY <3>2 DEF SetAlt0, SetProbe, SetProbeFails, GetMax, GetProbe, GetProbeFails, SetCommit,
         SetCommitFails, Arm, ArmFails, Ok, Fails, Starting
    <3>3. QED
      BY <1>1, <3>1, <3>2 DEF Next
  <2>2. pc' \in Starting \ {"alt0"} => cpc' = "done"
    BY <1>1, <2>1 DEF PhaseInv, ctlVars
  <2>3. UNCHANGED <<cpc, ent, item>>
    BY <1>1 DEF ctlVars
  <2>4. QED
    BY <2>2, <2>3 DEF PhaseInv
<1>2. CASE UNCHANGED openVars
  <2>1. UNCHANGED <<pc, cpc, ent, item>>
    BY <1>2 DEF openVars, vars, ctlVars
  <2>2. QED
    BY <2>1 DEF PhaseInv
<1>3. CASE EntInterface \/ EntUnit \/ EntTerminal \/ EntOther
  <2>1. pc = "alt0" /\ cpc = "scan" /\ UNCHANGED <<pc, cpc, item>>
    BY <1>3 DEF EntInterface, EntUnit, EntTerminal, EntOther, AtEntity, vars
  <2>2. QED
    BY <2>1 DEF PhaseInv, Starting
<1>4. CASE EntEnd
  <2>1. /\ pc = "alt0" /\ cpc = "scan" /\ UNCHANGED <<pc, ent, item>>
        /\ cpc' = IF ent.pu # 0 THEN "items" ELSE IF ent.ct # 0 THEN "ae" ELSE "done"
    BY <1>4 DEF EntEnd, AfterUnit, vars
  <2>2. item \in 1..3
    BY <2>1 DEF PhaseInv
  <2>3. QED
    BY <2>1, <2>2 DEF PhaseInv, Starting
<1>5. CASE CtlNext /\ cpc # "scan"
  <2>1. cpc # "done" /\ UNCHANGED <<pc, ent>>
    BY <1>5, SettingSteps
  <2>2. pc' \notin Starting \ {"alt0"}
    BY <2>1 DEF PhaseInv
  <2>3. CASE ApplyItem
    BY <2>1, <2>2, <2>3 DEF ApplyItem, At, PhaseInv
  <2>4. CASE WbAutoOff \/ WbTempDefault \/ WbAutoOn \/ WbRead \/ WbManual \/ Wb4500 \/ HueAuto
    <3>1. /\ cpc \in UnitSteps \ {"items", "line"} /\ cpc' \in UnitSteps \ {"items"}
          /\ UNCHANGED item
      BY <2>4 DEF WbAutoOff, WbTempDefault, WbAutoOn, WbRead, WbManual, Wb4500, HueAuto, Setting, At
    <3>2. QED
      BY <2>1, <2>2, <3>1 DEF PhaseInv
  <2>5. CASE PowerLine50
    <3>1. cpc = "line" /\ cpc' = (IF ent.ct # 0 THEN "ae" ELSE "done") /\ UNCHANGED item
      BY <2>5 DEF PowerLine50, Setting, At, AfterUnit
    <3>2. item' \in 1..3
      BY <3>1 DEF PhaseInv
    <3>3. QED
      BY <2>1, <2>2, <3>1, <3>2 DEF PhaseInv
  <2>6. CASE AeTryNext
    <3>1. /\ cpc = "ae"
          /\ \/ cpc' = "ae" /\ item < 3 /\ item' = item + 1
             \/ cpc' = "priority"
      BY <2>6, AeFacts DEF AeTryNext, At
    <3>2. cpc' = "ae" => item' \in 1..3
      BY <3>1 DEF PhaseInv
    <3>3. QED
      BY <2>1, <2>2, <3>1, <3>2 DEF PhaseInv
  <2>7. CASE AeSkipped \/ AeAccepted \/ AePriority \/ FocusAuto
    <3>1. /\ cpc \in {"ae", "priority", "focus"} /\ cpc' \in {"priority", "focus", "done"}
      BY <2>7 DEF AeSkipped, AeAccepted, AePriority, FocusAuto, Setting, At
    <3>2. QED
      BY <2>1, <2>2, <3>1 DEF PhaseInv
  <2>8. QED
    BY <1>5, <2>3, <2>4, <2>5, <2>6, <2>7, SettingSteps
<1>6. QED
  BY <1>1, <1>2, <1>3, <1>4, <1>5, CtlSteps DEF OpenNext

LEMMA SettingStep ==
    ASSUME EntityInv, PhaseInv, SettingInv, [OpenNext]_openVars
    PROVE  SettingInv'
<1>1. Ids' = Ids /\ (SingleEntities' <=> SingleEntities)
  <2>1. cfg' = cfg
    BY CfgFixed
  <2>2. Units' = Units /\ Terminals' = Terminals
    BY <2>1 DEF Units, Terminals, IsUnit, IsCameraTerminal, InVc, ScopeOf
  <2>3. QED
    BY <2>1, <2>2 DEF Ids, SingleEntities
<1>2. CASE UNCHANGED ctlVars
  <2>1. UNCHANGED <<cpc, ent, item, val, start, modes, lost>>
    BY <1>2 DEF ctlVars
  <2>2. (UnitInv' <=> UnitInv) /\ (TermInv' <=> TermInv)
    BY <2>1 DEF UnitInv, TermInv, PuHas, CtHas, Has, WbTemp, AeMode, Preferred
  <2>3. QED
    BY <1>1, <2>1, <2>2 DEF SettingInv
<1>3. CASE EntInterface \/ EntUnit \/ EntTerminal \/ EntOther
  <2>1. cpc = "scan" /\ cpc' = "scan" /\ UNCHANGED <<val, start>>
    BY <1>3 DEF EntInterface, EntUnit, EntTerminal, EntOther, AtEntity
  <2>2. QED
    BY <1>1, <2>1 DEF SettingInv
<1>4. CASE EntEnd
  <2>1. /\ cpc = "scan" /\ UNCHANGED <<ent, item, val, start>> /\ item = 1
        /\ cpc' = IF ent.pu # 0 THEN "items" ELSE IF ent.ct # 0 THEN "ae" ELSE "done"
    BY <1>4 DEF EntEnd, AfterUnit, PhaseInv
  <2>2. (ent.pu # 0 => ent.pu \in Ids) /\ (ent.ct # 0 => ent.ct \in Ids)
    BY DEF EntityInv, Found, Ids
  <2>3. /\ ent.pu # 0 => \A b \in 0..17 : val[<<ent.pu, b>>] = start
        /\ ent.ct # 0 => \A b \in 0..17 : val[<<ent.ct, b>>] = start
    BY <2>1, <2>2 DEF SettingInv
  <2>4. 1 \in 1..8 /\ (\A n \in 1..8 : ~(n < 1)) /\ \A n \in 1..3 : ~(n < 1)
    OBVIOUS
  <2>5. ent.pu # 0 => UnitInv'
    BY <2>1, <2>3, <2>4
    DEF UnitInv, FromWb, FromHue, FromLine, FromAe, FromPriority, FromFocus
  <2>6. ent.ct # 0 => TermInv'
    BY <2>1, <2>3, <2>4 DEF TermInv, FromPriority, FromFocus
  <2>7. QED
    BY <1>1, <2>1, <2>5, <2>6 DEF SettingInv
<1>5. CASE CtlNext /\ cpc # "scan"
  <2>1. cpc' # "scan" /\ UNCHANGED ent
    BY <1>5, CtlSteps DEF EntInterface, EntUnit, EntTerminal, EntOther, EntEnd, AtEntity
  <2>2. \E c, v : SetCur(c, v) \/ GetOk(c) \/ GetFails(c) \/ Quiet
    <3>1. CASE ApplyItem
      BY <3>1 DEF ApplyItem
    <3>2. CASE WbAutoOff \/ WbTempDefault \/ WbAutoOn \/ WbRead \/ WbManual \/ Wb4500
      BY <3>2 DEF WbAutoOff, WbTempDefault, WbAutoOn, WbRead, WbManual, Wb4500, Setting
    <3>3. CASE HueAuto \/ PowerLine50 \/ AePriority \/ FocusAuto
      BY <3>3 DEF HueAuto, PowerLine50, AePriority, FocusAuto, Setting
    <3>4. CASE AeSkipped \/ AeAccepted \/ AeTryNext
      BY <3>4 DEF AeSkipped, AeAccepted, AeTryNext, SetCur
    <3>5. QED
      BY <1>5, <3>1, <3>2, <3>3, <3>4, SettingSteps
  <2>3. DOMAIN val' = DOMAIN val
    BY <2>2, Requests DEF Touches
  <2>4. ASSUME SingleEntities, ent.pu # 0 PROVE UnitInv'
    <3>1. CASE AeSkipped \/ AeAccepted \/ AeTryNext \/ AePriority \/ FocusAuto
      BY <2>4, <3>1, TermStep
    <3>2. CASE ApplyItem
      BY <2>4, <3>2, ItemStep
    <3>3. CASE WbAutoOff \/ WbTempDefault \/ WbAutoOn \/ WbRead \/ WbManual \/ Wb4500
      BY <2>4, <3>3, WhiteBalanceStep
    <3>4. CASE HueAuto \/ PowerLine50
      BY <2>4, <3>4, HueLineStep
    <3>5. QED
      BY <1>5, <3>1, <3>2, <3>3, <3>4, SettingSteps
  <2>5. ASSUME SingleEntities, ent.ct # 0 PROVE TermInv'
    <3>1. CASE AeSkipped \/ AeAccepted \/ AeTryNext \/ AePriority \/ FocusAuto
      BY <2>5, <3>1, TermStep
    <3>2. CASE \/ ApplyItem \/ WbAutoOff \/ WbTempDefault \/ WbAutoOn \/ WbRead \/ WbManual
               \/ Wb4500 \/ HueAuto \/ PowerLine50
      BY <2>5, <3>2, TermWaits
    <3>3. QED
      BY <1>5, <3>1, <3>2, SettingSteps
  <2>6. QED
    BY <1>1, <2>1, <2>3, <2>4, <2>5 DEF SettingInv
<1>6. QED
  BY <1>2, <1>3, <1>4, <1>5, CtlSteps DEF OpenNext, openVars

LEMMA SettingBegins == OpenInit => PhaseInv /\ SettingInv
<1> SUFFICES ASSUME OpenInit PROVE PhaseInv /\ SettingInv
  OBVIOUS
<1>1. /\ pc = "scan" /\ cpc = "scan" /\ item = 1
      /\ val = [c \in Ids \X (0..17) |-> start]
  BY DEF OpenInit, Init, CtlInit, Ids
<1>2. PhaseInv
  BY <1>1 DEF PhaseInv, Starting, UnitSteps, FromWb, FromHue, FromLine, FromAe, FromPriority, FromFocus
<1>3. DOMAIN val = Ids \X (0..17) /\ \A c \in DOMAIN val : val[c] = start
  BY <1>1
<1>4. QED
  BY <1>1, <1>2, <1>3 DEF SettingInv

\* A camera with at most one processing unit and one camera terminal, with ids of
\* their own, shows once the stream is up what init_controls promises, whatever it
\* advertises, refuses or does not answer: every item of the picture at its default,
\* white balance, hue and focus automatic, 50 Hz, the first exposure mode of the list
\* it has, and nothing changed that it did not advertise (control.rs, init_controls).
THEOREM SettingsArePromised == OpenSpec => [](SingleEntities => SettingsAsPromised)
<1>1. EntityInv /\ PhaseInv /\ SettingInv => (SingleEntities => SettingsAsPromised)
  <2> SUFFICES ASSUME EntityInv, PhaseInv, SettingInv, SingleEntities, Armed PROVE SettingsAsPromised
    BY DEF SettingsAsPromised
  <2>1. cpc = "done"
    BY DEF Armed, PhaseInv, Starting
  <2>2. /\ \A k \in Units : ent.pu # 0 /\ cfg[k].ix = ent.pu /\ cfg[k].bm = ent.puBm
        /\ \A k \in Terminals : ent.ct # 0 /\ cfg[k].ix = ent.ct /\ cfg[k].bm = ent.ctBm
    BY <2>1, TheEntities
  <2>3. ASSUME ent.pu # 0
        PROVE  /\ \A b \in ToSet(Items) : PuHas(b, 0)
               /\ PuHas(12, 1) /\ PuHas(11, 1) /\ PuHas(10, 1)
               /\ 12 \notin ent.puBm => PuHas(6, 0)
               /\ \A b \in 0..17 \ ent.puBm : val[<<ent.pu, b>>] = start
    <3>1. UnitInv
      BY <2>1, <2>3 DEF SettingInv
    <3>2. \A n \in 1..8 : PuHas(Items[n], 0)
      BY <2>1, <3>1 DEF UnitInv, FromWb, FromHue, FromLine, FromAe, FromPriority, FromFocus
    <3>3. \A b \in ToSet(Items) : PuHas(b, 0)
      BY <3>2, ItemFacts DEF ToSet
    <3>4. QED
      BY <2>1, <3>1, <3>3 DEF UnitInv, FromWb, FromHue, FromLine, FromAe, FromPriority, FromFocus
  <2>4. ASSUME ent.ct # 0
        PROVE  /\ \A n \in 1..3 : Preferred(n) => CtHas(1, AeOrder[n])
               /\ 1 \in ent.ctBm => CtHas(2, 1)
               /\ CtHas(17, 1)
               /\ \A b \in 0..17 \ ent.ctBm : val[<<ent.ct, b>>] = start
    BY <2>1, <2>4 DEF SettingInv, TermInv, FromPriority, FromFocus
  <2>5. QED
    BY <2>2, <2>3, <2>4 DEF SettingsAsPromised, PuHas, CtHas
<1>2. EntityInv /\ PhaseInv /\ SettingInv /\ [OpenNext]_openVars => (EntityInv /\ PhaseInv /\ SettingInv)'
  BY EntityStep, PhaseStep, SettingStep
<1>3. QED
  BY <1>1, <1>2, EntityBegins, SettingBegins, PTL DEF OpenSpec
=============================================================================
