---------------------------- MODULE MCJpegHeader ----------------------------
\* Headers for TLC: every order of up to three segments between SOI and SOS, with
\* one segment made long enough for the scan to begin anywhere around a page
\* boundary.  Tables are scaled: three code lengths, two coefficients.
EXTENDS JpegHeader

raw(bytes) == [kind |-> "raw", bytes |-> bytes]
Soi == raw(<<255, 216>>)

\* A fill byte; TEM, a marker without length, and a stray byte; application data
\* that looks like a scan header.
Idle ==
    {raw(<<255>>), raw(<<255, 1, 7>>), raw(<<255, 224, 0, 8, 255, 218, 0, 4, 255, 196>>)}

comp(h, v, tq) == [h |-> h, v |-> v, tq |-> tq]
sof(w, h, comps) == [kind |-> "sof", width |-> w, height |-> h, comps |-> comps]
Sofs ==
    {sof(40, 20, <<comp(2, 2, 0), comp(1, 1, 1), comp(1, 1, 1)>>),
     sof(33, 16, <<comp(2, 1, 0), comp(1, 1, 1), comp(1, 1, 1)>>),
     sof(8, 24, <<comp(1, 2, 1), comp(1, 1, 0), comp(1, 1, 0)>>),
     sof(300, 9, <<comp(1, 1, 0), comp(1, 1, 0), comp(1, 1, 0)>>),
     sof(17, 16, <<comp(1, 1, 0)>>)}

table(tc, th, bits, values) == [tc |-> tc, th |-> th, bits |-> bits, values |-> values]
dht(tables) == [kind |-> "dht", tables |-> tables]
Dhts ==
    {dht(<<table(0, 0, <<0, 2, 0>>, <<5, 6>>), table(1, 0, <<1, 0, 3>>, <<9, 255, 218, 8>>)>>),
     dht(<<table(1, 1, <<0, 1, 1>>, <<3, 4>>), table(0, 1, <<1, 0, 1>>, <<7, 255>>)>>),
     dht(<<table(1, 0, <<0, 0, 2>>, <<255, 217>>)>>)}

qt(tq, wide, values) == [tq |-> tq, wide |-> wide, values |-> values]
dqt(tables) == [kind |-> "dqt", tables |-> tables]
Dqts == {dqt(<<qt(0, FALSE, <<16, 11>>), qt(1, TRUE, <<300, 2>>)>>), dqt(<<qt(1, FALSE, <<255, 192>>)>>)}

dri(n) == [kind |-> "dri", interval |-> n]
Sos3 == [kind |-> "sos", comps |-> <<[dc |-> 0, ac |-> 0], [dc |-> 1, ac |-> 1], [dc |-> 1, ac |-> 0]>>]

Pool == Idle \cup Sofs \cup Dhts \cup Dqts \cup {dri(260), [kind |-> "eoi"]}

\* Application data of n bytes.
Long(n) == raw(<<255, 225>> \o Word(n + 2) \o [k \in 1..n |-> 255])

Around(n) == <<Soi, Long(n), CHOOSE s \in Sofs : s.width = 33, Sos3>>

\* A header has one frame.
Mids == {mid \in UNION {[1..n -> Pool] : n \in 0..3} :
            \A j, k \in DOMAIN mid : {mid[j], mid[k]} \subseteq Sofs => j = k}

MCHeaders ==
    {<<Soi>> \o mid \o <<Sos3>> : mid \in Mids}
        \cup {Around(n) : n \in (211..230) \cup (467..486) \cup {723, 740}}
        \cup {<<Soi, s>> : s \in Sofs}
=============================================================================
