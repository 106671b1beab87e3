---------------------------- MODULE MCUvcStream -----------------------------
\* Cameras for TLC: the control interface first, then a streaming interface with
\* its format and frames under alternate setting 0 and one endpoint under each
\* further one, then a microphone.
EXTENDS UvcControl

Ifc(n, a, vs) == [ty |-> "interface", num |-> n, alt |-> a, vs |-> vs, vc |-> FALSE]
VcIfc(n) == [ty |-> "interface", num |-> n, alt |-> 0, vs |-> FALSE, vc |-> TRUE]
Fmt(ix) == [ty |-> "format", ix |-> ix]
Frame(ix, m, w, h, cont, ivals, dflt) ==
    [ty |-> "frame", ix |-> ix, mjpeg |-> m, w |-> w, h |-> h,
     continuous |-> cont, ivals |-> ivals, dflt |-> dflt, bm |-> {ix}]
Unit(ix, bm) == [Frame(ix, FALSE, 4, 3, FALSE, << >>, 1) EXCEPT !.bm = bm]
Terminal(ix, camera, bm) == [ty |-> "terminal", ix |-> ix, camera |-> camera, bm |-> bm]
Ep(n, in, isoch, raw) == [ty |-> "endpoint", ep |-> n, in |-> in, isoch |-> isoch, raw |-> raw]
Other == [ty |-> "other"]

\* Under the control interface subtype 5 is a processing unit, not a frame.
Control == <<VcIfc(0), Unit(9, {}), Ep(3, TRUE, FALSE, 8)>>
Microphone == <<Ifc(3, 1, FALSE), Ep(4, TRUE, TRUE, 9), Other>>

\* Streaming interface n with one alternate setting per packet size.
Streaming(n, frames, raws) ==
    <<Ifc(n, 0, TRUE), Fmt(n)>> \o frames
    \o FlattenSeq([a \in DOMAIN raws |-> <<Ifc(n, a, TRUE), Ep(n, TRUE, TRUE, raws[a])>>])

Camera(frames, raws) == Control \o Streaming(1, frames, raws) \o Microphone

Sizes == {<<2, 2>>, <<3, 3>>, <<4, 3>>, <<3, 4>>, <<5, 4>>, <<5, 5>>}
AnyFrame(ix) == {Frame(ix, m, s[1], s[2], FALSE, <<3>>, 3) : m \in BOOLEAN, s \in Sizes}
FrameChoices ==
    {Camera(<<f, g>>, <<2>>) : f \in AnyFrame(1), g \in AnyFrame(2)}

\* Lists and ranges around the preferred interval 3; zero is no interval.  The
\* steps of <<1, 5, 2>> meet it, those of <<1, 5, 3>> miss it.
Bounds == {0, 1, 2, 5}
Lists == {<<a, b>> : a, b \in Bounds} \cup {<< >>, <<3>>}
Ranges == {<<a, b, s>> : a, b \in Bounds, s \in {0, 2, 3}} \cup {<< >>}
IntervalChoices ==
    {Camera(<<Frame(1, TRUE, 4, 3, FALSE, l, d)>>, <<2>>) : l \in Lists, d \in {0, 2, 6}}
    \cup {Camera(<<Frame(1, TRUE, 4, 3, TRUE, r, d)>>, <<2>>) : r \in Ranges, d \in {0, 2, 6}}

Raws == {0, 1, 2, 3, 2048 + 3}
\* <<1, 2, 3, 2>> has one alternate setting more than a table of three.
AltChoices ==
    {Camera(<<Frame(1, TRUE, 4, 3, FALSE, <<3>>, 3)>>, r) :
        r \in UNION {[1..n -> Raws] : n \in 0..3} \cup {<<1, 2, 3, 2>>}}
    \cup {Control \o <<Ifc(1, 0, TRUE), Ep(1, FALSE, TRUE, 2), Ep(2, TRUE, TRUE, 2)>>}

\* Control interfaces with and without a processing unit and a camera terminal; the
\* streaming interface that follows has an uncompressed frame, the subtype of a unit.
ControlStream ==
    Streaming(1, <<Frame(5, FALSE, 4, 3, FALSE, <<3>>, 3)>>, <<2>>)
    \o <<Terminal(7, TRUE, {1, 17})>>
UnitControls == {{}, {0, 9}, {6}, {12}, {6, 12}, {2, 11}, {10, 12}}
TerminalControls == {{}, {1}, {1, 2}, {2, 17}}
ControlChoices ==
    {<<VcIfc(0)>> \o u \o <<Terminal(3, FALSE, {1, 2})>> \o t \o ControlStream :
        u \in {<< >>} \cup {<<Unit(2, bm)>> : bm \in UnitControls},
        t \in {<< >>} \cup {<<Terminal(1, TRUE, bm)>> : bm \in TerminalControls}}
    \cup {ControlStream}

OneStream == FrameChoices \cup IntervalChoices \cup AltChoices \cup ControlChoices

AeModeChoices == {{1}, {1, 8}, {1, 2, 4, 8}, {1, 4}}

\* Two streaming interfaces with alternate settings of their own.
TwoStreams ==
    {Streaming(1, <<Frame(1, TRUE, 4, 3, FALSE, <<3>>, 3)>>, r)
        \o Streaming(2, << >>, <<2>>) : r \in {<<1, 3>>, <<3, 1>>}}
=============================================================================
