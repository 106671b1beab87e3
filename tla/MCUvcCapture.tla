---------------------------- MODULE MCUvcCapture ----------------------------
(* Instances of UvcCapture for TLC: what kind of frame follows which, and    *)
(* what may go wrong.                                                        *)
EXTENDS UvcCapture

Mode(next, lose, fail) ==
    [next |-> next, lose |-> lose, fail |-> fail, ids |-> IF lose THEN 2 ELSE 4]

OnlyReal    == [k \in {"real", "meta"} |-> {"real"}]
Mixed       == [k \in {"real", "meta"} |-> {"real", "meta"}]
Alternating == [k \in {"real", "meta"} |-> {"real", "meta"} \ {k}]

\* Everything may happen; nothing is lost; a steady camera on a good bus.
MCModes == {Mode(Mixed, TRUE, TRUE), Mode(Mixed, FALSE, TRUE), Mode(OnlyReal, FALSE, FALSE)}

MixedModes == {Mode(Mixed, FALSE, FALSE)}
SteadyModes == {Mode(OnlyReal, FALSE, FALSE)}
AlternatingModes == {Mode(Alternating, FALSE, FALSE)}
=============================================================================
