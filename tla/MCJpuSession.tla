---------------------------- MODULE MCJpuSession ----------------------------
\* Small instances of JpuSession for TLC: the preferred picture, another one that
\* fits the YUV buffer, one that does not, and the preferred one with a hole in a
\* table of its header.
EXTENDS JpuSession

JP == INSTANCE JpuProgram
        WITH HUFF_LENGTH_COUNT <- 16, DC_LENGTHS <- 12, DC_WORDS <- 12, AC_WORDS <- 162

\* A 4:2:2 picture, as the cameras send them.
Picture(w, h, jpeg) ==
    [w |-> w, h |-> h, jpeg |-> jpeg, fatal |-> FALSE,
     size |-> JP!frame_size([width |-> w, height |-> h, format |-> JP!FORMAT_422])]

Preferred == {Picture(640, 480, 30000)}
MCPictures ==
    Preferred \cup {Picture(352, 288, 9000), Picture(800, 600, 40000)}
        \cup {[p EXCEPT !.fatal = TRUE] : p \in Preferred}
=============================================================================
