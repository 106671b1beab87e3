----------------------------- MODULE JpegHeader -----------------------------
(***************************************************************************)
(* The JPEG header parser, jpu/header.rs, as a state machine over the bytes *)
(* of one captured frame: one action per branch of parse_jpeg_header's      *)
(* match, one per table of parse_dht and parse_dqt.  Positions are the      *)
(* code's, from zero.                                                       *)
(*                                                                          *)
(* The bytes are those of a header as a camera writes it (T.81), possibly   *)
(* cut short by a lost packet: the segments it was made from are kept       *)
(* beside them, so that what the parser finds can be compared with what was *)
(* written.                                                                 *)
(***************************************************************************)
EXTENDS JpuProgram

CONSTANTS
    DQT_TABLE_ENTRIES,  \* coefficients of a quantisation table (64)
    MAX_VALUES,         \* room for the values of a Huffman table (256)
    HUFF_NO_CODE,       \* no code of this length (0xFFFF)
    HUFF_NO_PTR,        \* ... and no value pointer (0xFF)
    Headers,            \* headers, as sequences of segments
    Cuts                \* numbers of bytes lost at the end of the frame

ASSUME JpegHeaderAssumption ==
    /\ DQT_TABLE_ENTRIES \in Nat \ {0} /\ MAX_VALUES \in Nat \ {0}
    /\ HUFF_NO_CODE \in Nat /\ HUFF_NO_PTR \in Nat /\ Cuts \subseteq Nat

VARIABLES
    written,  \* the segments of the header
    data,     \* the bytes parse_jpeg_header is given
    pc,       \* "scan", "dht", "dqt"; "ok", "err"; "panic": an index out of range
    i,        \* the loop's position
    offset,   \* position inside a DHT or DQT segment ...
    end,      \* ... and its end
    info      \* header_info

parseVars == <<written, data, pc, i, offset, end, info>>

-----------------------------------------------------------------------------
(* How a camera writes a header *)

Word(n) == <<n \div 256, n % 256>>

Segment(marker, body) == <<255, marker>> \o Word(Len(body) + 2) \o body

TableBytes(kind, t) ==
    IF kind = "dht" THEN <<t.tc * 16 + t.th>> \o t.bits \o t.values
      ELSE IF t.wide THEN <<16 + t.tq>> \o FlattenSeq([k \in DOMAIN t.values |-> Word(t.values[k])])
      ELSE <<t.tq>> \o t.values

TablesBytes(s) == FlattenSeq([k \in DOMAIN s.tables |-> TableBytes(s.kind, s.tables[k])])

\* A segment as bytes.  "raw" stands for what carries nothing the decoder needs:
\* fill bytes, markers without a length, application data.
Bytes(s) ==
    CASE s.kind = "raw" -> s.bytes
      [] s.kind = "sof" ->
            Segment(192, <<8>> \o Word(s.height) \o Word(s.width) \o <<Len(s.comps)>>
                \o FlattenSeq([c \in DOMAIN s.comps |-> <<c, s.comps[c].h * 16 + s.comps[c].v,
                                                          s.comps[c].tq>>]))
      [] s.kind = "dht" -> Segment(196, TablesBytes(s))
      [] s.kind = "dqt" -> Segment(219, TablesBytes(s))
      [] s.kind = "dri" -> Segment(221, Word(s.interval))
      [] s.kind = "eoi" -> <<255, 217>>
      [] s.kind = "sos" ->
            Segment(218, <<Len(s.comps)>>
                \o FlattenSeq([c \in DOMAIN s.comps |-> <<c, s.comps[c].dc * 16 + s.comps[c].ac>>])
                \o <<0, 63, 0>>)

EncodedData == <<1, 255, 0, 255, 217>>

FrameBytes(header) == FlattenSeq([k \in DOMAIN header |-> Bytes(header[k])]) \o EncodedData

\* What is written are bytes.
ASSUME HeadersAssumption == \A header \in Headers : FrameBytes(header) \in Seq(0..255)

-----------------------------------------------------------------------------
(* Reading bytes *)

Byte(k) == data[k + 1]

InData(k) == k < Len(data)

be16(off) == Byte(off) * 256 + Byte(off + 1)

HasLength == InData(i + 3)

seg_length == be16(i + 2)

\* The next segment: marker and length.
Past == i + 2 + seg_length

from_byte(b) ==
    CASE b = 255 -> "Fill"
      [] b = 0 -> "Stuffing"
      [] b = 216 -> "Soi"
      [] b = 217 -> "Eoi"
      [] b \in {192, 194} -> "Sof"
      [] b = 196 -> "Dht"
      [] b = 218 -> "Sos"
      [] b = 219 -> "Dqt"
      [] b = 221 -> "Dri"
      [] b \in 192..254 -> "OtherWithLength"
      [] OTHER -> "Other"

AtMarker(kinds) ==
    /\ pc = "scan"
    /\ InData(i + 1)
    /\ Byte(i) = 255
    /\ from_byte(Byte(i + 1)) \in kinds

huff_slot(tc, th) == (th % 2) * 2 + (tc % 2)

-----------------------------------------------------------------------------
(* HuffTable::generate: from the number of codes of each length, the first   *)
(* and last code and the first value of that length.                        *)

generate(bits) ==
    LET step[k \in 0..HUFF_LENGTH_COUNT] ==
            IF k = 0 THEN [code |-> 0, count |-> 0, min |-> <<>>, max |-> <<>>, ptr |-> <<>>]
            ELSE LET s == step[k - 1]
                 IN  IF bits[k] = 0
                       THEN [s EXCEPT !.code = @ * 2,
                                      !.min = Append(@, HUFF_NO_CODE),
                                      !.max = Append(@, HUFF_NO_CODE),
                                      !.ptr = Append(@, HUFF_NO_PTR)]
                       ELSE [code |-> (s.code + bits[k]) * 2, count |-> s.count + bits[k],
                             min |-> Append(s.min, s.code),
                             max |-> Append(s.max, s.code + bits[k] - 1),
                             ptr |-> Append(s.ptr, s.count % 256)]
    IN  step[HUFF_LENGTH_COUNT]

EmptyTable ==
    [bits |-> [j \in 1..HUFF_LENGTH_COUNT |-> 0], values |-> [j \in 1..MAX_VALUES |-> 0],
     num_values |-> 0,
     min |-> [j \in 1..HUFF_LENGTH_COUNT |-> HUFF_NO_CODE],
     max |-> [j \in 1..HUFF_LENGTH_COUNT |-> HUFF_NO_CODE],
     ptr |-> [j \in 1..HUFF_LENGTH_COUNT |-> HUFF_NO_PTR]]

NewInfo ==
    [width |-> 0, height |-> 0, num_components |-> 0,
     sampling |-> <<<<2, 2>>, <<1, 1>>, <<1, 1>>>>, format |-> FORMAT_420,
     ecs_offset |-> 0, restart_interval |-> 0,
     dc_huff_tbl |-> <<0, 0, 0>>, ac_huff_tbl |-> <<0, 0, 0>>, quant_tbl |-> <<0, 0, 0>>,
     huff |-> [slot \in 0..3 |-> EmptyTable],
     quant |-> [tq \in 0..3 |-> [j \in 1..DQT_TABLE_ENTRIES |-> 0]],
     quant_table_count |-> 0]

-----------------------------------------------------------------------------

ParseInit ==
    /\ written \in Headers
    /\ \E cut \in Cuts :
            LET all == FrameBytes(written)
            IN  cut < Len(all) /\ data = SubSeq(all, 1, Len(all) - cut)
    /\ pc = "scan" /\ i = 0 /\ offset = 0 /\ end = 0 /\ info = NewInfo

Move(to) == i' = to /\ UNCHANGED <<written, data, pc, offset, end>>

Stop(result) == pc' = result /\ UNCHANGED <<written, data, i, offset, end>>

SkipByte ==
    /\ pc = "scan" /\ InData(i + 1) /\ Byte(i) # 255
    /\ Move(i + 1) /\ UNCHANGED info

\* Mutant: fill bytes are skipped in pairs.
SkipFillByTwo ==
    /\ AtMarker({"Fill"})
    /\ Move(i + 2) /\ UNCHANGED info

\* The second FF may begin the real marker.
SkipFill ==
    /\ AtMarker({"Fill"})
    /\ Move(i + 1) /\ UNCHANGED info

SkipPair ==
    /\ AtMarker({"Stuffing", "Soi", "Other"})
    /\ Move(i + 2) /\ UNCHANGED info

SkipSegment ==
    /\ AtMarker({"OtherWithLength"})
    /\ Move(IF HasLength THEN Past ELSE i + 2) /\ UNCHANGED info

FormatOf(sampling) ==
    LET y == sampling[1] cb == sampling[2]
    IN  CASE y = <<2, 2>> /\ cb = <<1, 1>> -> FORMAT_420
          [] y = <<2, 1>> -> FORMAT_422
          [] y = <<1, 2>> -> FORMAT_224
          [] OTHER -> FORMAT_444

\* The entries of three components, if they are all there.
SofComponents(inf) ==
    LET entry(c) == i + 10 + 3 * (c - 1)
        sampling == [c \in 1..3 |-> <<Byte(entry(c) + 1) \div 16, Byte(entry(c) + 1) % 16>>]
    IN  IF i + 19 <= Len(data)
          THEN [inf EXCEPT !.sampling = sampling,
                           !.quant_tbl = [c \in 1..3 |-> Byte(entry(c) + 2)],
                           !.format = FormatOf(sampling)]
          ELSE inf

Sof ==
    /\ AtMarker({"Sof"}) /\ InData(i + 10)
    /\ LET inf == [info EXCEPT !.height = be16(i + 5), !.width = be16(i + 7),
                               !.num_components = Byte(i + 9)]
       IN  info' = IF inf.num_components = 3
                     THEN SofComponents(inf)
                     ELSE [inf EXCEPT !.sampling = [c \in 1..3 |-> <<1, 1>>],
                                      !.format = FORMAT_400]
    /\ Move(Past)

SofTooShort ==
    /\ AtMarker({"Sof"}) /\ ~InData(i + 10)
    /\ Stop("err") /\ UNCHANGED info

Dri ==
    /\ AtMarker({"Dri"})
    /\ info' = IF i + 6 <= Len(data) THEN [info EXCEPT !.restart_interval = be16(i + 4)] ELSE info
    /\ Move(IF HasLength THEN Past ELSE i + 1)

\* DHT, DQT: the tables of the segment are next.
Enter(kind) ==
    /\ HasLength
    /\ pc' = kind /\ offset' = i + 4 /\ end' = Past
    /\ UNCHANGED <<written, data, i, info>>

Dht == AtMarker({"Dht"}) /\ Enter("dht")
Dqt == AtMarker({"Dqt"}) /\ Enter("dqt")

\* The length field itself is cut off.
NoLength ==
    /\ AtMarker({"Dht", "Dqt", "Sos"}) /\ ~HasLength
    /\ Move(i + 1) /\ UNCHANGED info

InTable == offset < end /\ InData(offset + 1)

\* What lies beyond the data keeps its old value.
DhtTable ==
    /\ pc = "dht" /\ InTable
    /\ LET slot == huff_slot(Byte(offset) \div 16, Byte(offset) % 16)
           old  == info.huff[slot]
           have == {j \in 1..HUFF_LENGTH_COUNT : InData(offset + j)}
           num  == MapThenSumSet(LAMBDA j : Byte(offset + j), have)
           at(j) == offset + HUFF_LENGTH_COUNT + j
           bits == [j \in 1..HUFF_LENGTH_COUNT |->
                        IF j \in have THEN Byte(offset + j) ELSE old.bits[j]]
           codes == generate(bits)
       IN  IF num > MAX_VALUES /\ InData(at(MAX_VALUES + 1))
             THEN pc' = "panic" /\ UNCHANGED <<offset, info>>
             ELSE /\ info' = [info EXCEPT !.huff[slot] =
                        [bits |-> bits, num_values |-> num,
                         values |-> [j \in 1..MAX_VALUES |->
                            IF j <= num /\ InData(at(j)) THEN Byte(at(j)) ELSE old.values[j]],
                         min |-> codes.min, max |-> codes.max, ptr |-> codes.ptr]]
                  /\ offset' = offset + 1 + HUFF_LENGTH_COUNT + num
                  /\ UNCHANGED pc
    /\ UNCHANGED <<written, data, i, end>>

DqtTable ==
    /\ pc = "dqt" /\ InTable
    /\ LET tq   == Byte(offset) % 16
           wide == Byte(offset) \div 16 # 0
           old  == info.quant[tq]
           new  == [j \in 1..DQT_TABLE_ENTRIES |->
                      IF wide
                        THEN IF InData(offset + 2 * j) THEN be16(offset + 2 * j - 1) ELSE old[j]
                        ELSE IF InData(offset + j) THEN Byte(offset + j) ELSE old[j]]
       IN  IF tq >= 4 /\ InData(offset + (IF wide THEN 2 ELSE 1))
             THEN pc' = "panic" /\ UNCHANGED <<offset, info>>
             ELSE /\ info' = [info EXCEPT !.quant = [t \in 0..3 |-> IF t = tq THEN new ELSE @[t]],
                                          !.quant_table_count = Max({@, tq + 1})]
                  /\ offset' = offset + 1 + DQT_TABLE_ENTRIES * (IF wide THEN 2 ELSE 1)
                  /\ UNCHANGED pc
    /\ UNCHANGED <<written, data, i, end>>

TablesDone ==
    /\ pc \in {"dht", "dqt"} /\ ~InTable
    /\ pc' = "scan" /\ i' = end
    /\ UNCHANGED <<written, data, offset, end, info>>

Sos ==
    /\ AtMarker({"Sos"}) /\ HasLength
    /\ LET entry(c) == i + 5 + 2 * (c - 1)
           read == IF InData(i + 5)
                     THEN {c \in 1..Min({Byte(i + 4), 3}) : InData(entry(c) + 1)} ELSE {}
           table(c) == Byte(entry(c) + 1)
       IN  info' = [info EXCEPT
                !.dc_huff_tbl = [c \in 1..3 |-> IF c \in read THEN table(c) \div 16 ELSE @[c]],
                !.ac_huff_tbl = [c \in 1..3 |-> IF c \in read THEN table(c) % 16 ELSE @[c]],
                !.ecs_offset = Past]
    /\ Stop("ok")

\* End of image, or of the data, before any scan.
NotFound ==
    /\ \/ AtMarker({"Eoi"})
       \/ pc = "scan" /\ ~InData(i + 1)
    /\ Stop("err") /\ UNCHANGED info

ParseNext ==
    \/ SkipByte \/ SkipFill \/ SkipPair \/ SkipSegment
    \/ Sof \/ SofTooShort \/ Dri \/ Dht \/ Dqt \/ NoLength
    \/ DhtTable \/ DqtTable \/ TablesDone \/ Sos \/ NotFound

ParseSpec == ParseInit /\ [][ParseNext]_parseVars

-----------------------------------------------------------------------------
(* What a header means: for each table and parameter the last one written    *)
(* counts (T.81, B.2).                                                      *)

Of(kind) == SelectSeq(written, LAMBDA s : s.kind = kind)

TablesOf(kind) == FlattenSeq([k \in DOMAIN Of(kind) |-> Of(kind)[k].tables])

Ecs == Len(FrameBytes(written)) - Len(EncodedData)

\* Canonical codes (T.81, C.2): the first code of a length follows all shorter
\* ones, its first value all theirs.
FirstCode(bits, l) == MapThenSumSet(LAMBDA j : bits[j] * 2^(l - j), 1..(l - 1))

HuffAsWritten(slot) ==
    LET tables == SelectSeq(TablesOf("dht"), LAMBDA t : 2 * t.th + t.tc = slot)
        found  == info.huff[slot]
    IN  IF tables = <<>> THEN found.num_values = 0
        ELSE LET t == Last(tables)
             IN  /\ found.bits = t.bits
                 /\ found.num_values = Len(t.values)
                 /\ \A k \in DOMAIN t.values : found.values[k] = t.values[k]
                 /\ \A l \in DOMAIN t.bits :
                        t.bits[l] # 0 =>
                            /\ found.min[l] = FirstCode(t.bits, l)
                            /\ found.max[l] = FirstCode(t.bits, l) + t.bits[l] - 1
                            /\ found.ptr[l] = SumOf(t.bits, l - 1)

QuantAsWritten(tq) ==
    LET tables == SelectSeq(TablesOf("dqt"), LAMBDA t : t.tq = tq)
    IN  tables # <<>> =>
            tq < info.quant_table_count /\ info.quant[tq] = Last(tables).values

FrameAsWritten ==
    Of("sof") # <<>> =>
        LET s == Last(Of("sof"))
        IN  /\ info.width = s.width /\ info.height = s.height
            /\ info.num_components = Len(s.comps)
            /\ Len(s.comps) = 3 =>
                   \A c \in 1..3 : /\ info.sampling[c] = <<s.comps[c].h, s.comps[c].v>>
                                   /\ info.quant_tbl[c] = s.comps[c].tq

ScanAsWritten ==
    LET s == Last(Of("sos"))
    IN  \A c \in DOMAIN s.comps : /\ info.dc_huff_tbl[c] = s.comps[c].dc
                                  /\ info.ac_huff_tbl[c] = s.comps[c].ac

-----------------------------------------------------------------------------
(* Properties *)

\* The parser finds what was written: a header that is all there is accepted, and
\* an accepted one has every table, code, size and interval of the segments it was
\* made from and the place where the scan begins, whatever the order of the
\* segments, repeated tables, fill bytes, and marker bytes inside skipped data; a
\* frame cut off before its scan header is not accepted, and wherever the end is lost, no
\* index is out of range (header.rs:254-395).
ParsedAsWritten ==
    LET complete == Of("sos") # <<>> /\ Of("eoi") = <<>> /\ Len(data) >= Ecs
    IN  /\ pc # "panic"
        /\ pc = "err" => ~complete
        /\ pc = "ok" =>
            /\ \A slot \in 0..3 : HuffAsWritten(slot)
            /\ \A tq \in 0..3 : QuantAsWritten(tq)
            /\ FrameAsWritten
            /\ Of("dri") # <<>> => info.restart_interval = Last(Of("dri")).interval
            /\ info.ecs_offset = Ecs
            /\ complete => ScanAsWritten

\* The planes the JPU is given hold the picture it will write: with MCUs of
\* 8*hmax x 8*vmax pixels, component c fills rows of the aligned width times
\* h_c/hmax, and no plane reaches into the next or beyond frame_size, the number
\* decode compares with the output buffer; the 8x8 blocks of all MCUs, as counted
\* by mcu_info, are exactly frame_size (decoder.rs:140-200, 245-248 and 425-432).
PlanesHoldPicture ==
    (pc = "ok" /\ Of("sof") # <<>>) =>
        LET comps == Components(info)
            hmax == Max({info.sampling[c][1] : c \in comps})
            vmax == Max({info.sampling[c][2] : c \in comps})
            cols(c) == (Align(info.width, 8 * hmax) * info.sampling[c][1]) \div hmax
            rows(c) == (Align(info.height, 8 * vmax) * info.sampling[c][2]) \div vmax
            plane(c) == Planes(info)[c]
            limit(c) == IF c + 1 \in comps THEN plane(c + 1).at ELSE frame_size(info)
            mcus == (aligned_width(info) * aligned_height(info)) \div (64 * hmax * vmax)
        IN  /\ \A c \in comps :
                /\ plane(c).stride >= cols(c)
                /\ plane(c).at + plane(c).stride * rows(c) <= limit(c)
            /\ 64 * mcus * mcu_block_num(info) = frame_size(info)

Kinds == {"min", "max", "ptr"}

\* Where the JPU begins to count the values of a table: the last word before them.
ValuesFrom(tc, th) == IF tc = 0 THEN th * DC_WORDS ELSE 2 * DC_WORDS + th * AC_WORDS

\* The JPU finds the values of the codes of l bits where the table's ptr for that length
\* points, counted from the beginning of the table.
LengthInPlace(tc, th, l) ==
    LET table == info.huff[huff_slot(tc, th)]
    IN  \A k \in 1..table.bits[l] :
            ValueStream(info)[ValuesFrom(tc, th) + table.ptr[l] + k] = table.values[table.ptr[l] + k]

CodesInPlace(tc, th) ==
    \A phase \in Kinds, l \in 1..HUFF_LENGTH_COUNT :
        CodeStream(info, phase)[(2 * tc + th) * HUFF_LENGTH_COUNT + l]
            = info.huff[huff_slot(tc, th)][phase][l]

\* The words upload_huff_tables writes: the codes of every length, and the values they
\* point to, those of DC codes of more than DC_LENGTHS bits excepted.
HuffInPlace ==
    \A tc \in 0..1, th \in 0..1 :
        /\ CodesInPlace(tc, th)
        /\ \A l \in 1..(IF tc = 0 THEN DC_LENGTHS ELSE HUFF_LENGTH_COUNT) : LengthInPlace(tc, th, l)

\* Tables are known to the JPU by their place alone, DC tables first.  With Huffman
\* tables of at most DC_WORDS and AC_WORDS values the codes of each length stand where
\* they are looked for, and so does each value an AC code points to, or a DC code of up
\* to DC_LENGTHS bits (EveryDcValueInPlace is about longer ones); each component is
\* decoded with the Huffman tables its scan header names and dequantised with the table
\* its frame header names (decoder.rs:227-238, 256-318 and 342-360).
TablesInPlace ==
    pc = "ok" =>
        /\ HuffInPlace
        /\ Len(data) >= Ecs =>
            \A c \in DOMAIN Last(Of("sos")).comps :
                LET s == Last(Of("sos")).comps[c]
                IN  /\ (huff_idx(info.dc_huff_tbl) \div 2^(3 - c)) % 2 = s.dc
                    /\ (huff_idx(info.ac_huff_tbl) \div 2^(3 - c)) % 2 = s.ac
        /\ Of("sof") # <<>> =>
            \A c \in DOMAIN Last(Of("sof")).comps :
                LET tq == Last(Of("sof")).comps[c].tq
                    tables == SelectSeq(TablesOf("dqt"), LAMBDA t : t.tq = tq)
                IN  tables # <<>> => QuantUploads(info)[c] = Last(tables).values

\* Baseline JPEG is decoded (jpu/mod.rs:4): each value a DC code points to stands where
\* the JPU looks for it.  Does not hold: all code lengths are uploaded, but the values of
\* the first DC_LENGTHS only, and those of longer codes, which baseline allows up to 16
\* bits, are padding to the JPU (decoder.rs:299-313).
EveryDcValueInPlace ==
    pc = "ok" =>
        \A th \in 0..1, l \in 1..HUFF_LENGTH_COUNT : LengthInPlace(0, th, l)

\* The JPU starts at the first byte of the scan, on whichever page and at whatever
\* bit of it the header happens to end (decoder.rs:362-407).
ScanStartsAtEcs == pc = "ok" => FirstByte(info.ecs_offset) = info.ecs_offset
=============================================================================
