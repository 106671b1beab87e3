----------------------------- MODULE JpuProgram -----------------------------
(***************************************************************************)
(* What JpuDecoder::decode writes into the JPU before it starts a picture   *)
(* (jpu/decoder.rs): the layout of the output planes, the stream window,    *)
(* the Huffman and quantisation tables and the position of the entropy      *)
(* coded data.  Pure operators on a parsed header; JpegHeader is the state  *)
(* machine that produces one.                                               *)
(*                                                                          *)
(* External, modelled from these lines: the JPU finds a Huffman value by    *)
(* its place in the stream of written words, and reads the bitstream        *)
(* through two 256-byte pages of internal memory, of which the odd pages    *)
(* use the upper half.                                                      *)
(***************************************************************************)
EXTENDS Integers, Sequences, FiniteSetsExt, SequencesExt

CONSTANTS
    HUFF_LENGTH_COUNT,  \* code lengths of a Huffman table (16)
    DC_LENGTHS,         \* ... of which a DC table's values are counted (12)
    DC_WORDS,           \* words the JPU expects for a DC table (12)
    AC_WORDS            \* ... and for an AC table (162)

ASSUME JpuProgramAssumption ==
    /\ HUFF_LENGTH_COUNT \in Nat \ {0} /\ DC_LENGTHS \in 1..HUFF_LENGTH_COUNT
    /\ DC_WORDS \in Nat \ {0} /\ AC_WORDS \in Nat \ {0}

FORMAT_420 == 0
FORMAT_422 == 1
FORMAT_224 == 2
FORMAT_444 == 3
FORMAT_400 == 4

PageBytes == 256

-----------------------------------------------------------------------------
(* frame_layout *)

Align(x, n) == ((x + n - 1) \div n) * n

aligned_width(info) ==
    Align(info.width, IF info.format \in {FORMAT_420, FORMAT_422} THEN 16 ELSE 8)

\* Mutant: the height is aligned as if every format had 8-line MCUs.
AlignedHeightBy8(info) == Align(info.height, 8)

aligned_height(info) ==
    Align(info.height, IF info.format \in {FORMAT_420, FORMAT_224} THEN 16 ELSE 8)

stride_c(info) ==
    CASE info.format \in {FORMAT_420, FORMAT_422} -> aligned_width(info) \div 2
      [] info.format = FORMAT_400 -> 0
      [] OTHER -> aligned_width(info)

luma_size(info) == aligned_width(info) * aligned_height(info)

chroma_size(info) ==
    CASE info.format = FORMAT_420 -> (stride_c(info) * aligned_height(info)) \div 2
      [] info.format \in {FORMAT_422, FORMAT_224} -> luma_size(info) \div 2
      [] info.format = FORMAT_444 -> luma_size(info)
      [] OTHER -> 0

Components(info) == 1..Min({info.num_components, 3})

mcu_block_num(info) ==
    MapThenSumSet(LAMBDA c : info.sampling[c][1] * info.sampling[c][2], Components(info))

frame_size(info) == luma_size(info) + 2 * chroma_size(info)

\* The planes start_decode points dpb_base_y, _cb and _cr at, counted from the
\* output buffer, with the strides it sets.
Planes(info) ==
    <<[at |-> 0, stride |-> aligned_width(info)],
      [at |-> luma_size(info), stride |-> stride_c(info)],
      [at |-> luma_size(info) + chroma_size(info), stride |-> stride_c(info)]>>

-----------------------------------------------------------------------------
(* upload_huff_tables: what follows one write of HUFF_CTRL is a row of words *)
(* whose place alone says what they mean.                                   *)

UploadOrder == <<0, 2, 1, 3>>

\* The code phases, "min", "max" and "ptr": a word for every code length of every
\* table.  The sign extension into the upper bits of a word is left out.
CodeStream(info, phase) ==
    FlattenSeq([k \in 1..4 |-> info.huff[UploadOrder[k]][phase]])

IsDc(slot) == slot \in {0, 2}

Pad == -1

SumOf(bits, n) == MapThenSumSet(LAMBDA j : bits[j], 1..n)

\* The count is that of the first lengths only, the padding completes the table.
ValueWords(info, slot) ==
    LET table == info.huff[slot]
        count == SumOf(table.bits, IF IsDc(slot) THEN DC_LENGTHS ELSE HUFF_LENGTH_COUNT)
        words == IF IsDc(slot) THEN DC_WORDS ELSE AC_WORDS
    IN  [j \in 1..Min({count, table.num_values}) |-> table.values[j]]
            \o [j \in 1..(IF count < words THEN words - count ELSE 0) |-> Pad]

\* Mutant: tables in the order of their slots.
ValueStreamBySlot(info) ==
    FlattenSeq([k \in 1..4 |-> ValueWords(info, k - 1)])

ValueStream(info) ==
    FlattenSeq([k \in 1..4 |-> ValueWords(info, UploadOrder[k])])

\* configure_stream_regs: HUFF_DC_IDX and HUFF_AC_IDX, one bit for each component
\* (the table numbers of a baseline scan are 0 and 1).
huff_idx(tbl) == tbl[1] * 4 + tbl[2] * 2 + tbl[3]

\* upload_quant_tables: a component whose table was never defined keeps what the
\* JPU had for the last picture (an empty sequence here).
QuantUploads(info) ==
    [c \in 1..3 |->
        IF c \in Components(info) /\ info.quant_tbl[c] < 4
             /\ info.quant_tbl[c] < info.quant_table_count
          THEN info.quant[info.quant_tbl[c]] ELSE <<>>]

-----------------------------------------------------------------------------
(* gram_setup: the two pages around the start of the entropy coded data, and *)
(* where in them the JPU begins.                                            *)

page_ptr(ecs) == ecs \div PageBytes

\* Mutant: the upper half of the internal memory is forgotten.
WordPtrLowerHalf(ecs) == ((ecs % PageBytes) \div 16) * 4

word_ptr(ecs) ==
    ((ecs % PageBytes) \div 16) * 4 + (IF page_ptr(ecs) % 2 = 1 THEN 64 ELSE 0)

bit_ptr(ecs) == (ecs % 16) * 8

\* Which page each half of the internal memory holds afterwards.
Loaded(ecs) ==
    [half \in 0..1 |->
        CHOOSE p \in {page_ptr(ecs), page_ptr(ecs) + 1} : p % 2 = half]

\* The stream byte the JPU reads first.
FirstByte(ecs) ==
    LET at == word_ptr(ecs) * 4 + bit_ptr(ecs) \div 8
    IN  Loaded(ecs)[at \div PageBytes] * PageBytes + (at % PageBytes)
=============================================================================
