---------------------------- MODULE MCUtilities -----------------------------
(* Three elements, words of two bits, seven module images at two addresses. *)
EXTENDS Utilities

\* BL, MOVW and MOVT to r1, a word with the addend 4, and a word of bss.
MCBinary ==
  <<(12..15), (11..15),  {6, 9} \cup (12..15), {8, 2},  {6, 7, 9} \cup (12..15), {8},
    {2}, {}>>

MCReloc(type, offset, symbol) ==
  [type |-> type, offset |-> offset, symbol_idx |-> symbol]

MCImage(relocs) ==
  [signature |-> "AIKM", version |-> 65536 + 64, binary |-> MCBinary, relocs |-> relocs,
   symbols |-> <<[value |-> 1, type |-> "STT_FUNC"],
                 [value |-> 12, type |-> "STT_SECTION"],
                 [value |-> 43690, type |-> "STT_OBJECT"]>>,
   bss |-> [offset |-> 8, size |-> 2], entry |-> 1]

MCBundle ==
  <<MCImage(<<MCReloc("R_ARM_THM_CALL", 0, 0), MCReloc("R_ARM_THM_MOVW_ABS_NC", 2, 1),
              MCReloc("R_ARM_THM_MOVT_ABS", 4, 2), MCReloc("R_ARM_ABS32", 6, 1)>>),
    MCImage(<<MCReloc("R_ARM_THM_CALL", 0, 2), MCReloc("R_ARM_THM_MOVW_ABS_NC", 2, 2),
              MCReloc("R_ARM_NONE", 4, 0), MCReloc("R_ARM_ABS32", 6, 0)>>),
    MCImage(<<MCReloc("R_ARM_ABS32", 6, 2), MCReloc("R_ARM_REL32", 0, 0)>>),
    MCImage(<<MCReloc("R_ARM_ABS32", 6, 3)>>),
    [MCImage(<< >>) EXCEPT !.signature = "AIKB"],
    [MCImage(<< >>) EXCEPT !.version = 65536 + 48],
    [MCImage(<< >>) EXCEPT !.binary = << >>]>>

\* 0x2000FFF8 and 0x20020000.
MCLoadAddress == <<{29} \cup (3..15), {29, 17}>>

\* The signature 0x41 and the body 0x00 0xFF 0x5A.
MCBody == <<{}, (0..7), {1, 3, 4, 6}>>
MCSignatureByte == {0, 6}

\* zlib.crc32(b"A\\0\\0\\0\\0\\0\\xFF\\x5A") = 0x988f5882
MCStoredCrc == {1, 7, 11, 12, 14, 16, 17, 18, 19, 23, 27, 28, 31}

CONSTANTS a, b, zero

MCSettings == {a, zero}
MCObjects  == {a, b}

=============================================================================
