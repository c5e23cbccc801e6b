----------------------------- MODULE ImageCheck -----------------------------
(***************************************************************************)
(* module::check_crc32 with utils::crc32 over the bytes of an image.  The  *)
(* build script has stored zlib.crc32 of the image with the field zero;    *)
(* the image may have been damaged on the way to the flash.                *)
(***************************************************************************)
EXTENDS Words, Sequences

CONSTANTS
  Body,       \* the bytes after the CRC field
  SignatureByte, \* the byte that stands for the signature
  StoredCrc      \* what zlib.crc32 returned for the image

ByteBits == 0..7

ASSUME ImageAssumption == SignatureByte \subseteq ByteBits /\ Body \in Seq(SUBSET ByteBits)

VARIABLES
  image,      \* signature, crc, body
  damaged,    \* something was changed since the image was built
  checked     \* the last answer of check_crc32, or "not yet"

checkVars == <<image, damaged, checked>>

\* 0xEDB88320
Polynomial == {31, 30, 29, 27, 26, 24, 23, 21, 20, 19, 15, 9, 8, 5}

\* Seeded fault: the polynomial is xor-ed in before the shift.
ShiftedAfter(crc) == Shr(IF 0 \in crc THEN Xor(crc, Polynomial) ELSE crc, 1)

Shifted(crc) == Xor(Shr(crc, 1), IF 0 \in crc THEN Polynomial ELSE {})

\* The register after the eight turns of the inner loop.
Turned[crc \in SUBSET WordBits] ==
  LET turn[n \in 0..8] == IF n = 0 THEN crc ELSE Shifted(turn[n - 1])
  IN  turn[8]

Crc32(bytes) ==
  LET register[i \in 0..Len(bytes)] ==
        IF i = 0 THEN WordBits ELSE Turned[Xor(register[i - 1], bytes[i])]
  IN  Complement(register[Len(bytes)])

\* The image as bytes, with the CRC field zero.
ZeroedBytes(img) == <<img.signature, {}, {}, {}, {}>> \o img.body

Built == [signature |-> SignatureByte, body |-> Body, crc |-> StoredCrc]

\* The build has stored what the kernel calculates.
CrcIsStored == StoredCrc = Crc32(ZeroedBytes(Built))

CheckInit ==
  /\ image = Built
  /\ damaged = FALSE
  /\ checked = "not yet"

\* Some bits of one byte, or one or two of the stored CRC, are flipped.
Damage ==
  /\ ~damaged
  /\ damaged' = TRUE
  /\ \/ \E i \in DOMAIN Body, bits \in (SUBSET ByteBits) \ {{}} :
          image' = [image EXCEPT !.body[i] = Xor(@, bits)]
     \/ \E i, j \in WordBits :
          image' = [image EXCEPT !.crc = Xor(@, {i, j})]
     \/ \E bits \in (SUBSET ByteBits) \ {{}} :
          image' = [image EXCEPT !.signature = Xor(@, bits)]
  /\ checked' = "not yet"

\* The field is zeroed for the calculation and restored before the return.
CheckCrc32 ==
  /\ checked' = IF image.signature = SignatureByte /\ Crc32(ZeroedBytes(image)) = image.crc
                THEN "good" ELSE "bad"
  /\ UNCHANGED <<image, damaged>>

CheckNext == Damage \/ CheckCrc32

\* Damage to a byte or to the checksum never passes, an image as it was built
\* always does.
DamageIsNoticed ==
  /\ checked = "good" => ~damaged
  /\ checked = "bad" => damaged

=============================================================================
