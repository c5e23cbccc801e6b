---------------------------- MODULE ModuleLoader ----------------------------
(***************************************************************************)
(* modules::bundle and modules::module: a module is fetched from a bundle, *)
(* copied to memory and linked to the address it has there.  Memory is     *)
(* halfwords; offsets and sizes are in halfwords, addresses in bytes.      *)
(***************************************************************************)
EXTENDS Words, Sequences

CONSTANTS
  Bundle,       \* the images: signature, version, binary, relocs, symbols, bss, entry
  LoadAddress,  \* the place of a copy -> its address, a word
  RoomSize      \* the halfwords that are looked at, from each address on

Signature  == "AIKM"
HeaderSize == 64

Halfwords   == SUBSET (0..15)
Relocations == [type : STRING, offset : Nat, symbol_idx : Nat]
Symbols     == [value : Nat, type : STRING]

Images == [signature : STRING, version : Nat, binary : Seq(Halfwords),
           relocs : Seq(Relocations), symbols : Seq(Symbols),
           bss : [offset : Nat, size : Nat], entry : Nat]

Places == DOMAIN LoadAddress
Room   == 0..(RoomSize - 1)

\* What memory holds before anything is loaded.
Stale == {0, 4, 8}

VARIABLES
  picked,     \* the index get_module was asked for, or none
  memory,     \* the halfwords at every place
  loaded,     \* for every place the image that has been loaded there
  refused,    \* load has returned false
  stopped    \* apply_reallocs has called PANIC

loaderVars == <<picked, memory, loaded, refused, stopped>>

NotPicked == -1
NoImage == -1

LoaderInit ==
  /\ picked = NotPicked
  /\ memory = [p \in Places |-> [k \in Room |-> Stale]]
  /\ loaded = [p \in Places |-> NoImage]
  /\ refused = FALSE
  /\ stopped = FALSE

\* An index that is not in the bundle gives no module.
GetModule(id) ==
  /\ picked' = IF id >= Len(Bundle) THEN NotPicked ELSE id
  /\ UNCHANGED <<memory, loaded, refused, stopped>>

Image == Bundle[picked + 1]

Loadable(image) ==
  /\ image.signature = Signature
  /\ image.version % 65536 = HeaderSize
  /\ image.binary # << >>

\* Two halfwords of the room as one word, the low one first.
WordAt(room, k) == room[k] \cup {i + 16 : i \in room[k + 1]}

WithWord(room, k, w) ==
  [room EXCEPT ![k] = Field(w, 0, 16), ![k + 1] = Field(w, 16, 16)]

\* apply_thm_call_reloc.  J1 and J2 are or-ed into bits that 0xF800 has set.
ThumbCall(room, k, pc, target) ==
  LET rel == Minus(target, pc) \ {0}
      S   == Field(rel, 24, 1)
      I1  == {0} \ Xor(Field(rel, 23, 1), S)
      I2  == {0} \ Xor(Field(rel, 22, 1), S)
  IN  [room EXCEPT
         ![k] = (12..15) \cup Shl(S, 10) \cup Field(rel, 12, 10),
         ![k + 1] = (11..15) \cup Shl(I1, 13) \cup Shl(I2, 11) \cup Field(rel, 1, 11)]

\* Seeded fault: the bits of the immediate are not cleared first.
ThumbMoveKeeping(room, k, val) ==
  [room EXCEPT
     ![k] = @ \cup Field(val, 12, 4) \cup Shl(Field(val, 11, 1), 10),
     ![k + 1] = @ \cup Shl(Field(val, 8, 3), 12) \cup Field(val, 0, 8)]

\* apply_thumb_mov_relocation: & ~0x040F and & ~0x70FF, then the immediate.
ThumbMove(room, k, val) ==
  [room EXCEPT
     ![k] = (@ \ ((0..3) \cup {10})) \cup Field(val, 12, 4) \cup Shl(Field(val, 11, 1), 10),
     ![k + 1] = (@ \ ((0..7) \cup (12..14)))
                  \cup Shl(Field(val, 8, 3), 12) \cup Field(val, 0, 8)]

SymbolValue(symbol, base) == Plus(base, OfNumber(symbol.value))

\* What the build of a module makes sure of: it is copied to an even address, a
\* relocation is about code or data, no two are about the same, and the offset
\* of a call is that of apply_thm_call_reloc, which has J1 and J2 always set.
Touched(reloc) ==
  IF reloc.type = "R_ARM_NONE" THEN {} ELSE {reloc.offset, reloc.offset + 1}

InReach(offset) == (22..31) \subseteq offset \/ (22..31) \cap offset = {}

Linkable(image) ==
  /\ Len(image.binary) <= RoomSize
  /\ \A i, j \in DOMAIN image.relocs :
       i # j => Touched(image.relocs[i]) \cap Touched(image.relocs[j]) = {}
  /\ \A i \in DOMAIN image.relocs :
       LET reloc  == image.relocs[i]
           symbol == image.symbols[reloc.symbol_idx + 1]
       IN  /\ Touched(reloc) \subseteq 0..(Len(image.binary) - 1)
           /\ \A k \in Touched(reloc) :
                k < image.bss.offset \/ k >= image.bss.offset + image.bss.size
           /\ reloc.type = "R_ARM_THM_CALL" /\ reloc.symbol_idx < Len(image.symbols) =>
                \A p \in Places :
                  InReach(Minus(SymbolValue(symbol, LoadAddress[p]),
                                Plus(LoadAddress[p], OfNumber(2 * reloc.offset + 4))))

ASSUME LoaderAssumption ==
  /\ Bundle \in Seq(Images)
  /\ RoomSize \in Nat
  /\ LoadAddress \in [Places -> SUBSET WordBits]
  /\ \A p \in Places : 0 \notin LoadAddress[p]
  /\ \A n \in DOMAIN Bundle : Linkable(Bundle[n])

\* One turn of apply_reallocs, for a relocation it can apply.
Relocated(room, base, reloc, symbol) ==
  LET value == SymbolValue(symbol, base)
      k     == reloc.offset
  IN  CASE reloc.type = "R_ARM_ABS32" ->
             WithWord(room, k, IF symbol.type = "STT_SECTION"
                               THEN Plus(WordAt(room, k), value) ELSE value)
        [] reloc.type = "R_ARM_THM_CALL" ->
             ThumbCall(room, k, Plus(base, OfNumber(2 * k + 4)), value)
        [] reloc.type = "R_ARM_THM_MOVW_ABS_NC" -> ThumbMove(room, k, value)
        [] reloc.type = "R_ARM_THM_MOVT_ABS"    -> ThumbMove(room, k, Shr(value, 16))
        [] reloc.type = "R_ARM_NONE"            -> room

Types == {"R_ARM_NONE", "R_ARM_ABS32", "R_ARM_THM_CALL",
          "R_ARM_THM_MOVW_ABS_NC", "R_ARM_THM_MOVT_ABS"}

\* get_symbol returns a null pointer, or the type is none of those above.
Unsupported(image, reloc) ==
  reloc.symbol_idx >= Len(image.symbols) \/ reloc.type \notin Types

\* The binary is copied and bss cleared, wherever bss lies.
Copied(image, room) ==
  [k \in Room |->
     IF k \in image.bss.offset..(image.bss.offset + image.bss.size - 1) THEN {}
     ELSE IF k < Len(image.binary) THEN image.binary[k + 1]
     ELSE room[k]]

\* The relocations before the first that cannot be applied.
Applied(image) ==
  LET bad == {i \in DOMAIN image.relocs : Unsupported(image, image.relocs[i])}
  IN  {i \in DOMAIN image.relocs : \A j \in bad : i < j}

\* apply_reallocs with the relocations of image one after the other.
Patched(image, base, copy) ==
  LET room[i \in 0..Cardinality(Applied(image))] ==
        IF i = 0 THEN copy
        ELSE Relocated(room[i - 1], base, image.relocs[i],
                       image.symbols[image.relocs[i].symbol_idx + 1])
  IN  room[Cardinality(Applied(image))]

\* The caller has obtained the memory at place for this copy.
Load(place) ==
  /\ picked # NotPicked
  /\ loaded[place] = NoImage
  /\ IF Loadable(Image)
     THEN /\ memory' = [memory EXCEPT ![place] =
                         Patched(Image, LoadAddress[place], Copied(Image, @))]
          /\ stopped' = (Cardinality(Applied(Image)) < Len(Image.relocs))
          /\ loaded' = IF stopped' THEN loaded ELSE [loaded EXCEPT ![place] = picked]
          /\ UNCHANGED refused
     ELSE /\ refused' = TRUE
          /\ UNCHANGED <<memory, loaded, stopped>>
  /\ UNCHANGED picked

LoaderNext ==
  /\ ~stopped
  /\ \/ \E id \in 0..Len(Bundle) : GetModule(id)
     \/ \E place \in Places : Load(place)

\* get_entry_point: the address in memory with the Thumb bit set, or nullptr
\* if the image is not a module.
EntryPoint(image, base) ==
  IF image.signature # Signature THEN {}
  ELSE Plus(base, OfNumber(image.entry) \ {0}) \cup {0}

\* What the processor makes of a BL at k, MOVW or MOVT at k.
Sign(w, top) == IF top \in w THEN w \cup (top..31) ELSE w

BranchTarget(room, k, base) ==
  LET S  == Field(room[k], 10, 1)
      I1 == {0} \ Xor(Field(room[k + 1], 13, 1), S)
      I2 == {0} \ Xor(Field(room[k + 1], 11, 1), S)
      offset == Shl(S, 24) \cup Shl(I1, 23) \cup Shl(I2, 22)
                  \cup Shl(Field(room[k], 0, 10), 12) \cup Shl(Field(room[k + 1], 0, 11), 1)
  IN  Plus(Plus(base, OfNumber(2 * k + 4)), Sign(offset, 24))

Immediate(room, k) ==
  Shl(Field(room[k], 0, 4), 12) \cup Shl(Field(room[k], 10, 1), 11)
    \cup Shl(Field(room[k + 1], 12, 3), 8) \cup Field(room[k + 1], 0, 8)

SameRegister(room, image, k) ==
  /\ room[k] \ ((0..3) \cup {10}) = image.binary[k + 1] \ ((0..3) \cup {10})
  /\ Field(room[k + 1], 8, 4) = Field(image.binary[k + 2], 8, 4)

\* The copy of image in room, which has the address base.
LinkedAt(room, image, base, reloc) ==
  LET symbol == image.symbols[reloc.symbol_idx + 1]
      target == SymbolValue(symbol, base)
      addend == image.binary[reloc.offset + 1]
                  \cup {i + 16 : i \in image.binary[reloc.offset + 2]}
  IN  CASE reloc.type = "R_ARM_ABS32" ->
             WordAt(room, reloc.offset) =
               IF symbol.type = "STT_SECTION" THEN Plus(addend, target) ELSE target
        [] reloc.type = "R_ARM_THM_CALL" ->
             BranchTarget(room, reloc.offset, base) = target \ {0}
        [] reloc.type = "R_ARM_THM_MOVW_ABS_NC" ->
             /\ Immediate(room, reloc.offset) = Field(target, 0, 16)
             /\ SameRegister(room, image, reloc.offset)
        [] reloc.type = "R_ARM_THM_MOVT_ABS" ->
             /\ Immediate(room, reloc.offset) = Field(target, 16, 16)
             /\ SameRegister(room, image, reloc.offset)
        [] OTHER -> TRUE

\* A loaded copy refers to its own address wherever it is: the processor
\* decodes every patched call to the address of its symbol and every patched
\* move to its half of it, in the register it had; words hold the symbols'
\* addresses; nothing else of the copy, and nothing behind it, has changed; and
\* the copy has an entry point, in Thumb code.
LoadedIsLinked ==
  \A place \in Places : loaded[place] # NoImage =>
    LET image == Bundle[loaded[place] + 1]
        patched == UNION {{r.offset, r.offset + 1} : r \in {image.relocs[i] :
                            i \in DOMAIN image.relocs}}
    IN  /\ \A i \in DOMAIN image.relocs :
            LinkedAt(memory[place], image, LoadAddress[place], image.relocs[i])
        /\ \A k \in Room \ patched :
             memory[place][k] = Copied(image, [j \in Room |-> Stale])[k]
        /\ 0 \in EntryPoint(image, LoadAddress[place])

=============================================================================
