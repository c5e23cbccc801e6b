-------------------------------- MODULE Words -------------------------------
(***************************************************************************)
(* Unsigned 32-bit words as the sets of the positions of their ones, so    *)
(* that ^ is the symmetric difference, | the union and & the intersection. *)
(***************************************************************************)
EXTENDS Integers, FiniteSets

WordBits == 0..31
ZeroWord == {}

Xor(a, b) == (a \ b) \cup (b \ a)
Complement(a) == WordBits \ a

Shl(a, n) == {i + n : i \in a} \cap WordBits
Shr(a, n) == {i - n : i \in a} \cap WordBits

\* (a >> lo) & ((1 << n) - 1)
Field(a, lo, n) == {i - lo : i \in a \cap (lo..(lo + n - 1))}

\* A carry into position i has arisen below it and come through.
Carry(a, b, i) ==
  \E j \in (a \cap b) \cap (0..(i - 1)) : (j + 1)..(i - 1) \subseteq a \cup b

\* Addition modulo 2^32.
Plus(a, b) == {i \in WordBits : Carry(a, b, i) # (i \in Xor(a, b))}

Minus(a, b) == Plus(Plus(a, Complement(b)), {0})

\* The word of a small number.
OfNumber(n) == {i \in 0..30 : (n \div 2 ^ i) % 2 = 1}

=============================================================================
