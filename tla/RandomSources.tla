---------------------------- MODULE RandomSources ---------------------------
(***************************************************************************)
(* The pseudo-random sources of rnd/: xorshift32 (which the lotteries draw *)
(* from), the shift register lfsr and xorshift128.                         *)
(***************************************************************************)
EXTENDS Words

CONSTANT DrawsMax     \* the draws between two seedings

VARIABLES
  source,    \* which of them
  state,     \* state_: a word, or the four words of xorshift128
  before,    \* the state before the last draw
  draws      \* the draws since the last seeding

randomVars == <<source, state, before, draws>>

\* 0xABCDEFFF
DefaultSeed == WordBits \ {12, 17, 20, 21, 26, 28, 30}

Seeded(src, seed) ==
  LET word == IF seed = ZeroWord THEN DefaultSeed ELSE seed
  IN  IF src = "xorshift128" THEN [i \in 0..3 |-> word] ELSE word

\* Seeded fault: one of the three shifts is stored instead of xor-ed.
Xorshift32Overwriting(x0) ==
  LET x1 == Xor(x0, Shl(x0, 13))
      x2 == Shr(x1, 17)
  IN  Xor(x2, Shl(x2, 5))

Xorshift32(x0) ==
  LET x1 == Xor(x0, Shl(x0, 13))
      x2 == Xor(x1, Shr(x1, 17))
  IN  Xor(x2, Shl(x2, 5))

Parity(bits) == IF Cardinality(bits) % 2 = 1 THEN {31} ELSE {}

Lfsr(x) == Shr(x, 1) \cup Parity(x \cap {0, 2, 3, 5})

Xorshift128(s) ==
  LET t1 == Xor(s[3], Shl(s[3], 11))
      t2 == Xor(t1, Shr(t1, 8))
      new == Xor(t2, Xor(s[0], Shr(s[0], 19)))
  IN  [i \in 0..3 |-> IF i = 0 THEN new ELSE s[i - 1]]

Drawn(src, s) ==
  CASE src = "xorshift32"  -> Xorshift32(s)
    [] src = "lfsr"        -> Lfsr(s)
    [] src = "xorshift128" -> Xorshift128(s)

\* Every word with a single one, and zero.
Seeds == {{i} : i \in WordBits} \cup {ZeroWord}

RandomInit ==
  /\ source \in {"xorshift32", "lfsr", "xorshift128"}
  /\ state = Seeded(source, ZeroWord)
  /\ before = state
  /\ draws = 0

NextNumber ==
  /\ draws < DrawsMax
  /\ state' = Drawn(source, state)
  /\ before' = state
  /\ draws' = draws + 1
  /\ UNCHANGED source

ResetState(seed) ==
  /\ state' = Seeded(source, seed)
  /\ before' = state'
  /\ draws' = 0
  /\ UNCHANGED source

RandomNext == NextNumber \/ \E seed \in Seeds : ResetState(seed)

Odd(bits) == Cardinality(bits) % 2 = 1

\* The x with Xor(x, Shl(x, n)) = y, and the one with Xor(x, Shr(x, n)) = y.
UnShl(y, n) == {i \in WordBits : Odd({j \in y : j <= i /\ (i - j) % n = 0})}
UnShr(y, n) == {i \in WordBits : Odd({j \in y : j >= i /\ (j - i) % n = 0})}

\* The state a draw came from.
Undrawn(src, s) ==
  CASE src = "xorshift32" -> UnShl(UnShr(UnShl(s, 5), 17), 13)
    [] src = "lfsr" ->
         LET high == Shl(s, 1)
         IN  high \cup (IF Odd(high \cap {2, 3, 5}) = (31 \in s) THEN {} ELSE {0})
    [] src = "xorshift128" ->
         LET t == Xor(s[0], Xor(s[1], Shr(s[1], 19)))
         IN  [i \in 0..3 |-> IF i = 3 THEN UnShl(UnShr(t, 8), 11) ELSE s[i + 1]]

\* A source never comes to the state zero, in which it would stay for ever and
\* the lotteries with it, for every draw can be undone.  Drawing and undoing
\* are linear and the seeds are a basis of all seeds, so what holds for the
\* draws from these seeds holds for those from any other.
SourcesReversible ==
  /\ draws > 0 => Undrawn(source, state) = before
  /\ IF source = "xorshift128" THEN \E i \in 0..3 : state[i] # ZeroWord
     ELSE state # ZeroWord

=============================================================================
