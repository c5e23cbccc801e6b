--------------------------- MODULE UtilitiesProofs ---------------------------
(***************************************************************************)
(* The library beneath the kernel, for every capacity, word size and set   *)
(* of values: the random sources can be undone, the vector and the deque   *)
(* implement the bounded sequence, what is stored in bits, settings,       *)
(* statistics and the object pool is found again, a loaded module is       *)
(* linked to its place, and the checksum notices damage.                   *)
(***************************************************************************)
EXTENDS Utilities, CircularDequeProofs, FiniteSetTheorems, SequenceTheorems,
        WellFoundedInduction

-----------------------------------------------------------------------------
(* The random sources                                                      *)

\* Induction: a property of numbers that fails fails first somewhere.
LEMMA LeastNumber ==
  ASSUME NEW T, T \subseteq Nat, T # {}
  PROVE  \E x \in T : \A y \in T : x <= y
<1> DEFINE R == OpToRel(<, Nat)
<1>1. IsWellFoundedOn(R, Nat)
  BY NatLessThanWellFounded
<1> HIDE DEF R
<1>2. PICK x \in T : \A y \in T : ~(<<y, x>> \in R)
  BY <1>1, WFMin
<1>3. ASSUME NEW y \in T PROVE x <= y
  <2>1. ~(<<y, x>> \in R)
    BY <1>2
  <2>2. ~(y < x)
    BY <2>1 DEF R, OpToRel
  <2>3. QED
    BY <2>2
<1>4. QED
  BY <1>3

AWord == SUBSET WordBits

LEMMA WordsAreFinite == ASSUME NEW x \in AWord PROVE IsFiniteSet(x)
<1>1. IsFiniteSet(WordBits)
  <2>1. 0 \in Int /\ 31 \in Int
    OBVIOUS
  <2>2. QED
    BY <2>1, FS_Interval DEF WordBits
<1>2. QED
  BY <1>1, FS_Subset DEF AWord

LEMMA OddEmpty == ~Odd({})
BY FS_EmptySet DEF Odd

LEMMA OddAdds ==
  ASSUME NEW S, IsFiniteSet(S), NEW x, x \notin S
  PROVE  Odd(S \cup {x}) <=> ~Odd(S)
<1>1. Cardinality(S \cup {x}) = Cardinality(S) + 1 /\ Cardinality(S) \in Nat
  BY FS_AddElement, FS_CardinalityType
<1>2. QED
  BY <1>1 DEF Odd

\* The distances by which the sources shift before they xor.
Shifts == {5, 8, 11, 13, 17}

LEMMA StepBack ==
  ASSUME NEW n \in Shifts, NEW d \in Nat
  PROVE  /\ d < n => (d % n = 0 <=> d = 0)
         /\ d >= n => (d % n = 0 <=> (d - n) % n = 0)
<1>1. CASE n = 5
  BY <1>1
<1>2. CASE n = 8
  BY <1>2
<1>3. CASE n = 11
  BY <1>3
<1>4. CASE n = 13
  BY <1>4
<1>5. CASE n = 17
  BY <1>5
<1>6. QED
  BY <1>1, <1>2, <1>3, <1>4, <1>5 DEF Shifts

LEMMA WordsClosed ==
  ASSUME NEW x \in AWord, NEW y \in AWord, NEW n \in Nat
  PROVE  Xor(x, y) \in AWord /\ Shl(x, n) \in AWord /\ Shr(x, n) \in AWord
BY DEF AWord, Xor, Shl, Shr

\* x ^= x << n can be undone.
LEMMA ShlUndone ==
  ASSUME NEW x \in AWord, NEW n \in Shifts
  PROVE  UnShl(Xor(x, Shl(x, n)), n) = x
<1>1. PICK y : y = Xor(x, Shl(x, n))
  OBVIOUS
<1>2. n \in Nat /\ n > 0
  BY DEF Shifts
<1>3. y \in AWord
  BY <1>1, <1>2, WordsClosed
<1>4. ASSUME NEW i \in WordBits
      PROVE  i \in y <=> ~(i \in x <=> i - n \in x)
  BY <1>1, <1>2 DEF Xor, Shl, AWord, WordBits
<1> DEFINE Below(i) == {j \in y : j <= i /\ (i - j) % n = 0}
<1>5. ASSUME NEW i \in WordBits PROVE IsFiniteSet(Below(i)) /\ Below(i) \in AWord
  <2>1. Below(i) \in AWord
    BY <1>3 DEF AWord
  <2>2. QED
    BY <2>1, WordsAreFinite
<1>6. ASSUME NEW i \in WordBits, i < n
      PROVE  Odd(Below(i)) <=> i \in x
  <2>1. i - n \notin x
    BY <1>2, <1>6 DEF AWord, WordBits
  <2>2. ASSUME NEW j \in y PROVE j <= i /\ (i - j) % n = 0 <=> j = i
    <3>1. j \in Nat
      BY <1>3 DEF AWord, WordBits
    <3>2. CASE j <= i
      <4>1. i - j \in Nat /\ i - j < n
        BY <1>2, <1>6, <3>1, <3>2 DEF WordBits
      <4>2. (i - j) % n = 0 <=> i - j = 0
        BY <4>1, StepBack
      <4>3. QED
        BY <3>1, <3>2, <4>2 DEF WordBits
    <3>3. QED
      BY <3>1, <3>2 DEF WordBits
  <2>3. Below(i) = IF i \in y THEN {} \cup {i} ELSE {}
    BY <2>2
  <2>4. Odd(Below(i)) <=> i \in y
    <3>1. Odd({} \cup {i}) <=> ~Odd({})
      BY OddAdds, FS_EmptySet
    <3>2. QED
      BY <2>3, <3>1, OddEmpty
  <2>5. QED
    BY <1>4, <2>1, <2>4
<1>7. ASSUME NEW i \in WordBits, i >= n, Odd(Below(i - n)) <=> i - n \in x
      PROVE  Odd(Below(i)) <=> i \in x
  <2>1. i - n \in WordBits
    BY <1>2, <1>7 DEF WordBits
  <2>2. ASSUME NEW j \in y
        PROVE  j <= i /\ (i - j) % n = 0 <=> j = i \/ (j <= i - n /\ (i - n - j) % n = 0)
    <3>1. j \in Nat /\ i \in Nat
      BY <1>3 DEF AWord, WordBits
    <3>2. CASE i < j
      BY <1>2, <3>1, <3>2
    <3>3. CASE j <= i /\ i - j < n
      <4>1. i - j \in Nat /\ ~(j <= i - n)
        BY <1>2, <3>1, <3>3
      <4>2. (i - j) % n = 0 <=> i - j = 0
        BY <3>3, <4>1, StepBack
      <4>3. QED
        BY <3>1, <3>3, <4>1, <4>2
    <3>4. CASE j <= i /\ i - j >= n
      <4>1. i - j \in Nat /\ j <= i - n /\ i - j - n = i - n - j
        BY <1>2, <3>1, <3>4
      <4>2. (i - j) % n = 0 <=> (i - j - n) % n = 0
        BY <3>4, <4>1, StepBack
      <4>3. j # i
        BY <1>2, <3>1, <3>4
      <4>4. QED
        BY <3>4, <4>1, <4>2, <4>3
    <3>5. QED
      BY <1>2, <3>1, <3>2, <3>3, <3>4
  <2>3. Below(i) = IF i \in y THEN Below(i - n) \cup {i} ELSE Below(i - n)
    BY <2>2
  <2>4. i \notin Below(i - n)
    BY <1>2 DEF WordBits
  <2>5. Odd(Below(i)) <=> ~(Odd(Below(i - n)) <=> i \in y)
    <3>1. IsFiniteSet(Below(i - n))
      BY <1>5, <2>1
    <3>2. PICK B : B = Below(i - n)
      OBVIOUS
    <3>3. Odd(B \cup {i}) <=> ~Odd(B)
      BY <2>4, <3>1, <3>2, OddAdds
    <3>4. CASE i \in y
      BY <2>3, <3>2, <3>3, <3>4
    <3>5. CASE i \notin y
      BY <2>3, <3>2, <3>5
    <3>6. QED
      BY <3>4, <3>5
  <2>6. QED
    BY <1>4, <1>7, <2>5
<1> HIDE DEF Below
<1>8. ASSUME NEW i \in WordBits PROVE Odd(Below(i)) <=> i \in x
  <2> DEFINE T == {k \in WordBits : ~(Odd(Below(k)) <=> k \in x)}
  <2>1. SUFFICES ASSUME T # {} PROVE FALSE
    OBVIOUS
  <2>2. PICK k \in T : \A m \in T : k <= m
    <3>1. T \subseteq Nat
      BY DEF WordBits
    <3> HIDE DEF T
    <3>2. QED
      BY <2>1, <3>1, LeastNumber
  <2>3. k \in WordBits /\ k >= n
    BY <1>2, <1>6 DEF WordBits
  <2>4. k - n \in WordBits /\ k - n \notin T
    BY <1>2, <2>2, <2>3 DEF WordBits
  <2>5. QED
    BY <1>7, <2>2, <2>3, <2>4
<1>9. UnShl(y, n) = {i \in WordBits : Odd(Below(i))}
  BY DEF UnShl, Below
<1>10. QED
  BY <1>1, <1>8, <1>9 DEF AWord

\* x ^= x >> n can be undone.
LEMMA ShrUndone ==
  ASSUME NEW x \in AWord, NEW n \in Shifts
  PROVE  UnShr(Xor(x, Shr(x, n)), n) = x
<1>1. PICK y : y = Xor(x, Shr(x, n))
  OBVIOUS
<1>2. n \in Nat /\ n > 0
  BY DEF Shifts
<1>3. y \in AWord
  BY <1>1, <1>2, WordsClosed
<1>4. ASSUME NEW i \in WordBits
      PROVE  i \in y <=> ~(i \in x <=> i + n \in x)
  BY <1>1, <1>2 DEF Xor, Shr, AWord, WordBits
<1> DEFINE Above(i) == {j \in y : j >= i /\ (j - i) % n = 0}
<1>5. ASSUME NEW i \in WordBits PROVE IsFiniteSet(Above(i)) /\ Above(i) \in AWord
  <2>1. Above(i) \in AWord
    BY <1>3 DEF AWord
  <2>2. QED
    BY <2>1, WordsAreFinite
<1>6. ASSUME NEW i \in WordBits, i + n > 31
      PROVE  Odd(Above(i)) <=> i \in x
  <2>1. i + n \notin x
    BY <1>2, <1>6 DEF AWord, WordBits
  <2>2. ASSUME NEW j \in y PROVE j >= i /\ (j - i) % n = 0 <=> j = i
    <3>1. j \in Nat /\ j <= 31
      BY <1>3 DEF AWord, WordBits
    <3>2. CASE j >= i
      <4>1. j - i \in Nat /\ j - i < n
        BY <1>2, <1>6, <3>1, <3>2 DEF WordBits
      <4>2. (j - i) % n = 0 <=> j - i = 0
        BY <4>1, StepBack
      <4>3. QED
        BY <3>1, <3>2, <4>2 DEF WordBits
    <3>3. QED
      BY <3>1, <3>2 DEF WordBits
  <2>3. Above(i) = IF i \in y THEN {} \cup {i} ELSE {}
    BY <2>2
  <2>4. Odd(Above(i)) <=> i \in y
    <3>1. Odd({} \cup {i}) <=> ~Odd({})
      BY OddAdds, FS_EmptySet
    <3>2. QED
      BY <2>3, <3>1, OddEmpty
  <2>5. QED
    BY <1>4, <2>1, <2>4
<1>7. ASSUME NEW i \in WordBits, i + n <= 31, Odd(Above(i + n)) <=> i + n \in x
      PROVE  Odd(Above(i)) <=> i \in x
  <2>1. i + n \in WordBits
    BY <1>2, <1>7 DEF WordBits
  <2>2. ASSUME NEW j \in y
        PROVE  j >= i /\ (j - i) % n = 0 <=> j = i \/ (j >= i + n /\ (j - (i + n)) % n = 0)
    <3>1. j \in Nat /\ i \in Nat
      BY <1>3 DEF AWord, WordBits
    <3>2. CASE i > j
      BY <1>2, <3>1, <3>2
    <3>3. CASE j >= i /\ j - i < n
      <4>1. j - i \in Nat /\ ~(j >= i + n)
        BY <1>2, <3>1, <3>3
      <4>2. (j - i) % n = 0 <=> j - i = 0
        BY <3>3, <4>1, StepBack
      <4>3. QED
        BY <3>1, <3>3, <4>1, <4>2
    <3>4. CASE j >= i /\ j - i >= n
      <4>1. j - i \in Nat /\ j >= i + n /\ j - i - n = j - (i + n)
        BY <1>2, <3>1, <3>4
      <4>2. (j - i) % n = 0 <=> (j - i - n) % n = 0
        BY <3>4, <4>1, StepBack
      <4>3. j # i
        BY <1>2, <3>1, <3>4
      <4>4. QED
        BY <3>4, <4>1, <4>2, <4>3
    <3>5. QED
      BY <1>2, <3>1, <3>2, <3>3, <3>4
  <2>3. Above(i) = IF i \in y THEN Above(i + n) \cup {i} ELSE Above(i + n)
    BY <2>2
  <2>4. i \notin Above(i + n)
    BY <1>2 DEF WordBits
  <2>5. Odd(Above(i)) <=> ~(Odd(Above(i + n)) <=> i \in y)
    <3>1. IsFiniteSet(Above(i + n))
      BY <1>5, <2>1
    <3>2. PICK B : B = Above(i + n)
      OBVIOUS
    <3>3. Odd(B \cup {i}) <=> ~Odd(B)
      BY <2>4, <3>1, <3>2, OddAdds
    <3>4. CASE i \in y
      BY <2>3, <3>2, <3>3, <3>4
    <3>5. CASE i \notin y
      BY <2>3, <3>2, <3>5
    <3>6. QED
      BY <3>4, <3>5
  <2>6. QED
    BY <1>4, <1>7, <2>5
<1> HIDE DEF Above
<1>8. ASSUME NEW i \in WordBits PROVE Odd(Above(i)) <=> i \in x
  <2> DEFINE T == {k \in WordBits : ~(Odd(Above(31 - k)) <=> 31 - k \in x)}
  <2>1. SUFFICES ASSUME T # {} PROVE FALSE
    <3>1. 31 - i \in WordBits /\ 31 - (31 - i) = i
      BY DEF WordBits
    <3>2. QED
      BY <3>1
  <2>2. PICK k \in T : \A m \in T : k <= m
    <3>1. T \subseteq Nat
      BY DEF WordBits
    <3> HIDE DEF T
    <3>2. QED
      BY <2>1, <3>1, LeastNumber
  <2>3. k \in WordBits /\ 31 - k \in WordBits /\ 31 - k + n <= 31
    BY <1>2, <1>6 DEF WordBits
  <2>4. k - n \in WordBits /\ k - n \notin T /\ 31 - (k - n) = 31 - k + n
    BY <1>2, <2>2, <2>3 DEF WordBits
  <2>5. Odd(Above(31 - k + n)) <=> 31 - k + n \in x
    BY <2>4
  <2>6. Odd(Above(31 - k)) <=> 31 - k \in x
    BY <1>7, <2>3, <2>5
  <2>7. QED
    BY <2>2, <2>6
<1>9. UnShr(y, n) = {i \in WordBits : Odd(Above(i))}
  BY DEF UnShr, Above
<1>10. QED
  BY <1>1, <1>8, <1>9 DEF AWord

\* Xor-ing twice with the same word takes it away again.
LEMMA XorCancels ==
  ASSUME NEW x \in AWord, NEW y \in AWord
  PROVE  Xor(Xor(x, y), y) = x /\ Xor(y, Xor(x, y)) = x /\ Xor(Xor(x, y), x) = y
BY DEF AWord, Xor

LEMMA Xorshift32Undone ==
  ASSUME NEW x \in AWord
  PROVE  Xorshift32(x) \in AWord /\ Undrawn("xorshift32", Xorshift32(x)) = x
<1>1. PICK x1 : x1 = Xor(x, Shl(x, 13))
  OBVIOUS
<1>2. PICK x2 : x2 = Xor(x1, Shr(x1, 17))
  OBVIOUS
<1>3. PICK x3 : x3 = Xor(x2, Shl(x2, 5))
  OBVIOUS
<1>4. x1 \in AWord /\ UnShl(x1, 13) = x
  <2>1. 13 \in Shifts /\ 13 \in Nat
    BY DEF Shifts
  <2>2. Shl(x, 13) \in AWord
    BY <2>1, WordsClosed
  <2>3. QED
    BY <1>1, <2>1, <2>2, WordsClosed, ShlUndone
<1>5. x2 \in AWord /\ UnShr(x2, 17) = x1
  <2>1. 17 \in Shifts /\ 17 \in Nat
    BY DEF Shifts
  <2>2. Shr(x1, 17) \in AWord
    BY <1>4, <2>1, WordsClosed
  <2>3. QED
    BY <1>2, <1>4, <2>1, <2>2, WordsClosed, ShrUndone
<1>6. x3 \in AWord /\ UnShl(x3, 5) = x2
  <2>1. 5 \in Shifts /\ 5 \in Nat
    BY DEF Shifts
  <2>2. Shl(x2, 5) \in AWord
    BY <1>5, <2>1, WordsClosed
  <2>3. QED
    BY <1>3, <1>5, <2>1, <2>2, WordsClosed, ShlUndone
<1>7. Xorshift32(x) = x3
  BY <1>1, <1>2, <1>3 DEF Xorshift32
<1>8. Undrawn("xorshift32", x3) = UnShl(UnShr(UnShl(x3, 5), 17), 13)
  BY DEF Undrawn
<1>9. QED
  BY <1>4, <1>5, <1>6, <1>7, <1>8

\* Of the taps of the shift register only the lowest leaves the word, and the
\* parity that enters it at the top tells whether it was set.
LEMMA LfsrUndone ==
  ASSUME NEW x \in AWord
  PROVE  Lfsr(x) \in AWord /\ Undrawn("lfsr", Lfsr(x)) = x
<1>1. PICK p \in BOOLEAN : p = Odd(x \cap {0, 2, 3, 5})
  BY DEF Odd
<1>2. PICK q \in BOOLEAN : q = Odd(x \cap {2, 3, 5})
  BY DEF Odd
<1>3. p = (IF 0 \in x THEN ~q ELSE q)
  <2>1. CASE 0 \in x
    <3>1. x \cap {0, 2, 3, 5} = (x \cap {2, 3, 5}) \cup {0}
      BY <2>1
    <3>2. IsFiniteSet(x \cap {2, 3, 5})
      <4>1. x \cap {2, 3, 5} \in AWord
        BY DEF AWord
      <4>2. QED
        BY <4>1, WordsAreFinite
    <3>3. 0 \notin x \cap {2, 3, 5}
      OBVIOUS
    <3>4. Odd((x \cap {2, 3, 5}) \cup {0}) <=> ~Odd(x \cap {2, 3, 5})
      BY <3>2, <3>3, OddAdds
    <3>5. QED
      BY <1>1, <1>2, <2>1, <3>1, <3>4
  <2>2. CASE 0 \notin x
    <3>1. x \cap {0, 2, 3, 5} = x \cap {2, 3, 5}
      BY <2>2
    <3>2. QED
      BY <1>1, <1>2, <2>2, <3>1
  <2>3. QED
    BY <2>1, <2>2
<1>4. PICK l : l = Lfsr(x)
  OBVIOUS
<1>5. l = Shr(x, 1) \cup (IF p THEN {31} ELSE {})
  BY <1>1, <1>4 DEF Lfsr, Parity, Odd
<1>6. 31 \notin Shr(x, 1)
  BY DEF Shr, AWord, WordBits
<1>7. (31 \in l) = p
  BY <1>5, <1>6
<1>8. Shl(l, 1) = x \ {0}
  <2>1. ASSUME NEW i \in WordBits PROVE i \in Shl(l, 1) <=> i \in x \ {0}
    <3>1. i \in Shl(l, 1) <=> i - 1 \in l
      <4>1. i \in Shl(l, 1) <=> \E j \in l : i = j + 1
        BY DEF Shl
      <4>2. \A j \in l : j \in Int
        BY <1>5 DEF Shr, AWord, WordBits
      <4>3. QED
        BY <4>1, <4>2 DEF WordBits
    <3>2. i - 1 # 31
      BY DEF WordBits
    <3>3. i - 1 \in l <=> i - 1 \in Shr(x, 1)
      BY <1>5, <3>2
    <3>4. i - 1 \in Shr(x, 1) <=> i \in x \ {0}
      <4>1. i - 1 \in Shr(x, 1) <=> i - 1 \in WordBits /\ \E j \in x : i - 1 = j - 1
        BY DEF Shr
      <4>2. QED
        BY <4>1 DEF AWord, WordBits
    <3>5. QED
      BY <3>1, <3>3, <3>4
  <2>2. Shl(l, 1) \subseteq WordBits /\ x \subseteq WordBits
    BY DEF Shl, AWord
  <2>3. QED
    BY <2>1, <2>2
<1>9. l \in AWord
  <2>1. 1 \in Nat
    OBVIOUS
  <2>2. Shr(x, 1) \in AWord
    BY <2>1, WordsClosed
  <2>3. {31} \in AWord
    BY DEF AWord, WordBits
  <2>4. QED
    BY <1>5, <2>2, <2>3 DEF AWord
<1>10. (x \ {0}) \cap {2, 3, 5} = x \cap {2, 3, 5}
  OBVIOUS
<1>11. Undrawn("lfsr", l) = (x \ {0}) \cup (IF q = p THEN {} ELSE {0})
  <2>1. Undrawn("lfsr", l) = Shl(l, 1) \cup
          (IF Odd(Shl(l, 1) \cap {2, 3, 5}) = (31 \in l) THEN {} ELSE {0})
    BY DEF Undrawn
  <2>2. Odd(Shl(l, 1) \cap {2, 3, 5}) = q
    BY <1>2, <1>8, <1>10
  <2>3. QED
    BY <1>7, <1>8, <2>1, <2>2
<1>12. (x \ {0}) \cup (IF q = p THEN {} ELSE {0}) = x
  BY <1>3
<1>13. QED
  BY <1>4, <1>9, <1>11, <1>12

\* The oldest of the four words is taken out of the newest again.
LEMMA Xorshift128Undone ==
  ASSUME NEW s \in [0..3 -> AWord]
  PROVE  /\ Xorshift128(s) \in [0..3 -> AWord]
         /\ Undrawn("xorshift128", Xorshift128(s)) = s
<1>1. PICK t1 : t1 = Xor(s[3], Shl(s[3], 11))
  OBVIOUS
<1>2. PICK t2 : t2 = Xor(t1, Shr(t1, 8))
  OBVIOUS
<1>3. PICK w : w = Xor(s[0], Shr(s[0], 19))
  OBVIOUS
<1>4. PICK new : new = Xor(t2, w)
  OBVIOUS
<1>5. s[0] \in AWord /\ s[1] \in AWord /\ s[2] \in AWord /\ s[3] \in AWord
  OBVIOUS
<1>6. t1 \in AWord /\ UnShl(t1, 11) = s[3]
  <2>1. 11 \in Shifts /\ 11 \in Nat
    BY DEF Shifts
  <2>2. Shl(s[3], 11) \in AWord
    BY <1>5, <2>1, WordsClosed
  <2>3. QED
    BY <1>1, <1>5, <2>1, <2>2, WordsClosed, ShlUndone
<1>7. t2 \in AWord /\ UnShr(t2, 8) = t1
  <2>1. 8 \in Shifts /\ 8 \in Nat
    BY DEF Shifts
  <2>2. Shr(t1, 8) \in AWord
    BY <1>6, <2>1, WordsClosed
  <2>3. QED
    BY <1>2, <1>6, <2>1, <2>2, WordsClosed, ShrUndone
<1>8. w \in AWord
  <2>1. 19 \in Nat
    OBVIOUS
  <2>2. Shr(s[0], 19) \in AWord
    BY <1>5, <2>1, WordsClosed
  <2>3. QED
    BY <1>3, <1>5, <2>1, <2>2, WordsClosed
<1>9. new \in AWord /\ Xor(new, w) = t2
  BY <1>4, <1>7, <1>8, WordsClosed, XorCancels
<1>10. PICK r : r = [i \in 0..3 |-> IF i = 0 THEN new ELSE s[i - 1]]
  OBVIOUS
<1>11. Xorshift128(s) = r
  BY <1>1, <1>2, <1>3, <1>4, <1>10 DEF Xorshift128
<1>12. r \in [0..3 -> AWord] /\ r[0] = new /\ r[1] = s[0] /\ r[2] = s[1] /\ r[3] = s[2]
  BY <1>5, <1>9, <1>10
<1>13. Xor(r[0], Xor(r[1], Shr(r[1], 19))) = t2
  BY <1>3, <1>9, <1>12
<1>14. Undrawn("xorshift128", r) = [i \in 0..3 |-> IF i = 3 THEN s[3] ELSE r[i + 1]]
  <2>1. Undrawn("xorshift128", r) =
          [i \in 0..3 |-> IF i = 3
             THEN UnShl(UnShr(Xor(r[0], Xor(r[1], Shr(r[1], 19))), 8), 11) ELSE r[i + 1]]
    BY DEF Undrawn
  <2>2. UnShl(UnShr(Xor(r[0], Xor(r[1], Shr(r[1], 19))), 8), 11) = s[3]
    BY <1>6, <1>7, <1>13
  <2>3. QED
    BY <2>1, <2>2
<1>15. [i \in 0..3 |-> IF i = 3 THEN s[3] ELSE r[i + 1]] = s
  <2>1. ASSUME NEW i \in 0..3 PROVE (IF i = 3 THEN s[3] ELSE r[i + 1]) = s[i]
    BY <1>12, i = 0 \/ i = 1 \/ i = 2 \/ i = 3
  <2>2. QED
    BY <2>1
<1>16. QED
  BY <1>11, <1>12, <1>14, <1>15

Sources == {"xorshift32", "lfsr", "xorshift128"}

SourceStates(src) == IF src = "xorshift128" THEN [0..3 -> AWord] ELSE AWord

ZeroState(src) == IF src = "xorshift128" THEN [i \in 0..3 |-> ZeroWord] ELSE ZeroWord

\* A draw of any of the three sources loses nothing: from the state it leads
\* to, the state it started from can be computed, whichever that was.
THEOREM DrawUndone ==
  ASSUME NEW src \in Sources, NEW s \in SourceStates(src)
  PROVE  Drawn(src, s) \in SourceStates(src) /\ Undrawn(src, Drawn(src, s)) = s
<1>1. CASE src = "xorshift32"
  BY <1>1, Xorshift32Undone DEF Drawn, SourceStates
<1>2. CASE src = "lfsr"
  BY <1>2, LfsrUndone DEF Drawn, SourceStates
<1>3. CASE src = "xorshift128"
  BY <1>3, Xorshift128Undone DEF Drawn, SourceStates
<1>4. QED
  BY <1>1, <1>2, <1>3 DEF Sources

LEMMA DrawFromZero ==
  ASSUME NEW src \in Sources
  PROVE  ZeroState(src) \in SourceStates(src) /\ Drawn(src, ZeroState(src)) = ZeroState(src)
<1>1. \A n : Shl({}, n) = {} /\ Shr({}, n) = {}
  BY DEF Shl, Shr
<1>2. Xor({}, {}) = {}
  BY DEF Xor
<1>3. CASE src = "xorshift32"
  BY <1>1, <1>2, <1>3 DEF Drawn, ZeroState, ZeroWord, Xorshift32, SourceStates, AWord
<1>4. CASE src = "lfsr"
  <2>1. {} \cap {0, 2, 3, 5} = {}
    OBVIOUS
  <2>2. Parity({}) = {}
    BY OddEmpty DEF Parity, Odd
  <2>3. Lfsr({}) = {}
    BY <1>1, <2>1, <2>2 DEF Lfsr
  <2>4. QED
    BY <1>4, <2>3 DEF Drawn, ZeroState, ZeroWord, SourceStates, AWord
<1>5. CASE src = "xorshift128"
  <2> DEFINE z == [i \in 0..3 |-> {}]
  <2>1. z[0] = {} /\ z[1] = {} /\ z[2] = {} /\ z[3] = {}
    OBVIOUS
  <2>2. z \in [0..3 -> AWord]
    BY DEF AWord
  <2> HIDE DEF z
  <2>3. Xorshift128(z) = [i \in 0..3 |-> IF i = 0 THEN {} ELSE z[i - 1]]
    BY <1>1, <1>2, <2>1 DEF Xorshift128
  <2>4. ASSUME NEW i \in 0..3 PROVE (IF i = 0 THEN {} ELSE z[i - 1]) = {}
    BY <2>1, i = 0 \/ i = 1 \/ i = 2 \/ i = 3
  <2>5. Xorshift128(z) = z
    BY <2>3, <2>4 DEF z
  <2>6. ZeroState(src) = z
    BY <1>5 DEF ZeroState, ZeroWord, z
  <2>7. QED
    BY <1>5, <2>2, <2>5, <2>6 DEF Drawn, SourceStates
<1>6. QED
  BY <1>3, <1>4, <1>5 DEF Sources

\* A source that is not zero stays so: zero is drawn from zero alone.
LEMMA DrawNotZero ==
  ASSUME NEW src \in Sources, NEW s \in SourceStates(src), s # ZeroState(src)
  PROVE  Drawn(src, s) # ZeroState(src)
<1>1. Undrawn(src, Drawn(src, s)) = s
  BY DrawUndone
<1>2. Undrawn(src, Drawn(src, ZeroState(src))) = ZeroState(src)
  BY DrawFromZero, DrawUndone
<1>3. Drawn(src, ZeroState(src)) = ZeroState(src)
  BY DrawFromZero
<1>4. QED
  BY <1>1, <1>2, <1>3

LEMMA SeedNotZero ==
  ASSUME NEW src \in Sources, NEW seed \in Seeds
  PROVE  Seeded(src, seed) \in SourceStates(src) /\ Seeded(src, seed) # ZeroState(src)
<1>1. PICK w : w = (IF seed = ZeroWord THEN DefaultSeed ELSE seed)
  OBVIOUS
<1>2. w \in AWord
  BY <1>1 DEF Seeds, ZeroWord, DefaultSeed, AWord
<1>3. w # {}
  <2>1. 0 \in DefaultSeed
    BY DEF DefaultSeed, WordBits
  <2>2. QED
    BY <1>1, <2>1 DEF ZeroWord
<1>4. Seeded(src, seed) = IF src = "xorshift128" THEN [i \in 0..3 |-> w] ELSE w
  BY <1>1 DEF Seeded
<1>5. [i \in 0..3 |-> w] \in [0..3 -> AWord] /\ [i \in 0..3 |-> w] # [i \in 0..3 |-> {}]
  <2>1. [i \in 0..3 |-> w][0] = w /\ [i \in 0..3 |-> {}][0] = {}
    OBVIOUS
  <2>2. QED
    BY <1>2, <1>3, <2>1
<1>6. QED
  BY <1>2, <1>3, <1>4, <1>5 DEF SourceStates, ZeroState, ZeroWord

SourcesInv ==
  /\ source \in Sources
  /\ state \in SourceStates(source)
  /\ before \in SourceStates(source)
  /\ state # ZeroState(source)
  /\ draws \in Nat
  /\ draws > 0 => state = Drawn(source, before)

LEMMA SourcesInvHolds == Spec => []SourcesInv
<1>1. Init => SourcesInv
  <2> SUFFICES ASSUME Init PROVE SourcesInv
    OBVIOUS
  <2>1. source \in Sources /\ draws = 0 /\ before = state
    BY DEF Init, RandomInit, Sources
  <2>2. state = Seeded(source, ZeroWord)
    BY DEF Init, RandomInit
  <2>3. ZeroWord \in Seeds
    BY DEF Seeds
  <2>4. QED
    BY <2>1, <2>2, <2>3, SeedNotZero DEF SourcesInv
<1>2. SourcesInv /\ [Next]_vars => SourcesInv'
  <2> SUFFICES ASSUME SourcesInv, [Next]_vars PROVE SourcesInv'
    OBVIOUS
  <2>1. CASE NextNumber
    <3>1. state' = Drawn(source, state) /\ before' = state /\ draws' = draws + 1
          /\ source' = source
      BY <2>1 DEF NextNumber
    <3>2. Drawn(source, state) \in SourceStates(source)
      BY DrawUndone DEF SourcesInv
    <3>3. Drawn(source, state) # ZeroState(source)
      BY DrawNotZero DEF SourcesInv
    <3>4. QED
      BY <3>1, <3>2, <3>3 DEF SourcesInv
  <2>2. ASSUME NEW seed \in Seeds, ResetState(seed) PROVE SourcesInv'
    <3>1. state' = Seeded(source, seed) /\ before' = state' /\ draws' = 0 /\ source' = source
      BY <2>2 DEF ResetState
    <3>2. Seeded(source, seed) \in SourceStates(source) /\ Seeded(source, seed) # ZeroState(source)
      BY SeedNotZero DEF SourcesInv
    <3>3. QED
      BY <3>1, <3>2 DEF SourcesInv
  <2>3. CASE UNCHANGED randomVars
    BY <2>3 DEF randomVars, SourcesInv
  <2>4. QED
    BY <2>1, <2>2, <2>3 DEF Next, RandomNext, vars
<1>3. QED
  BY <1>1, <1>2, PTL DEF Spec

\* From whatever state a source is in, the state before the last draw can be
\* computed, so no draw of xorshift32, lfsr or xorshift128 loses anything, and
\* none of them ever comes to the state zero.
THEOREM SourcesCanBeUndone == Spec => []SourcesReversible
<1>1. SourcesInv => SourcesReversible
  <2> SUFFICES ASSUME SourcesInv PROVE SourcesReversible
    OBVIOUS
  <2>1. draws > 0 => Undrawn(source, state) = before
    BY DrawUndone DEF SourcesInv
  <2>2. CASE source = "xorshift128"
    <3>1. state \in [0..3 -> AWord] /\ state # [i \in 0..3 |-> ZeroWord]
      BY <2>2 DEF SourcesInv, SourceStates, ZeroState
    <3>2. \E i \in 0..3 : state[i] # ZeroWord
      BY <3>1
    <3>3. QED
      BY <2>1, <2>2, <3>2 DEF SourcesReversible
  <2>3. CASE source # "xorshift128"
    BY <2>1, <2>3 DEF SourcesInv, ZeroState, SourcesReversible
  <2>4. QED
    BY <2>2, <2>3
<1>2. QED
  BY <1>1, SourcesInvHolds, PTL

-----------------------------------------------------------------------------
(* The vector                                                              *)

\* Two functions that start alike and go on alike are alike at the end.
LEMMA GoOnAlike ==
  ASSUME NEW f, NEW w, NEW lo \in Nat, NEW hi \in Nat, lo <= hi, f[lo] = w[lo],
         \A i \in lo..(hi - 1) : f[i] = w[i] => f[i + 1] = w[i + 1]
  PROVE  f[hi] = w[hi]
<1> DEFINE T == {k \in lo..hi : f[k] # w[k]}
<1>1. SUFFICES ASSUME T # {} PROVE FALSE
  OBVIOUS
<1>2. PICK k \in T : \A m \in T : k <= m
  <2>1. T \subseteq Nat
    OBVIOUS
  <2> HIDE DEF T
  <2>2. QED
    BY <1>1, <2>1, LeastNumber
<1>3. k \in lo..hi /\ f[k] # w[k] /\ k # lo
  BY <1>2
<1>4. k - 1 \in lo..(hi - 1) /\ k - 1 \notin T
  BY <1>2, <1>3
<1>5. f[k - 1] = w[k - 1]
  BY <1>4
<1>6. k - 1 + 1 = k
  BY <1>3
<1>7. QED
  BY <1>3, <1>4, <1>5, <1>6

\* The same from the last to the first.
LEMMA GoBackAlike ==
  ASSUME NEW f, NEW w, NEW lo \in Nat, NEW hi \in Nat, lo <= hi, f[hi] = w[hi],
         \A i \in lo..(hi - 1) : f[i + 1] = w[i + 1] => f[i] = w[i]
  PROVE  f[lo] = w[lo]
<1> DEFINE T == {k \in 0..(hi - lo) : f[hi - k] # w[hi - k]}
<1>1. SUFFICES ASSUME T # {} PROVE FALSE
  <2>1. hi - lo \in 0..(hi - lo) /\ hi - (hi - lo) = lo
    OBVIOUS
  <2>2. QED
    BY <2>1
<1>2. PICK k \in T : \A m \in T : k <= m
  <2>1. T \subseteq Nat
    OBVIOUS
  <2> HIDE DEF T
  <2>2. QED
    BY <1>1, <2>1, LeastNumber
<1>3. k \in 0..(hi - lo) /\ f[hi - k] # w[hi - k] /\ k # 0
  BY <1>2
<1>4. k - 1 \in 0..(hi - lo) /\ k - 1 \notin T
  BY <1>2, <1>3
<1>5. f[hi - (k - 1)] = w[hi - (k - 1)]
  BY <1>4
<1>6. hi - (k - 1) = hi - k + 1 /\ hi - k \in lo..(hi - 1)
  BY <1>3
<1>7. QED
  BY <1>3, <1>5, <1>6

CellStates == [Cells -> Objects \cup {Dead}]

\* The cells up to the length hold objects, the others none.
VectorInv ==
  /\ length \in 0..MaximumElements
  /\ cells \in CellStates
  /\ \A i \in Cells : cells[i] = Dead <=> i >= length

LEMMA ConstructOverDead ==
  ASSUME NEW c \in CellStates, NEW i \in Cells, c[i] = Dead, NEW v \in Objects
  PROVE  /\ Construct(c, i, v) = [c EXCEPT ![i] = v]
         /\ Construct(c, i, v) \in CellStates
BY VectorAssumption DEF Construct, CellStates

LEMMA DestroyLive ==
  ASSUME NEW c \in CellStates, NEW i \in Cells, c[i] # Dead
  PROVE  /\ Destroy(c, i) = [c EXCEPT ![i] = Dead]
         /\ Destroy(c, i) \in CellStates
BY DEF Destroy, CellStates

\* The cells while insert makes room, before and after each turn of its loop.
Opened(i) ==
  [k \in Cells |-> IF k < i THEN cells[k] ELSE IF k = i THEN Dead
                   ELSE IF k <= length THEN cells[k - 1] ELSE Dead]

LEMMA OpenedStep ==
  ASSUME VectorInv, length < MaximumElements, NEW i \in 0..(length - 1)
  PROVE  Destroy(Construct(Opened(i + 1), i + 1, Opened(i + 1)[i]), i) = Opened(i)
<1> DEFINE c == Opened(i + 1)
<1>1. /\ length \in Nat /\ i \in Nat /\ i + 1 \in Cells /\ i \in Cells
      /\ \A k \in Cells : k \in Nat
  BY VectorAssumption DEF VectorInv, Cells
<1>2. \A k \in Cells : k > 0 => k - 1 \in Cells
  BY VectorAssumption DEF Cells
<1>3. c \in CellStates /\ c[i + 1] = Dead /\ c[i] = cells[i] /\ cells[i] \in Objects
  BY <1>1, <1>2 DEF Opened, CellStates, VectorInv
<1>4. PICK d : d = Construct(c, i + 1, c[i])
  OBVIOUS
<1>5. d = [c EXCEPT ![i + 1] = cells[i]] /\ d \in CellStates
  BY <1>1, <1>3, <1>4, ConstructOverDead
<1>6. d[i] # Dead
  BY <1>1, <1>3, <1>5, VectorAssumption DEF CellStates
<1>7. Destroy(d, i) = [d EXCEPT ![i] = Dead]
  BY <1>1, <1>5, <1>6, DestroyLive
<1>8. [d EXCEPT ![i] = Dead] = Opened(i)
  <2>1. ASSUME NEW k \in Cells
        PROVE  [d EXCEPT ![i] = Dead][k] = Opened(i)[k]
    <3>1. c[k] = IF k < i + 1 THEN cells[k] ELSE IF k = i + 1 THEN Dead
                 ELSE IF k <= length THEN cells[k - 1] ELSE Dead
      BY DEF Opened
    <3>2. d[k] = IF k = i + 1 THEN cells[i] ELSE c[k]
      BY <1>3, <1>5 DEF CellStates
    <3>3. [d EXCEPT ![i] = Dead][k] = IF k = i THEN Dead ELSE d[k]
      BY <1>5 DEF CellStates
    <3>4. Opened(i)[k] = IF k < i THEN cells[k] ELSE IF k = i THEN Dead
                         ELSE IF k <= length THEN cells[k - 1] ELSE Dead
      BY DEF Opened
    <3> HIDE DEF c
    <3>5. k \in Nat /\ i \in Nat /\ length \in Nat /\ i < length
      BY <1>1
    <3>6. CASE k <= i
      BY <3>1, <3>2, <3>3, <3>4, <3>5, <3>6
    <3>7. CASE k = i + 1
      <4>1. k - 1 = i /\ k <= length /\ k # i /\ ~(k < i)
        BY <3>5, <3>7
      <4>2. QED
        BY <3>2, <3>3, <3>4, <3>7, <4>1
    <3>8. CASE k > i + 1
      BY <3>1, <3>2, <3>3, <3>4, <3>5, <3>8
    <3>9. QED
      BY <3>5, <3>6, <3>7, <3>8
  <2>2. [d EXCEPT ![i] = Dead] \in CellStates
    BY <1>5 DEF CellStates
  <2> DEFINE o == Opened(i)
  <2>4. o = [k \in Cells |-> o[k]]
    BY DEF Opened
  <2> HIDE DEF o
  <2>3. QED
    BY <2>1, <2>2, <2>4 DEF CellStates, o
<1>9. QED
  BY <1>4, <1>7, <1>8

\* expand_at moves every element from idx on up by one.
LEMMA ExpandedIsOpened ==
  ASSUME VectorInv, length < MaximumElements, NEW idx \in 0..length
  PROVE  ExpandedAt(idx) = Opened(idx)
<1> DEFINE IsUp(f) == f = [i \in idx..length |->
                             IF i = length THEN cells
                             ELSE Destroy(Construct(f[i + 1], i + 1, f[i + 1][i]), i)]
           up == CHOOSE f : IsUp(f)
           w == [i \in idx..length |-> Opened(i)]
<1>1. length \in Nat /\ idx \in Nat /\ idx <= length
  BY VectorAssumption DEF VectorInv
<1>2. ExpandedAt(idx) = up[idx]
  BY DEF ExpandedAt
<1>3. Opened(length) = cells
  <2>1. \A k \in Cells : k \in Nat /\ Opened(length)[k] = cells[k]
    BY <1>1, VectorAssumption DEF Opened, VectorInv, Cells
  <2>2. cells = [k \in Cells |-> cells[k]]
    BY DEF VectorInv, CellStates
  <2>3. QED
    BY <2>1, <2>2 DEF Opened
<1>4. \A i \in idx..(length - 1) :
        Destroy(Construct(w[i + 1], i + 1, w[i + 1][i]), i) = Opened(i)
  <2> TAKE i \in idx..(length - 1)
  <2>1. i \in 0..(length - 1) /\ i + 1 \in idx..length
    BY <1>1
  <2>2. w[i + 1] = Opened(i + 1)
    BY <2>1
  <2>3. QED
    BY <2>1, <2>2, OpenedStep
<1>5. IsUp(w)
  <2>1. \A i \in idx..length : w[i] = Opened(i)
    OBVIOUS
  <2>2. \A i \in idx..length : i # length => i \in idx..(length - 1)
    BY <1>1
  <2>3. \A i \in idx..length :
          Opened(i) = IF i = length THEN cells
                      ELSE Destroy(Construct(w[i + 1], i + 1, w[i + 1][i]), i)
    BY <1>3, <1>4, <2>2
  <2>4. QED
    BY <2>3
<1>6. IsUp(up)
  BY <1>5
<1> HIDE DEF up
<1>7. up[length] = w[length]
  BY <1>1, <1>3, <1>6
<1>8. \A i \in idx..(length - 1) : up[i + 1] = w[i + 1] => up[i] = w[i]
  <2> TAKE i \in idx..(length - 1)
  <2>1. i \in idx..length /\ i # length
    BY <1>1
  <2>2. up[i] = Destroy(Construct(up[i + 1], i + 1, up[i + 1][i]), i)
    BY <1>6, <2>1
  <2>3. w[i] = Opened(i)
    BY <2>1
  <2>4. QED
    BY <1>4, <2>2, <2>3
<1>9. w[idx] = Opened(idx)
  BY <1>1
<1> HIDE DEF w
<1>10. up[idx] = w[idx]
  BY <1>1, <1>7, <1>8, GoBackAlike
<1>11. QED
  BY <1>2, <1>9, <1>10

LEMMA DestroyAllLive ==
  ASSUME NEW c \in CellStates, NEW from \in Nat, NEW to \in Nat,
         \A i \in Cells : i \in from..(to - 1) => c[i] # Dead
  PROVE  DestroyAll(c, from, to) =
           [i \in Cells |-> IF i \in from..(to - 1) THEN Dead ELSE c[i]]
<1>1. ASSUME NEW i \in Cells, i \in from..(to - 1) PROVE Destroy(c, i)[i] = Dead
  BY <1>1, DestroyLive DEF CellStates
<1>2. QED
  BY <1>1 DEF DestroyAll

\* The cells while erase closes the gap left at idx, which has come to i.
Closed(idx, i) ==
  [k \in Cells |-> IF k < idx THEN cells[k] ELSE IF k < i THEN cells[k + 1]
                   ELSE IF k = i THEN Dead ELSE cells[k]]

LEMMA ClosedStep ==
  ASSUME VectorInv, NEW idx \in 0..(length - 1), NEW i \in idx..(length - 2)
  PROVE  Destroy(Construct(Closed(idx, i), i, Closed(idx, i)[i + 1]), i + 1)
           = Closed(idx, i + 1)
<1> DEFINE c == Closed(idx, i)
           o == Closed(idx, i + 1)
<1>1. /\ length \in Nat /\ i \in Nat /\ idx \in Nat /\ idx <= i /\ i + 1 < length
      /\ i + 1 \in Cells /\ i \in Cells /\ \A k \in Cells : k \in Nat
  BY VectorAssumption DEF VectorInv, Cells
<1>2. \A k \in Cells : k < i => k + 1 \in Cells
  BY <1>1, VectorAssumption DEF Cells
<1>3. c \in CellStates /\ c[i] = Dead /\ c[i + 1] = cells[i + 1] /\ cells[i + 1] \in Objects
  BY <1>1, <1>2 DEF Closed, CellStates, VectorInv
<1>4. PICK d : d = Construct(c, i, c[i + 1])
  OBVIOUS
<1>5. d = [c EXCEPT ![i] = cells[i + 1]] /\ d \in CellStates
  BY <1>1, <1>3, <1>4, ConstructOverDead
<1>6. d[i + 1] # Dead
  BY <1>1, <1>3, <1>5, VectorAssumption DEF CellStates
<1>7. Destroy(d, i + 1) = [d EXCEPT ![i + 1] = Dead]
  BY <1>1, <1>5, <1>6, DestroyLive
<1>8. [d EXCEPT ![i + 1] = Dead] = o
  <2>1. ASSUME NEW k \in Cells
        PROVE  [d EXCEPT ![i + 1] = Dead][k] = o[k]
    <3>1. c[k] = IF k < idx THEN cells[k] ELSE IF k < i THEN cells[k + 1]
                 ELSE IF k = i THEN Dead ELSE cells[k]
      BY DEF Closed
    <3>2. d[k] = IF k = i THEN cells[i + 1] ELSE c[k]
      BY <1>3, <1>5 DEF CellStates
    <3>3. [d EXCEPT ![i + 1] = Dead][k] = IF k = i + 1 THEN Dead ELSE d[k]
      BY <1>5 DEF CellStates
    <3>4. o[k] = IF k < idx THEN cells[k] ELSE IF k < i + 1 THEN cells[k + 1]
                 ELSE IF k = i + 1 THEN Dead ELSE cells[k]
      BY DEF Closed
    <3> HIDE DEF c, o
    <3>5. k \in Nat
      BY <1>1
    <3>6. CASE k < i
      BY <1>1, <3>1, <3>2, <3>3, <3>4, <3>5, <3>6
    <3>7. CASE k = i
      <4>1. ~(k < idx) /\ k < i + 1 /\ k # i + 1
        BY <1>1, <3>7
      <4>2. QED
        BY <3>2, <3>3, <3>4, <3>7, <4>1
    <3>8. CASE k > i
      BY <1>1, <3>1, <3>2, <3>3, <3>4, <3>5, <3>8
    <3>9. QED
      BY <1>1, <3>5, <3>6, <3>7, <3>8
  <2>2. [d EXCEPT ![i + 1] = Dead] \in CellStates
    BY <1>5 DEF CellStates
  <2>3. o = [k \in Cells |-> o[k]]
    BY DEF Closed
  <2> HIDE DEF o
  <2>4. QED
    BY <2>1, <2>2, <2>3 DEF CellStates
<1>9. QED
  BY <1>4, <1>7, <1>8

\* erase moves every element behind idx down by one.
LEMMA ClosedUp ==
  ASSUME VectorInv, NEW idx \in 0..(length - 1)
  PROVE  ClosedAt(idx) = Closed(idx, length - 1)
<1> DEFINE IsDown(f) == f = [i \in idx..(length - 1) |->
                               IF i = idx THEN Destroy(cells, idx)
                               ELSE Destroy(Construct(f[i - 1], i - 1, f[i - 1][i]), i)]
           down == CHOOSE f : IsDown(f)
           w == [i \in idx..(length - 1) |-> Closed(idx, i)]
<1>1. /\ length \in Nat /\ idx \in Nat /\ idx <= length - 1 /\ length - 1 \in Nat
      /\ idx \in Cells
  BY VectorAssumption DEF VectorInv, Cells
<1>2. ClosedAt(idx) = down[length - 1]
  BY DEF ClosedAt
<1>3. Destroy(cells, idx) = Closed(idx, idx)
  <2>1. Destroy(cells, idx) = [cells EXCEPT ![idx] = Dead]
    BY <1>1, DestroyLive DEF VectorInv
  <2>2. \A k \in Cells : k \in Nat
    BY DEF Cells
  <2>3. ASSUME NEW k \in Cells
        PROVE  [cells EXCEPT ![idx] = Dead][k] = Closed(idx, idx)[k]
    <3>1. [cells EXCEPT ![idx] = Dead][k] = IF k = idx THEN Dead ELSE cells[k]
      BY DEF VectorInv, CellStates
    <3>2. Closed(idx, idx)[k] = IF k < idx THEN cells[k] ELSE IF k < idx THEN cells[k + 1]
                                ELSE IF k = idx THEN Dead ELSE cells[k]
      BY DEF Closed
    <3>3. QED
      BY <1>1, <2>2, <3>1, <3>2
  <2>4. [cells EXCEPT ![idx] = Dead] = [k \in Cells |-> [cells EXCEPT ![idx] = Dead][k]]
    BY DEF VectorInv, CellStates
  <2>5. Closed(idx, idx) = [k \in Cells |-> Closed(idx, idx)[k]]
    BY DEF Closed
  <2>6. QED
    BY <2>1, <2>3, <2>4, <2>5
<1>4. \A i \in idx..(length - 1) : i # idx =>
        Destroy(Construct(w[i - 1], i - 1, w[i - 1][i]), i) = Closed(idx, i)
  <2> TAKE i \in idx..(length - 1)
  <2> HAVE i # idx
  <2>1. i - 1 \in idx..(length - 2) /\ i - 1 \in idx..(length - 1) /\ i - 1 + 1 = i
    BY <1>1
  <2>2. w[i - 1] = Closed(idx, i - 1)
    BY <2>1
  <2>3. QED
    BY <2>1, <2>2, ClosedStep
<1>5. IsDown(w)
  <2>1. \A i \in idx..(length - 1) :
          Closed(idx, i) = IF i = idx THEN Destroy(cells, idx)
                      ELSE Destroy(Construct(w[i - 1], i - 1, w[i - 1][i]), i)
    BY <1>3, <1>4
  <2>2. QED
    BY <2>1
<1>6. IsDown(down)
  BY <1>5
<1> HIDE DEF down
<1>7. down[idx] = w[idx]
  BY <1>1, <1>3, <1>6
<1>8. \A i \in idx..(length - 1 - 1) : down[i] = w[i] => down[i + 1] = w[i + 1]
  <2> TAKE i \in idx..(length - 1 - 1)
  <2>1. i + 1 \in idx..(length - 1) /\ i + 1 # idx /\ i + 1 - 1 = i
    BY <1>1
  <2>2. down[i + 1] = Destroy(Construct(down[i], i, down[i][i + 1]), i + 1)
    <3>1. \A j \in idx..(length - 1) : j # idx =>
            down[j] = Destroy(Construct(down[j - 1], j - 1, down[j - 1][j]), j)
      BY <1>6
    <3>2. down[i + 1] = Destroy(Construct(down[i + 1 - 1], i + 1 - 1, down[i + 1 - 1][i + 1]), i + 1)
      BY <2>1, <3>1
    <3>3. QED
      BY <2>1, <3>2
  <2>3. w[i + 1] = Closed(idx, i + 1)
    BY <2>1
  <2>4. Destroy(Construct(w[i], i, w[i][i + 1]), i + 1) = Closed(idx, i + 1)
    BY <1>4, <2>1
  <2>5. QED
    BY <2>2, <2>3, <2>4
<1>9. w[length - 1] = Closed(idx, length - 1)
  BY <1>1
<1> HIDE DEF w
<1>10. down[length - 1] = w[length - 1]
  BY <1>1, <1>7, <1>8, GoOnAlike
<1>11. QED
  BY <1>2, <1>9, <1>10

\* The cells while erase moves a range down, which has come to i.
Moved(start, count, i) ==
  [k \in Cells |-> IF start <= k /\ k < i THEN cells[k + count] ELSE cells[k]]

LEMMA MovedStep ==
  ASSUME VectorInv, NEW start \in Nat, NEW count \in Nat \ {0},
         NEW i \in start..(length - count - 1)
  PROVE  Construct(Destroy(Moved(start, count, i), i), i, Moved(start, count, i)[i + count])
           = Moved(start, count, i + 1)
<1> DEFINE c == Moved(start, count, i)
           o == Moved(start, count, i + 1)
<1>1. /\ length \in Nat /\ i \in Nat /\ start <= i /\ i + count < length
      /\ i + count \in Cells /\ i \in Cells /\ \A k \in Cells : k \in Nat
  BY VectorAssumption DEF VectorInv, Cells
<1>2. \A k \in Cells : k < i => k + count \in Cells
  BY <1>1, VectorAssumption DEF Cells
<1>3. cells[i] \in Objects /\ cells[i + count] \in Objects
  BY <1>1 DEF VectorInv, CellStates
<1>4. c \in CellStates /\ c[i] = cells[i] /\ c[i + count] = cells[i + count]
  BY <1>1, <1>2 DEF Moved, CellStates, VectorInv
<1>5. c[i] # Dead
  BY <1>3, <1>4, VectorAssumption
<1>6. PICK d : d = Destroy(c, i)
  OBVIOUS
<1>7. d = [c EXCEPT ![i] = Dead] /\ d \in CellStates
  BY <1>1, <1>4, <1>5, <1>6, DestroyLive
<1>8. d[i] = Dead
  BY <1>1, <1>4, <1>7 DEF CellStates
<1>9. Construct(d, i, c[i + count]) = [d EXCEPT ![i] = cells[i + count]]
  <2> HIDE DEF c
  <2>1. Construct(d, i, cells[i + count]) = [d EXCEPT ![i] = cells[i + count]]
    BY <1>1, <1>3, <1>7, <1>8, ConstructOverDead
  <2>2. QED
    BY <1>4, <2>1
<1>10. [d EXCEPT ![i] = cells[i + count]] = o
  <2>1. ASSUME NEW k \in Cells
        PROVE  [d EXCEPT ![i] = cells[i + count]][k] = o[k]
    <3>1. c[k] = IF start <= k /\ k < i THEN cells[k + count] ELSE cells[k]
      BY DEF Moved
    <3>2. d[k] = IF k = i THEN Dead ELSE c[k]
      BY <1>4, <1>7 DEF CellStates
    <3>3. [d EXCEPT ![i] = cells[i + count]][k] = IF k = i THEN cells[i + count] ELSE d[k]
      BY <1>7 DEF CellStates
    <3>4. o[k] = IF start <= k /\ k < i + 1 THEN cells[k + count] ELSE cells[k]
      BY DEF Moved
    <3> HIDE DEF c, o
    <3>5. k \in Nat
      BY <1>1
    <3>6. CASE k < i
      BY <1>1, <3>1, <3>2, <3>3, <3>4, <3>5, <3>6
    <3>7. CASE k = i
      BY <1>1, <3>3, <3>4, <3>7
    <3>8. CASE k > i
      BY <1>1, <3>1, <3>2, <3>3, <3>4, <3>5, <3>8
    <3>9. QED
      BY <1>1, <3>5, <3>6, <3>7, <3>8
  <2>2. [d EXCEPT ![i] = cells[i + count]] \in CellStates
    BY <1>3, <1>7 DEF CellStates
  <2>3. o = [k \in Cells |-> o[k]]
    BY DEF Moved
  <2> HIDE DEF o
  <2>4. QED
    BY <2>1, <2>2, <2>3 DEF CellStates
<1>11. QED
  BY <1>6, <1>9, <1>10

\* erase of a range moves what is behind it down to its start.
LEMMA AllMoved ==
  ASSUME VectorInv, NEW start \in Nat, NEW count \in Nat \ {0}, start + count <= length
  PROVE  MovedDown(start, count) = Moved(start, count, length - count)
<1> DEFINE IsOver(f) == f = [i \in start..(length - count) |->
              IF i = start THEN cells
              ELSE Construct(Destroy(f[i - 1], i - 1), i - 1, f[i - 1][i - 1 + count])]
           over == CHOOSE f : IsOver(f)
           w == [i \in start..(length - count) |-> Moved(start, count, i)]
<1>1. length \in Nat /\ start <= length - count /\ length - count \in Nat
  BY VectorAssumption DEF VectorInv
<1>2. MovedDown(start, count) = over[length - count]
  BY DEF MovedDown
<1>3. cells = Moved(start, count, start)
  <2>1. \A k \in Cells : k \in Nat
    BY DEF Cells
  <2>2. QED
    BY <2>1 DEF Moved, VectorInv, CellStates
<1>4. \A i \in start..(length - count) : i # start =>
        Construct(Destroy(w[i - 1], i - 1), i - 1, w[i - 1][i - 1 + count])
          = Moved(start, count, i)
  <2> TAKE i \in start..(length - count)
  <2> HAVE i # start
  <2>1. /\ i - 1 \in start..(length - count - 1) /\ i - 1 \in start..(length - count)
        /\ i - 1 + 1 = i
    BY <1>1
  <2>2. w[i - 1] = Moved(start, count, i - 1)
    BY <2>1
  <2>3. QED
    BY <2>1, <2>2, MovedStep
<1>5. IsOver(w)
  <2>1. \A i \in start..(length - count) :
          Moved(start, count, i) = IF i = start THEN cells
              ELSE Construct(Destroy(w[i - 1], i - 1), i - 1, w[i - 1][i - 1 + count])
    BY <1>3, <1>4
  <2>2. QED
    BY <2>1
<1>6. IsOver(over)
  BY <1>5
<1> HIDE DEF over
<1>7. over[start] = w[start]
  BY <1>1, <1>3, <1>6
<1>8. \A i \in start..(length - count - 1) : over[i] = w[i] => over[i + 1] = w[i + 1]
  <2> TAKE i \in start..(length - count - 1)
  <2>1. i + 1 \in start..(length - count) /\ i + 1 # start /\ i + 1 - 1 = i
    BY <1>1
  <2>2. over[i + 1] = Construct(Destroy(over[i], i), i, over[i][i + count])
    <3>1. \A j \in start..(length - count) : j # start =>
            over[j] = Construct(Destroy(over[j - 1], j - 1), j - 1, over[j - 1][j - 1 + count])
      BY <1>6
    <3>2. over[i + 1] = Construct(Destroy(over[i + 1 - 1], i + 1 - 1), i + 1 - 1,
                                  over[i + 1 - 1][i + 1 - 1 + count])
      BY <2>1, <3>1
    <3>3. QED
      BY <2>1, <3>2
  <2>3. w[i + 1] = Moved(start, count, i + 1)
    BY <2>1
  <2>4. Construct(Destroy(w[i], i), i, w[i][i + count]) = Moved(start, count, i + 1)
    BY <1>4, <2>1
  <2>5. QED
    BY <2>2, <2>3, <2>4
<1>9. w[length - count] = Moved(start, count, length - count)
  BY <1>1
<1> HIDE DEF w
<1>10. over[length - count] = w[length - count]
  BY <1>1, <1>7, <1>8, GoOnAlike
<1>11. QED
  BY <1>2, <1>9, <1>10

ItemsSeq ==
  /\ VectorItems \in Seq(Objects)
  /\ Len(VectorItems) = length
  /\ \A i \in 1..length : VectorItems[i] = cells[i - 1]

LEMMA ItemsAreSeq == VectorInv => ItemsSeq
<1> SUFFICES ASSUME VectorInv PROVE ItemsSeq
  OBVIOUS
<1>1. length \in Nat
  BY VectorAssumption DEF VectorInv
<1>2. ASSUME NEW i \in 1..length PROVE cells[i - 1] \in Objects
  <2>1. i - 1 \in Cells /\ ~(i - 1 >= length)
    BY <1>1, VectorAssumption DEF VectorInv, Cells
  <2>2. QED
    BY <2>1 DEF VectorInv, CellStates
<1>3. VectorItems \in [1..length -> Objects]
  BY <1>2 DEF VectorItems
<1>4. QED
  BY <1>1, <1>3 DEF ItemsSeq, VectorItems

\* A sequence of which the elements of positions a .. b-1 are replaced.
Splice(S, r, s, a, b, new) ==
  /\ r \in Seq(S) /\ Len(r) = a + Len(new) + Len(s) - b
  /\ \A i \in 1..Len(r) : r[i] = IF i <= a THEN s[i]
                                 ELSE IF i <= a + Len(new) THEN new[i - a]
                                 ELSE s[i - a - Len(new) + b]

LEMMA SplicedElements ==
  ASSUME NEW S, NEW s \in Seq(S), NEW a \in Nat, NEW b \in Nat, a <= b, b <= Len(s),
         NEW new \in Seq(S)
  PROVE  Splice(S, SubSeq(s, 1, a) \o new \o SubSeq(s, b + 1, Len(s)), s, a, b, new)
<1>r. PICK r : r = SubSeq(s, 1, a) \o new \o SubSeq(s, b + 1, Len(s))
  OBVIOUS
<1>1. Len(s) \in Nat /\ Len(new) \in Nat /\ a \in Int /\ b \in Int
  BY LenProperties
<1>2. \A i \in 1..Len(s) : s[i] \in S
  BY ElementOfSeq
<1>3. PICK p : p = SubSeq(s, 1, a)
  OBVIOUS
<1>4. PICK q : q = SubSeq(s, b + 1, Len(s))
  OBVIOUS
<1>5. p \in Seq(S) /\ Len(p) = a /\ \A i \in 1..a : p[i] = s[i]
  BY <1>1, <1>2, <1>3, SubSeqProperties
<1>6. q \in Seq(S) /\ Len(q) = Len(s) - b /\ \A i \in 1..(Len(s) - b) : q[i] = s[b + i]
  <2>1. \A i \in (b + 1)..Len(s) : s[i] \in S
    BY <1>1, <1>2
  <2>2. /\ q \in Seq(S)
        /\ Len(q) = IF b + 1 <= Len(s) THEN Len(s) - (b + 1) + 1 ELSE 0
        /\ \A i \in 1..(Len(s) - (b + 1) + 1) : q[i] = s[b + 1 + i - 1]
    BY <1>1, <1>4, <2>1, SubSeqProperties
  <2>3. Len(q) = Len(s) - b
    BY <1>1, <2>2
  <2>4. ASSUME NEW i \in 1..(Len(s) - b) PROVE q[i] = s[b + i]
    <3>1. i \in 1..(Len(s) - (b + 1) + 1) /\ b + 1 + i - 1 = b + i
      BY <1>1
    <3>2. q[i] = s[b + 1 + i - 1]
      BY <2>2, <3>1
    <3>3. QED
      BY <3>1, <3>2
  <2>5. QED
    BY <2>2, <2>3, <2>4
<1>7. PICK pn : pn = p \o new
  OBVIOUS
<1>8. /\ pn \in Seq(S) /\ Len(pn) = a + Len(new)
      /\ \A i \in 1..(a + Len(new)) : pn[i] = IF i <= a THEN p[i] ELSE new[i - a]
  BY <1>5, <1>7, ConcatProperties
<1>9. r = pn \o q
  BY <1>r, <1>3, <1>4, <1>7
<1>10. /\ r \in Seq(S) /\ Len(r) = a + Len(new) + (Len(s) - b)
       /\ \A i \in 1..(a + Len(new) + (Len(s) - b)) :
            r[i] = IF i <= a + Len(new) THEN pn[i] ELSE q[i - (a + Len(new))]
  <2>1. /\ pn \o q \in Seq(S) /\ Len(pn \o q) = Len(pn) + Len(q)
        /\ \A i \in 1..(Len(pn) + Len(q)) :
             (pn \o q)[i] = IF i <= Len(pn) THEN pn[i] ELSE q[i - Len(pn)]
    <3>1. pn \in Seq(S) /\ q \in Seq(S)
      BY <1>6, <1>8
    <3>2. QED
      BY <3>1, ConcatProperties
  <2>2. QED
    BY <1>6, <1>8, <1>9, <2>1
<1>0. Len(r) \in Nat
  BY <1>10, LenProperties
<1>11. ASSUME NEW i \in 1..Len(r)
       PROVE  r[i] = IF i <= a THEN s[i]
                     ELSE IF i <= a + Len(new) THEN new[i - a]
                     ELSE s[i - a - Len(new) + b]
  <2>1. CASE i <= a
    BY <1>1, <1>5, <1>8, <1>10, <2>1
  <2>2. CASE i > a /\ i <= a + Len(new)
    <3>1. i \in 1..(a + Len(new)) /\ i \in 1..(a + Len(new) + (Len(s) - b)) /\ ~(i <= a)
      BY <1>0, <1>1, <1>10, <2>2
    <3>2. pn[i] = new[i - a]
      BY <1>8, <3>1
    <3>3. r[i] = pn[i]
      BY <1>10, <2>2, <3>1
    <3>4. QED
      BY <2>2, <3>1, <3>2, <3>3
  <2>3. CASE i > a + Len(new)
    <3>1. i - (a + Len(new)) \in 1..(Len(s) - b)
      BY <1>1, <1>10, <2>3
    <3>2. q[i - (a + Len(new))] = s[b + (i - (a + Len(new)))]
      BY <1>6, <3>1
    <3>3. b + (i - (a + Len(new))) = i - a - Len(new) + b
      BY <1>1
    <3>4. ~(i <= a) /\ ~(i <= a + Len(new))
      BY <1>1, <2>3
    <3>5. QED
      BY <1>10, <3>2, <3>3, <3>4
  <2>4. i <= a \/ (i > a /\ i <= a + Len(new)) \/ i > a + Len(new)
    BY <1>0, <1>1
  <2>5. QED
    BY <2>1, <2>2, <2>3, <2>4
<1>12. Len(r) = a + Len(new) + Len(s) - b
  BY <1>1, <1>10
<1>13. Splice(S, r, s, a, b, new)
  BY <1>10, <1>11, <1>12 DEF Splice
<1>14. QED
  BY <1>r, <1>13

LEMMA PushBackRefines ==
  ASSUME VectorInv, NEW v \in Objects, PushBack(v)
  PROVE  VectorInv' /\ VectorIsSequence!PushBack(v)
<1>1. ItemsSeq /\ length \in Nat
  BY ItemsAreSeq, VectorAssumption DEF VectorInv
<1>2. VectorIsSequence!Answers("push_back", <<v>>, VectorIsSequence!HasRoom)
  BY <1>1 DEF PushBack, Answer, VectorIsSequence!Answers, VectorIsSequence!HasRoom, ItemsSeq
<1>3. CASE length < MaximumElements
  <2>1. length \in Cells /\ cells[length] = Dead
    BY <1>1, <1>3, VectorAssumption DEF VectorInv, Cells
  <2>2. length' = length + 1 /\ cells' = [cells EXCEPT ![length] = v] /\ cells' \in CellStates
    BY <1>3, <2>1, ConstructOverDead DEF PushBack, VectorInv
  <2>3. VectorInv'
    BY <1>1, <1>3, <2>1, <2>2, VectorAssumption DEF VectorInv, Cells, CellStates
  <2>4. ItemsSeq'
    BY <2>3, ItemsAreSeq, PTL
  <2>5. PICK a : a = Append(VectorItems, v)
    OBVIOUS
  <2>6. a \in Seq(Objects) /\ Len(a) = length + 1
        /\ \A i \in 1..(length + 1) : a[i] = IF i = length + 1 THEN v ELSE VectorItems[i]
    BY <1>1, <2>5 DEF ItemsSeq
  <2>7. ASSUME NEW i \in 1..(length + 1) PROVE VectorItems'[i] = a[i]
    <3>1. VectorItems'[i] = cells'[i - 1] /\ i - 1 \in Cells
      BY <1>1, <1>3, <2>2, <2>4, VectorAssumption DEF ItemsSeq, Cells
    <3>2. cells'[i - 1] = IF i - 1 = length THEN v ELSE cells[i - 1]
      BY <2>1, <2>2, <3>1 DEF VectorInv, CellStates
    <3>3. i - 1 = length <=> i = length + 1
      BY <1>1
    <3>4. i # length + 1 => VectorItems[i] = cells[i - 1]
      BY <1>1 DEF ItemsSeq
    <3>5. QED
      BY <2>6, <3>1, <3>2, <3>3, <3>4
  <2>8. VectorItems' \in Seq(Objects) /\ Len(VectorItems') = length + 1
    BY <2>2, <2>4 DEF ItemsSeq
  <2>9. VectorItems' = a
    BY <2>6, <2>7, <2>8, SeqEqual
  <2>10. QED
    BY <1>1, <1>2, <1>3, <2>3, <2>5, <2>9
    DEF VectorIsSequence!PushBack, VectorIsSequence!HasRoom, ItemsSeq
<1>4. CASE ~(length < MaximumElements)
  <2>1. UNCHANGED <<cells, length>>
    BY <1>4 DEF PushBack
  <2>2. VectorInv' /\ VectorItems' = VectorItems
    BY <2>1 DEF VectorInv, VectorItems
  <2>3. QED
    BY <1>1, <1>2, <1>4, <2>2 DEF VectorIsSequence!PushBack, VectorIsSequence!HasRoom, ItemsSeq
<1>5. QED
  BY <1>3, <1>4

\* The elements after a step, element by element.
LEMMA ItemsBecome ==
  ASSUME VectorInv', NEW r \in Seq(Objects), Len(r) = length',
         \A i \in 1..length' : cells'[i - 1] = r[i]
  PROVE  VectorItems' = r
<1>1. ItemsSeq'
  BY ItemsAreSeq, PTL
<1>2. VectorItems' \in Seq(Objects) /\ Len(VectorItems') = length'
      /\ \A i \in 1..length' : VectorItems'[i] = cells'[i - 1]
  BY <1>1 DEF ItemsSeq
<1>3. QED
  BY <1>2, SeqEqual

LEMMA NothingChanged ==
  ASSUME VectorInv, UNCHANGED <<cells, length>>
  PROVE  VectorInv' /\ VectorItems' = VectorItems
BY DEF VectorInv, VectorItems

LEMMA InsertRefines ==
  ASSUME VectorInv, NEW it \in Indices, NEW v \in Objects, InsertTo(it, v)
  PROVE  VectorInv' /\ VectorIsSequence!InsertTo(it, v)
<1> DEFINE idx == IndexByIterator(it)
<1>1. ItemsSeq /\ length \in Nat /\ length <= MaximumElements /\ it \in Nat
  BY ItemsAreSeq, VectorAssumption DEF VectorInv, Indices
<1>2. CanExpandAt(idx) <=> length < MaximumElements /\ it \in 0..length
  BY <1>1, VectorAssumption DEF CanExpandAt, IndexByIterator, Cells
<1>3. CanExpandAt(idx) <=> VectorIsSequence!HasRoom /\ it \in 0..Len(VectorItems)
  BY <1>1, <1>2 DEF VectorIsSequence!HasRoom, ItemsSeq
<1>4. VectorIsSequence!Answers("insert", <<it, v>>,
        VectorIsSequence!HasRoom /\ it \in 0..Len(VectorItems))
  <2>1. vcall' = [name |-> "insert", arguments |-> <<it, v>>, answer |-> CanExpandAt(idx)]
    BY DEF InsertTo, Answer
  <2>2. CanExpandAt(idx) = (VectorIsSequence!HasRoom /\ it \in 0..Len(VectorItems))
    BY <1>3 DEF CanExpandAt, VectorIsSequence!HasRoom
  <2>3. QED
    BY <2>1, <2>2 DEF VectorIsSequence!Answers
<1>5. CASE CanExpandAt(idx)
  <2>1. idx = it /\ it \in 0..length /\ length < MaximumElements /\ it \in Cells
    BY <1>1, <1>2, <1>5, VectorAssumption DEF IndexByIterator, Cells
  <2>2. cells' = Construct(Opened(it), it, v) /\ length' = length + 1
    BY <1>5, <2>1, ExpandedIsOpened DEF InsertTo
  <2>3. Opened(it) \in CellStates /\ Opened(it)[it] = Dead
    <3>1. \A k \in Cells : k \in Nat /\ (k > it => k - 1 \in Cells)
      BY <1>1, VectorAssumption DEF Cells
    <3>2. QED
      BY <1>1, <2>1, <3>1 DEF Opened, CellStates, VectorInv
  <2>4. cells' = [Opened(it) EXCEPT ![it] = v] /\ cells' \in CellStates
    BY <2>1, <2>2, <2>3, ConstructOverDead
  <2>5. \A k \in Cells : cells'[k] = IF k < it THEN cells[k] ELSE IF k = it THEN v
                                     ELSE IF k <= length THEN cells[k - 1] ELSE Dead
    <3> TAKE k \in Cells
    <3>1. Opened(it)[k] = IF k < it THEN cells[k] ELSE IF k = it THEN Dead
                          ELSE IF k <= length THEN cells[k - 1] ELSE Dead
      BY DEF Opened
    <3>2. cells'[k] = IF k = it THEN v ELSE Opened(it)[k]
      BY <2>3, <2>4 DEF CellStates
    <3>3. k \in Nat
      BY DEF Cells
    <3>4. QED
      BY <1>1, <3>1, <3>2, <3>3
  <2>6. VectorInv'
    <3>1. \A k \in Cells : k \in Nat /\ (k > it => k - 1 \in Cells)
      BY <1>1, VectorAssumption DEF Cells
    <3>2. ASSUME NEW k \in Cells PROVE cells'[k] = Dead <=> k >= length + 1
      BY <1>1, <2>1, <2>5, <3>1, VectorAssumption DEF VectorInv
    <3>3. QED
      BY <1>1, <2>1, <2>2, <2>4, <3>2, VectorAssumption DEF VectorInv
  <2>7. PICK r : r = VectorIsSequence!Spliced(it, it, <<v>>)
    OBVIOUS
  <2>8. /\ r \in Seq(Objects) /\ Len(r) = length + 1
        /\ \A i \in 1..(length + 1) : r[i] = IF i <= it THEN VectorItems[i]
                 ELSE IF i <= it + 1 THEN <<v>>[i - it] ELSE VectorItems[i - it - 1 + it]
    <3>1. PICK new : new = <<v>>
      OBVIOUS
    <3>a. new \in Seq(Objects) /\ Len(new) = 1
      BY <3>1
    <3>2. r = SubSeq(VectorItems, 1, it) \o new \o SubSeq(VectorItems, it + 1, Len(VectorItems))
      BY <2>7, <3>1 DEF VectorIsSequence!Spliced
    <3>3. it \in Nat /\ it <= it /\ it <= Len(VectorItems) /\ VectorItems \in Seq(Objects)
      BY <1>1, <2>1 DEF ItemsSeq
    <3>b. Splice(Objects, r, VectorItems, it, it, new)
      BY <3>a, <3>2, <3>3, SplicedElements
    <3>4. /\ r \in Seq(Objects) /\ Len(r) = it + Len(new) + Len(VectorItems) - it
          /\ \A i \in 1..Len(r) : r[i] = IF i <= it THEN VectorItems[i]
               ELSE IF i <= it + Len(new) THEN new[i - it]
               ELSE VectorItems[i - it - Len(new) + it]
      BY <3>b DEF Splice
    <3>5. Len(r) = length + 1
      BY <1>1, <3>a, <3>4 DEF ItemsSeq
    <3>6. QED
      BY <3>1, <3>a, <3>4, <3>5
  <2>9. ASSUME NEW i \in 1..(length + 1) PROVE cells'[i - 1] = r[i]
    <3>1. i - 1 \in Cells /\ i - 1 <= length /\ i \in Nat /\ i - 1 - 1 = i - 2
      BY <1>1, <2>1, VectorAssumption DEF Cells
    <3>2. \A j \in 1..length : VectorItems[j] = cells[j - 1]
      BY <1>1 DEF ItemsSeq
    <3>3. CASE i <= it
      BY <1>1, <2>1, <2>5, <2>8, <3>1, <3>2, <3>3
    <3>4. CASE i = it + 1
      <4>1. r[i] = <<v>>[1]
        BY <1>1, <2>8, <3>4
      <4>2. cells'[i - 1] = v
        BY <1>1, <2>5, <3>1, <3>4
      <4>3. QED
        BY <4>1, <4>2
    <3>5. CASE i > it + 1
      <4>1. i - it - 1 + it = i - 1 /\ i - 1 \in 1..length
        BY <1>1, <3>1, <3>5
      <4>2. r[i] = VectorItems[i - 1]
        BY <1>1, <2>8, <3>5, <4>1
      <4>3. cells'[i - 1] = cells[i - 1 - 1]
        BY <1>1, <2>5, <3>1, <3>5
      <4>4. QED
        BY <3>2, <4>1, <4>2, <4>3
    <3>6. QED
      BY <1>1, <3>1, <3>3, <3>4, <3>5
  <2>10. VectorItems' = r
    BY <2>2, <2>6, <2>8, <2>9, ItemsBecome
  <2>11. QED
    BY <1>3, <1>4, <1>5, <2>6, <2>7, <2>10 DEF VectorIsSequence!InsertTo
<1>6. CASE ~CanExpandAt(idx)
  <2>1. VectorInv' /\ VectorItems' = VectorItems
    BY <1>6, NothingChanged DEF InsertTo
  <2>2. QED
    BY <1>3, <1>4, <1>6, <2>1 DEF VectorIsSequence!InsertTo
<1>7. QED
  BY <1>5, <1>6

LEMMA EraseRefines ==
  ASSUME VectorInv, NEW it \in Indices, EraseAt(it)
  PROVE  VectorInv' /\ VectorIsSequence!EraseAt(it)
<1> DEFINE idx == IndexByIterator(it)
<1>1. ItemsSeq /\ length \in Nat /\ length <= MaximumElements /\ it \in Nat
  BY ItemsAreSeq, VectorAssumption DEF VectorInv, Indices
<1>2. idx < length <=> it \in 0..(length - 1)
  BY <1>1, VectorAssumption DEF IndexByIterator, Cells
<1>3. idx < length <=> it \in 0..(Len(VectorItems) - 1)
  BY <1>1, <1>2 DEF ItemsSeq
<1>4. VectorIsSequence!Answers("erase", <<it>>, it \in 0..(Len(VectorItems) - 1))
  <2>1. vcall' = [name |-> "erase", arguments |-> <<it>>, answer |-> idx < length]
    BY DEF EraseAt, Answer
  <2>2. (idx < length) = (it \in 0..(Len(VectorItems) - 1))
    BY <1>3
  <2>3. QED
    BY <2>1, <2>2 DEF VectorIsSequence!Answers
<1>5. CASE idx < length
  <2>1. idx = it /\ it \in 0..(length - 1) /\ it < length
    BY <1>1, <1>2, <1>5, VectorAssumption DEF IndexByIterator, Cells
  <2>2. cells' = Closed(it, length - 1) /\ length' = length - 1
    BY <1>5, <2>1, ClosedUp DEF EraseAt
  <2>3. \A k \in Cells : cells'[k] = IF k < it THEN cells[k]
                                     ELSE IF k < length - 1 THEN cells[k + 1]
                                     ELSE IF k = length - 1 THEN Dead ELSE cells[k]
    BY <2>2 DEF Closed
  <2>4. \A k \in Cells : k \in Nat /\ (k < length - 1 => k + 1 \in Cells)
    BY <1>1, VectorAssumption DEF Cells
  <2>5. VectorInv'
    <3>1. cells' \in CellStates
      <4>1. cells' = [k \in Cells |-> cells'[k]]
        BY <2>2 DEF Closed
      <4>2. \A k \in Cells : cells'[k] \in Objects \cup {Dead}
        BY <2>3, <2>4 DEF VectorInv, CellStates
      <4>3. QED
        BY <4>1, <4>2 DEF CellStates
    <3>2. ASSUME NEW k \in Cells PROVE cells'[k] = Dead <=> k >= length - 1
      BY <1>1, <2>1, <2>3, <2>4 DEF VectorInv
    <3>3. QED
      BY <1>1, <2>1, <2>2, <3>1, <3>2, VectorAssumption DEF VectorInv
  <2>6. PICK r : r = VectorIsSequence!Spliced(it, it + 1, << >>)
    OBVIOUS
  <2>7. /\ r \in Seq(Objects) /\ Len(r) = length - 1
        /\ \A i \in 1..(length - 1) : r[i] = IF i <= it THEN VectorItems[i] ELSE VectorItems[i + 1]
    <3>1. PICK new : new = << >>
      OBVIOUS
    <3>2. new \in Seq(Objects) /\ Len(new) = 0
      BY <3>1
    <3>3. r = SubSeq(VectorItems, 1, it) \o new \o SubSeq(VectorItems, it + 1 + 1, Len(VectorItems))
      BY <2>6, <3>1 DEF VectorIsSequence!Spliced
    <3>4. it \in Nat /\ it + 1 \in Nat /\ it <= it + 1 /\ it + 1 <= Len(VectorItems)
          /\ VectorItems \in Seq(Objects)
      BY <1>1, <2>1 DEF ItemsSeq
    <3>5. Splice(Objects, r, VectorItems, it, it + 1, new)
      BY <3>2, <3>3, <3>4, SplicedElements
    <3>6. /\ r \in Seq(Objects) /\ Len(r) = it + Len(new) + Len(VectorItems) - (it + 1)
          /\ \A i \in 1..Len(r) : r[i] = IF i <= it THEN VectorItems[i]
               ELSE IF i <= it + Len(new) THEN new[i - it]
               ELSE VectorItems[i - it - Len(new) + (it + 1)]
      BY <3>5 DEF Splice
    <3>7. Len(r) = length - 1
      BY <1>1, <3>2, <3>6 DEF ItemsSeq
    <3>8. ASSUME NEW i \in 1..(length - 1)
          PROVE  r[i] = IF i <= it THEN VectorItems[i] ELSE VectorItems[i + 1]
      <4>1. i - it - Len(new) + (it + 1) = i + 1 /\ it + Len(new) = it
        BY <1>1, <3>2
      <4>2. QED
        BY <3>6, <3>7, <4>1
    <3>9. QED
      BY <3>6, <3>7, <3>8
  <2>8. ASSUME NEW i \in 1..(length - 1) PROVE cells'[i - 1] = r[i]
    <3>1. i - 1 \in Cells /\ i - 1 < length - 1 /\ i \in Nat
      BY <1>1, <2>1, VectorAssumption DEF Cells
    <3>2. VectorItems[i] = cells[i - 1] /\ VectorItems[i + 1] = cells[i]
      <4>1. i \in 1..length /\ i + 1 \in 1..length /\ i + 1 - 1 = i
        BY <1>1
      <4>2. VectorItems[i + 1] = cells[i + 1 - 1]
        BY <1>1, <4>1 DEF ItemsSeq
      <4>3. QED
        BY <1>1, <4>1, <4>2 DEF ItemsSeq
    <3>3. cells'[i - 1] = IF i - 1 < it THEN cells[i - 1] ELSE cells[i - 1 + 1]
      BY <2>3, <3>1
    <3>4. (i - 1 < it <=> i <= it) /\ i - 1 + 1 = i
      BY <1>1
    <3>5. QED
      BY <2>7, <3>2, <3>3, <3>4
  <2>9. VectorItems' = r
    BY <2>2, <2>5, <2>7, <2>8, ItemsBecome
  <2>10. QED
    BY <1>3, <1>4, <1>5, <2>5, <2>6, <2>9 DEF VectorIsSequence!EraseAt
<1>6. CASE ~(idx < length)
  <2>1. VectorInv' /\ VectorItems' = VectorItems
    BY <1>6, NothingChanged DEF EraseAt
  <2>2. QED
    BY <1>3, <1>4, <1>6, <2>1 DEF VectorIsSequence!EraseAt
<1>7. QED
  BY <1>5, <1>6

LEMMA EraseRangeRefines ==
  ASSUME VectorInv, NEW first \in Iterators, NEW last \in Iterators, EraseRange(first, last)
  PROVE  VectorInv' /\ VectorIsSequence!EraseRange(first, last)
<1> DEFINE there == first < length /\ last <= length /\ first < last
<1>1. /\ ItemsSeq /\ length \in Nat /\ length <= MaximumElements
      /\ first \in Nat /\ last \in Nat
  BY ItemsAreSeq, VectorAssumption DEF VectorInv, Iterators
<1>2. IndexByIterator(first) = first /\ IndexByIterator(last) = last
  BY VectorAssumption DEF IndexByIterator, Cells, Iterators
<1>3. /\ vcall' = [name |-> "erase_range", arguments |-> <<first, last>>,
                   answer |-> IF there THEN last - first ELSE 0]
      /\ IF there
         THEN /\ cells' = DestroyAll(MovedDown(first, last - first),
                                     length - (last - first), length)
              /\ length' = length - (last - first)
         ELSE UNCHANGED <<cells, length>>
  BY <1>2 DEF EraseRange, Answer
<1>4. there <=> 0 <= first /\ first < last /\ last <= Len(VectorItems)
  BY <1>1 DEF ItemsSeq
<1>5. VectorIsSequence!Answers("erase_range", <<first, last>>,
        IF 0 <= first /\ first < last /\ last <= Len(VectorItems) THEN last - first ELSE 0)
  BY <1>3, <1>4 DEF VectorIsSequence!Answers
<1>6. CASE there
  <2>1. PICK count : count = last - first
    OBVIOUS
  <2>2. count \in Nat \ {0} /\ first + count <= length /\ first + count = last
    BY <1>1, <1>6, <2>1
  <2>3. length' = length - count /\ length - count \in Nat /\ first <= length - count
    BY <1>1, <1>3, <1>6, <2>1, <2>2
  <2>4. cells' = DestroyAll(Moved(first, count, length - count), length - count, length)
    BY <1>1, <1>3, <1>6, <2>1, <2>2, AllMoved
  <2>5. \A k \in Cells : k \in Nat /\ (k < length - count => k + count \in Cells)
    BY <1>1, <2>2, VectorAssumption DEF Cells
  <2>6. PICK m : m = Moved(first, count, length - count)
    OBVIOUS
  <2>7. \A k \in Cells : m[k] = IF first <= k /\ k < length - count THEN cells[k + count]
                                ELSE cells[k]
    BY <2>6 DEF Moved
  <2>8. m \in CellStates
    <3>1. m = [k \in Cells |-> m[k]]
      BY <2>6 DEF Moved
    <3>2. \A k \in Cells : m[k] \in Objects \cup {Dead}
      BY <2>5, <2>7 DEF VectorInv, CellStates
    <3>3. QED
      BY <3>1, <3>2 DEF CellStates
  <2>9. \A k \in Cells : k \in (length - count)..(length - 1) => m[k] # Dead
    BY <1>1, <2>3, <2>5, <2>7 DEF VectorInv
  <2>10. cells' = [k \in Cells |-> IF k \in (length - count)..(length - 1) THEN Dead ELSE m[k]]
    BY <1>1, <2>3, <2>4, <2>6, <2>8, <2>9, DestroyAllLive
  <2>11. VectorInv'
    <3>1. cells' \in CellStates
      BY <2>8, <2>10 DEF CellStates
    <3>2. ASSUME NEW k \in Cells PROVE cells'[k] = Dead <=> k >= length - count
      <4>1. cells'[k] = IF k \in (length - count)..(length - 1) THEN Dead ELSE m[k]
        BY <2>10
      <4>2. QED
        BY <1>1, <2>2, <2>3, <2>5, <2>7, <4>1 DEF VectorInv
    <3>3. QED
      BY <1>1, <2>2, <2>3, <3>1, <3>2, VectorAssumption DEF VectorInv
  <2>12. PICK r : r = VectorIsSequence!Spliced(first, last, << >>)
    OBVIOUS
  <2>13. /\ r \in Seq(Objects) /\ Len(r) = length - count
         /\ \A i \in 1..(length - count) :
              r[i] = IF i <= first THEN VectorItems[i] ELSE VectorItems[i + count]
    <3>1. PICK new : new = << >>
      OBVIOUS
    <3>2. new \in Seq(Objects) /\ Len(new) = 0
      BY <3>1
    <3>3. r = SubSeq(VectorItems, 1, first) \o new \o SubSeq(VectorItems, last + 1, Len(VectorItems))
      BY <2>12, <3>1 DEF VectorIsSequence!Spliced
    <3>4. first \in Nat /\ last \in Nat /\ first <= last /\ last <= Len(VectorItems)
          /\ VectorItems \in Seq(Objects)
      BY <1>1, <1>6 DEF ItemsSeq
    <3>5. Splice(Objects, r, VectorItems, first, last, new)
      BY <3>2, <3>3, <3>4, SplicedElements
    <3>6. /\ r \in Seq(Objects) /\ Len(r) = first + Len(new) + Len(VectorItems) - last
          /\ \A i \in 1..Len(r) : r[i] = IF i <= first THEN VectorItems[i]
               ELSE IF i <= first + Len(new) THEN new[i - first]
               ELSE VectorItems[i - first - Len(new) + last]
      BY <3>5 DEF Splice
    <3>7. Len(r) = length - count
      BY <1>1, <2>1, <3>2, <3>6 DEF ItemsSeq
    <3>8. ASSUME NEW i \in 1..(length - count)
          PROVE  r[i] = IF i <= first THEN VectorItems[i] ELSE VectorItems[i + count]
      <4>1. i - first - Len(new) + last = i + count /\ first + Len(new) = first
        BY <1>1, <2>1, <3>2
      <4>2. QED
        BY <3>6, <3>7, <4>1
    <3>9. QED
      BY <3>6, <3>7, <3>8
  <2>14. ASSUME NEW i \in 1..(length - count) PROVE cells'[i - 1] = r[i]
    <3>1. i - 1 \in Cells /\ i - 1 < length - count /\ i \in Nat
      BY <1>1, <2>2, <2>3, VectorAssumption DEF Cells
    <3>2. VectorItems[i] = cells[i - 1] /\ VectorItems[i + count] = cells[i - 1 + count]
      <4>1. i \in 1..length /\ i + count \in 1..length /\ i + count - 1 = i - 1 + count
        BY <1>1, <2>2
      <4>2. VectorItems[i + count] = cells[i + count - 1]
        <5>1. PICK j : j = i + count
          OBVIOUS
        <5>2. VectorItems[j] = cells[j - 1]
          BY <1>1, <4>1, <5>1 DEF ItemsSeq
        <5>3. i + count - 1 = j - 1
          BY <2>2, <5>1
        <5>4. QED
          BY <5>1, <5>2, <5>3
      <4>3. QED
        BY <1>1, <4>1, <4>2 DEF ItemsSeq
    <3>3. cells'[i - 1] = m[i - 1]
      BY <2>3, <2>10, <3>1
    <3>4. m[i - 1] = IF first <= i - 1 THEN cells[i - 1 + count] ELSE cells[i - 1]
      BY <2>7, <3>1
    <3>5. first <= i - 1 <=> ~(i <= first)
      BY <1>1
    <3>6. QED
      BY <2>13, <3>2, <3>3, <3>4, <3>5
  <2>15. VectorItems' = r
    BY <2>3, <2>11, <2>13, <2>14, ItemsBecome
  <2>16. QED
    BY <1>4, <1>5, <1>6, <2>11, <2>12, <2>15 DEF VectorIsSequence!EraseRange
<1>7. CASE ~there
  <2>1. VectorInv' /\ VectorItems' = VectorItems
    BY <1>3, <1>7, NothingChanged
  <2>2. QED
    BY <1>4, <1>5, <1>7, <2>1 DEF VectorIsSequence!EraseRange
<1>8. QED
  BY <1>6, <1>7

\* Destroying the elements from position to on cuts the sequence.
LEMMA CutTo ==
  ASSUME VectorInv, NEW to \in 0..length,
         cells' = DestroyAll(cells, to, length), length' = to
  PROVE  VectorInv' /\ VectorItems' = SubSeq(VectorItems, 1, to)
<1>1. ItemsSeq /\ length \in Nat /\ length <= MaximumElements /\ to \in Nat /\ to <= length
  BY ItemsAreSeq, VectorAssumption DEF VectorInv
<1>2. \A k \in Cells : k \in Nat /\ (k \in to..(length - 1) => cells[k] # Dead)
  BY <1>1 DEF VectorInv, Cells
<1>3. cells' = [k \in Cells |-> IF k \in to..(length - 1) THEN Dead ELSE cells[k]]
  <2>1. cells \in CellStates
    BY DEF VectorInv
  <2>2. QED
    BY <1>1, <1>2, <2>1, DestroyAllLive
<1>4. VectorInv'
  <2>1. cells' \in CellStates
    BY <1>3 DEF VectorInv, CellStates
  <2>2. ASSUME NEW k \in Cells PROVE cells'[k] = Dead <=> k >= to
    <3>1. cells'[k] = IF k \in to..(length - 1) THEN Dead ELSE cells[k]
      BY <1>3
    <3>2. QED
      BY <1>1, <1>2, <3>1 DEF VectorInv
  <2>3. QED
    BY <1>1, <2>1, <2>2, VectorAssumption DEF VectorInv
<1>5. PICK r : r = SubSeq(VectorItems, 1, to)
  OBVIOUS
<1>6. r \in Seq(Objects) /\ Len(r) = to /\ \A i \in 1..to : r[i] = VectorItems[i]
  <2>1. \A i \in 1..to : VectorItems[i] \in Objects
    BY <1>1, ElementOfSeq DEF ItemsSeq
  <2>2. 1 \in Int /\ to \in Int
    BY <1>1
  <2>3. /\ r \in Seq(Objects) /\ Len(r) = IF 1 <= to THEN to - 1 + 1 ELSE 0
        /\ \A i \in 1..(to - 1 + 1) : r[i] = VectorItems[1 + i - 1]
    BY <1>5, <2>1, <2>2, SubSeqProperties
  <2>4. Len(r) = to
    BY <1>1, <2>3
  <2>5. ASSUME NEW i \in 1..to PROVE r[i] = VectorItems[i]
    <3>1. i \in 1..(to - 1 + 1) /\ 1 + i - 1 = i
      BY <1>1
    <3>2. QED
      BY <2>3, <3>1
  <2>6. QED
    BY <2>3, <2>4, <2>5
<1>7. ASSUME NEW i \in 1..to PROVE cells'[i - 1] = r[i]
  <2>1. i - 1 \in Cells /\ i - 1 \notin to..(length - 1) /\ i \in 1..length
    BY <1>1, VectorAssumption DEF Cells
  <2>2. cells'[i - 1] = cells[i - 1]
    BY <1>3, <2>1
  <2>3. QED
    BY <1>1, <1>6, <2>1, <2>2 DEF ItemsSeq
<1>8. VectorItems' = r
  BY <1>4, <1>6, <1>7, ItemsBecome
<1>9. QED
  BY <1>4, <1>5, <1>8

LEMMA ClearRefines ==
  ASSUME VectorInv, Clear
  PROVE  VectorInv' /\ VectorIsSequence!Empty
<1>1. ItemsSeq /\ length \in Nat /\ 0 \in 0..length
  BY ItemsAreSeq, VectorAssumption DEF VectorInv
<1>2. VectorInv' /\ VectorItems' = SubSeq(VectorItems, 1, 0)
  BY <1>1, CutTo DEF Clear
<1>3. SubSeq(VectorItems, 1, 0) = << >>
  BY SubSeqEmpty
<1>4. QED
  BY <1>2, <1>3 DEF Clear, Answer, VectorIsSequence!Empty, VectorIsSequence!Answers

LEMMA NoItems ==
  ASSUME VectorInv
  PROVE  /\ ItemsSeq /\ length \in Nat /\ length <= MaximumElements
         /\ VectorItems # << >> <=> length > 0
<1>1. ItemsSeq /\ length \in Nat /\ length <= MaximumElements
  BY ItemsAreSeq, VectorAssumption DEF VectorInv
<1>2. VectorItems # << >> => length > 0
  BY <1>1 DEF VectorItems
<1>3. length > 0 => VectorItems # << >>
  BY <1>1, EmptySeq DEF ItemsSeq
<1>4. QED
  BY <1>1, <1>2, <1>3

LEMMA PopBackRefines ==
  ASSUME VectorInv, PopBack
  PROVE  VectorInv' /\ VectorIsSequence!DropBack
<1>1. /\ ItemsSeq /\ length \in Nat /\ length <= MaximumElements
      /\ VectorItems # << >> <=> length > 0
  BY NoItems
<1>2. VectorIsSequence!Answers("pop_back", << >>, VectorItems # << >>)
  <2>1. vcall' = [name |-> "pop_back", arguments |-> << >>, answer |-> length > 0]
    BY DEF PopBack, Answer
  <2>2. (length > 0) = (VectorItems # << >>)
    BY <1>1
  <2>3. QED
    BY <2>1, <2>2 DEF VectorIsSequence!Answers
<1>3. CASE length > 0
  <2>1. length - 1 \in 0..length /\ length - 1 \in Cells /\ length - 1 \in Nat
    BY <1>1, <1>3, VectorAssumption DEF Cells
  <2>2. cells' = Destroy(cells, length - 1) /\ length' = length - 1
    BY <1>3 DEF PopBack
  <2>3. cells[length - 1] # Dead /\ cells \in CellStates
    BY <1>1, <2>1 DEF VectorInv
  <2>4. cells' = [cells EXCEPT ![length - 1] = Dead]
    BY <2>1, <2>2, <2>3, DestroyLive
  <2>5. DestroyAll(cells, length - 1, length) =
          [k \in Cells |-> IF k \in (length - 1)..(length - 1) THEN Dead ELSE cells[k]]
    <3>1. \A k \in Cells : k \in (length - 1)..(length - 1) => cells[k] # Dead
      BY <1>1, <2>3 DEF Cells
    <3>2. QED
      BY <1>1, <2>1, <2>3, <3>1, DestroyAllLive
  <2>6. [cells EXCEPT ![length - 1] = Dead] = DestroyAll(cells, length - 1, length)
    <3>1. \A k \in Cells : k \in (length - 1)..(length - 1) <=> k = length - 1
      BY <1>1 DEF Cells
    <3>2. QED
      BY <2>3, <2>5, <3>1 DEF CellStates
  <2>7. VectorInv' /\ VectorItems' = SubSeq(VectorItems, 1, length - 1)
    BY <2>1, <2>2, <2>4, <2>6, CutTo
  <2>8. QED
    BY <1>1, <1>2, <1>3, <2>7 DEF VectorIsSequence!DropBack, ItemsSeq
<1>4. CASE ~(length > 0)
  <2>1. VectorInv' /\ VectorItems' = VectorItems
    BY <1>4, NothingChanged DEF PopBack
  <2>2. QED
    BY <1>1, <1>2, <1>4, <2>1 DEF VectorIsSequence!DropBack
<1>5. QED
  BY <1>3, <1>4

LEMMA ReduceRefines ==
  ASSUME VectorInv, NEW n \in 0..(MaximumElements + 1), Reduce(n)
  PROVE  VectorInv' /\ VectorIsSequence!DropLast(n)
<1>1. ItemsSeq /\ length \in Nat /\ n \in Nat /\ Len(VectorItems) = length
  BY NoItems, VectorAssumption DEF ItemsSeq
<1>2. VectorIsSequence!Answers("reduce", <<n>>, TRUE)
  BY DEF Reduce, Answer, VectorIsSequence!Answers
<1>3. CASE n > length
  <2>1. length - length = 0 /\ 0 \in 0..length
    BY <1>1
  <2>2. cells' = DestroyAll(cells, 0, length) /\ length' = 0
    BY <1>3, <2>1 DEF Reduce
  <2>3. VectorInv' /\ VectorItems' = SubSeq(VectorItems, 1, 0)
    BY <2>1, <2>2, CutTo
  <2>4. SubSeq(VectorItems, 1, 0) = << >>
    BY SubSeqEmpty
  <2>5. QED
    BY <1>1, <1>2, <1>3, <2>3, <2>4 DEF VectorIsSequence!DropLast
<1>4. CASE ~(n > length)
  <2>1. length - n \in 0..length
    BY <1>1, <1>4
  <2>2. cells' = DestroyAll(cells, length - n, length) /\ length' = length - n
    BY <1>4 DEF Reduce
  <2>3. VectorInv' /\ VectorItems' = SubSeq(VectorItems, 1, length - n)
    BY <2>1, <2>2, CutTo
  <2>4. QED
    BY <1>1, <1>2, <1>4, <2>3 DEF VectorIsSequence!DropLast
<1>5. QED
  BY <1>3, <1>4

\* assign stores the length of a range that does not fill the vector.
LEMMA AssignRefines ==
  ASSUME VectorInv, AssignMost < MaximumElements, NEW n \in 0..AssignMost,
         NEW new \in [1..n -> Objects], Assign(new)
  PROVE  VectorInv' /\ VectorIsSequence!Replace(new)
<1>1. /\ length \in Nat /\ length <= MaximumElements /\ MaximumElements \in Nat
      /\ n \in Nat /\ n < MaximumElements /\ 0 \in Nat
  BY VectorAssumption DEF VectorInv
<1>2. new \in Seq(Objects) /\ Len(new) = n
  BY <1>1
<1>3. PICK empty : empty = DestroyAll(cells, 0, length)
  OBVIOUS
<1>4. \A k \in Cells : k \in Nat /\ (k + 1 \in 1..n <=> k < n)
  BY <1>1 DEF Cells
<1>5. empty = [k \in Cells |-> IF k \in 0..(length - 1) THEN Dead ELSE cells[k]]
  <2>1. cells \in CellStates /\ \A k \in Cells : k \in 0..(length - 1) => cells[k] # Dead
    BY <1>1, <1>4 DEF VectorInv
  <2>2. QED
    BY <1>1, <1>3, <2>1, DestroyAllLive
<1>6. ASSUME NEW k \in Cells PROVE empty[k] = Dead
  BY <1>1, <1>4, <1>5 DEF VectorInv
<1>7. empty \in CellStates
  BY <1>5, <1>6 DEF CellStates
<1>8. /\ cells' = [k \in Cells |-> IF k < n THEN Construct(empty, k, new[k + 1])[k] ELSE empty[k]]
      /\ length' = n
  <2>1. (IF Len(new) > MaximumElements THEN MaximumElements ELSE Len(new)) = n
        /\ n # MaximumElements
    BY <1>1, <1>2
  <2>2. QED
    BY <1>3, <2>1 DEF Assign
<1>9. ASSUME NEW k \in Cells PROVE cells'[k] = IF k < n THEN new[k + 1] ELSE Dead
  <2>1. CASE k < n
    <3>1. new[k + 1] \in Objects
      BY <1>4, <2>1
    <3>2. Construct(empty, k, new[k + 1]) = [empty EXCEPT ![k] = new[k + 1]]
      BY <1>6, <1>7, <3>1, ConstructOverDead
    <3>3. Construct(empty, k, new[k + 1])[k] = new[k + 1]
      BY <1>7, <3>2 DEF CellStates
    <3>4. QED
      BY <1>8, <2>1, <3>3
  <2>2. CASE ~(k < n)
    BY <1>6, <1>8, <2>2
  <2>3. QED
    BY <2>1, <2>2
<1>10. VectorInv'
  <2>1. \A k \in Cells : k < n => new[k + 1] \in Objects
    BY <1>4
  <2>2. cells' \in CellStates
    <3>1. cells' = [k \in Cells |-> cells'[k]]
      BY <1>8
    <3>2. \A k \in Cells : cells'[k] \in Objects \cup {Dead}
      BY <1>9, <2>1
    <3>3. QED
      BY <3>1, <3>2 DEF CellStates
  <2>3. \A k \in Cells : cells'[k] = Dead <=> k >= n
    BY <1>1, <1>4, <1>9, <2>1, VectorAssumption
  <2>4. QED
    BY <1>1, <1>8, <2>2, <2>3 DEF VectorInv
<1>11. ASSUME NEW i \in 1..n PROVE cells'[i - 1] = new[i]
  <2>1. i - 1 \in Cells /\ i - 1 < n /\ i - 1 + 1 = i
    BY <1>1 DEF Cells
  <2>2. QED
    BY <1>9, <2>1
<1>12. VectorItems' = new
  BY <1>2, <1>8, <1>10, <1>11, ItemsBecome
<1>13. QED
  BY <1>10, <1>12 DEF Assign, Answer, VectorIsSequence!Replace, VectorIsSequence!Answers

LEMMA VectorStep ==
  ASSUME VectorInv, AssignMost < MaximumElements, VectorNext
  PROVE  VectorInv' /\ VectorIsSequence!SequenceNext
<1> USE DEF VectorIsSequence!SequenceNext
<1>1. MaximumElements \in Nat /\ AssignMost \in Nat
  BY VectorAssumption
<1>2. ASSUME NEW v \in Objects, PushBack(v)
      PROVE  VectorInv' /\ VectorIsSequence!SequenceNext
  BY <1>2, PushBackRefines
<1>3. ASSUME NEW it \in Indices, NEW v \in Objects, InsertTo(it, v)
      PROVE  VectorInv' /\ VectorIsSequence!SequenceNext
  <2>1. VectorInv' /\ VectorIsSequence!InsertTo(it, v)
    BY <1>3, InsertRefines
  <2>2. it \in 0..(MaximumElements + 1)
    BY DEF Indices
  <2>3. QED
    BY <2>1, <2>2
<1>4. ASSUME NEW it \in Indices, EraseAt(it)
      PROVE  VectorInv' /\ VectorIsSequence!SequenceNext
  <2>1. VectorInv' /\ VectorIsSequence!EraseAt(it)
    BY <1>4, EraseRefines
  <2>2. it \in 0..(MaximumElements + 1)
    BY DEF Indices
  <2>3. QED
    BY <2>1, <2>2
<1>5. ASSUME NEW first \in Iterators, NEW last \in Iterators, EraseRange(first, last)
      PROVE  VectorInv' /\ VectorIsSequence!SequenceNext
  <2>1. VectorInv' /\ VectorIsSequence!EraseRange(first, last)
    BY <1>5, EraseRangeRefines
  <2>2. first \in 0..(MaximumElements + 1) /\ last \in 0..(MaximumElements + 1)
    BY <1>1 DEF Iterators
  <2>3. QED
    BY <2>1, <2>2
<1>6. CASE Clear
  BY <1>6, ClearRefines
<1>7. CASE PopBack
  BY <1>7, PopBackRefines
<1>8. ASSUME NEW n \in 0..AssignMost, NEW new \in [1..n -> Objects], Assign(new)
      PROVE  VectorInv' /\ VectorIsSequence!SequenceNext
  <2>1. VectorInv' /\ VectorIsSequence!Replace(new)
    BY <1>8, AssignRefines
  <2>2. n \in 0..MaximumElements
    BY <1>1
  <2>3. QED
    BY <2>1, <2>2
<1>9. ASSUME NEW n \in 0..(MaximumElements + 1), Reduce(n)
      PROVE  VectorInv' /\ VectorIsSequence!SequenceNext
  BY <1>9, ReduceRefines
<1>10. QED
  BY <1>2, <1>3, <1>4, <1>5, <1>6, <1>7, <1>8, <1>9 DEF VectorNext

\* Through push, insert, erase, pop, assign, reduce and clear in any order the
\* vector is the sequence that the calls describe: no cell is ever constructed
\* over a live object, destroyed or read without one, as long as no range
\* given to assign fills the vector.
THEOREM VectorImplementsSequence ==
  AssignMost < MaximumElements => (Spec => VectorIsSequence!SequenceSpec)
<1> SUFFICES ASSUME AssignMost < MaximumElements
             PROVE  Spec => VectorIsSequence!SequenceSpec
  OBVIOUS
<1>1. Init => VectorInv /\ VectorItems = << >>
  <2> SUFFICES ASSUME Init PROVE VectorInv /\ VectorItems = << >>
    OBVIOUS
  <2>1. cells = [i \in Cells |-> Dead] /\ length = 0
    BY DEF Init, VectorInit
  <2>2. \A k \in Cells : k >= 0
    BY DEF Cells
  <2>3. VectorInv
    BY <2>1, <2>2, VectorAssumption DEF VectorInv, CellStates
  <2>4. ItemsSeq
    BY <2>3, ItemsAreSeq
  <2>5. QED
    BY <2>1, <2>3, <2>4, EmptySeq DEF ItemsSeq
<1>2. VectorInv /\ [Next]_vars =>
        VectorInv' /\ [VectorIsSequence!SequenceNext]_<<VectorItems, vcall>>
  <2> SUFFICES ASSUME VectorInv, [Next]_vars
               PROVE  VectorInv' /\ [VectorIsSequence!SequenceNext]_<<VectorItems, vcall>>
    OBVIOUS
  <2>1. CASE VectorNext
    BY <2>1, VectorStep
  <2>2. CASE UNCHANGED vectorVars
    BY <2>2 DEF vectorVars, VectorInv, VectorItems
  <2>3. QED
    BY <2>1, <2>2 DEF Next, vars
<1>3. QED
  BY <1>1, <1>2, PTL DEF Spec, VectorIsSequence!SequenceSpec

-----------------------------------------------------------------------------
(* The deque                                                               *)

\* The slot of the element at position i.
SlotAt(h, i) == IF h + i - 1 < SlotCount THEN h + i - 1 ELSE h + i - 1 - SlotCount

RingHolds == DequeTypeOK /\ ElementsSeq /\ RingShape

LEMMA RingKeeps == DequeTypeOK => RingHolds
BY SeqOfElements, ShapeOfRing DEF RingHolds

LEMMA FrontElements ==
  ASSUME DequeTypeOK, ~Full, NEW v \in Values, head' = Before(head),
         items' = [items EXCEPT ![Before(head)] = v], tail' = tail
  PROVE  DequeTypeOK' /\ Elements' = <<v>> \o Elements
<1>1. head \in Slots /\ tail \in Slots /\ items \in [Slots -> Values]
  BY DEF DequeTypeOK
<1>2. head' \in Slots /\ After(tail) # head
  BY <1>1, Neighbours DEF Full
<1>3. DequeTypeOK'
  BY <1>1, <1>2 DEF DequeTypeOK
<1>4. RingHolds /\ RingHolds'
  <2>1. RingHolds
    BY RingKeeps
  <2>2. RingHolds'
    BY <1>3, RingKeeps, PTL
  <2>3. QED
    BY <2>1, <2>2
<1>5. Size' = Size + 1 /\ Size \in Nat /\ Size < SlotCount - 1
  <2>1. Size < SlotCount - 1
    BY <1>4, EmptyAndFull, SlotCountAssumption DEF RingHolds, RingShape
  <2>2. head' = IF head = 0 THEN SlotCount - 1 ELSE head - 1
    BY <1>1, Neighbours
  <2>3. Size' = IF head' <= tail THEN tail - head' ELSE tail + SlotCount - head'
    BY <1>4 DEF RingHolds, RingShape
  <2>4. Size = IF head <= tail THEN tail - head ELSE tail + SlotCount - head
    BY <1>4 DEF RingHolds, RingShape
  <2>5. QED
    BY <1>1, <2>1, <2>2, <2>3, <2>4, SlotCountAssumption DEF Slots
<1>6. /\ Elements' \in Seq(Values) /\ Len(Elements') = Size + 1
      /\ \A i \in 1..(Size + 1) : Elements'[i] = items'[SlotAt(head', i)]
  BY <1>4, <1>5 DEF RingHolds, ElementsSeq, SlotAt
<1>7. /\ Elements \in Seq(Values) /\ Len(Elements) = Size
      /\ \A i \in 1..Size : Elements[i] = items[SlotAt(head, i)]
  BY <1>4 DEF RingHolds, ElementsSeq, SlotAt
<1>8. PICK one : one = <<v>>
  OBVIOUS
<1>9. PICK r : r = one \o Elements
  OBVIOUS
<1>10. /\ r \in Seq(Values) /\ Len(r) = Size + 1
       /\ \A i \in 1..(Size + 1) : r[i] = IF i <= 1 THEN v ELSE Elements[i - 1]
  <2>1. one \in Seq(Values) /\ Len(one) = 1 /\ one[1] = v
    BY <1>8
  <2>2. /\ one \o Elements \in Seq(Values)
        /\ Len(one \o Elements) = Len(one) + Len(Elements)
        /\ \A i \in 1..(Len(one) + Len(Elements)) : (one \o Elements)[i] =
             IF i <= Len(one) THEN one[i] ELSE Elements[i - Len(one)]
    BY <1>7, <2>1, ConcatProperties
  <2>3. Len(r) = Size + 1
    BY <1>5, <1>7, <1>9, <2>1, <2>2
  <2>4. ASSUME NEW i \in 1..(Size + 1) PROVE r[i] = IF i <= 1 THEN v ELSE Elements[i - 1]
    <3>1. i \in 1..(Len(one) + Len(Elements)) /\ i \in Nat /\ i >= 1
      BY <1>5, <1>7, <2>1
    <3>2. r[i] = IF i <= 1 THEN one[i] ELSE Elements[i - 1]
      BY <1>9, <2>1, <2>2, <3>1
    <3>3. i <= 1 => i = 1
      BY <3>1
    <3>4. QED
      BY <2>1, <3>2, <3>3
  <2>5. QED
    BY <1>9, <2>2, <2>3, <2>4
<1>11. ASSUME NEW i \in 1..(Size + 1) PROVE Elements'[i] = r[i]
  <2>1. head' = IF head = 0 THEN SlotCount - 1 ELSE head - 1
    BY <1>1, Neighbours
  <2>2. CASE i = 1
    <3>1. SlotAt(head', 1) = head'
      BY <1>1, <1>2, <2>1, SlotCountAssumption DEF SlotAt, Slots
    <3>2. items'[head'] = v
      BY <1>1, <1>2
    <3>3. QED
      BY <1>6, <1>10, <2>2, <3>1, <3>2
  <2>3. CASE i > 1
    <3>1. i - 1 \in 1..Size /\ ~(i <= 1)
      BY <1>5, <2>3
    <3>2. SlotAt(head', i) = SlotAt(head, i - 1)
      BY <1>1, <1>5, <2>1, <2>3, SlotCountAssumption DEF SlotAt, Slots
    <3>3. SlotAt(head', i) # head' /\ SlotAt(head', i) \in Slots
      BY <1>1, <1>5, <2>1, <2>3, SlotCountAssumption DEF SlotAt, Slots
    <3>4. items'[SlotAt(head', i)] = items[SlotAt(head', i)]
      BY <1>1, <1>2, <3>3
    <3>5. Elements[i - 1] = items[SlotAt(head, i - 1)]
      BY <1>7, <3>1
    <3>6. QED
      BY <1>6, <1>10, <3>1, <3>2, <3>4, <3>5
  <2>4. QED
    BY <1>5, <2>2, <2>3
<1>12. Elements' = r
  BY <1>6, <1>10, <1>11, SeqEqual
<1>13. QED
  BY <1>3, <1>8, <1>9, <1>12

LEMMA BackElements ==
  ASSUME DequeTypeOK, ~Empty, tail' = Before(tail), UNCHANGED <<items, head>>
  PROVE  /\ DequeTypeOK' /\ Elements # << >>
         /\ Elements[Len(Elements)] = items[Before(tail)]
         /\ Elements' = SubSeq(Elements, 1, Len(Elements) - 1)
<1>1. head \in Slots /\ tail \in Slots /\ items \in [Slots -> Values] /\ head # tail
  BY DEF DequeTypeOK, Empty
<1>2. DequeTypeOK'
  BY <1>1, Neighbours DEF DequeTypeOK
<1>3. RingHolds /\ RingHolds'
  <2>1. RingHolds
    BY RingKeeps
  <2>2. RingHolds'
    BY <1>2, RingKeeps, PTL
  <2>3. QED
    BY <2>1, <2>2
<1>4. tail' = IF tail = 0 THEN SlotCount - 1 ELSE tail - 1
  BY <1>1, Neighbours
<1>5. Size = IF head <= tail THEN tail - head ELSE tail + SlotCount - head
  BY <1>3 DEF RingHolds, RingShape
<1>6. Size \in 1..(SlotCount - 1) /\ Size' = Size - 1
  <2>1. Size' = IF head <= tail' THEN tail' - head ELSE tail' + SlotCount - head
    BY <1>3 DEF RingHolds, RingShape
  <2>2. QED
    BY <1>1, <1>4, <1>5, <2>1, SlotCountAssumption DEF Slots
<1>7. /\ Elements \in Seq(Values) /\ Len(Elements) = Size
      /\ \A i \in 1..Size : Elements[i] = items[SlotAt(head, i)]
  BY <1>3 DEF RingHolds, ElementsSeq, SlotAt
<1>8. /\ Elements' \in Seq(Values) /\ Len(Elements') = Size - 1
      /\ \A i \in 1..(Size - 1) : Elements'[i] = items[SlotAt(head, i)]
  BY <1>3, <1>6 DEF RingHolds, ElementsSeq, SlotAt
<1>9. Elements # << >>
  BY <1>6, <1>7, EmptySeq
<1>10. Elements[Size] = items[Before(tail)]
  <2>1. SlotAt(head, Size) = Before(tail)
    BY <1>1, <1>4, <1>5, <1>6, SlotCountAssumption DEF SlotAt, Slots
  <2>2. QED
    BY <1>6, <1>7, <2>1
<1>11. PICK r : r = SubSeq(Elements, 1, Size - 1)
  OBVIOUS
<1>12. r \in Seq(Values) /\ Len(r) = Size - 1 /\ \A i \in 1..(Size - 1) : r[i] = Elements[i]
  <2>1. \A i \in 1..(Size - 1) : Elements[i] \in Values
    BY <1>6, <1>7, ElementOfSeq
  <2>2. 1 \in Int /\ Size - 1 \in Int
    BY <1>6
  <2>3. /\ r \in Seq(Values) /\ Len(r) = IF 1 <= Size - 1 THEN Size - 1 - 1 + 1 ELSE 0
        /\ \A i \in 1..(Size - 1 - 1 + 1) : r[i] = Elements[1 + i - 1]
    BY <1>11, <2>1, <2>2, SubSeqProperties
  <2>4. Len(r) = Size - 1
    BY <1>6, <2>3
  <2>5. ASSUME NEW i \in 1..(Size - 1) PROVE r[i] = Elements[i]
    <3>1. i \in 1..(Size - 1 - 1 + 1) /\ 1 + i - 1 = i
      BY <1>6
    <3>2. QED
      BY <2>3, <3>1
  <2>6. QED
    BY <2>3, <2>4, <2>5
<1>13. ASSUME NEW i \in 1..(Size - 1) PROVE Elements'[i] = r[i]
  <2>1. i \in 1..Size
    BY <1>6
  <2>2. QED
    BY <1>7, <1>8, <1>12, <2>1
<1>14. Elements' = r
  BY <1>8, <1>12, <1>13, SeqEqual
<1>15. QED
  BY <1>2, <1>7, <1>9, <1>10, <1>11, <1>14

\* The deque is empty, or full, when the sequence of its elements is.
LEMMA RingRoom ==
  ASSUME DequeTypeOK
  PROVE  /\ Elements \in Seq(Values)
         /\ Empty <=> Elements = << >>
         /\ Full <=> ~RingIsSequence!HasRoom
<1>1. RingHolds
  BY RingKeeps
<1>2. Len(Elements) = Size /\ Elements \in Seq(Values) /\ Size \in 0..(SlotCount - 1)
  BY <1>1 DEF RingHolds, ElementsSeq, RingShape
<1>3. Elements = << >> <=> Size = 0
  BY <1>2, EmptySeq DEF Elements
<1>4. Full <=> ~(Len(Elements) < SlotCount - 1)
  BY <1>2, EmptyAndFull, SlotCountAssumption
<1>5. QED
  BY <1>2, <1>3, <1>4, EmptyAndFull DEF RingIsSequence!HasRoom

EmptyAsSequence == Empty <=> Elements = << >>

LEMMA EmptyRing == DequeTypeOK => EmptyAsSequence
BY RingRoom DEF EmptyAsSequence

LEMMA RingPushRefines ==
  ASSUME DequeTypeOK, NEW v \in Values, RingPushBack(v)
  PROVE  DequeTypeOK' /\ RingIsSequence!PushBack(v)
<1>1. EmplaceBack(v) /\ dcall' = [name |-> "push_back", arguments |-> <<v>>, answer |-> ~Full]
  BY DEF RingPushBack, RingAnswer
<1>2. /\ DequeTypeOK'
      /\ Full => UNCHANGED Elements
      /\ ~Full => Elements' = Append(Elements, v)
  BY <1>1, PushElements
<1>3. Full <=> ~RingIsSequence!HasRoom
  BY RingRoom
<1>4. (~Full) = RingIsSequence!HasRoom
  BY <1>3 DEF Full, RingIsSequence!HasRoom
<1>5. QED
  BY <1>1, <1>2, <1>3, <1>4 DEF RingIsSequence!PushBack, RingIsSequence!Answers

LEMMA RingFrontRefines ==
  ASSUME DequeTypeOK, NEW v \in Values, EmplaceFront(v)
  PROVE  DequeTypeOK' /\ RingIsSequence!PushFront(v)
<1>1. dcall' = [name |-> "push_front", arguments |-> <<v>>, answer |-> ~Full] /\ tail' = tail
  BY DEF EmplaceFront, RingAnswer
<1>2. Full <=> ~RingIsSequence!HasRoom
  BY RingRoom
<1>3. (~Full) = RingIsSequence!HasRoom
  BY <1>2 DEF Full, RingIsSequence!HasRoom
<1>4. RingIsSequence!Answers("push_front", <<v>>, RingIsSequence!HasRoom)
  BY <1>1, <1>3 DEF RingIsSequence!Answers
<1>5. CASE Full
  <2>1. UNCHANGED <<items, head, tail>>
    BY <1>1, <1>5 DEF EmplaceFront
  <2>2. DequeTypeOK' /\ Elements' = Elements
    BY <2>1 DEF DequeTypeOK, Elements, Size
  <2>3. QED
    BY <1>2, <1>4, <1>5, <2>2 DEF RingIsSequence!PushFront
<1>6. CASE ~Full
  <2>1. DequeTypeOK' /\ Elements' = <<v>> \o Elements
    BY <1>1, <1>6, FrontElements DEF EmplaceFront
  <2>2. QED
    BY <1>2, <1>4, <1>6, <2>1 DEF RingIsSequence!PushFront
<1>7. QED
  BY <1>5, <1>6

LEMMA RingPopRefines ==
  ASSUME DequeTypeOK, PopFront
  PROVE  DequeTypeOK' /\ RingIsSequence!TakeFront
<1>1. /\ dcall' = [name |-> "pop_front", arguments |-> << >>,
                   answer |-> IF Empty THEN NoValue ELSE items[head]]
      /\ UNCHANGED <<items, tail>>
  BY DEF PopFront, RingAnswer
<1>2. Empty <=> Elements = << >>
  BY RingRoom
<1>3. CASE Empty
  <2>1. head' = head
    BY <1>3 DEF PopFront
  <2>2. DequeTypeOK' /\ Elements' = Elements
    BY <1>1, <2>1 DEF DequeTypeOK, Elements, Size
  <2>3. QED
    BY <1>1, <1>2, <1>3, <2>2 DEF RingIsSequence!TakeFront, RingIsSequence!Answers
<1>4. CASE ~Empty
  <2>1. head' = After(head) /\ head # tail
    BY <1>4 DEF PopFront, Empty
  <2>2. /\ DequeTypeOK' /\ Head(Elements) = items[head] /\ Elements' = Tail(Elements)
    BY <1>1, <2>1, PopElements
  <2>3. QED
    BY <1>1, <1>2, <1>4, <2>2 DEF RingIsSequence!TakeFront, RingIsSequence!Answers
<1>5. QED
  BY <1>3, <1>4

LEMMA RingTakeBackRefines ==
  ASSUME DequeTypeOK, PopLast
  PROVE  DequeTypeOK' /\ RingIsSequence!TakeBack
<1>1. /\ dcall' = [name |-> "take_back", arguments |-> << >>,
                   answer |-> IF Empty THEN NoValue ELSE items[Before(tail)]]
      /\ UNCHANGED <<items, head>>
  BY DEF PopLast, RingAnswer
<1>2. Empty <=> Elements = << >>
  BY RingRoom
<1>3. CASE Empty
  <2>1. tail' = tail
    BY <1>3 DEF PopLast
  <2>2. DequeTypeOK' /\ Elements' = Elements
    BY <1>1, <2>1 DEF DequeTypeOK, Elements, Size
  <2>3. QED
    BY <1>1, <1>2, <1>3, <2>2 DEF RingIsSequence!TakeBack, RingIsSequence!Answers
<1>4. CASE ~Empty
  <2>1. tail' = Before(tail)
    BY <1>4 DEF PopLast
  <2>2. /\ DequeTypeOK'
        /\ Elements[Len(Elements)] = items[Before(tail)]
        /\ Elements' = SubSeq(Elements, 1, Len(Elements) - 1)
    BY <1>1, <1>4, <2>1, BackElements
  <2>3. QED
    BY <1>1, <1>2, <1>4, <2>2 DEF RingIsSequence!TakeBack, RingIsSequence!Answers
<1>5. QED
  BY <1>3, <1>4

LEMMA RingClearRefines ==
  ASSUME DequeTypeOK, ClearRing
  PROVE  DequeTypeOK' /\ RingIsSequence!Empty
<1>1. DequeTypeOK'
  BY DEF ClearRing, DequeTypeOK
<1>2. Empty' <=> Elements' = << >>
  <2>1. EmptyAsSequence'
    BY <1>1, EmptyRing, PTL
  <2>2. QED
    BY <2>1 DEF EmptyAsSequence
<1>3. Empty'
  BY DEF ClearRing, Empty
<1>4. QED
  BY <1>1, <1>2, <1>3 DEF ClearRing, RingAnswer, RingIsSequence!Empty, RingIsSequence!Answers

LEMMA RingStep ==
  ASSUME DequeTypeOK, RingNext
  PROVE  DequeTypeOK' /\ RingIsSequence!SequenceNext
<1> USE DEF RingIsSequence!SequenceNext
<1>1. ASSUME NEW v \in Values, RingPushBack(v)
      PROVE  DequeTypeOK' /\ RingIsSequence!SequenceNext
  BY <1>1, RingPushRefines
<1>2. ASSUME NEW v \in Values, EmplaceFront(v)
      PROVE  DequeTypeOK' /\ RingIsSequence!SequenceNext
  BY <1>2, RingFrontRefines
<1>3. CASE PopFront
  BY <1>3, RingPopRefines
<1>4. CASE PopLast
  BY <1>4, RingTakeBackRefines
<1>5. CASE ClearRing
  BY <1>5, RingClearRefines
<1>6. QED
  BY <1>1, <1>2, <1>3, <1>4, <1>5 DEF RingNext

\* The deque is the sequence of values that its calls describe, for every
\* number of slots: it refuses exactly what does not fit, and what is taken
\* from either end is what is there in the sequence.
THEOREM RingImplementsSequence == Spec => RingIsSequence!SequenceSpec
<1>1. Init => DequeTypeOK /\ Elements = << >>
  <2> SUFFICES ASSUME Init PROVE DequeTypeOK /\ Elements = << >>
    OBVIOUS
  <2>1. PICK v \in Values : DequeInit(v)
    BY DEF Init, RingInit
  <2>2. DequeTypeOK
    BY <2>1, SlotCountAssumption DEF DequeInit, DequeTypeOK, Slots
  <2>3. Empty
    BY <2>1 DEF DequeInit, Empty
  <2>4. QED
    BY <2>2, <2>3, RingRoom
<1>2. DequeTypeOK /\ [Next]_vars =>
        DequeTypeOK' /\ [RingIsSequence!SequenceNext]_<<Elements, dcall>>
  <2> SUFFICES ASSUME DequeTypeOK, [Next]_vars
               PROVE  DequeTypeOK' /\ [RingIsSequence!SequenceNext]_<<Elements, dcall>>
    OBVIOUS
  <2>1. CASE RingNext
    BY <2>1, RingStep
  <2>2. CASE UNCHANGED ringVars
    BY <2>2, SameRing DEF ringVars, dequeVars
  <2>3. QED
    BY <2>1, <2>2 DEF Next, vars
<1>3. QED
  BY <1>1, <1>2, PTL DEF Spec, RingIsSequence!SequenceSpec

\* Both containers together, as the run checks them.
THEOREM ContainersImplementSequences ==
  AssignMost < MaximumElements => (Spec => ContainersAreSequences)
BY VectorImplementsSequence, RingImplementsSequence DEF ContainersAreSequences

-----------------------------------------------------------------------------
(* The bitset                                                              *)

LEMMA DivisionIs ==
  ASSUME NEW d \in Nat \ {0}, NEW n \in Nat
  PROVE  \E q \in Nat, r \in 0..(d - 1) : q = n \div d /\ r = n % d /\ n = q * d + r
<1>1. PICK q \in Nat : q = n \div d
  OBVIOUS
<1>2. PICK r \in 0..(d - 1) : r = n % d
  OBVIOUS
<1>3. n = d * q + r
  BY <1>1, <1>2, SMTT(60)
<1>4. n = q * d + r
  BY <1>3
<1>5. WITNESS q \in Nat, r \in 0..(d - 1)
<1>6. QED
  BY <1>1, <1>2, <1>4

LEMMA ProductsOrdered ==
  ASSUME NEW d \in Nat \ {0}, NEW k \in Nat, NEW j \in Nat
  PROVE  /\ k < j => k * d + d <= j * d
         /\ k * d \in Nat
<1>1. k * d \in Nat /\ j * d \in Nat
  OBVIOUS
<1>2. ASSUME k < j PROVE k * d + d <= j * d
  <2>1. PICK m \in Nat : j = k + 1 + m
    BY <1>2, j - k - 1 \in Nat
  <2>2. (k + 1 + m) * d = k * d + d + m * d
    OBVIOUS
  <2>3. m * d \in Nat
    OBVIOUS
  <2>4. QED
    BY <1>1, <2>1, <2>2, <2>3
<1>3. QED
  BY <1>1, <1>2

LEMMA PlaceOfPosition ==
  ASSUME NEW d \in Nat \ {0}, NEW k \in Nat, NEW w \in 0..(d - 1)
  PROVE  (k * d + w) \div d = k /\ (k * d + w) % d = w
<1>1. k * d + w \in Nat
  BY ProductsOrdered
<1>2. PICK q \in Nat, r \in 0..(d - 1) :
        q = (k * d + w) \div d /\ r = (k * d + w) % d /\ k * d + w = q * d + r
  BY <1>1, DivisionIs
<1>5. k * d \in Nat /\ q * d \in Nat
  BY ProductsOrdered
<1>6. ~(k < q)
  <2>1. k < q => k * d + d <= q * d
    BY ProductsOrdered
  <2>2. QED
    BY <1>2, <1>5, <2>1
<1>7. ~(q < k)
  <2>1. q < k => q * d + d <= k * d
    BY ProductsOrdered
  <2>2. QED
    BY <1>2, <1>5, <2>1
<1>8. q = k
  BY <1>6, <1>7
<1>9. r = w
  BY <1>2, <1>5, <1>8
<1>10. QED
  BY <1>2, <1>8, <1>9

LEMMA LeastOf ==
  ASSUME NEW T, T \subseteq Nat, T # {}
  PROVE  Min(T) \in T /\ \A y \in T : Min(T) <= y
<1>1. \E x \in T : \A y \in T : x <= y
  BY LeastNumber
<1>2. QED
  BY <1>1 DEF Min

LEMMA OnlyLeast ==
  ASSUME NEW T, T \subseteq Nat, NEW x \in T, \A y \in T : x <= y
  PROVE  Min(T) = x
<1>1. Min(T) \in T /\ Min(T) <= x
  BY LeastOf
<1>2. x <= Min(T) /\ x \in Nat /\ Min(T) \in Nat
  BY <1>1
<1>3. QED
  BY <1>1, <1>2

Bitsets == [Buckets -> SUBSET Word]

\* The positions of the ones of b, of which none lies in the padding.
Bits(b) == {p \in Positions : TestBit(b, p)}

Padded(b) == b \in Bitsets /\ \A k \in Buckets : \A w \in b[k] : k * DataBits + w < BitsCount

\* Bucket k and place w within it are those of position p.
IsPlace(p, k, w) ==
  /\ k \in Buckets /\ w \in Word
  /\ k = p \div DataBits /\ w = p % DataBits
  /\ p = k * DataBits + w

LEMMA BucketsSuffice ==
  /\ BucketCount \in Nat
  /\ BucketCount * DataBits \in Nat /\ BitsCount <= BucketCount * DataBits
<1>1. DataBits \in Nat \ {0} /\ BitsCount \in Nat /\ BitsCount + DataBits - 1 \in Nat
  BY BitsetAssumption
<1>2. PICK q \in Nat, r \in 0..(DataBits - 1) :
        /\ q = (BitsCount + DataBits - 1) \div DataBits
        /\ BitsCount + DataBits - 1 = q * DataBits + r
  BY <1>1, DivisionIs
<1>3. q * DataBits \in Nat
  BY <1>1, ProductsOrdered
<1>4. BitsCount <= q * DataBits
  BY <1>1, <1>2, <1>3
<1>5. BucketCount = q
  BY <1>2 DEF BucketCount
<1>6. QED
  BY <1>3, <1>4, <1>5

LEMMA PlaceIs ==
  ASSUME NEW p \in Positions
  PROVE  \E k \in Buckets, w \in Word : IsPlace(p, k, w)
<1>1. DataBits \in Nat \ {0} /\ BitsCount \in Nat /\ p \in Nat /\ p < BitsCount
  BY BitsetAssumption DEF Positions
<1>2. PICK k \in Nat, w \in 0..(DataBits - 1) :
        k = p \div DataBits /\ w = p % DataBits /\ p = k * DataBits + w
  BY <1>1, DivisionIs
<1>3. k < BucketCount
  <2>1. PICK n : n = BucketCount
    OBVIOUS
  <2>2. n \in Nat /\ n * DataBits \in Nat /\ BitsCount <= n * DataBits
    BY <2>1, BucketsSuffice
  <2>3. k * DataBits \in Nat
    BY <1>1, ProductsOrdered
  <2>4. CASE k < n
    BY <2>1, <2>4
  <2>5. CASE n < k
    <3>1. n * DataBits + DataBits <= k * DataBits
      BY <1>1, <2>2, <2>5, ProductsOrdered
    <3>2. QED
      BY <1>1, <1>2, <2>2, <2>3, <3>1
  <2>6. CASE n = k
    BY <1>1, <1>2, <2>2, <2>3, <2>6
  <2>7. QED
    BY <2>2, <2>4, <2>5, <2>6
<1>4. k \in Buckets /\ w \in Word
  BY <1>3, BucketsSuffice DEF Buckets, Word
<1>5. IsPlace(p, k, w)
  BY <1>2, <1>4 DEF IsPlace
<1>6. QED
  BY <1>4, <1>5

LEMMA PlaceBack ==
  ASSUME NEW k \in Buckets, NEW w \in Word
  PROVE  /\ k * DataBits + w \in Nat
         /\ IsPlace(k * DataBits + w, k, w)
<1>1. DataBits \in Nat \ {0} /\ k \in Nat /\ w \in 0..(DataBits - 1)
  BY BitsetAssumption DEF Buckets, Word
<1>2. k * DataBits \in Nat
  BY <1>1, ProductsOrdered
<1>3. PICK p : p = k * DataBits + w
  OBVIOUS
<1>4. p \div DataBits = k /\ p % DataBits = w
  BY <1>1, <1>3, PlaceOfPosition
<1>5. IsPlace(p, k, w)
  BY <1>3, <1>4 DEF IsPlace
<1>6. QED
  BY <1>1, <1>2, <1>3, <1>5

LEMMA TestAtPlace ==
  ASSUME NEW b, NEW p \in Positions, NEW k, NEW w, IsPlace(p, k, w)
  PROVE  TestBit(b, p) <=> w \in b[k]
<1>1. p < BitsCount
  BY BitsetAssumption DEF Positions
<1>2. QED
  BY <1>1 DEF TestBit, IsPlace

\* A bit is set, or cleared, without touching another.
LEMMA SetBitIs ==
  ASSUME NEW b, Padded(b), NEW pos \in Positions
  PROVE  /\ Padded(SetBit(b, pos))
         /\ \A q \in Positions : TestBit(SetBit(b, pos), q) <=> q = pos \/ TestBit(b, q)
<1>1. PICK k \in Buckets, w \in Word : IsPlace(pos, k, w)
  BY PlaceIs
<1>2. PICK c : c = SetBit(b, pos)
  OBVIOUS
<1>3. c = [b EXCEPT ![k] = @ \cup {w}] /\ b \in Bitsets
  <2>1. ~(BitsCount <= pos)
    BY BitsetAssumption DEF Positions
  <2>2. QED
    BY <1>1, <1>2, <2>1 DEF SetBit, IsPlace, Padded
<1>4. \A j \in Buckets : c[j] = IF j = k THEN b[k] \cup {w} ELSE b[j]
  BY <1>3 DEF Bitsets
<1>5. c \in Bitsets
  BY <1>3 DEF Bitsets
<1>6. k * DataBits + w < BitsCount
  BY <1>1, BitsetAssumption DEF IsPlace, Positions
<1>7. Padded(c)
  BY <1>4, <1>5, <1>6 DEF Padded
<1>8. ASSUME NEW q \in Positions PROVE TestBit(c, q) <=> q = pos \/ TestBit(b, q)
  <2>1. PICK j \in Buckets, v \in Word : IsPlace(q, j, v)
    BY PlaceIs
  <2>2. TestBit(c, q) <=> v \in c[j]
    BY <2>1, TestAtPlace
  <2>3. TestBit(b, q) <=> v \in b[j]
    BY <2>1, TestAtPlace
  <2>4. q = pos <=> j = k /\ v = w
    BY <1>1, <2>1 DEF IsPlace
  <2>5. QED
    BY <1>4, <2>2, <2>3, <2>4
<1>9. QED
  BY <1>2, <1>7, <1>8

LEMMA ClearBitIs ==
  ASSUME NEW b, Padded(b), NEW pos \in Positions
  PROVE  /\ Padded(ClearBit(b, pos))
         /\ \A q \in Positions : TestBit(ClearBit(b, pos), q) <=> q # pos /\ TestBit(b, q)
<1>1. PICK k \in Buckets, w \in Word : IsPlace(pos, k, w)
  BY PlaceIs
<1>2. PICK c : c = ClearBit(b, pos)
  OBVIOUS
<1>3. c = [b EXCEPT ![k] = @ \ {w}] /\ b \in Bitsets
  <2>1. ~(BitsCount <= pos)
    BY BitsetAssumption DEF Positions
  <2>2. QED
    BY <1>1, <1>2, <2>1 DEF ClearBit, IsPlace, Padded
<1>4. \A j \in Buckets : c[j] = IF j = k THEN b[k] \ {w} ELSE b[j]
  BY <1>3 DEF Bitsets
<1>5. c \in Bitsets
  BY <1>3 DEF Bitsets
<1>6. Padded(c)
  BY <1>4, <1>5 DEF Padded
<1>7. ASSUME NEW q \in Positions PROVE TestBit(c, q) <=> q # pos /\ TestBit(b, q)
  <2>1. PICK j \in Buckets, v \in Word : IsPlace(q, j, v)
    BY PlaceIs
  <2>2. TestBit(c, q) <=> v \in c[j]
    BY <2>1, TestAtPlace
  <2>3. TestBit(b, q) <=> v \in b[j]
    BY <2>1, TestAtPlace
  <2>4. q = pos <=> j = k /\ v = w
    BY <1>1, <2>1 DEF IsPlace
  <2>5. QED
    BY <1>4, <2>2, <2>3, <2>4
<1>8. QED
  BY <1>2, <1>6, <1>7

\* The search goes bucket by bucket and ends at the least position.
LEMMA FirstPositionIs ==
  ASSUME NEW b \in Bitsets
  PROVE  /\ Bits(b) = {} => FirstPosition(b) = BitsCount
         /\ Bits(b) # {} => FirstPosition(b) = Min(Bits(b))
<1> DEFINE found == {k \in Buckets : b[k] # {} /\ k * DataBits + Min(b[k]) < BitsCount}
<1>1. FirstPosition(b) = IF found = {} THEN BitsCount
                         ELSE Min(found) * DataBits + Min(b[Min(found)])
  BY DEF FirstPosition
<1>2. DataBits \in Nat \ {0} /\ BitsCount \in Nat
  BY BitsetAssumption
<1>3. ASSUME NEW k \in Buckets, b[k] # {}
      PROVE  Min(b[k]) \in b[k] /\ Min(b[k]) \in Word /\ \A v \in b[k] : Min(b[k]) <= v
  <2>1. b[k] \subseteq Nat /\ b[k] \subseteq Word
    BY DEF Bitsets, Word
  <2>2. QED
    BY <1>3, <2>1, LeastOf
<1>4. ASSUME NEW p \in Positions, NEW k \in Buckets, NEW w \in Word, IsPlace(p, k, w), w \in b[k]
      PROVE  k \in found /\ k * DataBits + Min(b[k]) <= p
  <2>1. Min(b[k]) <= w /\ Min(b[k]) \in Nat /\ w \in Nat /\ k \in Nat
    BY <1>3, <1>4 DEF Word, Buckets
  <2>2. k * DataBits \in Nat
    BY <1>2, <2>1, ProductsOrdered
  <2>3. p = k * DataBits + w /\ p < BitsCount
    BY <1>2, <1>4 DEF IsPlace, Positions
  <2>4. k * DataBits + Min(b[k]) < BitsCount
    BY <1>2, <2>1, <2>2, <2>3
  <2>5. QED
    BY <1>4, <2>1, <2>2, <2>3, <2>4
<1>5. ASSUME NEW k \in found
      PROVE  k * DataBits + Min(b[k]) \in Bits(b)
  <2>1. k \in Buckets /\ Min(b[k]) \in b[k] /\ Min(b[k]) \in Word
    BY <1>3
  <2>2. PICK p : p = k * DataBits + Min(b[k])
    OBVIOUS
  <2>3. p \in Nat /\ IsPlace(p, k, Min(b[k]))
    BY <2>1, <2>2, PlaceBack
  <2>4. p \in Positions
    BY <1>2, <2>2, <2>3 DEF Positions
  <2>5. TestBit(b, p)
    BY <2>1, <2>3, <2>4, TestAtPlace
  <2>6. QED
    BY <2>2, <2>4, <2>5 DEF Bits
<1>6. found = {} <=> Bits(b) = {}
  <2>1. ASSUME NEW p \in Bits(b) PROVE found # {}
    <3>1. p \in Positions /\ TestBit(b, p)
      BY DEF Bits
    <3>2. PICK k \in Buckets, w \in Word : IsPlace(p, k, w)
      BY <3>1, PlaceIs
    <3>3. w \in b[k]
      BY <3>1, <3>2, TestAtPlace
    <3>4. QED
      BY <1>4, <3>1, <3>2, <3>3
  <2>2. QED
    BY <1>5, <2>1
<1>7. ASSUME Bits(b) # {} PROVE FirstPosition(b) = Min(Bits(b))
  <2>1. found # {} /\ found \subseteq Nat
    BY <1>6, <1>7 DEF Buckets
  <2> HIDE DEF found
  <2>2. PICK k : k = Min(found)
    OBVIOUS
  <2>3. k \in found /\ \A j \in found : k <= j
    BY <2>1, <2>2, LeastOf
  <2>4. PICK f : f = k * DataBits + Min(b[k])
    OBVIOUS
  <2>5. f \in Bits(b)
    BY <1>5, <2>3, <2>4
  <2>6. ASSUME NEW p \in Bits(b) PROVE f <= p
    <3>1. p \in Positions /\ TestBit(b, p) /\ p \in Nat
      BY DEF Bits, Positions
    <3>2. PICK j \in Buckets, w \in Word : IsPlace(p, j, w)
      BY <3>1, PlaceIs
    <3>3. w \in b[j]
      BY <3>1, <3>2, TestAtPlace
    <3>4. j \in found /\ j * DataBits + Min(b[j]) <= p
      BY <1>4, <3>1, <3>2, <3>3
    <3>5. CASE j = k
      BY <2>4, <3>4, <3>5
    <3>6. CASE k < j
      <4>1. k \in Nat /\ j \in Nat
        BY <2>1, <2>3, <3>4
      <4>2. k * DataBits + DataBits <= j * DataBits /\ k * DataBits \in Nat
            /\ j * DataBits \in Nat
        BY <1>2, <3>6, <4>1, ProductsOrdered
      <4>3. Min(b[k]) \in Word
        BY <1>3, <2>3 DEF found
      <4>4. p = j * DataBits + w /\ w \in Nat
        BY <3>2 DEF IsPlace, Word
      <4>5. QED
        BY <1>2, <2>4, <3>1, <4>2, <4>3, <4>4 DEF Word
    <3>7. QED
      BY <2>1, <2>3, <3>4, <3>5, <3>6
  <2>7. Bits(b) \subseteq Nat
    BY DEF Bits, Positions
  <2>8. Min(Bits(b)) = f
    BY <2>5, <2>6, <2>7, OnlyLeast
  <2>9. QED
    BY <1>1, <2>1, <2>2, <2>4, <2>8
<1>8. QED
  BY <1>1, <1>6, <1>7

\* The positions of the ones in the first k buckets.
Below(b, k) == {p \in Bits(b) : p < k * DataBits}

\* The ones of bucket k, at their positions in the bitset.
OnesOf(b, k) == {k * DataBits + w : w \in b[k]}

LEMMA FiniteBits ==
  ASSUME NEW b
  PROVE  /\ IsFiniteSet(Positions) /\ IsFiniteSet(Bits(b))
         /\ \A k : IsFiniteSet(Below(b, k))
<1>1. IsFiniteSet(0..(BitsCount - 1))
  BY BitsetAssumption, FS_Interval
<1>2. IsFiniteSet(Positions)
  BY <1>1 DEF Positions
<1>3. Bits(b) \in SUBSET Positions /\ \A k : Below(b, k) \in SUBSET Positions
  BY DEF Bits, Below
<1>4. QED
  BY <1>2, <1>3, FS_Subset

LEMMA OnesOfCount ==
  ASSUME NEW b \in Bitsets, NEW k \in Buckets
  PROVE  IsFiniteSet(OnesOf(b, k)) /\ Cardinality(OnesOf(b, k)) = Cardinality(b[k])
<1> DEFINE f == [w \in b[k] |-> k * DataBits + w]
<1>1. IsFiniteSet(0..(DataBits - 1))
  BY BitsetAssumption, FS_Interval
<1>2. b[k] \in SUBSET (0..(DataBits - 1))
  BY DEF Bitsets, Word
<1>3. IsFiniteSet(b[k])
  BY <1>1, <1>2, FS_Subset
<1>4. k \in Nat /\ DataBits \in Nat /\ k * DataBits \in Nat
  BY BitsetAssumption, ProductsOrdered DEF Buckets
<1>5. \A v, w \in b[k] : k * DataBits + v = k * DataBits + w => v = w
  BY <1>2, <1>4
<1>6. f \in Surjection(b[k], OnesOf(b, k))
  BY DEF Surjection, OnesOf
<1>7. f \in Injection(b[k], OnesOf(b, k))
  <2>1. f \in [b[k] -> OnesOf(b, k)]
    BY DEF OnesOf
  <2>2. \A v, w \in b[k] : f[v] = f[w] => v = w
    BY <1>5
  <2> HIDE DEF f
  <2>3. QED
    BY <2>1, <2>2 DEF Injection, IsInjective
<1> HIDE DEF f
<1>8. QED
  BY <1>3, <1>6, <1>7, FS_Surjection

LEMMA BelowNext ==
  ASSUME NEW b, Padded(b), NEW k \in Buckets
  PROVE  /\ Below(b, k + 1) = Below(b, k) \cup OnesOf(b, k)
         /\ Below(b, k) \cap OnesOf(b, k) = {}
<1>1. DataBits \in Nat \ {0} /\ BitsCount \in Nat /\ k \in Nat /\ b \in Bitsets
  BY BitsetAssumption DEF Buckets, Padded
<1>2. k * DataBits \in Nat /\ (k + 1) * DataBits = k * DataBits + DataBits
  BY <1>1, ProductsOrdered
<1>3. ASSUME NEW p \in Below(b, k + 1), p \notin Below(b, k)
      PROVE  p \in OnesOf(b, k)
  <2>1. p \in Positions /\ TestBit(b, p) /\ p \in Nat /\ p < (k + 1) * DataBits
        /\ ~(p < k * DataBits)
    BY <1>3 DEF Below, Bits, Positions
  <2>2. PICK j \in Buckets, w \in Word : IsPlace(p, j, w)
    BY <2>1, PlaceIs
  <2>3. w \in b[j]
    BY <2>1, <2>2, TestAtPlace
  <2>4. j \in Nat /\ w \in Nat /\ w < DataBits /\ p = j * DataBits + w
    BY <1>1, <2>2 DEF IsPlace, Buckets, Word
  <2>5. j * DataBits \in Nat
    BY <1>1, <2>4, ProductsOrdered
  <2>6. ~(j < k)
    <3>1. j < k => j * DataBits + DataBits <= k * DataBits
      BY <1>1, <2>4, ProductsOrdered
    <3>2. QED
      BY <1>1, <1>2, <2>1, <2>4, <2>5, <3>1
  <2>7. ~(k < j)
    <3>1. k < j => k * DataBits + DataBits <= j * DataBits
      BY <1>1, <2>4, ProductsOrdered
    <3>2. QED
      BY <1>1, <1>2, <2>1, <2>4, <2>5, <3>1
  <2>8. j = k
    BY <1>1, <2>4, <2>6, <2>7
  <2>9. QED
    BY <2>3, <2>4, <2>8 DEF OnesOf
<1>4. Below(b, k) \subseteq Below(b, k + 1)
  BY <1>1, <1>2 DEF Below, Bits, Positions
<1>5. ASSUME NEW p \in OnesOf(b, k)
      PROVE  p \in Below(b, k + 1) /\ p \notin Below(b, k)
  <2>1. PICK w \in b[k] : p = k * DataBits + w
    BY DEF OnesOf
  <2>2. w \in Word /\ w \in Nat /\ w < DataBits
    BY <1>1 DEF Bitsets, Word
  <2>3. IsPlace(p, k, w) /\ p \in Nat
    BY <2>1, <2>2, PlaceBack
  <2>4. p < BitsCount
    BY <2>1 DEF Padded
  <2>5. p \in Positions
    BY <1>1, <2>3, <2>4 DEF Positions
  <2>6. TestBit(b, p)
    BY <2>3, <2>5, TestAtPlace
  <2>7. p < (k + 1) * DataBits /\ ~(p < k * DataBits)
    BY <1>1, <1>2, <2>1, <2>2
  <2>8. QED
    BY <2>5, <2>6, <2>7 DEF Below, Bits
<1>6. QED
  BY <1>3, <1>4, <1>5

\* popcount, which adds up the words, is the number of the ones.
LEMMA PopcountIs ==
  ASSUME NEW b, Padded(b)
  PROVE  Popcount(b) = Cardinality(Bits(b))
<1> DEFINE IsCount(f) == f = [k \in 0..BucketCount |->
              IF k = 0 THEN 0 ELSE f[k - 1] + Cardinality(b[k - 1])]
           count == CHOOSE f : IsCount(f)
           w == [k \in 0..BucketCount |-> Cardinality(Below(b, k))]
<1>1. BucketCount \in Nat /\ b \in Bitsets
  BY BucketsSuffice DEF Padded
<1>2. Popcount(b) = count[BucketCount]
  BY DEF Popcount
<1>3. Cardinality(Below(b, 0)) = 0
  <2>1. 0 * DataBits = 0
    BY BitsetAssumption
  <2>2. Below(b, 0) = {}
    BY <2>1 DEF Below, Bits, Positions
  <2>3. QED
    BY <2>2, FS_EmptySet
<1>4. \A k \in 0..BucketCount : k # 0 =>
        w[k - 1] + Cardinality(b[k - 1]) = Cardinality(Below(b, k))
  <2> TAKE k \in 0..BucketCount
  <2> HAVE k # 0
  <2>1. k - 1 \in Buckets /\ k - 1 \in 0..BucketCount /\ k - 1 + 1 = k
    BY <1>1 DEF Buckets
  <2>2. w[k - 1] = Cardinality(Below(b, k - 1))
    BY <2>1
  <2> HIDE DEF w
  <2>3. /\ Below(b, k) = Below(b, k - 1) \cup OnesOf(b, k - 1)
        /\ Below(b, k - 1) \cap OnesOf(b, k - 1) = {}
    <3>1. PICK j \in Buckets : j = k - 1 /\ j + 1 = k
      BY <2>1
    <3>2. Below(b, j + 1) = Below(b, j) \cup OnesOf(b, j)
          /\ Below(b, j) \cap OnesOf(b, j) = {}
      BY BelowNext
    <3>3. QED
      BY <3>1, <3>2
  <2>4. IsFiniteSet(OnesOf(b, k - 1)) /\ IsFiniteSet(Below(b, k - 1))
        /\ Cardinality(OnesOf(b, k - 1)) = Cardinality(b[k - 1])
    BY <1>1, <2>1, OnesOfCount, FiniteBits
  <2>5. Cardinality(Below(b, k)) = Cardinality(Below(b, k - 1))
          + Cardinality(OnesOf(b, k - 1)) - Cardinality({})
    BY <2>3, <2>4, FS_Union
  <2>6. Cardinality({}) = 0 /\ Cardinality(Below(b, k - 1)) \in Nat
        /\ Cardinality(OnesOf(b, k - 1)) \in Nat
    BY <2>4, FS_EmptySet, FS_CardinalityType
  <2>7. QED
    BY <2>2, <2>4, <2>5, <2>6
<1>5. IsCount(w)
  <2>1. \A k \in 0..BucketCount : Cardinality(Below(b, k)) =
          IF k = 0 THEN 0 ELSE w[k - 1] + Cardinality(b[k - 1])
    BY <1>3, <1>4
  <2>2. QED
    BY <2>1
<1>6. IsCount(count)
  BY <1>5
<1> HIDE DEF count
<1>7. count[0] = w[0]
  BY <1>1, <1>3, <1>6
<1>8. \A k \in 0..(BucketCount - 1) : count[k] = w[k] => count[k + 1] = w[k + 1]
  <2> TAKE k \in 0..(BucketCount - 1)
  <2>1. k + 1 \in 0..BucketCount /\ k + 1 # 0 /\ k + 1 - 1 = k
    BY <1>1
  <2>2. count[k + 1] = count[k] + Cardinality(b[k])
    <3>1. \A j \in 0..BucketCount : j # 0 => count[j] = count[j - 1] + Cardinality(b[j - 1])
      BY <1>6
    <3>2. count[k + 1] = count[k + 1 - 1] + Cardinality(b[k + 1 - 1])
      BY <2>1, <3>1
    <3>3. QED
      BY <2>1, <3>2
  <2>3. w[k + 1] = w[k] + Cardinality(b[k])
    <3>1. w[k + 1] = Cardinality(Below(b, k + 1))
      BY <2>1
    <3>2. w[k + 1 - 1] + Cardinality(b[k + 1 - 1]) = Cardinality(Below(b, k + 1))
      BY <1>4, <2>1
    <3>3. QED
      BY <2>1, <3>1, <3>2
  <2>4. QED
    BY <2>2, <2>3
<1>9. w[BucketCount] = Cardinality(Below(b, BucketCount))
  BY <1>1
<1> HIDE DEF w
<1>10. count[BucketCount] = w[BucketCount]
  BY <1>1, <1>7, <1>8, GoOnAlike
<1>11. Below(b, BucketCount) = Bits(b)
  <2>1. \A p \in Positions : p \in Nat /\ p < BitsCount
    BY BitsetAssumption DEF Positions
  <2>2. \A p \in Positions : p < BucketCount * DataBits
    BY <2>1, BucketsSuffice, BitsetAssumption
  <2>3. QED
    BY <2>2 DEF Below, Bits
<1>12. QED
  BY <1>2, <1>9, <1>10, <1>11

\* The least position that is free, or BitsCount when every one is taken.
LEMMA FindZeroBitIs ==
  ASSUME NEW b, Padded(b)
  PROVE  /\ FindZeroBit(b) < BitsCount =>
              FindZeroBit(b) \in Positions /\ ~TestBit(b, FindZeroBit(b))
         /\ ~(FindZeroBit(b) < BitsCount) => \A p \in Positions : TestBit(b, p)
<1>1. PICK zeros : zeros = [k \in Buckets |-> Word \ b[k]]
  OBVIOUS
<1>2. zeros \in Bitsets /\ FindZeroBit(b) = FirstPosition(zeros)
  BY <1>1 DEF Bitsets, FindZeroBit
<1>3. ASSUME NEW p \in Positions PROVE TestBit(zeros, p) <=> ~TestBit(b, p)
  <2>1. PICK k \in Buckets, w \in Word : IsPlace(p, k, w)
    BY PlaceIs
  <2>2. TestBit(zeros, p) <=> w \in zeros[k]
    BY <2>1, TestAtPlace
  <2>3. TestBit(b, p) <=> w \in b[k]
    BY <2>1, TestAtPlace
  <2>4. QED
    BY <1>1, <2>2, <2>3
<1>4. Bits(zeros) \subseteq Nat /\ BitsCount \in Nat
  BY BitsetAssumption DEF Bits, Positions
<1>5. CASE Bits(zeros) = {}
  <2>1. FindZeroBit(b) = BitsCount
    BY <1>2, <1>5, FirstPositionIs
  <2>2. \A p \in Positions : TestBit(b, p)
    BY <1>3, <1>5 DEF Bits
  <2>3. QED
    BY <1>4, <2>1, <2>2
<1>6. CASE Bits(zeros) # {}
  <2>1. FindZeroBit(b) = Min(Bits(zeros))
    BY <1>2, <1>6, FirstPositionIs
  <2>2. FindZeroBit(b) \in Bits(zeros)
    BY <1>4, <1>6, <2>1, LeastOf
  <2>3. FindZeroBit(b) \in Positions /\ ~TestBit(b, FindZeroBit(b))
    BY <1>3, <2>2 DEF Bits
  <2>4. FindZeroBit(b) < BitsCount
    BY <2>3, BitsetAssumption DEF Positions
  <2>5. QED
    BY <2>3, <2>4
<1>7. QED
  BY <1>5, <1>6

-----------------------------------------------------------------------------
(* The users of the bitset                                                 *)

StorageStates == [set : Bitsets, cfg : [Positions -> Settings]]

References == [Positions -> Settings \cup {NoSetting}]

\* The storage s holds what the reference ref says.
Holds(s, ref) ==
  /\ s \in StorageStates /\ Padded(s.set)
  /\ ref \in References
  /\ \A p \in Positions : Get(s, p) = ref[p]

LEMMA HoldsRemembers ==
  ASSUME NEW s, NEW ref, Holds(s, ref)
  PROVE  Remembers(s, ref)
<1> DEFINE ones == {p \in Positions : ref[p] # NoSetting}
<1>1. Padded(s.set) /\ s.set \in Bitsets /\ s.cfg \in [Positions -> Settings]
  BY DEF Holds, StorageStates
<1>2. ASSUME NEW p \in Positions PROVE ref[p] # NoSetting <=> TestBit(s.set, p)
  <2>1. s.cfg[p] # NoSetting
    BY <1>1, SettingsAssumption
  <2>2. QED
    BY <2>1 DEF Holds, Get
<1>3. ones = Bits(s.set)
  BY <1>2 DEF Bits
<1>4. Popcount(s.set) = Cardinality(ones)
  BY <1>1, <1>3, PopcountIs
<1>5. FindSetBit(s.set) = IF ones = {} THEN BitsCount ELSE Min(ones)
  BY <1>1, <1>3, FirstPositionIs DEF FindSetBit
<1>6. \A p \in Positions : Get(s, p) = ref[p]
  BY DEF Holds
<1>7. QED
  BY <1>4, <1>5, <1>6 DEF Remembers

LEMMA NoBitsIs ==
  Padded(NoBits) /\ \A p \in Positions : ~TestBit(NoBits, p)
<1>1. Padded(NoBits)
  BY DEF Padded, Bitsets, NoBits
<1>2. ASSUME NEW p \in Positions PROVE ~TestBit(NoBits, p)
  <2>1. PICK k \in Buckets, w \in Word : IsPlace(p, k, w)
    BY PlaceIs
  <2>2. TestBit(NoBits, p) <=> w \in NoBits[k]
    BY <2>1, TestAtPlace
  <2>3. QED
    BY <2>2 DEF NoBits
<1>3. QED
  BY <1>1, <1>2

LEMMA EmptyHolds == Holds(EmptyStorage, Nothing)
<1>1. EmptyStorage \in StorageStates /\ EmptyStorage.set = NoBits
  BY NoBitsIs, SettingsAssumption DEF EmptyStorage, StorageStates, Padded
<1>2. Nothing \in References
  BY DEF Nothing, References
<1>3. \A p \in Positions : Get(EmptyStorage, p) = Nothing[p]
  BY <1>1, NoBitsIs DEF Get, Nothing
<1>4. QED
  BY <1>1, <1>2, <1>3, NoBitsIs DEF Holds

LEMMA StoredHolds ==
  ASSUME NEW s, NEW ref, Holds(s, ref), NEW pos \in Positions, NEW v \in Settings
  PROVE  Holds(Stored(s, pos, v), [ref EXCEPT ![pos] = v])
<1>1. PICK t : t = Stored(s, pos, v)
  OBVIOUS
<1>2. PICK after : after = [ref EXCEPT ![pos] = v]
  OBVIOUS
<1>3. Padded(s.set) /\ s.cfg \in [Positions -> Settings] /\ ref \in References
  BY DEF Holds, StorageStates
<1>4. t.set = SetBit(s.set, pos) /\ t.cfg = [s.cfg EXCEPT ![pos] = v]
      /\ t = [set |-> t.set, cfg |-> t.cfg]
  <2>1. ~(pos >= BitsCount)
    BY BitsetAssumption DEF Positions
  <2>2. QED
    BY <1>1, <2>1 DEF Stored
<1>5. Padded(t.set) /\ t.set \in Bitsets
      /\ \A q \in Positions : TestBit(t.set, q) <=> q = pos \/ TestBit(s.set, q)
  BY <1>3, <1>4, SetBitIs DEF Padded
<1>6. t \in StorageStates /\ after \in References
  BY <1>2, <1>3, <1>4, <1>5 DEF StorageStates, References
<1>7. ASSUME NEW p \in Positions PROVE Get(t, p) = after[p]
  <2>1. Get(s, p) = ref[p]
    BY DEF Holds
  <2>2. CASE p = pos
    <3>1. TestBit(t.set, p) /\ t.cfg[p] = v /\ after[p] = v
      BY <1>2, <1>3, <1>4, <1>5, <2>2 DEF References
    <3>2. QED
      BY <3>1 DEF Get
  <2>3. CASE p # pos
    <3>1. /\ TestBit(t.set, p) <=> TestBit(s.set, p)
          /\ t.cfg[p] = s.cfg[p] /\ after[p] = ref[p]
      BY <1>2, <1>3, <1>4, <1>5, <2>3 DEF References
    <3>2. QED
      BY <2>1, <3>1 DEF Get
  <2>4. QED
    BY <2>2, <2>3
<1>8. Holds(t, after)
  BY <1>5, <1>6, <1>7 DEF Holds
<1>9. QED
  BY <1>1, <1>2, <1>8

LEMMA ClearedHolds ==
  ASSUME NEW s, NEW ref, Holds(s, ref), NEW pos \in 0..BitsCount
  PROVE  Holds(Cleared(s, pos), [p \in Positions |-> IF p = pos THEN NoSetting ELSE ref[p]])
<1>1. PICK t : t = Cleared(s, pos)
  OBVIOUS
<1>2. PICK after : after = [p \in Positions |-> IF p = pos THEN NoSetting ELSE ref[p]]
  OBVIOUS
<1>3. Padded(s.set) /\ s.cfg \in [Positions -> Settings] /\ ref \in References
      /\ s \in StorageStates
  BY DEF Holds, StorageStates
<1>4. after \in References
  BY <1>2, <1>3 DEF References
<1>5. CASE pos < BitsCount
  <2>1. pos \in Positions
    BY <1>5, BitsetAssumption DEF Positions
  <2>2. t.set = ClearBit(s.set, pos) /\ t.cfg = s.cfg /\ t = [set |-> t.set, cfg |-> t.cfg]
    BY <1>1, <1>3, <1>5 DEF Cleared, StorageStates
  <2>3. Padded(t.set) /\ t.set \in Bitsets
        /\ \A q \in Positions : TestBit(t.set, q) <=> q # pos /\ TestBit(s.set, q)
    BY <1>3, <2>1, <2>2, ClearBitIs DEF Padded
  <2>4. t \in StorageStates
    BY <1>3, <2>2, <2>3 DEF StorageStates
  <2>5. ASSUME NEW p \in Positions PROVE Get(t, p) = after[p]
    <3>1. Get(s, p) = ref[p]
      BY DEF Holds
    <3>2. CASE p = pos
      BY <1>2, <2>3, <3>2 DEF Get
    <3>3. CASE p # pos
      BY <1>2, <2>2, <2>3, <3>1, <3>3 DEF Get
    <3>4. QED
      BY <3>2, <3>3
  <2>6. QED
    BY <1>1, <1>2, <1>4, <2>3, <2>4, <2>5 DEF Holds
<1>6. CASE ~(pos < BitsCount)
  <2>1. t = s
    BY <1>1, <1>6 DEF Cleared
  <2>2. \A p \in Positions : p # pos
    BY <1>6, BitsetAssumption DEF Positions
  <2>3. \A p \in Positions : after[p] = ref[p]
    BY <1>2, <2>2
  <2>4. QED
    BY <1>1, <1>2, <1>4, <2>1, <2>3 DEF Holds
<1>7. QED
  BY <1>5, <1>6

LEMMA FirstBitIs ==
  ASSUME NEW flag \in Flags PROVE FirstBit(flag) \in Positions
BY DEF Flags, FirstBit

\* Every slot has as many owners as its bit says, and none is free when the
\* pool has panicked.
PoolHolds ==
  /\ Padded(allowed)
  /\ \A p \in Positions : asked.pool[p] = IF TestBit(allowed, p) THEN 1 ELSE 0
  /\ panicked => \A p \in Positions : TestBit(allowed, p)

Requests == [config : References, chained : References,
             statistic : [Statistics -> References], pool : [Positions -> 0..1]]

StoragesInv ==
  /\ asked \in Requests
  /\ Holds(config, asked.config)
  /\ Holds(chained, asked.chained)
  /\ statistic \in [Statistics -> StorageStates]
  /\ \A e \in Statistics : Holds(statistic[e], asked.statistic[e])
  /\ PoolHolds

LEMMA StoragesRemember == StoragesInv => StorageRemembers
<1> SUFFICES ASSUME StoragesInv PROVE StorageRemembers
  OBVIOUS
<1>1. Remembers(config, asked.config) /\ Remembers(chained, asked.chained)
  BY HoldsRemembers DEF StoragesInv
<1>2. ASSUME NEW f \in Flags, NEW v \in Settings
      PROVE  Updated(chained, f, v) = LET was == asked.chained[FirstBit(f)]
                                      IN  IF was = NoSetting THEN v ELSE was
  <2>1. Get(chained, FirstBit(f)) = asked.chained[FirstBit(f)]
    BY FirstBitIs DEF StoragesInv, Holds
  <2>2. QED
    BY <2>1 DEF Updated
<1>3. ASSUME NEW e \in Statistics
      PROVE  /\ Remembers(statistic[e], asked.statistic[e])
             /\ \A p \in 0..BitsCount :
                  StatisticField(e, p) =
                    IF p \in Positions /\ asked.statistic[e][p] # NoSetting
                    THEN asked.statistic[e][p] ELSE Zero
  <2>1. Holds(statistic[e], asked.statistic[e])
    BY DEF StoragesInv
  <2>2. Remembers(statistic[e], asked.statistic[e])
    BY <2>1, HoldsRemembers
  <2>3. e < StatisticElements
    BY PoolAssumption DEF Statistics
  <2>4. ASSUME NEW p \in 0..BitsCount
        PROVE  StatisticField(e, p) =
                 IF p \in Positions /\ asked.statistic[e][p] # NoSetting
                 THEN asked.statistic[e][p] ELSE Zero
    <3>1. p < BitsCount <=> p \in Positions
      BY BitsetAssumption DEF Positions
    <3>2. p \in Positions => Get(statistic[e], p) = asked.statistic[e][p]
      BY <2>1 DEF Holds
    <3>3. QED
      BY <2>3, <3>1, <3>2 DEF StatisticField
  <2>5. QED
    BY <2>2, <2>4
<1>4. \A p \in Positions : asked.pool[p] = IF TestBit(allowed, p) THEN 1 ELSE 0
  BY DEF StoragesInv, PoolHolds
<1>5. panicked => \A p \in Positions : asked.pool[p] > 0
  BY <1>4 DEF StoragesInv, PoolHolds
<1>6. QED
  BY <1>1, <1>2, <1>3, <1>4, <1>5 DEF StorageRemembers

LEMMA StoragesStart == StorageInit => StoragesInv
<1> SUFFICES ASSUME StorageInit PROVE StoragesInv
  OBVIOUS
<1>1. Nothing \in References /\ EmptyStorage \in StorageStates
  BY EmptyHolds DEF Holds
<1>2. asked \in Requests
  <2>1. [e \in Statistics |-> Nothing] \in [Statistics -> References]
    BY <1>1
  <2>2. [p \in Positions |-> 0] \in [Positions -> 0..1]
    OBVIOUS
  <2>3. QED
    BY <1>1, <2>1, <2>2 DEF StorageInit, Requests
<1>3. Holds(config, asked.config) /\ Holds(chained, asked.chained)
  BY EmptyHolds DEF StorageInit
<1>4. statistic \in [Statistics -> StorageStates]
  BY <1>1 DEF StorageInit
<1>5. \A e \in Statistics : Holds(statistic[e], asked.statistic[e])
  BY EmptyHolds DEF StorageInit
<1>6. PoolHolds
  BY NoBitsIs DEF StorageInit, PoolHolds
<1>7. QED
  BY <1>2, <1>3, <1>4, <1>5, <1>6 DEF StoragesInv

LEMMA ConfigKeeps == StoragesInv /\ ConfigNext => StoragesInv'
<1> SUFFICES ASSUME StoragesInv, ConfigNext PROVE StoragesInv'
  OBVIOUS
<1>1. /\ asked \in Requests
      /\ Holds(config, asked.config) /\ Holds(chained, asked.chained)
      /\ asked.config \in References /\ asked.chained \in References
  BY DEF StoragesInv, Holds
<1>2. ASSUME NEW f \in Flags, NEW v \in Settings, SetConfig(f, v)
      PROVE  StoragesInv'
  <2>1. FirstBit(f) \in Positions
    BY FirstBitIs
  <2>2. PICK ref : ref = [asked.config EXCEPT ![FirstBit(f)] = v]
    OBVIOUS
  <2>3. Holds(config', ref) /\ chained' = config'
    BY <1>1, <1>2, <2>1, <2>2, StoredHolds DEF SetConfig
  <2>4. ref \in References
    BY <2>3 DEF Holds
  <2>5. /\ asked' \in Requests
        /\ asked'.config = ref /\ asked'.chained = ref
        /\ asked'.statistic = asked.statistic /\ asked'.pool = asked.pool
    BY <1>1, <1>2, <2>2, <2>4 DEF SetConfig, Requests
  <2>6. UNCHANGED <<statistic, allowed, panicked>>
    BY <1>2 DEF SetConfig
  <2>7. QED
    BY <2>3, <2>5, <2>6 DEF StoragesInv, PoolHolds
<1>3. ASSUME NEW f \in Flags, NEW v \in Settings, SetChained(f, v)
      PROVE  StoragesInv'
  <2>1. FirstBit(f) \in Positions
    BY FirstBitIs
  <2>2. PICK ref : ref = [asked.chained EXCEPT ![FirstBit(f)] = v]
    OBVIOUS
  <2>3. Holds(chained', ref)
    BY <1>1, <1>3, <2>1, <2>2, StoredHolds DEF SetChained
  <2>4. ref \in References
    BY <2>3 DEF Holds
  <2>5. /\ asked' \in Requests
        /\ asked'.config = asked.config /\ asked'.chained = ref
        /\ asked'.statistic = asked.statistic /\ asked'.pool = asked.pool
    BY <1>1, <1>3, <2>2, <2>4 DEF SetChained, Requests
  <2>6. UNCHANGED <<config, statistic, allowed, panicked>>
    BY <1>3 DEF SetChained
  <2>7. QED
    BY <2>3, <2>5, <2>6 DEF StoragesInv, PoolHolds
<1>4. ASSUME NEW pos \in 0..BitsCount, ClearConfig(pos)
      PROVE  StoragesInv'
  <2>1. PICK ref : ref = [p \in Positions |-> IF p = pos THEN NoSetting ELSE asked.config[p]]
    OBVIOUS
  <2>2. Holds(config', ref)
    BY <1>1, <1>4, <2>1, ClearedHolds DEF ClearConfig
  <2>3. ref \in References
    BY <2>2 DEF Holds
  <2>4. /\ asked' \in Requests
        /\ asked'.config = ref /\ asked'.chained = asked.chained
        /\ asked'.statistic = asked.statistic /\ asked'.pool = asked.pool
    <3>1. asked' = [asked EXCEPT !.config = ref]
      BY <1>1, <1>4, <2>1 DEF ClearConfig, Requests
    <3>2. QED
      BY <1>1, <2>3, <3>1 DEF Requests
  <2>5. UNCHANGED <<chained, statistic, allowed, panicked>>
    BY <1>4 DEF ClearConfig
  <2>6. QED
    BY <2>2, <2>4, <2>5 DEF StoragesInv, PoolHolds
<1>5. QED
  BY <1>2, <1>3, <1>4 DEF ConfigNext

LEMMA StatisticKeeps == StoragesInv /\ StatisticNext => StoragesInv'
<1> SUFFICES ASSUME StoragesInv,
                    NEW e \in 0..StatisticElements, NEW field \in 0..BitsCount,
                    NEW v \in Settings, AddField(e, field, v)
             PROVE  StoragesInv'
  BY DEF StatisticNext
<1>1. UNCHANGED <<config, chained, allowed, panicked>>
  BY DEF AddField
<1>2. CASE e < StatisticElements /\ field < BitsCount
  <2>1. e \in Statistics /\ field \in Positions
    BY <1>2, BitsetAssumption, PoolAssumption DEF Statistics, Positions
  <2>2. /\ asked \in Requests /\ asked.statistic \in [Statistics -> References]
        /\ statistic \in [Statistics -> StorageStates]
        /\ \A d \in Statistics : Holds(statistic[d], asked.statistic[d])
    BY DEF StoragesInv, Requests
  <2>3. PICK ref : ref = [asked.statistic[e] EXCEPT ![field] = v]
    OBVIOUS
  <2>4. PICK s : s = Stored(statistic[e], field, v)
    OBVIOUS
  <2>5. Holds(s, ref)
    BY <2>1, <2>2, <2>3, <2>4, StoredHolds
  <2>6. s \in StorageStates /\ ref \in References
    BY <2>5 DEF Holds
  <2>7. statistic' = [statistic EXCEPT ![e] = s]
    BY <1>2, <2>4 DEF AddField
  <2>8. asked' = [asked EXCEPT !.statistic = [asked.statistic EXCEPT ![e] = ref]]
    BY <1>2, <2>1, <2>2, <2>3 DEF AddField, Requests
  <2>9. PICK refs : refs = [asked.statistic EXCEPT ![e] = ref]
    OBVIOUS
  <2>10. refs \in [Statistics -> References]
    BY <2>2, <2>6, <2>9
  <2>11. /\ asked' \in Requests /\ asked'.statistic = refs
         /\ asked'.config = asked.config /\ asked'.chained = asked.chained
         /\ asked'.pool = asked.pool
    BY <2>2, <2>8, <2>9, <2>10 DEF Requests
  <2>12. statistic' \in [Statistics -> StorageStates]
    BY <2>2, <2>6, <2>7
  <2>13. \A d \in Statistics : Holds(statistic'[d], refs[d])
    <3> TAKE d \in Statistics
    <3>1. CASE d = e
      <4>1. statistic'[d] = s /\ refs[d] = ref
        BY <2>2, <2>7, <2>9, <3>1
      <4>2. QED
        BY <2>5, <4>1
    <3>2. CASE d # e
      <4>1. statistic'[d] = statistic[d] /\ refs[d] = asked.statistic[d]
        BY <2>2, <2>7, <2>9, <3>2
      <4>2. QED
        BY <2>2, <4>1
    <3>3. QED
      BY <3>1, <3>2
  <2>14. QED
    BY <1>1, <2>11, <2>12, <2>13 DEF StoragesInv, PoolHolds
<1>3. CASE ~(e < StatisticElements /\ field < BitsCount)
  <2>1. UNCHANGED <<statistic, asked>>
    BY <1>3 DEF AddField
  <2>2. QED
    BY <1>1, <2>1 DEF StoragesInv, PoolHolds
<1>4. QED
  BY <1>2, <1>3

LEMMA PoolKeeps == StoragesInv /\ PoolNext => StoragesInv'
<1> SUFFICES ASSUME StoragesInv, PoolNext PROVE StoragesInv'
  OBVIOUS
<1>1. /\ asked \in Requests /\ asked.pool \in [Positions -> 0..1]
      /\ Padded(allowed) /\ ~panicked
      /\ \A p \in Positions : asked.pool[p] = IF TestBit(allowed, p) THEN 1 ELSE 0
  BY DEF StoragesInv, Requests, PoolHolds, PoolNext
<1>2. UNCHANGED <<config, chained, statistic>>
  BY DEF PoolNext, AllocObject, FreeObject
<1>3. ASSUME NEW n \in 0..1, NEW slot \in Positions,
             asked' = [asked EXCEPT !.pool[slot] = n]
      PROVE  /\ asked' \in Requests
             /\ asked'.pool = [asked.pool EXCEPT ![slot] = n]
             /\ asked'.config = asked.config /\ asked'.chained = asked.chained
             /\ asked'.statistic = asked.statistic
  <2>1. PICK pool : pool = [asked.pool EXCEPT ![slot] = n]
    OBVIOUS
  <2>2. pool \in [Positions -> 0..1]
    BY <1>1, <2>1
  <2>3. asked' = [asked EXCEPT !.pool = pool]
    BY <1>1, <1>3, <2>1 DEF Requests
  <2>4. QED
    BY <1>1, <2>1, <2>2, <2>3 DEF Requests
<1>4. CASE AllocObject
  <2>1. PICK slot : slot = FindZeroBit(allowed)
    OBVIOUS
  <2>2. CASE slot < BitsCount
    <3>1. slot \in Positions /\ ~TestBit(allowed, slot)
      BY <1>1, <2>1, <2>2, FindZeroBitIs
    <3>2. allowed' = SetBit(allowed, slot) /\ panicked' = panicked
          /\ asked' = [asked EXCEPT !.pool[slot] = 1]
      <4>1. asked.pool[slot] + 1 = 1
        BY <1>1, <3>1
      <4>2. asked' = [asked EXCEPT !.pool[slot] = asked.pool[slot] + 1]
        BY <1>4, <2>1, <2>2, <1>1, <3>1 DEF AllocObject, Requests
      <4>3. QED
        BY <1>4, <2>1, <2>2, <4>1, <4>2 DEF AllocObject
    <3>3. /\ Padded(allowed')
          /\ \A q \in Positions : TestBit(allowed', q) <=> q = slot \/ TestBit(allowed, q)
      BY <1>1, <3>1, <3>2, SetBitIs
    <3>4. \A p \in Positions : asked'.pool[p] = IF TestBit(allowed', p) THEN 1 ELSE 0
      BY <1>1, <1>3, <3>1, <3>2, <3>3
    <3>5. PoolHolds'
      BY <1>1, <3>2, <3>3, <3>4 DEF PoolHolds
    <3>6. QED
      BY <1>2, <1>3, <3>1, <3>2, <3>5 DEF StoragesInv
  <2>3. CASE ~(slot < BitsCount)
    <3>1. \A p \in Positions : TestBit(allowed, p)
      BY <1>1, <2>1, <2>3, FindZeroBitIs
    <3>2. UNCHANGED <<allowed, asked>>
      BY <1>4, <2>1, <2>3 DEF AllocObject
    <3>3. PoolHolds'
      BY <1>1, <3>1, <3>2 DEF PoolHolds
    <3>4. QED
      BY <1>2, <3>2, <3>3 DEF StoragesInv
  <2>4. QED
    BY <2>2, <2>3
<1>5. ASSUME NEW a \in Addresses, FreeObject(a)
      PROVE  StoragesInv'
  <2>1. PICK slot : slot = a \div ObjectSize
    OBVIOUS
  <2>2. CASE a >= 0 /\ a < BitsCount * ObjectSize /\ TestBit(allowed, slot)
    <3>1. slot \in Positions
      <4>1. PICK p \in -1..BitsCount : a = p * ObjectSize
        BY DEF Addresses
      <4>2. ObjectSize \in Nat \ {0} /\ BitsCount \in Nat
        BY PoolAssumption, BitsetAssumption
      <4>3. p \in Nat
        <5>1. (p + 1) * ObjectSize = a + ObjectSize
          BY <4>1, <4>2
        <5>2. p = -1 => 0 * ObjectSize = a + ObjectSize
          BY <5>1
        <5>3. 0 * ObjectSize = 0 /\ a \in Int
          BY <4>1, <4>2
        <5>4. p # -1
          BY <2>2, <4>2, <5>2, <5>3
        <5>5. QED
          BY <4>1, <5>4
      <4>4. p < BitsCount
        <5>1. ~(p = BitsCount)
          BY <2>2, <4>1, <4>2
        <5>2. QED
          BY <4>2, <5>1
      <4>5. (p * ObjectSize + 0) \div ObjectSize = p /\ p * ObjectSize \in Nat
        BY <4>2, <4>3, PlaceOfPosition, ProductsOrdered
      <4>6. slot = p
        BY <2>1, <4>1, <4>5
      <4>7. QED
        BY <4>3, <4>4, <4>6, <4>2 DEF Positions
    <3>2. /\ allowed' = ClearBit(allowed, slot) /\ panicked' = panicked
          /\ asked' = [asked EXCEPT !.pool[slot] = 0]
      <4>1. asked.pool[slot] - 1 = 0
        BY <1>1, <2>2, <3>1
      <4>2. asked' = [asked EXCEPT !.pool[slot] = asked.pool[slot] - 1]
        BY <1>1, <1>5, <2>1, <2>2, <3>1 DEF FreeObject, Requests
      <4>3. QED
        BY <1>5, <2>1, <2>2, <4>1, <4>2 DEF FreeObject
    <3>3. /\ Padded(allowed')
          /\ \A q \in Positions : TestBit(allowed', q) <=> q # slot /\ TestBit(allowed, q)
      BY <1>1, <3>1, <3>2, ClearBitIs
    <3>4. \A p \in Positions : asked'.pool[p] = IF TestBit(allowed', p) THEN 1 ELSE 0
      BY <1>1, <1>3, <3>1, <3>2, <3>3
    <3>5. PoolHolds'
      BY <1>1, <3>2, <3>3, <3>4 DEF PoolHolds
    <3>6. QED
      BY <1>2, <1>3, <3>1, <3>2, <3>5 DEF StoragesInv
  <2>3. CASE ~(a >= 0 /\ a < BitsCount * ObjectSize /\ TestBit(allowed, slot))
    <3>1. UNCHANGED <<allowed, asked, panicked>>
      BY <1>5, <2>1, <2>3 DEF FreeObject
    <3>2. QED
      BY <1>2, <3>1 DEF StoragesInv, PoolHolds
  <2>4. QED
    BY <2>2, <2>3
<1>6. QED
  BY <1>4, <1>5 DEF PoolNext

LEMMA StoragesInvHolds == Spec => []StoragesInv
<1>1. Init => StoragesInv
  BY StoragesStart DEF Init
<1>2. StoragesInv /\ [Next]_vars => StoragesInv'
  <2> SUFFICES ASSUME StoragesInv, [Next]_vars PROVE StoragesInv'
    OBVIOUS
  <2>1. CASE UNCHANGED storageVars
    BY <2>1 DEF storageVars, StoragesInv, PoolHolds
  <2>2. CASE ConfigNext \/ StatisticNext \/ PoolNext
    BY <2>2, ConfigKeeps, StatisticKeeps, PoolKeeps
  <2>3. QED
    BY <2>1, <2>2 DEF Next, vars
<1>3. QED
  BY <1>1, <1>2, PTL DEF Spec

\* Every storage gives back what was stored in it last; the searches and the
\* count of its bitset agree with the positions that are set, padding and
\* word boundaries included; a slot of the object pool has one owner and the
\* pool panics only when it is full.  For every size of the bitset and of the
\* words, every set of values and every number of statistics.
THEOREM StoragesAlwaysRemember == Spec => []StorageRemembers
BY StoragesInvHolds, StoragesRemember, PTL

-----------------------------------------------------------------------------
(* Arithmetic on words                                                     *)

\* A carry arises or is passed on from one position to the next.
LEMMA CarryOn ==
  ASSUME NEW a, NEW b, NEW i \in Nat
  PROVE  /\ ~Carry(a, b, 0)
         /\ Carry(a, b, i + 1) <=> \/ i \in a /\ i \in b
                                   \/ Carry(a, b, i) /\ (i \in a \/ i \in b)
<1>1. ~Carry(a, b, 0)
  BY DEF Carry
<1>2. ASSUME Carry(a, b, i + 1)
      PROVE  \/ i \in a /\ i \in b
             \/ Carry(a, b, i) /\ (i \in a \/ i \in b)
  <2>1. PICK j \in (a \cap b) \cap (0..(i + 1 - 1)) : (j + 1)..(i + 1 - 1) \subseteq a \cup b
    BY <1>2 DEF Carry
  <2>2. CASE j = i
    BY <2>1, <2>2
  <2>3. CASE j # i
    <3>1. j \in (a \cap b) \cap (0..(i - 1)) /\ i \in (j + 1)..(i + 1 - 1)
      BY <2>1, <2>3
    <3>2. (j + 1)..(i - 1) \subseteq (j + 1)..(i + 1 - 1)
      BY <3>1
    <3>3. Carry(a, b, i)
      BY <2>1, <3>1, <3>2 DEF Carry
    <3>4. QED
      BY <2>1, <3>1, <3>3
  <2>4. QED
    BY <2>2, <2>3
<1>3. ASSUME i \in a /\ i \in b
      PROVE  Carry(a, b, i + 1)
  <2>1. i \in (a \cap b) \cap (0..(i + 1 - 1)) /\ (i + 1)..(i + 1 - 1) = {}
    BY <1>3
  <2>2. QED
    BY <2>1 DEF Carry
<1>4. ASSUME Carry(a, b, i), i \in a \/ i \in b
      PROVE  Carry(a, b, i + 1)
  <2>1. PICK j \in (a \cap b) \cap (0..(i - 1)) : (j + 1)..(i - 1) \subseteq a \cup b
    BY <1>4 DEF Carry
  <2>2. j \in (a \cap b) \cap (0..(i + 1 - 1))
    BY <2>1
  <2>3. ASSUME NEW k \in (j + 1)..(i + 1 - 1) PROVE k \in a \cup b
    <3>1. k = i \/ k \in (j + 1)..(i - 1)
      BY <2>1
    <3>2. QED
      BY <1>4, <2>1, <3>1
  <2>4. QED
    BY <2>2, <2>3 DEF Carry
<1>5. QED
  BY <1>1, <1>2, <1>3, <1>4

\* Bit i of a sum.
LEMMA PlusBit ==
  ASSUME NEW a, NEW b, NEW i \in WordBits
  PROVE  i \in Plus(a, b) <=> (Carry(a, b, i) <=> (i \in a <=> i \in b))
<1>1. PICK c \in BOOLEAN : c <=> Carry(a, b, i)
  OBVIOUS
<1>2. i \in Plus(a, b) <=> (Carry(a, b, i) # (i \in Xor(a, b)))
  BY DEF Plus
<1>3. i \in Xor(a, b) <=> ~(i \in a <=> i \in b)
  BY DEF Xor
<1>4. Carry(a, b, i) \in BOOLEAN
  BY DEF Carry
<1>5. QED
  BY <1>2, <1>3, <1>4

LEMMA PlusWord ==
  ASSUME NEW a, NEW b PROVE Plus(a, b) \in AWord /\ Minus(a, b) \in AWord
BY DEF Plus, Minus, AWord

\* Adding what is left of y without x gives y again.
LEMMA MinusAddsBack ==
  ASSUME NEW x \in AWord, NEW y \in AWord
  PROVE  Plus(x, Minus(y, x)) = y
<1>1. PICK c : c = Complement(x)
  OBVIOUS
<1>2. PICK s : s = Plus(y, c)
  OBVIOUS
<1>3. PICK d : d = Plus(s, {0})
  OBVIOUS
<1>4. d = Minus(y, x)
  BY <1>1, <1>2, <1>3 DEF Minus
<1> DEFINE K(i) == Carry(y, c, i)
           M(i) == Carry(s, {0}, i)
           N(i) == Carry(x, d, i)
           One(i) == \/ K(i) /\ ~M(i) /\ ~N(i)
                     \/ ~K(i) /\ M(i) /\ ~N(i)
                     \/ ~K(i) /\ ~M(i) /\ N(i)
<1>5. \A i \in WordBits : i \in c <=> i \notin x
  BY <1>1 DEF Complement
<1>6. ~K(0) /\ ~M(0) /\ ~N(0)
  BY CarryOn
<1>7. ASSUME NEW i \in WordBits
      PROVE  /\ K(i + 1) <=> (i \in y /\ i \notin x) \/ (K(i) /\ (i \in y \/ i \notin x))
             /\ M(i + 1) <=> (i \in s /\ i = 0) \/ (M(i) /\ (i \in s \/ i = 0))
             /\ N(i + 1) <=> (i \in x /\ i \in d) \/ (N(i) /\ (i \in x \/ i \in d))
             /\ i \in s <=> (K(i) <=> (i \in y <=> i \notin x))
             /\ i \in d <=> (M(i) <=> (i \in s <=> i = 0))
             /\ i \in Plus(x, d) <=> (N(i) <=> (i \in x <=> i \in d))
  <2>1. i \in Nat /\ (i \in c <=> i \notin x) /\ (i \in {0} <=> i = 0)
    BY <1>5 DEF WordBits
  <2>2. K(i + 1) <=> (i \in y /\ i \in c) \/ (K(i) /\ (i \in y \/ i \in c))
    BY <2>1, CarryOn
  <2>3. M(i + 1) <=> (i \in s /\ i \in {0}) \/ (M(i) /\ (i \in s \/ i \in {0}))
    BY <2>1, CarryOn
  <2>4. N(i + 1) <=> (i \in x /\ i \in d) \/ (N(i) /\ (i \in x \/ i \in d))
    BY <2>1, CarryOn
  <2>5. i \in s <=> (K(i) <=> (i \in y <=> i \in c))
    BY <1>2, PlusBit
  <2>6. i \in d <=> (M(i) <=> (i \in s <=> i \in {0}))
    BY <1>3, PlusBit
  <2>7. i \in Plus(x, d) <=> (N(i) <=> (i \in x <=> i \in d))
    BY PlusBit
  <2> HIDE DEF K, M, N
  <2>8. QED
    BY <2>1, <2>2, <2>3, <2>4, <2>5, <2>6, <2>7
<1>8. One(1) /\ (0 \in Plus(x, d) <=> 0 \in y)
  <2>1. 0 \in WordBits /\ 0 + 1 = 1
    BY DEF WordBits
  <2> HIDE DEF K, M, N
  <2>2. QED
    BY <1>6, <1>7, <2>1
<1>9. ASSUME NEW i \in WordBits, i # 0, One(i)
      PROVE  One(i + 1) /\ (i \in Plus(x, d) <=> i \in y)
  <2> HIDE DEF K, M, N
  <2>1. QED
    BY <1>7, <1>9
<1> HIDE DEF One
<1>10. ASSUME NEW i \in WordBits, i # 0
       PROVE  One(i)
  <2> DEFINE T == {k \in 1..31 : ~One(k)}
  <2>1. SUFFICES ASSUME T # {} PROVE FALSE
    BY <1>10 DEF WordBits
  <2>2. PICK k \in T : \A m \in T : k <= m
    <3>1. T \subseteq Nat
      OBVIOUS
    <3> HIDE DEF T
    <3>2. QED
      BY <2>1, <3>1, LeastNumber
  <2>3. k # 1
    BY <1>8, <2>2
  <2>4. k - 1 \in 1..31 /\ k - 1 \notin T /\ k - 1 + 1 = k /\ k - 1 \in WordBits /\ k - 1 # 0
    BY <2>2, <2>3 DEF WordBits
  <2>5. One(k - 1)
    BY <2>4
  <2>6. One(k - 1 + 1)
    BY <1>9, <2>4, <2>5
  <2>7. QED
    BY <2>2, <2>4, <2>6
<1>11. \A i \in WordBits : i \in Plus(x, d) <=> i \in y
  BY <1>8, <1>9, <1>10
<1>12. Plus(x, d) \in AWord
  BY PlusWord
<1>13. QED
  BY <1>4, <1>11, <1>12 DEF AWord

\* An even word and what is added to it: bit 0 stays out of the sum.
LEMMA EvenPlus ==
  ASSUME NEW x \in AWord, 0 \notin x, NEW d \in AWord
  PROVE  Plus(x, d \ {0}) = Plus(x, d) \ {0}
<1>1. ASSUME NEW i \in WordBits PROVE Carry(x, d \ {0}, i) <=> Carry(x, d, i)
  <2>1. x \cap (d \ {0}) = x \cap d
    OBVIOUS
  <2>2. \A j \in x \cap d : j \in Nat /\ j > 0
    BY DEF AWord, WordBits
  <2>3. ASSUME NEW j \in x \cap d
        PROVE  (j + 1)..(i - 1) \subseteq x \cup (d \ {0}) <=> (j + 1)..(i - 1) \subseteq x \cup d
    BY <2>2
  <2>4. QED
    BY <2>1, <2>3 DEF Carry
<1>2. ASSUME NEW i \in WordBits
      PROVE  i \in Plus(x, d \ {0}) <=> i \in Plus(x, d) \ {0}
  <2>1. i \in Plus(x, d) <=> (Carry(x, d, i) <=> (i \in x <=> i \in d))
    BY PlusBit
  <2>2. i \in Plus(x, d \ {0}) <=> (Carry(x, d \ {0}, i) <=> (i \in x <=> i \in d \ {0}))
    BY PlusBit
  <2>3. CASE i = 0
    <3>1. ~Carry(x, d \ {0}, 0)
      BY CarryOn
    <3>2. QED
      BY <2>2, <2>3, <3>1
  <2>4. CASE i # 0
    BY <1>1, <2>1, <2>2, <2>4
  <2>5. QED
    BY <2>3, <2>4
<1>3. Plus(x, d \ {0}) \in AWord /\ Plus(x, d) \in AWord
  BY PlusWord
<1>4. QED
  BY <1>2, <1>3 DEF AWord

-----------------------------------------------------------------------------
(* Relocation                                                              *)

LEMMA InField ==
  ASSUME NEW w, w \subseteq Nat, NEW lo \in Nat, NEW n \in Nat
  PROVE  /\ Field(w, lo, n) \subseteq 0..(n - 1)
         /\ \A i \in 0..(n - 1) : i \in Field(w, lo, n) <=> i + lo \in w
<1>1. ASSUME NEW i \in Field(w, lo, n) PROVE i \in 0..(n - 1) /\ i + lo \in w
  BY DEF Field
<1>2. ASSUME NEW i \in 0..(n - 1), i + lo \in w PROVE i \in Field(w, lo, n)
  <2>1. i + lo \in w \cap (lo..(lo + n - 1)) /\ i = i + lo - lo
    BY <1>2
  <2>2. QED
    BY <2>1 DEF Field
<1>3. QED
  BY <1>1, <1>2

LEMMA InShl ==
  ASSUME NEW w, w \subseteq Nat, NEW n \in Nat
  PROVE  /\ Shl(w, n) \subseteq WordBits
         /\ \A i \in WordBits : i \in Shl(w, n) <=> i - n \in w
BY DEF Shl, WordBits

\* A word that is stored as two halfwords is read again.
LEMMA WordStored ==
  ASSUME NEW room \in [Room -> Halfwords], NEW k \in Room, k + 1 \in Room, NEW w \in AWord
  PROVE  /\ WithWord(room, k, w) \in [Room -> Halfwords]
         /\ \A j \in Room \ {k, k + 1} : WithWord(room, k, w)[j] = room[j]
         /\ WordAt(WithWord(room, k, w), k) = w
<1>1. w \subseteq Nat /\ \A i \in w : i \in 0..31
  BY DEF AWord, WordBits
<1>2. PICK low : low = Field(w, 0, 16)
  OBVIOUS
<1>3. PICK high : high = Field(w, 16, 16)
  OBVIOUS
<1>4. low \in Halfwords /\ \A i \in 0..15 : i \in low <=> i \in w
  <2>1. low \subseteq 0..(16 - 1) /\ \A i \in 0..(16 - 1) : i \in low <=> i + 0 \in w
    BY <1>1, <1>2, InField
  <2>2. QED
    BY <2>1 DEF Halfwords
<1>5. high \in Halfwords /\ \A i \in 0..15 : i \in high <=> i + 16 \in w
  <2>1. high \subseteq 0..(16 - 1) /\ \A i \in 0..(16 - 1) : i \in high <=> i + 16 \in w
    BY <1>1, <1>3, InField
  <2>2. QED
    BY <2>1 DEF Halfwords
<1>6. PICK after : after = WithWord(room, k, w)
  OBVIOUS
<1>7. k + 1 # k
  BY DEF Room
<1>8. after = [[room EXCEPT ![k] = low] EXCEPT ![k + 1] = high]
  BY <1>2, <1>3, <1>6 DEF WithWord
<1>9. /\ after \in [Room -> Halfwords] /\ after[k] = low /\ after[k + 1] = high
      /\ \A j \in Room \ {k, k + 1} : after[j] = room[j]
  BY <1>4, <1>5, <1>7, <1>8
<1>10. WordAt(after, k) = low \cup {i + 16 : i \in high}
  BY <1>9 DEF WordAt
<1>11. ASSUME NEW i \in w PROVE i \in low \cup {j + 16 : j \in high}
  <2>1. CASE i \in 0..15
    BY <1>4, <2>1
  <2>2. CASE i \notin 0..15
    <3>1. i - 16 \in 0..15 /\ i - 16 + 16 = i
      BY <1>1, <2>2
    <3>2. i - 16 \in high
      BY <1>5, <3>1
    <3>3. QED
      BY <3>1, <3>2
  <2>3. QED
    BY <2>1, <2>2
<1>12. ASSUME NEW i \in low \cup {j + 16 : j \in high} PROVE i \in w
  <2>1. low \subseteq 0..15 /\ high \subseteq 0..15
    BY <1>4, <1>5 DEF Halfwords
  <2>2. QED
    BY <1>4, <1>5, <2>1
<1>13. QED
  BY <1>6, <1>9, <1>10, <1>11, <1>12

\* A patched move: its immediate is the low half of val, and everything else
\* of it is as it was.
LEMMA MovePatched ==
  ASSUME NEW room \in [Room -> Halfwords], NEW k \in Room, k + 1 \in Room, NEW val \in AWord
  PROVE  LET after == ThumbMove(room, k, val)
         IN  /\ after \in [Room -> Halfwords]
             /\ \A j \in Room \ {k, k + 1} : after[j] = room[j]
             /\ Immediate(after, k) = Field(val, 0, 16)
             /\ after[k] \ ((0..3) \cup {10}) = room[k] \ ((0..3) \cup {10})
             /\ Field(after[k + 1], 8, 4) = Field(room[k + 1], 8, 4)
<1>1. /\ val \subseteq Nat /\ k + 1 # k
      /\ room[k] \subseteq 0..15 /\ room[k + 1] \subseteq 0..15
  BY DEF AWord, WordBits, Room, Halfwords
<1>2. PICK imm4 : imm4 = Field(val, 12, 4)
  OBVIOUS
<1>3. PICK i1 : i1 = Shl(Field(val, 11, 1), 10)
  OBVIOUS
<1>4. PICK imm3 : imm3 = Shl(Field(val, 8, 3), 12)
  OBVIOUS
<1>5. PICK imm8 : imm8 = Field(val, 0, 8)
  OBVIOUS
<1>6. imm4 \subseteq 0..3 /\ \A i \in 0..3 : i \in imm4 <=> i + 12 \in val
  <2>1. imm4 \subseteq 0..(4 - 1) /\ \A i \in 0..(4 - 1) : i \in imm4 <=> i + 12 \in val
    BY <1>1, <1>2, InField
  <2>2. QED
    BY <2>1
<1>7. i1 \subseteq {10} /\ (10 \in i1 <=> 11 \in val)
  <2>1. PICK f : f = Field(val, 11, 1)
    OBVIOUS
  <2>2. f \subseteq 0..(1 - 1) /\ \A i \in 0..(1 - 1) : i \in f <=> i + 11 \in val
    BY <1>1, <2>1, InField
  <2>3. f \subseteq Nat
    BY <2>2
  <2>4. i1 \subseteq WordBits /\ \A i \in WordBits : i \in i1 <=> i - 10 \in f
    BY <1>3, <2>1, <2>3, InShl
  <2>5. QED
    BY <2>2, <2>4 DEF WordBits
<1>8. imm3 \subseteq 12..14 /\ \A i \in 12..14 : i \in imm3 <=> i - 4 \in val
  <2>1. PICK f : f = Field(val, 8, 3)
    OBVIOUS
  <2>2. f \subseteq 0..(3 - 1) /\ \A i \in 0..(3 - 1) : i \in f <=> i + 8 \in val
    BY <1>1, <2>1, InField
  <2>3. f \subseteq Nat
    BY <2>2
  <2>4. imm3 \subseteq WordBits /\ \A i \in WordBits : i \in imm3 <=> i - 12 \in f
    BY <1>4, <2>1, <2>3, InShl
  <2>5. \A i \in 12..14 : i \in WordBits /\ i - 12 \in 0..(3 - 1) /\ i - 12 + 8 = i - 4
    BY DEF WordBits
  <2>6. \A i \in WordBits : i - 12 \in 0..(3 - 1) => i \in 12..14
    BY DEF WordBits
  <2>7. QED
    BY <2>2, <2>4, <2>5, <2>6
<1>9. imm8 \subseteq 0..7 /\ \A i \in 0..7 : i \in imm8 <=> i \in val
  <2>1. imm8 \subseteq 0..(8 - 1) /\ \A i \in 0..(8 - 1) : i \in imm8 <=> i + 0 \in val
    BY <1>1, <1>5, InField
  <2>2. QED
    BY <2>1
<1>10. PICK h0 : h0 = (room[k] \ ((0..3) \cup {10})) \cup imm4 \cup i1
  OBVIOUS
<1>11. PICK h1 : h1 = (room[k + 1] \ ((0..7) \cup (12..14))) \cup imm3 \cup imm8
  OBVIOUS
<1>12. h0 \in Halfwords /\ h1 \in Halfwords
  <2>1. 0..3 \subseteq 0..15 /\ {10} \subseteq 0..15 /\ 12..14 \subseteq 0..15 /\ 0..7 \subseteq 0..15
    OBVIOUS
  <2>2. h0 \subseteq 0..15
    BY <1>1, <1>6, <1>7, <1>10, <2>1
  <2>3. h1 \subseteq 0..15
    BY <1>1, <1>8, <1>9, <1>11, <2>1
  <2>4. QED
    BY <2>2, <2>3 DEF Halfwords
<1>13. PICK after : after = ThumbMove(room, k, val)
  OBVIOUS
<1>14. after = [[room EXCEPT ![k] = h0] EXCEPT ![k + 1] = h1]
  BY <1>1, <1>2, <1>3, <1>4, <1>5, <1>10, <1>11, <1>13 DEF ThumbMove
<1>15. /\ after \in [Room -> Halfwords] /\ after[k] = h0 /\ after[k + 1] = h1
       /\ \A j \in Room \ {k, k + 1} : after[j] = room[j]
  BY <1>1, <1>12, <1>14
<1>16. h0 \ ((0..3) \cup {10}) = room[k] \ ((0..3) \cup {10})
  BY <1>6, <1>7, <1>10
<1>17. Field(h1, 8, 4) = Field(room[k + 1], 8, 4)
  <2>1. h1 \subseteq Nat /\ room[k + 1] \subseteq Nat
    BY <1>1, <1>12 DEF Halfwords
  <2>2. \A i \in 0..3 : i + 8 \in h1 <=> i + 8 \in room[k + 1]
    BY <1>8, <1>9, <1>11
  <2>3. Field(h1, 8, 4) \subseteq 0..(4 - 1)
        /\ \A i \in 0..(4 - 1) : i \in Field(h1, 8, 4) <=> i + 8 \in h1
    BY <2>1, InField
  <2>4. Field(room[k + 1], 8, 4) \subseteq 0..(4 - 1)
        /\ \A i \in 0..(4 - 1) : i \in Field(room[k + 1], 8, 4) <=> i + 8 \in room[k + 1]
    BY <2>1, InField
  <2>5. QED
    BY <2>2, <2>3, <2>4
<1>18. Immediate(after, k) = Field(val, 0, 16)
  <2>1. h0 \subseteq Nat /\ h1 \subseteq Nat
    BY <1>12 DEF Halfwords
  <2>2. PICK p : p = Shl(Field(h0, 0, 4), 12)
    OBVIOUS
  <2>3. PICK q : q = Shl(Field(h0, 10, 1), 11)
    OBVIOUS
  <2>4. PICK r : r = Shl(Field(h1, 12, 3), 8)
    OBVIOUS
  <2>5. PICK s : s = Field(h1, 0, 8)
    OBVIOUS
  <2>6. Immediate(after, k) = p \cup q \cup r \cup s
    BY <1>15, <2>2, <2>3, <2>4, <2>5 DEF Immediate
  <2>7. p \subseteq 12..15 /\ \A i \in 12..15 : i \in p <=> i \in val
    <3>1. PICK f : f = Field(h0, 0, 4)
      OBVIOUS
    <3>2. f \subseteq 0..(4 - 1) /\ \A i \in 0..(4 - 1) : i \in f <=> i + 0 \in h0
      BY <2>1, <3>1, InField
    <3>3. f \subseteq Nat
      BY <3>2
    <3>4. p \subseteq WordBits /\ \A i \in WordBits : i \in p <=> i - 12 \in f
      BY <2>2, <3>1, <3>3, InShl
    <3>5. \A i \in 0..3 : i \in h0 <=> i + 12 \in val
      BY <1>6, <1>7, <1>10
    <3>6. \A i \in 12..15 : i \in WordBits /\ i - 12 \in 0..3 /\ i - 12 + 12 = i
      BY DEF WordBits
    <3>7. \A i \in WordBits : i - 12 \in 0..3 => i \in 12..15
      BY DEF WordBits
    <3>8. \A i \in 12..15 : i \in p <=> i \in val
      <4> TAKE i \in 12..15
      <4>1. i \in p <=> i - 12 \in f
        BY <3>4, <3>6
      <4>2. i - 12 \in f <=> i - 12 \in h0
        BY <3>2, <3>6
      <4>3. i - 12 \in h0 <=> i \in val
        BY <3>5, <3>6
      <4>4. QED
        BY <4>1, <4>2, <4>3
    <3>9. ASSUME NEW i \in p PROVE i \in 12..15
      <4>1. i \in WordBits /\ i - 12 \in f
        BY <3>4
      <4>2. i - 12 \in 0..3
        <5>1. f \subseteq 0..(4 - 1)
          BY <3>2
        <5>2. 0..(4 - 1) = 0..3
          OBVIOUS
        <5>3. QED
          BY <4>1, <5>1, <5>2
      <4>3. QED
        BY <3>7, <4>1, <4>2
    <3>10. QED
      BY <3>8, <3>9
  <2>8. q \subseteq {11} /\ (11 \in q <=> 11 \in val)
    <3>1. PICK f : f = Field(h0, 10, 1)
      OBVIOUS
    <3>2. f \subseteq 0..(1 - 1) /\ \A i \in 0..(1 - 1) : i \in f <=> i + 10 \in h0
      BY <2>1, <3>1, InField
    <3>3. f \subseteq Nat
      BY <3>2
    <3>4. q \subseteq WordBits /\ \A i \in WordBits : i \in q <=> i - 11 \in f
      BY <2>3, <3>1, <3>3, InShl
    <3>5. 10 \in h0 <=> 11 \in val
      BY <1>6, <1>7, <1>10
    <3>6. QED
      BY <3>2, <3>4, <3>5 DEF WordBits
  <2>9. r \subseteq 8..10 /\ \A i \in 8..10 : i \in r <=> i \in val
    <3>1. PICK f : f = Field(h1, 12, 3)
      OBVIOUS
    <3>2. f \subseteq 0..(3 - 1) /\ \A i \in 0..(3 - 1) : i \in f <=> i + 12 \in h1
      BY <2>1, <3>1, InField
    <3>3. f \subseteq Nat
      BY <3>2
    <3>4. r \subseteq WordBits /\ \A i \in WordBits : i \in r <=> i - 8 \in f
      BY <2>4, <3>1, <3>3, InShl
    <3>5. \A i \in 12..14 : i \in h1 <=> i - 4 \in val
      BY <1>8, <1>9, <1>11
    <3>6. \A i \in 8..10 : i \in WordBits /\ i - 8 \in 0..2 /\ i - 8 + 12 \in 12..14
                           /\ i - 8 + 12 - 4 = i
      BY DEF WordBits
    <3>7. \A i \in WordBits : i - 8 \in 0..2 => i \in 8..10
      BY DEF WordBits
    <3>8. \A i \in 8..10 : i \in r <=> i \in val
      <4> TAKE i \in 8..10
      <4>1. i \in r <=> i - 8 \in f
        BY <3>4, <3>6
      <4>2. i - 8 \in f <=> i - 8 + 12 \in h1
        BY <3>2, <3>6
      <4>3. i - 8 + 12 \in h1 <=> i \in val
        BY <3>5, <3>6
      <4>4. QED
        BY <4>1, <4>2, <4>3
    <3>9. ASSUME NEW i \in r PROVE i \in 8..10
      <4>1. i \in WordBits /\ i - 8 \in f
        BY <3>4
      <4>2. i - 8 \in 0..2
        <5>1. f \subseteq 0..(3 - 1)
          BY <3>2
        <5>2. 0..(3 - 1) = 0..2
          OBVIOUS
        <5>3. QED
          BY <4>1, <5>1, <5>2
      <4>3. QED
        BY <3>7, <4>1, <4>2
    <3>10. QED
      BY <3>8, <3>9
  <2>10. s \subseteq 0..7 /\ \A i \in 0..7 : i \in s <=> i \in val
    <3>1. s \subseteq 0..(8 - 1) /\ \A i \in 0..(8 - 1) : i \in s <=> i + 0 \in h1
      BY <2>1, <2>5, InField
    <3>2. \A i \in 0..7 : i \in h1 <=> i \in val
      BY <1>8, <1>9, <1>11
    <3>3. QED
      BY <3>1, <3>2
  <2>11. Field(val, 0, 16) \subseteq 0..(16 - 1)
         /\ \A i \in 0..(16 - 1) : i \in Field(val, 0, 16) <=> i + 0 \in val
    BY <1>1, InField
  <2>12. ASSUME NEW i \in 0..15 PROVE i \in p \cup q \cup r \cup s <=> i \in val
    BY <2>7, <2>8, <2>9, <2>10
  <2>13. p \cup q \cup r \cup s \subseteq 0..15
    BY <2>7, <2>8, <2>9, <2>10
  <2>14. QED
    BY <2>6, <2>11, <2>12, <2>13
<1>19. QED
  BY <1>13, <1>15, <1>16, <1>17, <1>18

\* Fields of one bit, and what becomes of them when they are put elsewhere.
LEMMA OneBit ==
  ASSUME NEW w, w \subseteq Nat, NEW n \in WordBits
  PROVE  /\ Field(w, n, 1) = IF n \in w THEN {0} ELSE {}
         /\ Shl({0}, n) = {n} /\ Shl({}, n) = {}
<1>1. n \in Nat /\ 0..(1 - 1) = {0} /\ 0 + n = n
  BY DEF WordBits
<1>2. Field(w, n, 1) \subseteq 0..(1 - 1)
      /\ \A i \in 0..(1 - 1) : i \in Field(w, n, 1) <=> i + n \in w
  BY <1>1, InField
<1>3. Field(w, n, 1) = IF n \in w THEN {0} ELSE {}
  BY <1>1, <1>2
<1>4. Shl({0}, n) = {n} /\ Shl({}, n) = {}
  <2>1. {i + n : i \in {0}} = {n} /\ {i + n : i \in {}} = {}
    BY <1>1
  <2>2. QED
    BY <2>1 DEF Shl
<1>5. QED
  BY <1>3, <1>4

\* A field that is put n positions higher.
LEMMA FieldShifted ==
  ASSUME NEW w, w \subseteq Nat, NEW lo \in Nat, NEW m \in Nat, NEW n \in Nat, m + n <= 32
  PROVE  /\ Shl(Field(w, lo, m), n) \subseteq n..(n + m - 1)
         /\ \A i \in n..(n + m - 1) : i \in Shl(Field(w, lo, m), n) <=> i - n + lo \in w
<1>1. PICK f : f = Field(w, lo, m)
  OBVIOUS
<1>2. f \subseteq 0..(m - 1) /\ \A i \in 0..(m - 1) : i \in f <=> i + lo \in w
  BY <1>1, InField
<1>3. f \subseteq Nat
  BY <1>2
<1>4. Shl(f, n) \subseteq WordBits /\ \A i \in WordBits : i \in Shl(f, n) <=> i - n \in f
  BY <1>3, InShl
<1>5. ASSUME NEW i \in Shl(f, n) PROVE i \in n..(n + m - 1)
  <2>1. i \in Int /\ i - n \in 0..(m - 1)
    BY <1>2, <1>4 DEF WordBits
  <2>2. QED
    BY <2>1
<1>6. ASSUME NEW i \in n..(n + m - 1) PROVE i \in Shl(f, n) <=> i - n + lo \in w
  <2>1. i \in WordBits /\ i - n \in 0..(m - 1)
    BY DEF WordBits
  <2>2. i \in Shl(f, n) <=> i - n \in f
    BY <1>4, <2>1
  <2>3. i - n \in f <=> i - n + lo \in w
    BY <1>2, <2>1
  <2>4. QED
    BY <2>2, <2>3
<1>7. QED
  BY <1>1, <1>5, <1>6

\* A patched call: the processor decodes it to the target.
LEMMA CallPatched ==
  ASSUME NEW room \in [Room -> Halfwords], NEW k \in Room, k + 1 \in Room,
         NEW base, NEW pc, pc = Plus(base, OfNumber(2 * k + 4)), 0 \notin pc,
         NEW target \in AWord, InReach(Minus(target, pc))
  PROVE  LET after == ThumbCall(room, k, pc, target)
         IN  /\ after \in [Room -> Halfwords]
             /\ \A j \in Room \ {k, k + 1} : after[j] = room[j]
             /\ BranchTarget(after, k, base) = target \ {0}
<1>1. pc \in AWord /\ k + 1 # k /\ {0} \subseteq Nat
  BY PlusWord DEF Room
<1>2. PICK d : d = Minus(target, pc)
  OBVIOUS
<1>3. PICK rel : rel = d \ {0}
  OBVIOUS
<1>4. d \in AWord /\ rel \in AWord /\ rel \subseteq Nat
  BY <1>2, <1>3, PlusWord DEF AWord, WordBits
<1>5. PICK S : S = IF 24 \in rel THEN {0} ELSE {}
  OBVIOUS
<1>6. (22..31) \subseteq rel \/ (22..31) \cap rel = {}
  <2>1. (22..31) \subseteq d \/ (22..31) \cap d = {}
    BY <1>2 DEF InReach
  <2>2. QED
    BY <1>3, <2>1
<1>7. Field(rel, 24, 1) = S /\ Field(rel, 23, 1) = S /\ Field(rel, 22, 1) = S
  <2>1. 22 \in WordBits /\ 23 \in WordBits /\ 24 \in WordBits
        /\ 22 \in 22..31 /\ 23 \in 22..31 /\ 24 \in 22..31
    BY DEF WordBits
  <2>2. /\ Field(rel, 24, 1) = IF 24 \in rel THEN {0} ELSE {}
        /\ Field(rel, 23, 1) = IF 23 \in rel THEN {0} ELSE {}
        /\ Field(rel, 22, 1) = IF 22 \in rel THEN {0} ELSE {}
    BY <1>4, <2>1, OneBit
  <2>3. (23 \in rel <=> 24 \in rel) /\ (22 \in rel <=> 24 \in rel)
    BY <1>6, <2>1
  <2>4. QED
    BY <1>5, <2>2, <2>3
<1>8. Xor(S, S) = {} /\ Xor({0}, S) = {0} \ S /\ {0} \ ({0} \ S) = S
  BY <1>5 DEF Xor
<1>9. PICK imm10 : imm10 = Field(rel, 12, 10)
  OBVIOUS
<1>10. imm10 \subseteq 0..9 /\ \A i \in 0..9 : i \in imm10 <=> i + 12 \in rel
  <2>1. imm10 \subseteq 0..(10 - 1) /\ \A i \in 0..(10 - 1) : i \in imm10 <=> i + 12 \in rel
    BY <1>4, <1>9, InField
  <2>2. QED
    BY <2>1
<1>11. PICK imm11 : imm11 = Field(rel, 1, 11)
  OBVIOUS
<1>12. imm11 \subseteq 0..10 /\ \A i \in 0..10 : i \in imm11 <=> i + 1 \in rel
  <2>1. imm11 \subseteq 0..(11 - 1) /\ \A i \in 0..(11 - 1) : i \in imm11 <=> i + 1 \in rel
    BY <1>4, <1>11, InField
  <2>2. QED
    BY <2>1
<1>13. PICK h0 : h0 = (12..15) \cup Shl(S, 10) \cup imm10
  OBVIOUS
<1>14. PICK h1 : h1 = (11..15) \cup Shl({0}, 13) \cup Shl({0}, 11) \cup imm11
  OBVIOUS
<1>15. PICK after : after = ThumbCall(room, k, pc, target)
  OBVIOUS
<1>16. after = [room EXCEPT ![k] = h0, ![k + 1] = h1]
  <2>1. {0} \ Xor(S, S) = {0}
    BY <1>8
  <2>2. QED
    BY <1>2, <1>3, <1>7, <1>9, <1>11, <1>13, <1>14, <1>15, <2>1 DEF ThumbCall
<1>17. Shl(S, 10) \subseteq {10} /\ (10 \in Shl(S, 10) <=> 24 \in rel)
  <2>1. 10 \in WordBits
    BY DEF WordBits
  <2>2. Shl({0}, 10) = {10} /\ Shl({}, 10) = {}
    BY <1>1, <2>1, OneBit
  <2>3. QED
    BY <1>5, <2>2
<1>18. h1 = (11..15) \cup imm11
  <2>1. 13 \in WordBits /\ 11 \in WordBits /\ 13 \in 11..15 /\ 11 \in 11..15
    BY DEF WordBits
  <2>2. Shl({0}, 13) = {13} /\ Shl({0}, 11) = {11}
    BY <1>1, <2>1, OneBit
  <2>3. QED
    BY <1>14, <2>1, <2>2
<1>19. h0 \in Halfwords /\ h1 \in Halfwords
  <2>1. 12..15 \subseteq 0..15 /\ {10} \subseteq 0..15 /\ 0..9 \subseteq 0..15
        /\ 11..15 \subseteq 0..15 /\ 0..10 \subseteq 0..15
    OBVIOUS
  <2>2. h0 \subseteq 0..15 /\ h1 \subseteq 0..15
    BY <1>10, <1>12, <1>13, <1>17, <1>18, <2>1
  <2>3. QED
    BY <2>2 DEF Halfwords
<1>20. /\ after \in [Room -> Halfwords] /\ after[k] = h0 /\ after[k + 1] = h1
       /\ \A j \in Room \ {k, k + 1} : after[j] = room[j]
  BY <1>1, <1>16, <1>19
<1>21. h0 \subseteq Nat /\ h1 \subseteq Nat
  BY <1>19 DEF Halfwords
<1>22. Field(h0, 10, 1) = S /\ Field(h1, 13, 1) = {0} /\ Field(h1, 11, 1) = {0}
  <2>1. 10 \in WordBits /\ 13 \in WordBits /\ 11 \in WordBits
    BY DEF WordBits
  <2>2. 10 \in h0 <=> 24 \in rel
    BY <1>10, <1>13, <1>17
  <2>3. 13 \in h1 /\ 11 \in h1
    BY <1>18
  <2>4. QED
    BY <1>5, <1>21, <2>1, <2>2, <2>3, OneBit
<1>23. PICK offset : offset = Shl(S, 24) \cup Shl(S, 23) \cup Shl(S, 22)
                  \cup Shl(Field(h0, 0, 10), 12) \cup Shl(Field(h1, 0, 11), 1)
  OBVIOUS
<1>24. BranchTarget(after, k, base) = Plus(pc, Sign(offset, 24))
  <2>1. {0} \ Xor({0}, S) = S
    BY <1>8
  <2>2. QED
    BY <1>20, <1>22, <1>23, <2>1 DEF BranchTarget
<1>25. Shl(S, 24) \cup Shl(S, 23) \cup Shl(S, 22) = IF 24 \in rel THEN {22, 23, 24} ELSE {}
  <2>1. 22 \in WordBits /\ 23 \in WordBits /\ 24 \in WordBits
    BY DEF WordBits
  <2>2. /\ Shl({0}, 24) = {24} /\ Shl({0}, 23) = {23} /\ Shl({0}, 22) = {22}
        /\ Shl({}, 24) = {} /\ Shl({}, 23) = {} /\ Shl({}, 22) = {}
    BY <1>1, <2>1, OneBit
  <2>3. QED
    BY <1>5, <2>2
<1>26. PICK upper : upper = Shl(Field(h0, 0, 10), 12)
  OBVIOUS
<1>27. upper \subseteq 12..21 /\ \A i \in 12..21 : i \in upper <=> i \in rel
  <2>1. upper \subseteq 12..(12 + 10 - 1)
        /\ \A i \in 12..(12 + 10 - 1) : i \in upper <=> i - 12 + 0 \in h0
    <3>1. 12 \in Nat /\ 10 \in Nat /\ 0 \in Nat /\ 10 + 12 <= 32
      OBVIOUS
    <3>2. /\ Shl(Field(h0, 0, 10), 12) \subseteq 12..(12 + 10 - 1)
          /\ \A i \in 12..(12 + 10 - 1) : i \in Shl(Field(h0, 0, 10), 12) <=> i - 12 + 0 \in h0
      BY <1>21, <3>1, FieldShifted
    <3>3. QED
      BY <1>26, <3>2
  <2>2. 12..(12 + 10 - 1) = 12..21
    OBVIOUS
  <2>3. ASSUME NEW i \in 12..21 PROVE i \in upper <=> i \in rel
    <3>1. i - 12 + 0 = i - 12 /\ i - 12 \in 0..9 /\ i - 12 + 12 = i
      OBVIOUS
    <3>2. i \in upper <=> i - 12 \in h0
      BY <2>1, <2>2, <3>1
    <3>3. i - 12 \in h0 <=> i - 12 \in imm10
      BY <1>13, <1>17, <3>1
    <3>4. i - 12 \in imm10 <=> i \in rel
      BY <1>10, <3>1
    <3>5. QED
      BY <3>2, <3>3, <3>4
  <2>4. QED
    BY <2>1, <2>2, <2>3
<1>28. PICK lower : lower = Shl(Field(h1, 0, 11), 1)
  OBVIOUS
<1>29. lower \subseteq 1..11 /\ \A i \in 1..11 : i \in lower <=> i \in rel
  <2>1. lower \subseteq 1..(1 + 11 - 1)
        /\ \A i \in 1..(1 + 11 - 1) : i \in lower <=> i - 1 + 0 \in h1
    <3>1. 1 \in Nat /\ 11 \in Nat /\ 0 \in Nat /\ 11 + 1 <= 32
      OBVIOUS
    <3>2. /\ Shl(Field(h1, 0, 11), 1) \subseteq 1..(1 + 11 - 1)
          /\ \A i \in 1..(1 + 11 - 1) : i \in Shl(Field(h1, 0, 11), 1) <=> i - 1 + 0 \in h1
      BY <1>21, <3>1, FieldShifted
    <3>3. QED
      BY <1>28, <3>2
  <2>2. 1..(1 + 11 - 1) = 1..11
    OBVIOUS
  <2>3. ASSUME NEW i \in 1..11 PROVE i \in lower <=> i \in rel
    <3>1. i - 1 + 0 = i - 1 /\ i - 1 \in 0..10 /\ i - 1 + 1 = i
      OBVIOUS
    <3>2. i \in lower <=> i - 1 \in h1
      BY <2>1, <2>2, <3>1
    <3>3. i - 1 \in h1 <=> i - 1 \in imm11
      BY <1>18, <3>1
    <3>4. i - 1 \in imm11 <=> i \in rel
      BY <1>12, <3>1
    <3>5. QED
      BY <3>2, <3>3, <3>4
  <2>4. QED
    BY <2>1, <2>2, <2>3
<1>30. offset = (IF 24 \in rel THEN {22, 23, 24} ELSE {}) \cup upper \cup lower
  BY <1>23, <1>25, <1>26, <1>28
<1>31. Sign(offset, 24) = rel
  <2>1. 24 \in offset <=> 24 \in rel
    BY <1>27, <1>29, <1>30
  <2>2. \A i \in 22..31 : i \in rel <=> 24 \in rel
    BY <1>6
  <2>3. ASSUME NEW i \in 0..31 PROVE i \in Sign(offset, 24) <=> i \in rel
    <3>1. CASE i = 0
      <4>1. 0 \notin offset /\ 0 \notin 24..31 /\ 0 \notin rel
        BY <1>3, <1>27, <1>29, <1>30
      <4>2. QED
        BY <3>1, <4>1 DEF Sign
    <3>2. CASE i \in 1..11
      <4>1. i \notin 12..21 /\ i \notin 24..31 /\ i \notin {22, 23, 24}
        BY <3>2
      <4>2. i \in offset <=> i \in rel
        BY <1>27, <1>29, <1>30, <3>2, <4>1
      <4>3. QED
        BY <4>1, <4>2 DEF Sign
    <3>3. CASE i \in 12..21
      <4>1. i \notin 1..11 /\ i \notin 24..31 /\ i \notin {22, 23, 24}
        BY <3>3
      <4>2. i \in offset <=> i \in rel
        BY <1>27, <1>29, <1>30, <3>3, <4>1
      <4>3. QED
        BY <4>1, <4>2 DEF Sign
    <3>4. CASE i \in 22..31
      <4>1. i \notin 1..11 /\ i \notin 12..21
        BY <3>4
      <4>2. i \in offset <=> 24 \in rel /\ i \in {22, 23, 24}
        BY <1>27, <1>29, <1>30, <4>1
      <4>3. i \in {22, 23, 24} \/ i \in 24..31
        BY <3>4
      <4>4. i \in Sign(offset, 24) <=> 24 \in rel
        BY <2>1, <4>2, <4>3 DEF Sign
      <4>5. QED
        BY <2>2, <3>4, <4>4
    <3>5. QED
      BY <3>1, <3>2, <3>3, <3>4
  <2>4. Sign(offset, 24) \subseteq 0..31
    <3>1. {22, 23, 24} \subseteq 0..31 /\ 12..21 \subseteq 0..31 /\ 1..11 \subseteq 0..31
          /\ 24..31 \subseteq 0..31
      OBVIOUS
    <3>2. offset \subseteq 0..31
      BY <1>27, <1>29, <1>30, <3>1
    <3>3. QED
      BY <3>1, <3>2 DEF Sign
  <2>5. rel \subseteq 0..31
    BY <1>4 DEF AWord, WordBits
  <2>6. QED
    BY <2>3, <2>4, <2>5
<1>32. Plus(pc, rel) = target \ {0}
  <2>1. Plus(pc, d) = target
    BY <1>1, <1>2, MinusAddsBack
  <2>2. Plus(pc, d \ {0}) = Plus(pc, d) \ {0}
    BY <1>1, <1>4, EvenPlus
  <2>3. QED
    BY <1>3, <2>1, <2>2
<1>33. QED
  BY <1>15, <1>20, <1>24, <1>31, <1>32

\* A function that is defined step by step.
Goes(start, n, step, f) ==
  f[0] = start /\ \A i \in 0..(n - 1) : f[i + 1] = step[i][f[i]]

\* There is one.
LEMMA Iterates ==
  ASSUME NEW S, NEW start \in S, NEW n \in Nat, NEW step \in [0..(n - 1) -> [S -> S]]
  PROVE  \E f \in [0..n -> S] : Goes(start, n, step, f)
<1> DEFINE Upto(m, f) == f[0] = start /\ \A i \in 0..(m - 1) : f[i + 1] = step[i][f[i]]
           T == {m \in 0..n : ~\E f \in [0..m -> S] : Upto(m, f)}
<1>1. SUFFICES ASSUME T # {} PROVE FALSE
  <2>1. n \in 0..n
    OBVIOUS
  <2>2. QED
    BY <2>1 DEF Goes
<1>2. PICK m \in T : \A j \in T : m <= j
  <2>1. T \subseteq Nat
    OBVIOUS
  <2> HIDE DEF T
  <2>2. QED
    BY <1>1, <2>1, LeastNumber
<1>3. CASE m = 0
  <2> DEFINE f == [i \in 0..0 |-> start]
  <2>1. f \in [0..0 -> S] /\ f[0] = start
    OBVIOUS
  <2>2. Upto(0, f)
    BY <2>1
  <2>3. QED
    BY <1>2, <1>3, <2>1, <2>2
<1>4. CASE m # 0
  <2>1. m \in 0..n /\ m \in Nat /\ m - 1 \in 0..n /\ m - 1 \in 0..(n - 1) /\ m - 1 \in Nat
    <3>1. m \in 0..n
      BY <1>2
    <3>2. QED
      BY <1>4, <3>1
  <2>2. PICK g \in [0..(m - 1) -> S] : Upto(m - 1, g)
    <3>1. m - 1 \notin T
      <4> HIDE DEF T
      <4>1. QED
        BY <1>2, <2>1
    <3>2. QED
      BY <2>1, <3>1
  <2> DEFINE f == [i \in 0..m |-> IF i = m THEN step[m - 1][g[m - 1]] ELSE g[i]]
  <2>3. g[m - 1] \in S /\ step[m - 1][g[m - 1]] \in S
    BY <2>1
  <2>4. f \in [0..m -> S]
    <3>1. ASSUME NEW i \in 0..m PROVE (IF i = m THEN step[m - 1][g[m - 1]] ELSE g[i]) \in S
      <4>1. i # m => i \in 0..(m - 1)
        BY <2>1
      <4>2. QED
        BY <2>3, <4>1
    <3>2. QED
      BY <3>1
  <2>5. f[0] = start
    BY <1>4, <2>1, <2>2
  <2>6. ASSUME NEW i \in 0..(m - 1) PROVE f[i + 1] = step[i][f[i]]
    <3>1. i \in 0..m /\ i + 1 \in 0..m /\ i # m /\ f[i] = g[i]
      BY <2>1
    <3>2. CASE i = m - 1
      <4>1. i + 1 = m
        BY <2>1, <3>2
      <4>2. QED
        BY <3>1, <3>2, <4>1
    <3>3. CASE i # m - 1
      <4>1. i \in 0..(m - 1 - 1) /\ i + 1 # m
        BY <2>1, <3>3
      <4>2. g[i + 1] = step[i][g[i]]
        BY <2>2, <4>1
      <4>3. QED
        BY <3>1, <4>1, <4>2
    <3>4. QED
      BY <3>2, <3>3
  <2>7. Upto(m, f)
    BY <2>5, <2>6
  <2>8. QED
    BY <1>2, <2>4, <2>7
<1>5. QED
  BY <1>3, <1>4

\* The upper half of a word, which MOVT takes.
LEMMA HighHalf ==
  ASSUME NEW w \in AWord
  PROVE  Shr(w, 16) \in AWord /\ Field(Shr(w, 16), 0, 16) = Field(w, 16, 16)
<1>1. Shr(w, 16) \in AWord
  BY WordsClosed
<1>2. PICK v : v = Shr(w, 16)
  OBVIOUS
<1>3. w \subseteq Nat /\ v \subseteq Nat
  BY <1>1, <1>2 DEF AWord, WordBits
<1>4. \A i \in 0..15 : i \in v <=> i + 16 \in w
  <2> TAKE i \in 0..15
  <2>1. i + 16 \in w => i \in v
    <3>1. i + 16 - 16 = i /\ i \in WordBits
      BY DEF WordBits
    <3>2. QED
      BY <1>2, <3>1 DEF Shr
  <2>2. i \in v => i + 16 \in w
    BY <1>2, <1>3 DEF Shr
  <2>3. QED
    BY <2>1, <2>2
<1>5. Field(v, 0, 16) \subseteq 0..(16 - 1)
      /\ \A i \in 0..(16 - 1) : i \in Field(v, 0, 16) <=> i + 0 \in v
  BY <1>3, InField
<1>6. Field(w, 16, 16) \subseteq 0..(16 - 1)
      /\ \A i \in 0..(16 - 1) : i \in Field(w, 16, 16) <=> i + 16 \in w
  BY <1>3, InField
<1>7. \A i \in 0..(16 - 1) : i \in Field(v, 0, 16) <=> i \in Field(w, 16, 16)
  <2> TAKE i \in 0..(16 - 1)
  <2>1. i \in 0..15 /\ i + 0 = i
    OBVIOUS
  <2>2. QED
    BY <1>4, <1>5, <1>6, <2>1
<1>8. Field(v, 0, 16) = Field(w, 16, 16)
  BY <1>5, <1>6, <1>7
<1>9. QED
  BY <1>1, <1>2, <1>8

\* The place of a call is even, and so is the pc it is relative to.
LEMMA EvenPlace ==
  ASSUME NEW base \in AWord, 0 \notin base, NEW k \in Nat
  PROVE  0 \notin Plus(base, OfNumber(2 * k + 4))
<1>1. 2 ^ 0 = 1
  <2>1. Cardinality(SUBSET {}) = 2 ^ Cardinality({})
    BY FS_EmptySet, FS_SUBSET
  <2>2. SUBSET {} = {{}} /\ Cardinality({{}}) = 1 /\ Cardinality({}) = 0
    BY FS_EmptySet, FS_Singleton
  <2>3. QED
    BY <2>1, <2>2
<1>2. 0 \notin OfNumber(2 * k + 4)
  <2>1. PICK n : n = 2 * k + 4
    OBVIOUS
  <2>2. n \in Nat /\ n \div 1 = n /\ n % 2 = 0
    BY <2>1
  <2>3. 0 \notin OfNumber(n)
    BY <1>1, <2>2 DEF OfNumber
  <2>4. QED
    BY <2>1, <2>3
<1>3. 0 \in WordBits
  BY DEF WordBits
<1>4. ~Carry(base, OfNumber(2 * k + 4), 0)
  BY CarryOn
<1>5. QED
  BY <1>2, <1>3, <1>4, PlusBit

Rooms == [Room -> Halfwords]

\* What a relocation i of img is about, and that it can be applied.
Applicable(img, i) ==
  /\ i \in DOMAIN img.relocs
  /\ ~Unsupported(img, img.relocs[i])

LEMMA RelocationIs ==
  ASSUME NEW img \in Images, Linkable(img), NEW i, Applicable(img, i)
  PROVE  LET reloc  == img.relocs[i]
             symbol == img.symbols[reloc.symbol_idx + 1]
         IN  /\ reloc \in Relocations /\ reloc.type \in Types /\ reloc.offset \in Nat
             /\ reloc.symbol_idx < Len(img.symbols)
             /\ reloc.type # "R_ARM_NONE" =>
                  /\ reloc.offset \in Room /\ reloc.offset + 1 \in Room
                  /\ Touched(reloc) = {reloc.offset, reloc.offset + 1}
<1>1. PICK reloc : reloc = img.relocs[i]
  OBVIOUS
<1>2. img.relocs \in Seq(Relocations) /\ img.symbols \in Seq(Symbols)
      /\ Len(img.binary) \in Nat
  BY DEF Images
<1>3. reloc \in Relocations
  BY <1>1, <1>2 DEF Applicable
<1>4. reloc.offset \in Nat /\ reloc.symbol_idx \in Nat
  BY <1>3 DEF Relocations
<1>5. reloc.symbol_idx < Len(img.symbols) /\ reloc.type \in Types
  BY <1>1, <1>2, <1>4 DEF Applicable, Unsupported
<1>6. ASSUME reloc.type # "R_ARM_NONE"
      PROVE  /\ reloc.offset \in Room /\ reloc.offset + 1 \in Room
             /\ Touched(reloc) = {reloc.offset, reloc.offset + 1}
  <2>1. Touched(reloc) = {reloc.offset, reloc.offset + 1}
    BY <1>6 DEF Touched
  <2>2. Touched(reloc) \subseteq 0..(Len(img.binary) - 1) /\ Len(img.binary) <= RoomSize
    BY <1>1 DEF Applicable, Linkable
  <2>3. RoomSize \in Nat
    BY LoaderAssumption
  <2>4. QED
    BY <1>2, <1>4, <2>1, <2>2, <2>3 DEF Room
<1>7. QED
  BY <1>1, <1>3, <1>4, <1>5, <1>6

\* What the relocation is about is as the image has it.
AsBuilt(room, img, i) ==
  \A k \in Touched(img.relocs[i]) : room[k] = img.binary[k + 1]

\* One turn of apply_reallocs links what its relocation is about to the place
\* of the copy, and touches nothing else.
LEMMA OneLinked ==
  ASSUME NEW img \in Images, Linkable(img), NEW i, Applicable(img, i),
         NEW place \in Places, NEW room \in Rooms
  PROVE  LET reloc == img.relocs[i]
             after == Relocated(room, LoadAddress[place], reloc,
                                img.symbols[reloc.symbol_idx + 1])
         IN  /\ after \in Rooms
             /\ \A j \in Room \ Touched(reloc) : after[j] = room[j]
             /\ AsBuilt(room, img, i) => LinkedAt(after, img, LoadAddress[place], reloc)
<1>1. PICK reloc : reloc = img.relocs[i]
  OBVIOUS
<1>2. PICK symbol : symbol = img.symbols[reloc.symbol_idx + 1]
  OBVIOUS
<1>3. PICK base : base = LoadAddress[place]
  OBVIOUS
<1>4. base \in AWord /\ 0 \notin base
  BY <1>3, LoaderAssumption DEF AWord
<1>5. PICK value : value = SymbolValue(symbol, base)
  OBVIOUS
<1>6. value \in AWord
  BY <1>5, PlusWord DEF SymbolValue
<1>7. PICK k : k = reloc.offset
  OBVIOUS
<1>8. PICK after : after = Relocated(room, base, reloc, symbol)
  OBVIOUS
<1>9. /\ reloc.type \in Types /\ k \in Nat
      /\ reloc.type # "R_ARM_NONE" =>
           k \in Room /\ k + 1 \in Room /\ Touched(reloc) = {k, k + 1}
  BY <1>1, <1>7, RelocationIs
<1>10. AsBuilt(room, img, i) /\ reloc.type # "R_ARM_NONE" =>
         room[k] = img.binary[k + 1] /\ room[k + 1] = img.binary[k + 2]
  <2> HAVE AsBuilt(room, img, i) /\ reloc.type # "R_ARM_NONE"
  <2>1. k \in Touched(reloc) /\ k + 1 \in Touched(reloc) /\ k + 1 + 1 = k + 2
    BY <1>9
  <2>2. QED
    BY <1>1, <2>1 DEF AsBuilt
<1>11. CASE reloc.type = "R_ARM_NONE"
  <2>1. after = room
    BY <1>8, <1>11 DEF Relocated
  <2>2. LinkedAt(after, img, base, reloc)
    BY <1>11 DEF LinkedAt
  <2>3. QED
    BY <1>1, <1>2, <1>3, <1>8, <2>1, <2>2
<1>12. CASE reloc.type = "R_ARM_ABS32"
  <2>1. PICK w : w = IF symbol.type = "STT_SECTION" THEN Plus(WordAt(room, k), value) ELSE value
    OBVIOUS
  <2>2. w \in AWord
    BY <1>6, <2>1, PlusWord
  <2>3. after = WithWord(room, k, w)
    BY <1>5, <1>7, <1>8, <1>12, <2>1 DEF Relocated
  <2>4. /\ after \in Rooms /\ \A j \in Room \ {k, k + 1} : after[j] = room[j]
        /\ WordAt(after, k) = w
    <3>1. k \in Room /\ k + 1 \in Room /\ room \in [Room -> Halfwords]
      BY <1>9, <1>12 DEF Rooms
    <3>2. /\ WithWord(room, k, w) \in [Room -> Halfwords]
          /\ \A j \in Room \ {k, k + 1} : WithWord(room, k, w)[j] = room[j]
          /\ WordAt(WithWord(room, k, w), k) = w
      BY <2>2, <3>1, WordStored
    <3>3. QED
      BY <2>3, <3>2 DEF Rooms
  <2>5. AsBuilt(room, img, i) =>
          WordAt(room, k) = img.binary[k + 1] \cup {j + 16 : j \in img.binary[k + 2]}
    BY <1>10, <1>12 DEF WordAt
  <2>6. AsBuilt(room, img, i) => LinkedAt(after, img, base, reloc)
    BY <1>2, <1>5, <1>7, <1>12, <2>1, <2>4, <2>5 DEF LinkedAt
  <2>7. QED
    BY <1>1, <1>2, <1>3, <1>8, <1>9, <1>12, <2>4, <2>6
<1>13. CASE reloc.type = "R_ARM_THM_CALL"
  <2>1. PICK pc : pc = Plus(base, OfNumber(2 * k + 4))
    OBVIOUS
  <2>2. 0 \notin pc
    BY <1>4, <1>9, <2>1, EvenPlace
  <2>3. InReach(Minus(value, pc))
    <3>1. reloc.symbol_idx < Len(img.symbols)
      BY <1>1, RelocationIs
    <3>2. QED
      BY <1>1, <1>2, <1>3, <1>5, <1>7, <1>13, <2>1, <3>1 DEF Applicable, Linkable
  <2>4. after = ThumbCall(room, k, pc, value)
    BY <1>5, <1>7, <1>8, <1>13, <2>1 DEF Relocated
  <2>5. /\ after \in Rooms /\ \A j \in Room \ {k, k + 1} : after[j] = room[j]
        /\ BranchTarget(after, k, base) = value \ {0}
    <3>1. k \in Room /\ k + 1 \in Room /\ room \in [Room -> Halfwords] /\ k \in Nat
      BY <1>9, <1>13 DEF Rooms
    <3>2. PICK called : called = ThumbCall(room, k, pc, value)
      OBVIOUS
    <3>3. /\ called \in [Room -> Halfwords]
          /\ \A j \in Room \ {k, k + 1} : called[j] = room[j]
          /\ BranchTarget(called, k, base) = value \ {0}
      BY <1>6, <2>1, <2>2, <2>3, <3>1, <3>2, CallPatched
    <3>4. after = called
      BY <2>4, <3>2
    <3>5. QED
      BY <3>3, <3>4 DEF Rooms
  <2>6. LinkedAt(after, img, base, reloc)
    BY <1>2, <1>5, <1>7, <1>13, <2>5 DEF LinkedAt
  <2>7. QED
    BY <1>1, <1>2, <1>3, <1>8, <1>9, <1>13, <2>5, <2>6
<1>14. ASSUME reloc.type \in {"R_ARM_THM_MOVW_ABS_NC", "R_ARM_THM_MOVT_ABS"},
              NEW val \in AWord, after = ThumbMove(room, k, val)
       PROVE  /\ after \in Rooms /\ \A j \in Room \ {k, k + 1} : after[j] = room[j]
              /\ Immediate(after, k) = Field(val, 0, 16)
              /\ AsBuilt(room, img, i) => SameRegister(after, img, k)
  <2>1. /\ after \in Rooms /\ \A j \in Room \ {k, k + 1} : after[j] = room[j]
        /\ Immediate(after, k) = Field(val, 0, 16)
        /\ after[k] \ ((0..3) \cup {10}) = room[k] \ ((0..3) \cup {10})
        /\ Field(after[k + 1], 8, 4) = Field(room[k + 1], 8, 4)
    <3>1. k \in Room /\ k + 1 \in Room /\ room \in [Room -> Halfwords]
      BY <1>9, <1>14 DEF Rooms
    <3>2. PICK moved : moved = ThumbMove(room, k, val)
      OBVIOUS
    <3>3. /\ moved \in [Room -> Halfwords]
          /\ \A j \in Room \ {k, k + 1} : moved[j] = room[j]
          /\ Immediate(moved, k) = Field(val, 0, 16)
          /\ moved[k] \ ((0..3) \cup {10}) = room[k] \ ((0..3) \cup {10})
          /\ Field(moved[k + 1], 8, 4) = Field(room[k + 1], 8, 4)
      BY <3>1, <3>2, MovePatched
    <3>4. after = moved
      BY <1>14, <3>2
    <3>5. QED
      BY <3>3, <3>4 DEF Rooms
  <2>2. AsBuilt(room, img, i) => SameRegister(after, img, k)
    BY <1>10, <1>14, <2>1 DEF SameRegister
  <2>3. QED
    BY <2>1, <2>2
<1>15. CASE reloc.type = "R_ARM_THM_MOVW_ABS_NC"
  <2>1. after = ThumbMove(room, k, value)
    BY <1>5, <1>7, <1>8, <1>15 DEF Relocated
  <2>2. /\ after \in Rooms /\ \A j \in Room \ {k, k + 1} : after[j] = room[j]
        /\ Immediate(after, k) = Field(value, 0, 16)
        /\ AsBuilt(room, img, i) => SameRegister(after, img, k)
    BY <1>6, <1>14, <1>15, <2>1
  <2>3. AsBuilt(room, img, i) => LinkedAt(after, img, base, reloc)
    BY <1>2, <1>5, <1>7, <1>15, <2>2 DEF LinkedAt
  <2>4. QED
    BY <1>1, <1>2, <1>3, <1>8, <1>9, <1>15, <2>2, <2>3
<1>16. CASE reloc.type = "R_ARM_THM_MOVT_ABS"
  <2>1. after = ThumbMove(room, k, Shr(value, 16))
    BY <1>5, <1>7, <1>8, <1>16 DEF Relocated
  <2>2. Shr(value, 16) \in AWord /\ Field(Shr(value, 16), 0, 16) = Field(value, 16, 16)
    BY <1>6, HighHalf
  <2>3. /\ after \in Rooms /\ \A j \in Room \ {k, k + 1} : after[j] = room[j]
        /\ Immediate(after, k) = Field(value, 16, 16)
        /\ AsBuilt(room, img, i) => SameRegister(after, img, k)
    BY <1>14, <1>16, <2>1, <2>2
  <2>4. AsBuilt(room, img, i) => LinkedAt(after, img, base, reloc)
    BY <1>2, <1>5, <1>7, <1>16, <2>3 DEF LinkedAt
  <2>5. QED
    BY <1>1, <1>2, <1>3, <1>8, <1>9, <1>16, <2>3, <2>4
<1>17. QED
  BY <1>9, <1>11, <1>12, <1>13, <1>15, <1>16 DEF Types

\* Whether a relocation is done shows in what it is about.
LEMMA LinkedByTouched ==
  ASSUME NEW img \in Images, Linkable(img), NEW i, Applicable(img, i), NEW base,
         NEW room, NEW other, \A k \in Touched(img.relocs[i]) : room[k] = other[k],
         LinkedAt(room, img, base, img.relocs[i])
  PROVE  LinkedAt(other, img, base, img.relocs[i])
<1>1. PICK reloc : reloc = img.relocs[i]
  OBVIOUS
<1>2. PICK k : k = reloc.offset
  OBVIOUS
<1>3. reloc.type \in Types /\ (reloc.type # "R_ARM_NONE" => room[k] = other[k] /\ room[k + 1] = other[k + 1])
  <2>1. reloc.type \in Types /\ (reloc.type # "R_ARM_NONE" => Touched(reloc) = {k, k + 1})
    BY <1>1, <1>2, RelocationIs
  <2>2. \A j \in Touched(reloc) : room[j] = other[j]
    BY <1>1
  <2>3. QED
    BY <2>1, <2>2
<1>4. reloc.type # "R_ARM_NONE" =>
        /\ WordAt(room, k) = WordAt(other, k)
        /\ BranchTarget(room, k, base) = BranchTarget(other, k, base)
        /\ Immediate(room, k) = Immediate(other, k)
        /\ SameRegister(room, img, k) <=> SameRegister(other, img, k)
  <2> HAVE reloc.type # "R_ARM_NONE"
  <2>1. room[k] = other[k] /\ room[k + 1] = other[k + 1]
    BY <1>3
  <2>2. WordAt(room, k) = WordAt(other, k)
    BY <2>1 DEF WordAt
  <2>3. BranchTarget(room, k, base) = BranchTarget(other, k, base)
    BY <2>1, Zenon DEF BranchTarget
  <2>4. Immediate(room, k) = Immediate(other, k)
    BY <2>1, Zenon DEF Immediate
  <2>5. SameRegister(room, img, k) <=> SameRegister(other, img, k)
    BY <2>1 DEF SameRegister
  <2>6. QED
    BY <2>2, <2>3, <2>4, <2>5
<1>5. LinkedAt(room, img, base, reloc)
  BY <1>1
<1>6. LinkedAt(other, img, base, reloc)
  <2>1. CASE reloc.type = "R_ARM_NONE"
    BY <2>1 DEF LinkedAt
  <2>2. CASE reloc.type = "R_ARM_ABS32"
    BY <1>2, <1>4, <1>5, <2>2 DEF LinkedAt
  <2>3. CASE reloc.type = "R_ARM_THM_CALL"
    BY <1>2, <1>4, <1>5, <2>3 DEF LinkedAt
  <2>4. CASE reloc.type = "R_ARM_THM_MOVW_ABS_NC"
    BY <1>2, <1>4, <1>5, <2>4 DEF LinkedAt
  <2>5. CASE reloc.type = "R_ARM_THM_MOVT_ABS"
    BY <1>2, <1>4, <1>5, <2>5 DEF LinkedAt
  <2>6. QED
    BY <1>3, <2>1, <2>2, <2>3, <2>4, <2>5 DEF Types
<1>7. QED
  BY <1>1, <1>6

\* One turn of the loop of apply_reallocs, the i-th.
Turn(img, base, room, i) ==
  Relocated(room, base, img.relocs[i], img.symbols[img.relocs[i].symbol_idx + 1])

\* The rooms the loop of apply_reallocs goes through.
LEMMA PatchedRuns ==
  ASSUME NEW img \in Images, Linkable(img), NEW place \in Places, NEW copy \in Rooms,
         \A i \in DOMAIN img.relocs : Applicable(img, i),
         Cardinality(Applied(img)) = Len(img.relocs)
  PROVE  \E run : /\ run[0] = copy
                  /\ \A i \in 1..Len(img.relocs) :
                       run[i] = Turn(img, LoadAddress[place], run[i - 1], i)
                  /\ run[Len(img.relocs)] = Patched(img, LoadAddress[place], copy)
<1>1. PICK n : n = Len(img.relocs)
  OBVIOUS
<1>2. n \in Nat /\ DOMAIN img.relocs = 1..n
  BY <1>1 DEF Images
<1>3. PICK base : base = LoadAddress[place]
  OBVIOUS
<1> DEFINE Runs(g) == g = [i \in 0..n |-> IF i = 0 THEN copy ELSE Turn(img, base, g[i - 1], i)]
           step == [i \in 0..(n - 1) |-> [x \in Rooms |-> Turn(img, base, x, i + 1)]]
<1>4. step \in [0..(n - 1) -> [Rooms -> Rooms]]
  <2>1. ASSUME NEW i \in 0..(n - 1), NEW x \in Rooms PROVE Turn(img, base, x, i + 1) \in Rooms
    <3>1. Applicable(img, i + 1)
      <4>1. i + 1 \in DOMAIN img.relocs
        BY <1>2
      <4>2. QED
        BY <4>1
    <3>2. QED
      BY <1>3, <3>1, OneLinked DEF Turn
  <2>2. QED
    BY <2>1
<1>5. \E g : Runs(g)
  <2>1. PICK s : s = step
    OBVIOUS
  <2>2. PICK f \in [0..n -> Rooms] : f[0] = copy /\ \A i \in 0..(n - 1) : f[i + 1] = s[i][f[i]]
    <3> HIDE DEF step
    <3>1. s \in [0..(n - 1) -> [Rooms -> Rooms]]
      BY <1>4, <2>1
    <3>2. QED
      <4>1. n \in Nat /\ copy \in Rooms
        BY <1>2
      <4>2. \E f \in [0..n -> Rooms] : Goes(copy, n, s, f)
        BY <3>1, <4>1, Iterates
      <4>3. QED
        BY <4>2 DEF Goes
  <2>3. ASSUME NEW i \in 0..n
        PROVE  f[i] = IF i = 0 THEN copy ELSE Turn(img, base, f[i - 1], i)
    <3>1. CASE i = 0
      BY <2>2, <3>1
    <3>2. CASE i # 0
      <4>1. i - 1 \in 0..(n - 1) /\ i - 1 + 1 = i /\ i - 1 \in 0..n
        BY <1>2, <3>2
      <4>2. f[i - 1 + 1] = s[i - 1][f[i - 1]] /\ f[i - 1] \in Rooms
        BY <2>2, <4>1
      <4>3. s[i - 1][f[i - 1]] = Turn(img, base, f[i - 1], i - 1 + 1)
        BY <2>1, <4>1, <4>2
      <4>4. QED
        BY <3>2, <4>1, <4>2, <4>3
    <3>3. QED
      BY <3>1, <3>2
  <2>4. Runs(f)
    BY <2>2, <2>3
  <2>5. QED
    BY <2>4
<1>6. PICK g : g = CHOOSE h : Runs(h)
  OBVIOUS
<1>7. Runs(g)
  <2> HIDE DEF Runs
  <2>1. QED
    BY <1>5, <1>6
<1>8. Patched(img, base, copy) = g[n]
  BY <1>1, <1>6 DEF Patched, Turn
<1>9. g[0] = copy /\ \A i \in 1..n : g[i] = Turn(img, base, g[i - 1], i)
  <2>1. \A i \in 0..n : g[i] = IF i = 0 THEN copy ELSE Turn(img, base, g[i - 1], i)
    BY <1>7
  <2>2. 0 \in 0..n /\ \A i \in 1..n : i \in 0..n /\ i # 0
    BY <1>2
  <2>3. QED
    BY <2>1, <2>2
<1>10. QED
  BY <1>1, <1>3, <1>8, <1>9

\* How far the loop has come: the first i relocations are done, and what no
\* relocation so far is about is as it was copied.
Done(img, base, copy, room, i) ==
  /\ room \in Rooms
  /\ \A k \in Room : (\A j \in 1..i : k \notin Touched(img.relocs[j])) => room[k] = copy[k]
  /\ \A j \in 1..i : LinkedAt(room, img, base, img.relocs[j])

LEMMA DoneOn ==
  ASSUME NEW img \in Images, Linkable(img), NEW place \in Places, NEW copy \in Rooms,
         \A j \in DOMAIN img.relocs : Applicable(img, j) /\ AsBuilt(copy, img, j),
         NEW i \in 1..Len(img.relocs), NEW room,
         Done(img, LoadAddress[place], copy, room, i - 1)
  PROVE  Done(img, LoadAddress[place], copy, Turn(img, LoadAddress[place], room, i), i)
<1>1. PICK base : base = LoadAddress[place]
  OBVIOUS
<1>2. PICK after : after = Turn(img, base, room, i)
  OBVIOUS
<1>3. /\ DOMAIN img.relocs = 1..Len(img.relocs) /\ Len(img.relocs) \in Nat
      /\ i \in DOMAIN img.relocs /\ i \in Nat /\ i - 1 \in Nat
  BY DEF Images
<1>4. room \in Rooms /\ Applicable(img, i)
  BY <1>3 DEF Done
<1>5. /\ after \in Rooms
      /\ \A k \in Room \ Touched(img.relocs[i]) : after[k] = room[k]
      /\ AsBuilt(room, img, i) => LinkedAt(after, img, base, img.relocs[i])
  BY <1>1, <1>2, <1>4, OneLinked DEF Turn
<1>6. Touched(img.relocs[i]) \subseteq Room
  <2>1. /\ Touched(img.relocs[i]) \subseteq 0..(Len(img.binary) - 1)
        /\ Len(img.binary) <= RoomSize
    BY <1>3 DEF Linkable
  <2>2. Len(img.binary) \in Nat /\ RoomSize \in Nat
    BY LoaderAssumption DEF Images
  <2>3. QED
    BY <2>1, <2>2 DEF Room
<1>7. \A j \in 1..(i - 1) : j \in DOMAIN img.relocs /\ j # i
  BY <1>3
<1>8. \A j \in 1..(i - 1) : Touched(img.relocs[i]) \cap Touched(img.relocs[j]) = {}
  BY <1>3, <1>7 DEF Linkable
<1>9. AsBuilt(room, img, i)
  <2>1. ASSUME NEW k \in Touched(img.relocs[i]) PROVE room[k] = img.binary[k + 1]
    <3>1. \A j \in 1..(i - 1) : k \notin Touched(img.relocs[j])
      BY <1>8
    <3>2. room[k] = copy[k]
      BY <1>1, <1>6, <3>1 DEF Done
    <3>3. QED
      BY <1>3, <3>2 DEF AsBuilt
  <2>2. QED
    BY <2>1 DEF AsBuilt
<1>10. ASSUME NEW k \in Room, \A j \in 1..i : k \notin Touched(img.relocs[j])
       PROVE  after[k] = copy[k]
  <2>1. i \in 1..i /\ \A j \in 1..(i - 1) : j \in 1..i
    BY <1>3
  <2>2. after[k] = room[k]
    BY <1>5, <1>10, <2>1
  <2>3. room[k] = copy[k]
    BY <1>10, <2>1 DEF Done
  <2>4. QED
    BY <2>2, <2>3
<1>11. ASSUME NEW j \in 1..i PROVE LinkedAt(after, img, base, img.relocs[j])
  <2>1. CASE j = i
    BY <1>5, <1>9, <2>1
  <2>2. CASE j # i
    <3>1. j \in 1..(i - 1)
      BY <1>3, <2>2
    <3>2. LinkedAt(room, img, base, img.relocs[j])
      BY <1>1, <3>1 DEF Done
    <3>3. Touched(img.relocs[j]) \subseteq Room
      <4>1. /\ Touched(img.relocs[j]) \subseteq 0..(Len(img.binary) - 1)
            /\ Len(img.binary) <= RoomSize
        BY <1>7, <3>1 DEF Linkable
      <4>2. Len(img.binary) \in Nat /\ RoomSize \in Nat
        BY LoaderAssumption DEF Images
      <4>3. QED
        BY <4>1, <4>2 DEF Room
    <3>4. \A k \in Touched(img.relocs[j]) : room[k] = after[k]
      BY <1>5, <1>8, <3>1, <3>3
    <3>5. Applicable(img, j)
      BY <1>7, <3>1
    <3>6. QED
      BY <3>2, <3>4, <3>5, LinkedByTouched
  <2>3. QED
    BY <2>1, <2>2
<1>12. Done(img, base, copy, after, i)
  BY <1>5, <1>10, <1>11 DEF Done
<1>13. QED
  BY <1>1, <1>2, <1>12

\* apply_reallocs links the copy to its place, and changes nothing else of it.
LEMMA PatchedIsLinked ==
  ASSUME NEW img \in Images, Linkable(img), NEW place \in Places, NEW copy \in Rooms,
         \A j \in DOMAIN img.relocs : Applicable(img, j) /\ AsBuilt(copy, img, j),
         Cardinality(Applied(img)) = Len(img.relocs)
  PROVE  Done(img, LoadAddress[place], copy, Patched(img, LoadAddress[place], copy),
              Len(img.relocs))
<1>1. PICK n : n = Len(img.relocs)
  OBVIOUS
<1>2. PICK base : base = LoadAddress[place]
  OBVIOUS
<1>3. n \in Nat
  BY <1>1 DEF Images
<1>4. PICK run : /\ run[0] = copy
                 /\ \A i \in 1..n : run[i] = Turn(img, base, run[i - 1], i)
                 /\ run[n] = Patched(img, base, copy)
  BY <1>1, <1>2, PatchedRuns
<1>5. Done(img, base, copy, run[0], 0)
  BY <1>4 DEF Done
<1>6. ASSUME NEW i \in 1..n, Done(img, base, copy, run[i - 1], i - 1)
      PROVE  Done(img, base, copy, run[i], i)
  <2>1. Done(img, base, copy, Turn(img, base, run[i - 1], i), i)
    BY <1>1, <1>2, <1>6, DoneOn
  <2>2. QED
    BY <1>4, <2>1
<1>7. ASSUME NEW i \in 0..n PROVE Done(img, base, copy, run[i], i)
  <2> DEFINE T == {m \in 0..n : ~Done(img, base, copy, run[m], m)}
  <2>1. SUFFICES ASSUME T # {} PROVE FALSE
    OBVIOUS
  <2>2. PICK m \in T : \A j \in T : m <= j
    <3>1. T \subseteq Nat
      OBVIOUS
    <3> HIDE DEF T
    <3>2. QED
      BY <2>1, <3>1, LeastNumber
  <2>3. m \in 0..n /\ ~Done(img, base, copy, run[m], m)
    BY <2>2
  <2>4. m # 0
    BY <1>5, <2>3
  <2>5. m \in 1..n /\ m - 1 \in 0..n /\ ~(m <= m - 1)
    BY <1>3, <2>3, <2>4
  <2>6. m - 1 \notin T
    <3> HIDE DEF T
    <3>1. QED
      BY <2>2, <2>5
  <2>7. Done(img, base, copy, run[m - 1], m - 1)
    BY <2>5, <2>6
  <2>8. QED
    BY <1>6, <2>3, <2>5, <2>7
<1>8. n \in 0..n
  BY <1>3
<1>9. Done(img, base, copy, run[n], n)
  BY <1>7, <1>8
<1>10. QED
  BY <1>1, <1>2, <1>4, <1>9

\* Every relocation of an image that does not stop the loader can be applied.
LEMMA AllApplied ==
  ASSUME NEW img \in Images, ~(Cardinality(Applied(img)) < Len(img.relocs))
  PROVE  /\ Cardinality(Applied(img)) = Len(img.relocs)
         /\ \A i \in DOMAIN img.relocs : Applicable(img, i)
<1>1. PICK n : n = Len(img.relocs)
  OBVIOUS
<1>2. n \in Nat /\ DOMAIN img.relocs = 1..n
  BY <1>1 DEF Images
<1>3. IsFiniteSet(1..n) /\ Cardinality(1..n) = n
  <2>1. 1 \in Int /\ n \in Int
    BY <1>2
  <2>2. IsFiniteSet(1..n) /\ Cardinality(1..n) = IF 1 > n THEN 0 ELSE n - 1 + 1
    BY <2>1, FS_Interval
  <2>3. QED
    BY <1>2, <2>2
<1>4. Applied(img) \in SUBSET (1..n)
  BY <1>2 DEF Applied
<1>5. /\ IsFiniteSet(Applied(img)) /\ Cardinality(Applied(img)) <= Cardinality(1..n)
      /\ Cardinality(1..n) = Cardinality(Applied(img)) => 1..n = Applied(img)
  BY <1>3, <1>4, FS_Subset
<1>6. Cardinality(Applied(img)) \in Nat
  BY <1>5, FS_CardinalityType
<1>7. Cardinality(Applied(img)) = n
  BY <1>1, <1>2, <1>3, <1>5, <1>6
<1>8. 1..n = Applied(img)
  BY <1>3, <1>5, <1>7
<1>9. ASSUME NEW i \in DOMAIN img.relocs PROVE Applicable(img, i)
  <2>1. SUFFICES ASSUME Unsupported(img, img.relocs[i]) PROVE FALSE
    BY <1>9 DEF Applicable
  <2>2. i \in Applied(img) /\ i \in Nat
    BY <1>2, <1>8
  <2>3. i < i
    BY <2>1, <2>2 DEF Applied
  <2>4. QED
    BY <2>2, <2>3
<1>10. QED
  BY <1>1, <1>7, <1>9

StaleRoom == [k \in Room |-> Stale]

LEMMA CopiedAsBuilt ==
  ASSUME NEW img \in Images, Linkable(img)
  PROVE  /\ Copied(img, StaleRoom) \in Rooms
         /\ \A i \in DOMAIN img.relocs : AsBuilt(Copied(img, StaleRoom), img, i)
<1>1. PICK copy : copy = Copied(img, StaleRoom)
  OBVIOUS
<1>2. /\ img.binary \in Seq(Halfwords) /\ Len(img.binary) \in Nat
      /\ img.bss.offset \in Nat /\ img.bss.size \in Nat /\ RoomSize \in Nat
      /\ Len(img.binary) <= RoomSize
  BY LoaderAssumption DEF Images, Linkable
<1>3. Stale \in Halfwords /\ {} \in Halfwords
  BY DEF Stale, Halfwords
<1>4. \A k \in Room : k \in Nat
  BY <1>2 DEF Room
<1>5. \A k \in Room : k < Len(img.binary) => img.binary[k + 1] \in Halfwords
  <2> TAKE k \in Room
  <2> HAVE k < Len(img.binary)
  <2>1. k + 1 \in 1..Len(img.binary)
    BY <1>2, <1>4
  <2>2. QED
    BY <1>2, <2>1
<1>6. \A k \in Room :
        copy[k] = IF k \in img.bss.offset..(img.bss.offset + img.bss.size - 1) THEN {}
                  ELSE IF k < Len(img.binary) THEN img.binary[k + 1] ELSE StaleRoom[k]
  BY <1>1 DEF Copied
<1>7. copy \in Rooms
  <2>1. copy = [k \in Room |-> copy[k]]
    BY <1>1 DEF Copied
  <2>2. \A k \in Room : StaleRoom[k] \in Halfwords
    BY <1>3 DEF StaleRoom
  <2>3. \A k \in Room : copy[k] \in Halfwords
    BY <1>3, <1>5, <1>6, <2>2
  <2>4. QED
    BY <2>1, <2>3 DEF Rooms
<1>8. ASSUME NEW i \in DOMAIN img.relocs PROVE AsBuilt(copy, img, i)
  <2>1. ASSUME NEW k \in Touched(img.relocs[i]) PROVE copy[k] = img.binary[k + 1]
    <3>1. /\ Touched(img.relocs[i]) \subseteq 0..(Len(img.binary) - 1)
          /\ k < img.bss.offset \/ k >= img.bss.offset + img.bss.size
      BY <1>8, <2>1 DEF Linkable
    <3>2. k \in 0..(Len(img.binary) - 1)
      BY <3>1
    <3>3. k \in Room /\ k < Len(img.binary) /\ k \in Nat
      BY <1>2, <3>2 DEF Room
    <3>4. k \notin img.bss.offset..(img.bss.offset + img.bss.size - 1)
      BY <1>2, <3>1, <3>3
    <3>5. QED
      BY <1>6, <3>3, <3>4
  <2>2. QED
    BY <2>1 DEF AsBuilt
<1>9. QED
  BY <1>1, <1>7, <1>8

\* The copy of img that a room holds is linked to place.
IsLinked(img, room, place) ==
  LET patched == UNION {{r.offset, r.offset + 1} : r \in {img.relocs[i] :
                          i \in DOMAIN img.relocs}}
  IN  /\ \A i \in DOMAIN img.relocs :
          LinkedAt(room, img, LoadAddress[place], img.relocs[i])
      /\ \A k \in Room \ patched :
           room[k] = Copied(img, [j \in Room |-> Stale])[k]
      /\ 0 \in EntryPoint(img, LoadAddress[place])

LEMMA LoadLinks ==
  ASSUME NEW img \in Images, Linkable(img), NEW place \in Places,
         img.signature = Signature,
         ~(Cardinality(Applied(img)) < Len(img.relocs))
  PROVE  IsLinked(img, Patched(img, LoadAddress[place], Copied(img, StaleRoom)), place)
<1>1. PICK base : base = LoadAddress[place]
  OBVIOUS
<1>2. PICK copy : copy = Copied(img, StaleRoom)
  OBVIOUS
<1>3. PICK room : room = Patched(img, base, copy)
  OBVIOUS
<1>4. PICK n : n = Len(img.relocs)
  OBVIOUS
<1>5. n \in Nat /\ DOMAIN img.relocs = 1..n
  BY <1>4 DEF Images
<1>6. copy \in Rooms /\ \A i \in DOMAIN img.relocs : AsBuilt(copy, img, i)
  BY <1>2, CopiedAsBuilt
<1>7. /\ Cardinality(Applied(img)) = Len(img.relocs)
      /\ \A i \in DOMAIN img.relocs : Applicable(img, i)
  BY AllApplied
<1>8. Done(img, base, copy, room, n)
  BY <1>1, <1>3, <1>4, <1>6, <1>7, PatchedIsLinked
<1>9. \A i \in DOMAIN img.relocs : LinkedAt(room, img, base, img.relocs[i])
  BY <1>5, <1>8 DEF Done
<1>10. PICK patched : patched = UNION {{r.offset, r.offset + 1} : r \in {img.relocs[i] :
                                         i \in DOMAIN img.relocs}}
  OBVIOUS
<1>11. ASSUME NEW k \in Room \ patched
       PROVE  room[k] = Copied(img, [j \in Room |-> Stale])[k]
  <2>1. ASSUME NEW j \in 1..n PROVE k \notin Touched(img.relocs[j])
    <3>1. img.relocs[j] \in {img.relocs[i] : i \in DOMAIN img.relocs}
      BY <1>5
    <3>2. {img.relocs[j].offset, img.relocs[j].offset + 1} \subseteq patched
      BY <1>10, <3>1
    <3>3. QED
      BY <3>2 DEF Touched
  <2>2. room[k] = copy[k]
    BY <1>8, <2>1 DEF Done
  <2>3. QED
    BY <1>2, <2>2 DEF StaleRoom
<1>12. 0 \in EntryPoint(img, base)
  BY DEF EntryPoint
<1>13. IsLinked(img, room, place)
  BY <1>1, <1>9, <1>10, <1>11, <1>12 DEF IsLinked
<1>14. QED
  BY <1>1, <1>2, <1>3, <1>13

\* A place that nothing has been loaded to is as it was, and a loaded copy is
\* linked to its place.
PlaceInv(place) ==
  IF loaded[place] = NoImage THEN ~stopped => memory[place] = StaleRoom
  ELSE IsLinked(Bundle[loaded[place] + 1], memory[place], place)

LoaderInv ==
  /\ picked \in {NotPicked} \cup 0..(Len(Bundle) - 1)
  /\ memory = [place \in Places |-> memory[place]]
  /\ loaded \in [Places -> {NoImage} \cup 0..(Len(Bundle) - 1)]
  /\ \A place \in Places : PlaceInv(place)

LEMMA LoaderStart == LoaderInit => LoaderInv
<1> SUFFICES ASSUME LoaderInit PROVE LoaderInv
  OBVIOUS
<1>1. \A place \in Places : PlaceInv(place)
  BY DEF LoaderInit, PlaceInv, StaleRoom
<1>2. QED
  BY <1>1 DEF LoaderInit, LoaderInv

LEMMA GetModuleKeeps ==
  ASSUME LoaderInv, NEW id \in 0..Len(Bundle), GetModule(id)
  PROVE  LoaderInv'
<1>1. picked' \in {NotPicked} \cup 0..(Len(Bundle) - 1)
  <2>1. Len(Bundle) \in Nat
    BY LoaderAssumption
  <2>2. QED
    BY <2>1 DEF GetModule
<1>2. UNCHANGED <<memory, loaded, refused, stopped>>
  BY DEF GetModule
<1>3. \A place \in Places : PlaceInv(place)'
  BY <1>2 DEF LoaderInv, PlaceInv
<1>4. QED
  BY <1>1, <1>2, <1>3 DEF LoaderInv

LEMMA LoadKeeps ==
  ASSUME LoaderInv, ~stopped, NEW place \in Places, Load(place)
  PROVE  LoaderInv'
<1>1. CASE ~Loadable(Image)
  <2>1. UNCHANGED <<picked, memory, loaded, stopped>>
    BY <1>1 DEF Load
  <2>2. \A p \in Places : PlaceInv(p)'
    BY <2>1 DEF LoaderInv, PlaceInv
  <2>3. QED
    BY <2>1, <2>2 DEF LoaderInv
<1>2. CASE Loadable(Image)
  <2>1. picked \in 0..(Len(Bundle) - 1) /\ picked' = picked
    BY DEF Load, LoaderInv
  <2>2. Image \in Images /\ Linkable(Image)
    <3>1. Bundle \in Seq(Images) /\ \A n \in DOMAIN Bundle : Linkable(Bundle[n])
      BY LoaderAssumption
    <3>2. picked + 1 \in DOMAIN Bundle
      BY <2>1, <3>1
    <3>3. QED
      BY <3>1, <3>2 DEF Image
  <2>3. PICK img : img = Image
    OBVIOUS
  <2>4. loaded[place] = NoImage /\ memory[place] = StaleRoom
    BY DEF Load, LoaderInv, PlaceInv
  <2>5. PICK room : room = Patched(img, LoadAddress[place], Copied(img, StaleRoom))
    OBVIOUS
  <2>6. /\ memory' = [memory EXCEPT ![place] = room]
        /\ stopped' = (Cardinality(Applied(img)) < Len(img.relocs))
        /\ loaded' = IF stopped' THEN loaded ELSE [loaded EXCEPT ![place] = picked]
    BY <1>2, <2>3, <2>4, <2>5 DEF Load
  <2>7. /\ memory' = [p \in Places |-> memory'[p]] /\ memory'[place] = room
        /\ \A p \in Places \ {place} : memory'[p] = memory[p]
    BY <2>6 DEF LoaderInv
  <2>8. loaded' \in [Places -> {NoImage} \cup 0..(Len(Bundle) - 1)]
    BY <2>1, <2>6 DEF LoaderInv
  <2>9. ASSUME NEW p \in Places PROVE PlaceInv(p)'
    <3>1. CASE p # place
      <4>1. loaded'[p] = loaded[p] /\ memory'[p] = memory[p]
        BY <2>6, <2>7, <3>1 DEF LoaderInv
      <4>2. PlaceInv(p)
        BY DEF LoaderInv
      <4>3. QED
        BY <4>1, <4>2 DEF PlaceInv
    <3>2. CASE p = place /\ stopped'
      <4>1. loaded'[p] = NoImage
        BY <2>4, <2>6, <3>2
      <4>2. QED
        BY <3>2, <4>1 DEF PlaceInv
    <3>3. CASE p = place /\ ~stopped'
      <4>1. loaded'[p] = picked
        BY <2>6, <3>3 DEF LoaderInv
      <4>2. picked # NoImage
        BY <2>1 DEF NoImage
      <4>3. IsLinked(img, room, place)
        <5>1. img.signature = Signature
          BY <1>2, <2>3 DEF Loadable
        <5>2. img \in Images /\ Linkable(img)
          BY <2>2, <2>3
        <5>3. ~(Cardinality(Applied(img)) < Len(img.relocs))
          BY <2>6, <3>3
        <5>4. QED
          BY <2>5, <5>1, <5>2, <5>3, LoadLinks
      <4>4. img = Bundle[loaded'[p] + 1]
        BY <2>3, <4>1 DEF Image
      <4>5. QED
        BY <2>7, <3>3, <4>1, <4>2, <4>3, <4>4 DEF PlaceInv
    <3>4. QED
      BY <3>1, <3>2, <3>3
  <2>10. QED
    BY <2>1, <2>7, <2>8, <2>9 DEF LoaderInv
<1>3. QED
  BY <1>1, <1>2

LEMMA LoaderSound == LoaderInv => LoadedIsLinked
<1> SUFFICES ASSUME LoaderInv, NEW place \in Places, loaded[place] # NoImage
             PROVE  IsLinked(Bundle[loaded[place] + 1], memory[place], place)
  BY Zenon DEF LoadedIsLinked, IsLinked
<1>1. QED
  BY DEF LoaderInv, PlaceInv

-----------------------------------------------------------------------------
(* The checksum                                                            *)

Bytes == SUBSET ByteBits

\* A byte that is xor-ed in can be told from the result, and so can the word.
LEMMA XorTells ==
  ASSUME NEW x \in AWord, NEW y \in AWord, NEW z \in AWord
  PROVE  Xor(x, z) = Xor(y, z) \/ Xor(z, x) = Xor(z, y) => x = y
<1>1. ASSUME Xor(x, z) = Xor(y, z) PROVE x = y
  <2>1. Xor(Xor(x, z), z) = x /\ Xor(Xor(y, z), z) = y
    BY XorCancels
  <2>2. QED
    BY <1>1, <2>1
<1>2. Xor(z, x) = Xor(x, z) /\ Xor(z, y) = Xor(y, z)
  BY DEF Xor
<1>3. QED
  BY <1>1, <1>2

\* One turn of the inner loop maps different words to different words: bit 31
\* tells whether the polynomial has been xor-ed in.
LEMMA ShiftedTells ==
  ASSUME NEW x \in AWord, NEW y \in AWord
  PROVE  Shifted(x) \in AWord /\ (Shifted(x) = Shifted(y) => x = y)
<1>1. /\ \A w \in AWord : Shr(w, 1) \in AWord /\ 31 \notin Shr(w, 1)
      /\ \A w \in AWord, i \in 1..31 : i \in w <=> i - 1 \in Shr(w, 1)
  <2>1. ASSUME NEW w \in AWord PROVE Shr(w, 1) \in AWord
    BY WordsClosed
  <2>2. ASSUME NEW w \in AWord PROVE 31 \notin Shr(w, 1)
    BY DEF AWord, WordBits, Shr
  <2>3. ASSUME NEW w \in AWord, NEW i \in 1..31 PROVE i \in w <=> i - 1 \in Shr(w, 1)
    <3>1. i - 1 \in WordBits
      BY DEF WordBits
    <3>2. i \in w => i - 1 \in Shr(w, 1)
      BY <3>1 DEF Shr
    <3>3. ASSUME i - 1 \in Shr(w, 1) PROVE i \in w
      <4>1. PICK j \in w : j - 1 = i - 1
        BY <3>3 DEF Shr
      <4>2. j \in Int
        BY DEF AWord, WordBits
      <4>3. j = i
        BY <4>1, <4>2
      <4>4. QED
        BY <4>3
    <3>4. QED
      BY <3>2, <3>3
  <2>4. QED
    BY <2>1, <2>2, <2>3
<1>2. Polynomial \in AWord /\ {} \in AWord /\ 31 \in Polynomial
  BY DEF Polynomial, AWord, WordBits
<1>3. \A w \in AWord : 0 \in w <=> 31 \in Shifted(w)
  BY <1>1, <1>2 DEF Shifted, Xor
<1>4. ASSUME NEW w \in AWord PROVE Shifted(w) \in AWord
  BY <1>1, <1>2, WordsClosed DEF Shifted
<1>5. ASSUME Shifted(x) = Shifted(y) PROVE x = y
  <2>1. 0 \in x <=> 0 \in y
    BY <1>3, <1>5
  <2>2. PICK mask \in AWord : /\ Shifted(x) = Xor(Shr(x, 1), mask)
                              /\ Shifted(y) = Xor(Shr(y, 1), mask)
    <3>1. (IF 0 \in x THEN Polynomial ELSE {}) \in AWord
      BY <1>2
    <3>2. QED
      BY <2>1, <3>1 DEF Shifted
  <2>3. Shr(x, 1) = Shr(y, 1)
    BY <1>1, <1>5, <2>2, XorTells
  <2>4. ASSUME NEW i \in WordBits PROVE i \in x <=> i \in y
    <3>1. CASE i = 0
      BY <2>1, <3>1
    <3>2. CASE i # 0
      <4>1. i \in 1..31
        BY <3>2 DEF WordBits
      <4>2. QED
        BY <1>1, <2>3, <4>1
    <3>3. QED
      BY <3>1, <3>2
  <2>5. QED
    BY <2>4 DEF AWord
<1>6. QED
  BY <1>4, <1>5

\* The inner loop.
LEMMA TurnedIs ==
  ASSUME NEW x \in AWord
  PROVE  Turned[x] = Shifted(Shifted(Shifted(Shifted(Shifted(Shifted(Shifted(Shifted(x))))))))
<1> DEFINE Turns(g) == g = [n \in 0..8 |-> IF n = 0 THEN x ELSE Shifted(g[n - 1])]
           step == [i \in 0..(8 - 1) |-> [w \in AWord |-> Shifted(w)]]
<1>1. Turned[x] = (CHOOSE g : Turns(g))[8]
  BY DEF Turned, AWord
<1>2. \E g : Turns(g)
  <2>1. step \in [0..(8 - 1) -> [AWord -> AWord]]
    BY ShiftedTells
  <2>2. PICK s : s = step
    OBVIOUS
  <2>3. PICK f \in [0..8 -> AWord] : Goes(x, 8, s, f)
    <3> HIDE DEF step
    <3>1. 8 \in Nat /\ s \in [0..(8 - 1) -> [AWord -> AWord]]
      BY <2>1, <2>2
    <3>2. QED
      BY <3>1, Iterates
  <2>4. ASSUME NEW n \in 0..8 PROVE f[n] = IF n = 0 THEN x ELSE Shifted(f[n - 1])
    <3>1. CASE n = 0
      BY <2>3, <3>1 DEF Goes
    <3>2. CASE n # 0
      <4>1. n - 1 \in 0..(8 - 1) /\ n - 1 + 1 = n /\ n - 1 \in 0..8
        BY <3>2
      <4>2. f[n - 1 + 1] = s[n - 1][f[n - 1]] /\ f[n - 1] \in AWord
        BY <2>3, <4>1 DEF Goes
      <4>3. s[n - 1][f[n - 1]] = Shifted(f[n - 1])
        BY <2>2, <4>1, <4>2
      <4>4. QED
        BY <3>2, <4>1, <4>2, <4>3
    <3>3. QED
      BY <3>1, <3>2
  <2>5. Turns(f)
    BY <2>3, <2>4
  <2>6. QED
    BY <2>5
<1>3. PICK g : g = CHOOSE h : Turns(h)
  OBVIOUS
<1>4. Turns(g)
  <2> HIDE DEF Turns
  <2>1. QED
    BY <1>2, <1>3
<1>5. \A n \in 0..8 : g[n] = IF n = 0 THEN x ELSE Shifted(g[n - 1])
  BY <1>4
<1>6. /\ g[0] = x /\ g[1] = Shifted(g[0]) /\ g[2] = Shifted(g[1]) /\ g[3] = Shifted(g[2])
      /\ g[4] = Shifted(g[3]) /\ g[5] = Shifted(g[4]) /\ g[6] = Shifted(g[5])
      /\ g[7] = Shifted(g[6]) /\ g[8] = Shifted(g[7])
  BY <1>5
<1>7. QED
  BY <1>1, <1>3, <1>6

LEMMA TurnedTells ==
  ASSUME NEW x \in AWord, NEW y \in AWord
  PROVE  Turned[x] \in AWord /\ (Turned[x] = Turned[y] => x = y)
<1>1. /\ \A v \in AWord : Shifted(v) \in AWord
      /\ \A v, w \in AWord : Shifted(v) = Shifted(w) => v = w
  BY ShiftedTells
<1> DEFINE S2(w) == Shifted(Shifted(w))
           S4(w) == S2(S2(w))
<1>2. \A v, w \in AWord : S2(v) \in AWord /\ (S2(v) = S2(w) => v = w)
  BY <1>1
<1>3. \A v, w \in AWord : S4(v) \in AWord /\ (S4(v) = S4(w) => v = w)
  <2> HIDE DEF S2
  <2>1. QED
    BY <1>2
<1>4. Turned[x] = S4(S4(x)) /\ Turned[y] = S4(S4(y))
  BY TurnedIs
<1> HIDE DEF S4
<1>5. QED
  BY <1>3, <1>4

\* The register goes through the bytes.
LEMMA RegisterRuns ==
  ASSUME NEW bytes \in Seq(Bytes)
  PROVE  \E run \in [0..Len(bytes) -> AWord] :
           /\ run[0] = WordBits
           /\ \A i \in 1..Len(bytes) : run[i] = Turned[Xor(run[i - 1], bytes[i])]
           /\ Crc32(bytes) = Complement(run[Len(bytes)])
<1>1. PICK n \in Nat : n = Len(bytes)
  OBVIOUS
<1>2. \A i \in 1..n : bytes[i] \in AWord
  <2> TAKE i \in 1..n
  <2>1. bytes[i] \in Bytes
    BY <1>1
  <2>2. QED
    BY <2>1 DEF Bytes, ByteBits, AWord, WordBits
<1>3. WordBits \in AWord
  BY DEF AWord
<1> DEFINE Runs(g) == g = [i \in 0..n |-> IF i = 0 THEN WordBits
                                          ELSE Turned[Xor(g[i - 1], bytes[i])]]
           step == [i \in 0..(n - 1) |-> [w \in AWord |-> Turned[Xor(w, bytes[i + 1])]]]
<1>4. ASSUME NEW i \in 1..n, NEW w \in AWord PROVE Turned[Xor(w, bytes[i])] \in AWord
  BY <1>2, WordsClosed, TurnedTells
<1>5. \E g : Runs(g)
  <2>1. step \in [0..(n - 1) -> [AWord -> AWord]]
    <3>1. ASSUME NEW i \in 0..(n - 1), NEW w \in AWord
          PROVE  Turned[Xor(w, bytes[i + 1])] \in AWord
      <4>1. i + 1 \in 1..n
        BY <1>1
      <4>2. QED
        BY <1>4, <4>1
    <3>2. QED
      BY <3>1
  <2>2. PICK s : s = step
    OBVIOUS
  <2>3. PICK f \in [0..n -> AWord] : Goes(WordBits, n, s, f)
    <3> HIDE DEF step
    <3>1. s \in [0..(n - 1) -> [AWord -> AWord]]
      BY <2>1, <2>2
    <3>2. QED
      BY <1>3, <3>1, Iterates
  <2>4. ASSUME NEW i \in 0..n
        PROVE  f[i] = IF i = 0 THEN WordBits ELSE Turned[Xor(f[i - 1], bytes[i])]
    <3>1. CASE i = 0
      BY <2>3, <3>1 DEF Goes
    <3>2. CASE i # 0
      <4>1. i - 1 \in 0..(n - 1) /\ i - 1 + 1 = i /\ i - 1 \in 0..n
        BY <1>1, <3>2
      <4>2. f[i - 1 + 1] = s[i - 1][f[i - 1]] /\ f[i - 1] \in AWord
        BY <2>3, <4>1 DEF Goes
      <4>3. s[i - 1][f[i - 1]] = Turned[Xor(f[i - 1], bytes[i - 1 + 1])]
        BY <2>2, <4>1, <4>2
      <4>4. QED
        BY <3>2, <4>1, <4>2, <4>3
    <3>3. QED
      BY <3>1, <3>2
  <2>5. Runs(f)
    BY <2>3, <2>4
  <2>6. QED
    BY <2>5
<1>6. PICK g : g = CHOOSE h : Runs(h)
  OBVIOUS
<1>7. Runs(g)
  <2> HIDE DEF Runs
  <2>1. QED
    BY <1>5, <1>6
<1>8. Crc32(bytes) = Complement(g[n])
  BY <1>1, <1>6 DEF Crc32
<1>9. g[0] = WordBits /\ \A i \in 1..n : g[i] = Turned[Xor(g[i - 1], bytes[i])]
  <2>1. \A i \in 0..n : g[i] = IF i = 0 THEN WordBits ELSE Turned[Xor(g[i - 1], bytes[i])]
    BY <1>7
  <2>2. 0 \in 0..n /\ \A i \in 1..n : i \in 0..n /\ i # 0
    BY <1>1
  <2>3. QED
    BY <2>1, <2>2
<1>10. ASSUME NEW i \in 0..n PROVE g[i] \in AWord
  <2> DEFINE T == {m \in 0..n : g[m] \notin AWord}
  <2>1. SUFFICES ASSUME T # {} PROVE FALSE
    OBVIOUS
  <2>2. PICK m \in T : \A j \in T : m <= j
    <3>1. T \subseteq Nat
      OBVIOUS
    <3> HIDE DEF T
    <3>2. QED
      BY <2>1, <3>1, LeastNumber
  <2>3. m \in 0..n /\ g[m] \notin AWord
    BY <2>2
  <2>4. m # 0
    BY <1>3, <1>9, <2>3
  <2>5. m \in 1..n /\ m - 1 \in 0..n /\ ~(m <= m - 1)
    BY <1>1, <2>3, <2>4
  <2>6. m - 1 \notin T
    <3> HIDE DEF T
    <3>1. QED
      BY <2>2, <2>5
  <2>7. g[m - 1] \in AWord
    BY <2>5, <2>6
  <2>8. QED
    BY <1>4, <1>9, <2>3, <2>5, <2>7
<1>11. g \in [0..n -> AWord]
  <2>1. g = [i \in 0..n |-> g[i]]
    BY <1>7
  <2>2. QED
    BY <1>10, <2>1
<1>12. QED
  BY <1>1, <1>8, <1>9, <1>11

\* The checksums of two sequences that differ in one byte differ.
LEMMA OneByteTells ==
  ASSUME NEW bytes \in Seq(Bytes), NEW other \in Seq(Bytes), Len(bytes) = Len(other),
         NEW k \in 1..Len(bytes), bytes[k] # other[k],
         \A i \in 1..Len(bytes) : i # k => bytes[i] = other[i]
  PROVE  Crc32(bytes) # Crc32(other)
<1>1. PICK n \in Nat : n = Len(bytes)
  OBVIOUS
<1>2. PICK run \in [0..n -> AWord] :
        /\ run[0] = WordBits
        /\ \A i \in 1..n : run[i] = Turned[Xor(run[i - 1], bytes[i])]
        /\ Crc32(bytes) = Complement(run[n])
  BY <1>1, RegisterRuns
<1>3. PICK run2 \in [0..n -> AWord] :
        /\ run2[0] = WordBits
        /\ \A i \in 1..n : run2[i] = Turned[Xor(run2[i - 1], other[i])]
        /\ Crc32(other) = Complement(run2[n])
  BY <1>1, RegisterRuns
<1>4. \A i \in 1..n : bytes[i] \in AWord /\ other[i] \in AWord
  <2> TAKE i \in 1..n
  <2>1. bytes[i] \in Bytes /\ other[i] \in Bytes
    BY <1>1
  <2>2. Bytes \subseteq AWord
    BY DEF Bytes, ByteBits, AWord, WordBits
  <2>3. QED
    BY <2>1, <2>2
<1> DEFINE Known(i) == run[i] = run2[i] <=> i < k
<1>5. Known(0)
  BY <1>2, <1>3
<1>6. ASSUME NEW i \in 1..n, Known(i - 1) PROVE Known(i)
  <2>1. i - 1 \in 0..n /\ i \in Nat /\ k \in Nat
    BY <1>1
  <2>2. PICK x \in AWord : x = run[i - 1]
    BY <2>1
  <2>3. PICK y \in AWord : y = run2[i - 1]
    BY <2>1
  <2>4. PICK b \in AWord : b = bytes[i]
    BY <1>4
  <2>5. PICK c \in AWord : c = other[i]
    BY <1>4
  <2>6. run[i] = Turned[Xor(x, b)] /\ run2[i] = Turned[Xor(y, c)]
    BY <1>2, <1>3, <2>2, <2>3, <2>4, <2>5
  <2>7. Xor(x, b) \in AWord /\ Xor(y, c) \in AWord
    BY WordsClosed
  <2>8. run[i] = run2[i] <=> Xor(x, b) = Xor(y, c)
    BY <2>6, <2>7, TurnedTells
  <2>9. x = y <=> i - 1 < k
    BY <1>6, <2>2, <2>3
  <2>10. CASE i < k
    <3>1. x = y /\ b = c
      BY <1>1, <2>1, <2>4, <2>5, <2>9, <2>10
    <3>2. QED
      BY <2>8, <2>10, <3>1
  <2>11. CASE i = k
    <3>1. x = y /\ b # c
      BY <2>1, <2>4, <2>5, <2>9, <2>11
    <3>2. Xor(x, b) # Xor(y, c)
      BY <3>1, XorTells
    <3>3. QED
      BY <2>1, <2>8, <2>11, <3>2
  <2>12. CASE i > k
    <3>1. x # y /\ b = c
      BY <1>1, <2>1, <2>4, <2>5, <2>9, <2>12
    <3>2. Xor(x, b) # Xor(y, c)
      BY <3>1, XorTells
    <3>3. QED
      BY <2>1, <2>8, <2>12, <3>2
  <2>13. QED
    BY <2>1, <2>10, <2>11, <2>12
<1> HIDE DEF Known
<1>7. ASSUME NEW i \in 0..n PROVE Known(i)
  <2> DEFINE T == {m \in 0..n : ~Known(m)}
  <2>1. SUFFICES ASSUME T # {} PROVE FALSE
    OBVIOUS
  <2>2. PICK m \in T : \A j \in T : m <= j
    <3>1. T \subseteq Nat
      OBVIOUS
    <3> HIDE DEF T
    <3>2. QED
      BY <2>1, <3>1, LeastNumber
  <2>3. m \in 0..n /\ ~Known(m)
    BY <2>2
  <2>4. m # 0
    BY <1>5, <2>3
  <2>5. m \in 1..n /\ m - 1 \in 0..n /\ ~(m <= m - 1)
    BY <1>1, <2>3, <2>4
  <2>6. m - 1 \notin T
    <3> HIDE DEF T
    <3>1. QED
      BY <2>2, <2>5
  <2>7. Known(m - 1)
    BY <2>5, <2>6
  <2>8. QED
    BY <1>6, <2>3, <2>5, <2>7
<1>8. run[n] # run2[n]
  <2>1. n \in 0..n /\ ~(n < k)
    BY <1>1
  <2>2. QED
    BY <1>7, <2>1 DEF Known
<1>9. run[n] \in AWord /\ run2[n] \in AWord
  BY <1>1
<1>10. Complement(run[n]) # Complement(run2[n])
  BY <1>8, <1>9 DEF Complement, AWord
<1>11. QED
  BY <1>2, <1>3, <1>10

\* What check_crc32 answers.
Passes(img) == img.signature = SignatureByte /\ Crc32(ZeroedBytes(img)) = img.crc

\* The image is as it was built or has been damaged; then it does not pass.
CheckInv ==
  /\ damaged \in BOOLEAN
  /\ ~damaged => image = Built
  /\ damaged => ~Passes(image)
  /\ checked = "good" => ~damaged
  /\ checked = "bad" => damaged

LEMMA BuiltPasses == CrcIsStored => Passes(Built)
BY DEF CrcIsStored, Passes, Built

LEMMA CheckStart == CheckInit => CheckInv
BY DEF CheckInit, CheckInv

LEMMA ZeroedBytesAre ==
  ASSUME NEW img, img.signature \in Bytes, img.body \in Seq(Bytes)
  PROVE  /\ ZeroedBytes(img) \in Seq(Bytes)
         /\ Len(ZeroedBytes(img)) = 5 + Len(img.body)
         /\ \A i \in 1..5 : ZeroedBytes(img)[i] = <<img.signature, {}, {}, {}, {}>>[i]
         /\ \A i \in 6..(5 + Len(img.body)) : ZeroedBytes(img)[i] = img.body[i - 5]
<1>1. PICK front : front = <<img.signature, {}, {}, {}, {}>>
  OBVIOUS
<1>2. front \in Seq(Bytes) /\ Len(front) = 5
  BY <1>1 DEF Bytes
<1>3. ZeroedBytes(img) = front \o img.body
  BY <1>1 DEF ZeroedBytes
<1>4. PICK body \in Seq(Bytes) : body = img.body
  OBVIOUS
<1>5. /\ front \o body \in Seq(Bytes) /\ Len(front \o body) = 5 + Len(body)
      /\ \A i \in 1..5 : (front \o body)[i] = front[i]
      /\ \A i \in 6..(5 + Len(body)) : (front \o body)[i] = body[i - 5]
  <2>1. front \o body \in Seq(Bytes) /\ Len(front \o body) = Len(front) + Len(body)
    BY <1>2, ConcatProperties
  <2>2. \A i \in 1..(Len(front) + Len(body)) :
          (front \o body)[i] = IF i <= Len(front) THEN front[i] ELSE body[i - Len(front)]
    BY <1>2, ConcatProperties
  <2>3. PICK m \in Nat : m = Len(body)
    OBVIOUS
  <2>4. PICK all : all = front \o body
    OBVIOUS
  <2>5. \A i \in 1..(5 + m) : all[i] = IF i <= 5 THEN front[i] ELSE body[i - 5]
    BY <1>2, <2>2, <2>3, <2>4
  <2>6. \A i \in 1..5 : all[i] = front[i]
    BY <2>5
  <2>7. \A i \in 6..(5 + m) : all[i] = body[i - 5]
    BY <2>5
  <2>8. QED
    BY <1>2, <2>1, <2>3, <2>4, <2>6, <2>7
<1>6. QED
  BY <1>1, <1>3, <1>4, <1>5

LEMMA FlippedBits ==
  ASSUME NEW byte \in Bytes, NEW bits \in (SUBSET ByteBits) \ {{}}
  PROVE  Xor(byte, bits) \in Bytes /\ Xor(byte, bits) # byte
<1>1. PICK bit \in bits : bit \in ByteBits
  OBVIOUS
<1>2. bit \in Xor(byte, bits) <=> bit \notin byte
  BY <1>1 DEF Xor
<1>3. Xor(byte, bits) \in Bytes
  BY DEF Bytes, Xor
<1>4. QED
  BY <1>2, <1>3

LEMMA DamageKeeps == CrcIsStored /\ CheckInv /\ Damage => CheckInv'
<1> SUFFICES ASSUME CrcIsStored, CheckInv, Damage PROVE CheckInv'
  OBVIOUS
<1>1. image = Built /\ damaged' = TRUE /\ checked' = "not yet"
  BY DEF Damage, CheckInv
<1>2. /\ Built.signature = SignatureByte /\ Built.body = Body /\ Built.crc = StoredCrc
      /\ Built = [signature |-> SignatureByte, body |-> Body, crc |-> StoredCrc]
      /\ SignatureByte \in Bytes /\ Body \in Seq(Bytes)
  BY ImageAssumption DEF Built, Bytes
<1>3. StoredCrc = Crc32(ZeroedBytes(Built)) /\ StoredCrc \in AWord
  BY DEF CrcIsStored, Crc32, Complement, AWord
<1>4. ASSUME NEW i \in DOMAIN Body, NEW bits \in (SUBSET ByteBits) \ {{}},
             image' = [image EXCEPT !.body[i] = Xor(@, bits)]
      PROVE  ~Passes(image')
  <2>1. PICK byte : byte = Xor(Body[i], bits)
    OBVIOUS
  <2>2. Body[i] \in Bytes
    BY <1>2
  <2>3. byte \in Bytes /\ byte # Body[i]
    BY <2>1, <2>2, FlippedBits DEF Bytes
  <2>4. PICK body : body = [Body EXCEPT ![i] = byte]
    OBVIOUS
  <2>5. image' = [signature |-> SignatureByte, body |-> body, crc |-> StoredCrc]
    BY <1>1, <1>2, <1>4, <2>1, <2>4
  <2>6. PICK m \in Nat : m = Len(Body) /\ DOMAIN Body = 1..m
    BY <1>2
  <2>7. /\ body \in Seq(Bytes) /\ Len(body) = m /\ body[i] = byte
        /\ \A j \in 1..m : j # i => body[j] = Body[j]
    BY <1>2, <2>3, <2>4, <2>6
  <2>8. PICK bytes : bytes = ZeroedBytes(Built)
    OBVIOUS
  <2>9. PICK other : other = ZeroedBytes(image')
    OBVIOUS
  <2>10. /\ bytes \in Seq(Bytes) /\ Len(bytes) = 5 + m
         /\ \A j \in 1..5 : bytes[j] = <<SignatureByte, {}, {}, {}, {}>>[j]
         /\ \A j \in 6..(5 + m) : bytes[j] = Body[j - 5]
    BY <1>2, <2>6, <2>8, ZeroedBytesAre
  <2>11. /\ other \in Seq(Bytes) /\ Len(other) = 5 + m
         /\ \A j \in 1..5 : other[j] = <<SignatureByte, {}, {}, {}, {}>>[j]
         /\ \A j \in 6..(5 + m) : other[j] = body[j - 5]
    <3>1. image'.signature = SignatureByte /\ image'.body = body
      BY <2>5
    <3>2. PICK img : img = image'
      OBVIOUS
    <3>3. img.signature = SignatureByte /\ img.body = body
      BY <3>1, <3>2
    <3>4. /\ ZeroedBytes(img) \in Seq(Bytes) /\ Len(ZeroedBytes(img)) = 5 + Len(img.body)
          /\ \A j \in 1..5 : ZeroedBytes(img)[j] = <<img.signature, {}, {}, {}, {}>>[j]
          /\ \A j \in 6..(5 + Len(img.body)) : ZeroedBytes(img)[j] = img.body[j - 5]
      BY <1>2, <2>7, <3>3, ZeroedBytesAre
    <3>5. other = ZeroedBytes(img)
      BY <2>9, <3>2
    <3>6. QED
      BY <2>7, <3>3, <3>4, <3>5
  <2>12. i + 5 \in 1..Len(bytes) /\ i + 5 \in 6..(5 + m) /\ i + 5 - 5 = i
    <3>1. i \in 1..m /\ Len(bytes) = 5 + m
      BY <2>6, <2>10
    <3>2. QED
      BY <3>1
  <2>13. bytes[i + 5] # other[i + 5]
    <3>1. PICK j \in 6..(5 + m) : j = i + 5
      BY <2>12
    <3>2. bytes[j] = Body[j - 5] /\ other[j] = body[j - 5]
      BY <2>10, <2>11
    <3>3. j - 5 = i
      BY <2>6, <3>1
    <3>4. QED
      BY <2>3, <2>7, <3>1, <3>2, <3>3
  <2>14. ASSUME NEW j \in 1..Len(bytes), j # i + 5 PROVE bytes[j] = other[j]
    <3>1. CASE j \in 1..5
      BY <2>10, <2>11, <3>1
    <3>2. CASE j \notin 1..5
      <4>1. j \in 6..(5 + m) /\ j - 5 \in 1..m /\ j - 5 # i
        BY <2>6, <2>10, <2>14, <3>2
      <4>2. bytes[j] = Body[j - 5] /\ other[j] = body[j - 5]
        BY <2>10, <2>11, <4>1
      <4>3. QED
        BY <2>7, <4>1, <4>2
    <3>3. QED
      BY <3>1, <3>2
  <2>15. Crc32(bytes) # Crc32(other)
    BY <2>10, <2>11, <2>12, <2>13, <2>14, OneByteTells
  <2>16. image'.crc = StoredCrc
    BY <2>5
  <2>17. QED
    BY <1>3, <2>8, <2>9, <2>15, <2>16 DEF Passes
<1>5. ASSUME NEW i \in WordBits, NEW j \in WordBits,
             image' = [image EXCEPT !.crc = Xor(@, {i, j})]
      PROVE  ~Passes(image')
  <2>1. PICK crc : crc = Xor(StoredCrc, {i, j})
    OBVIOUS
  <2>2. crc # StoredCrc
    BY <2>1 DEF Xor
  <2>3. image' = [signature |-> SignatureByte, body |-> Body, crc |-> crc]
    BY <1>1, <1>2, <1>5, <2>1
  <2>4. ZeroedBytes(image') = ZeroedBytes(Built) /\ image'.crc = crc
    BY <1>2, <2>3 DEF ZeroedBytes
  <2>5. QED
    BY <1>3, <2>2, <2>4 DEF Passes
<1>6. ASSUME NEW bits \in (SUBSET ByteBits) \ {{}},
             image' = [image EXCEPT !.signature = Xor(@, bits)]
      PROVE  ~Passes(image')
  <2>1. PICK byte : byte = Xor(SignatureByte, bits)
    OBVIOUS
  <2>2. byte # SignatureByte
    BY <1>2, <2>1, FlippedBits DEF Bytes
  <2>3. image' = [signature |-> byte, body |-> Body, crc |-> StoredCrc]
    BY <1>1, <1>2, <1>6, <2>1
  <2>4. QED
    BY <2>2, <2>3 DEF Passes
<1>7. ~Passes(image')
  BY <1>4, <1>5, <1>6 DEF Damage
<1>8. QED
  BY <1>1, <1>7 DEF CheckInv, Passes, ZeroedBytes

LEMMA CheckKeeps == CrcIsStored /\ CheckInv /\ CheckCrc32 => CheckInv'
<1> SUFFICES ASSUME CrcIsStored, CheckInv, CheckCrc32 PROVE CheckInv'
  OBVIOUS
<1>1. UNCHANGED <<image, damaged>> /\ checked' = IF Passes(image) THEN "good" ELSE "bad"
  BY DEF CheckCrc32, Passes
<1>2. Passes(image) <=> ~damaged
  BY BuiltPasses DEF CheckInv
<1>3. (damaged => ~Passes(image))'
  BY <1>1, <1>2 DEF Passes, ZeroedBytes
<1>4. "good" # "bad"
  OBVIOUS
<1>5. QED
  BY <1>1, <1>2, <1>3, <1>4 DEF CheckInv

ModulesInv == LoaderInv /\ CheckInv

LEMMA LoaderKeeps == LoaderInv /\ LoaderNext => LoaderInv'
<1> SUFFICES ASSUME LoaderInv, LoaderNext PROVE LoaderInv'
  OBVIOUS
<1>1. ~stopped
  BY DEF LoaderNext
<1>2. ASSUME NEW id \in 0..Len(Bundle), GetModule(id) PROVE LoaderInv'
  BY <1>2, GetModuleKeeps
<1>3. ASSUME NEW place \in Places, Load(place) PROVE LoaderInv'
  BY <1>1, <1>3, LoadKeeps
<1>4. QED
  BY <1>2, <1>3 DEF LoaderNext

LEMMA LoaderUnchanged == LoaderInv /\ UNCHANGED loaderVars => LoaderInv'
<1> SUFFICES ASSUME LoaderInv, UNCHANGED loaderVars PROVE LoaderInv'
  OBVIOUS
<1>1. UNCHANGED <<picked, memory, loaded, stopped>>
  BY DEF loaderVars
<1>2. \A place \in Places : PlaceInv(place)'
  BY <1>1 DEF LoaderInv, PlaceInv
<1>3. QED
  BY <1>1, <1>2 DEF LoaderInv

LEMMA CheckUnchanged == CheckInv /\ UNCHANGED checkVars => CheckInv'
BY DEF CheckInv, checkVars, Passes, ZeroedBytes

LEMMA ModulesStep == CrcIsStored /\ ModulesInv /\ [Next]_vars => ModulesInv'
<1> SUFFICES ASSUME CrcIsStored, ModulesInv, [Next]_vars PROVE ModulesInv'
  OBVIOUS
<1>1. LoaderInv /\ CheckInv
  BY DEF ModulesInv
<1>2. LoaderInv'
  <2>1. LoaderNext \/ UNCHANGED loaderVars
    BY Zenon DEF Next, vars
  <2>2. QED
    BY <1>1, <2>1, LoaderKeeps, LoaderUnchanged
<1>3. CheckInv'
  <2>1. CheckNext \/ UNCHANGED checkVars
    BY Zenon DEF Next, vars
  <2>2. QED
    BY <1>1, <2>1, DamageKeeps, CheckKeeps, CheckUnchanged DEF CheckNext
<1>4. QED
  BY <1>2, <1>3 DEF ModulesInv

\* LoadedIsLinked and DamageIsNoticed.  A copy that bundle::get_module and
\* module::load have made is linked to the address it has, whatever its
\* relocations and wherever it is, and check_crc32 notices each damage to one
\* byte or to one or two bits of the stored checksum, for every image that was
\* built with the checksum the kernel calculates.
THEOREM ModulesStaySound == CrcIsStored => (Spec => []ModulesAreSound)
<1> SUFFICES ASSUME CrcIsStored PROVE Spec => []ModulesAreSound
  OBVIOUS
<1>1. Init => ModulesInv
  BY LoaderStart, CheckStart DEF Init, ModulesInv
<1>2. ModulesInv /\ [Next]_vars => ModulesInv'
  BY ModulesStep
<1>3. ModulesInv => ModulesAreSound
  BY LoaderSound DEF ModulesInv, ModulesAreSound, CheckInv, DamageIsNoticed
<1>4. QED
  BY <1>1, <1>2, <1>3, PTL DEF Spec

=============================================================================
