-------------------------- MODULE AllocatorsProofs --------------------------
(***************************************************************************)
(* Proofs about Allocators, for every region, every set of requests and    *)
(* every order of the calls.  The list allocators' half rests on           *)
(* ListHeapProofs.  For TLSF each function of tlsf::base is shown to keep  *)
(*   Typed   addresses and links lead to headers,                          *)
(*   Linked  the free lists agree with themselves and with the buckets,    *)
(*   Tiles   the blocks tile the heap and know their predecessors,         *)
(*   Calm    no two neighbours are free,                                   *)
(* and to change the blocks in use as the call promises (GivenBack, Taken, *)
(* Grown).  The parts: powers of two and size classes, lists, blocks in    *)
(* memory, merging, splitting, the calls, the clients, the invariant, the  *)
(* steps, init, the theorems.                                              *)
(***************************************************************************)
EXTENDS Allocators, ListHeapProofs, FiniteSetTheorems, WellFoundedInduction

-----------------------------------------------------------------------------
(* Powers of two and size classes                                          *)

LEMMA LeastNumber ==
  ASSUME NEW T, T \subseteq Nat, T # {}
  PROVE  \E x \in T : \A y \in T : x <= y
<1> DEFINE R == OpToRel(<, Nat)
<1>1. IsWellFoundedOn(R, Nat)
  BY NatLessThanWellFounded
<1> HIDE DEF R
<1>2. PICK x \in T : \A y \in T : ~(<<y, x>> \in R)
  BY <1>1, WFMin
<1>3. ASSUME NEW y \in T PROVE x <= y
  <2>1. ~(<<y, x>> \in R)
    BY <1>2
  <2>2. ~(y < x)
    BY <2>1 DEF R, OpToRel
  <2>3. QED
    BY <2>2
<1>4. QED
  BY <1>3

Pow2 == [k \in 0..32 |-> 2^k]

\* The provers know the powers of two one by one.
PowerTable(f) ==
  /\ f[0] = 1 /\ f[1] = 2 /\ f[2] = 4 /\ f[3] = 8 /\ f[4] = 16 /\ f[5] = 32
  /\ f[6] = 64 /\ f[7] = 128 /\ f[8] = 256 /\ f[9] = 512 /\ f[10] = 1024
  /\ f[11] = 2048 /\ f[12] = 4096 /\ f[13] = 8192 /\ f[14] = 16384
  /\ f[15] = 32768 /\ f[16] = 65536 /\ f[17] = 131072 /\ f[18] = 262144
  /\ f[19] = 524288 /\ f[20] = 1048576 /\ f[21] = 2097152 /\ f[22] = 4194304
  /\ f[23] = 8388608 /\ f[24] = 16777216 /\ f[25] = 33554432
  /\ f[26] = 67108864 /\ f[27] = 134217728 /\ f[28] = 268435456
  /\ f[29] = 536870912 /\ f[30] = 1073741824 /\ f[31] = 2147483648
  /\ f[32] = 4294967296

LEMMA PowersListed == PowerTable(Pow2)
BY SMT DEF PowerTable, Pow2

LEMMA Doubling ==
  ASSUME NEW k \in 0..31
  PROVE  /\ Pow2[k] \in Nat /\ Pow2[k] > 0
         /\ Pow2[k + 1] = 2 * Pow2[k]
         /\ 2^k = Pow2[k] /\ 2^(k + 1) = Pow2[k + 1]
<1>1. \A f : PowerTable(f) => \A i \in 0..31 : f[i] \in Nat /\ f[i + 1] = 2 * f[i] /\ f[i] > 0
  BY SMT DEF PowerTable
<1>2. 2^k = Pow2[k] /\ 2^(k + 1) = Pow2[k + 1]
  BY DEF Pow2
<1>3. QED
  BY ONLY <1>1, <1>2, PowersListed, k \in 0..31

LEMMA PowersGrow ==
  ASSUME NEW j \in 0..32, NEW k \in 0..32, j < k
  PROVE  2 * Pow2[j] <= Pow2[k]
<1>1. \A f : PowerTable(f) => \A a, b \in 0..32 : a < b => 2 * f[a] <= f[b]
  BY SMT DEF PowerTable
<1>2. QED
  BY ONLY <1>1, PowersListed, j \in 0..32, k \in 0..32, j < k

LEMMA SomePowers ==
  /\ Pow2[0] = 1 /\ Pow2[5] = 32 /\ Pow2[6] = 64
  /\ Pow2[32] \in Nat
<1>1. Pow2[0] = 1 /\ Pow2[5] = 32 /\ Pow2[6] = 64
  BY SMT, PowersListed DEF PowerTable
<1>2. Pow2[31 + 1] = 2 * Pow2[31] /\ Pow2[31] \in Nat
  BY Doubling
<1>3. 2 * Pow2[31] \in Nat
  BY <1>2
<1>4. QED
  BY <1>1, <1>2, <1>3

\* Lengths of memory: a 32-bit address space.
Lengths == {n \in Nat : n < Pow2[32]}

IsLog2(k, n) == k \in 0..31 /\ Pow2[k] <= n /\ n < Pow2[k + 1]

LEMMA LogExists == ASSUME NEW n \in Lengths, n > 0 PROVE \E k : IsLog2(k, n)
<1> DEFINE T == {k \in 0..32 : n < Pow2[k]}
<1>1. 32 \in T
  BY SomePowers DEF Lengths
<1>2. PICK j \in T : \A i \in T : j <= i
  <2>1. T \subseteq Nat /\ T # {}
    BY <1>1
  <2> HIDE DEF T
  <2>2. QED
    BY <2>1, LeastNumber
<1>3. j # 0
  BY SomePowers DEF Lengths
<1>4. j - 1 \in 0..31 /\ j - 1 \notin T
  BY <1>2, <1>3
<1>5. Pow2[j - 1] \in Nat
  BY <1>4, Doubling
<1>6. IsLog2(j - 1, n)
  BY <1>2, <1>4, <1>5 DEF IsLog2, Lengths
<1>7. QED
  BY <1>6

\* find_max_log2 never decreases.
LEMMA LogMonotone ==
  ASSUME NEW n \in Lengths, NEW m \in Lengths, n <= m,
         NEW j, IsLog2(j, n), NEW k, IsLog2(k, m)
  PROVE  j <= k
<1>1. SUFFICES ASSUME k < j PROVE FALSE
  BY DEF IsLog2
<1>2. k + 1 \in 0..32 /\ j \in 0..32 /\ k + 1 <= j
  BY <1>1 DEF IsLog2
<1>3. Pow2[k] \in Nat /\ Pow2[j] \in Nat /\ Pow2[k + 1] = 2 * Pow2[k]
  BY Doubling DEF IsLog2
<1>4. 2 * Pow2[k] <= Pow2[j]
  BY <1>1, <1>2, PowersGrow DEF IsLog2
<1>5. m < 2 * Pow2[k] /\ Pow2[j] <= n
  BY <1>3 DEF IsLog2
<1>6. QED
  BY ONLY <1>3, <1>4, <1>5, n \in Lengths, m \in Lengths, n <= m DEF Lengths

LEMMA FoundLog ==
  ASSUME NEW n \in Lengths, n > 0
  PROVE  IsLog2(FindMaxLog2(n), n)
<1>1. PICK k : IsLog2(k, n)
  BY LogExists
<1>2. \A i \in 0..31 : IsLog2(i, n) <=> 2^i <= n /\ n < 2^(i + 1)
  BY Doubling DEF IsLog2
<1>3. \E i \in 0..31 : 2^i <= n /\ n < 2^(i + 1)
  BY <1>1, <1>2 DEF IsLog2
<1>4. /\ FindMaxLog2(n) \in 0..31
      /\ 2^FindMaxLog2(n) <= n /\ n < 2^(FindMaxLog2(n) + 1)
  BY <1>3 DEF FindMaxLog2
<1>5. QED
  BY <1>2, <1>4

LEMMA MainClass ==
  ASSUME NEW n \in Lengths, 32 <= n
  PROVE  FindMaxLog2(n) \in 5..31
<1>1. IsLog2(5, 32)
  BY SomePowers DEF IsLog2
<1>2. IsLog2(FindMaxLog2(n), n) /\ 32 \in Lengths
  BY FoundLog, SomePowers DEF Lengths
<1>3. 5 <= FindMaxLog2(n)
  BY <1>1, <1>2, LogMonotone
<1>4. QED
  BY <1>2, <1>3 DEF IsLog2

LEMMA SubClass ==
  ASSUME NEW n \in Lengths, NEW k \in 5..31, IsLog2(k, n)
  PROVE  (n - 2^k) \div (2^k \div 4) \in 0..3
<1>1. PICK q \in Nat : q = Pow2[k - 2]
  BY k - 2 \in 0..31, Doubling
<1>2. 2^k = 4 * q /\ Pow2[k] = 4 * q /\ q > 0 /\ Pow2[k + 1] = 8 * q
  <2>1. Pow2[k - 2 + 1] = 2 * q /\ q > 0
    BY <1>1, k - 2 \in 0..31, Doubling
  <2>2. k - 2 + 1 = k - 1
    OBVIOUS
  <2>3. Pow2[k - 1 + 1] = 4 * q
    BY <2>1, <2>2, k - 1 \in 0..31, Doubling
  <2>4. k - 1 + 1 = k
    OBVIOUS
  <2>5. 2^k = Pow2[k] /\ Pow2[k + 1] = 2 * Pow2[k]
    BY k \in 0..31, Doubling
  <2>6. Pow2[k] = 4 * q
    BY <2>3, <2>4
  <2>7. q \in Nat
    BY <1>1
  <2>8. QED
    BY ONLY <2>1, <2>5, <2>6, <2>7
<1>3. n - 2^k \in 0..4 * q - 1
  BY <1>2 DEF IsLog2, Lengths
<1>4. 2^k \div 4 = q
  BY <1>2
<1>5. PICK r \in Nat : r = n - 2^k /\ r < 4 * q
  BY <1>3
<1>6. r \div q \in 0..3
  BY <1>2, <1>5
<1>7. QED
  BY <1>4, <1>5, <1>6

\* The class of a block is one of those the table has a row for.
LEMMA SplitIsClass ==
  ASSUME NEW n \in Lengths, NEW m \in Lengths, n <= m
  PROVE  SplitSize(n) \in Classes(LevelCount(m)) /\ LevelCount(m) \in Nat
<1> DEFINE main(i) == IF i < 32 THEN 0 ELSE FindMaxLog2(i) - 5
<1>1. 2^MinClassLog2 = 32 /\ MinClassLog2 = 5 /\ SubclassCount = 4
  BY DEF MinClassLog2, SubclassCount
<1>2. ASSUME NEW i \in Lengths
      PROVE  SplitSize(i)[1] = main(i) /\ SplitSize(i)[2] \in 0..3
             /\ SplitSize(i) = <<SplitSize(i)[1], SplitSize(i)[2]>>
             /\ main(i) \in 0..26
  <2>1. CASE i < 32
    BY <1>1, <2>1 DEF SplitSize, Lengths
  <2>2. CASE ~(i < 32)
    <3>1. FindMaxLog2(i) \in 5..31 /\ IsLog2(FindMaxLog2(i), i)
      BY <2>2, MainClass, FoundLog DEF Lengths
    <3>2. (i - 2^FindMaxLog2(i)) \div (2^FindMaxLog2(i) \div 4) \in 0..3
      BY <3>1, SubClass
    <3>3. SplitSize(i) = <<FindMaxLog2(i) - 5,
                           (i - 2^FindMaxLog2(i)) \div (2^FindMaxLog2(i) \div 4)>>
      BY <1>1, <2>2 DEF SplitSize
    <3>4. QED
      BY <2>2, <3>1, <3>2, <3>3
  <2>3. QED
    BY <2>1, <2>2
<1>3. main(n) <= main(m)
  <2>1. CASE n < 32
    BY <1>2, <2>1
  <2>2. CASE ~(n < 32)
    <3>1. n >= 32 /\ m >= 32
      BY <2>2 DEF Lengths
    <3>2. IsLog2(FindMaxLog2(n), n) /\ IsLog2(FindMaxLog2(m), m)
      BY <3>1, FoundLog DEF Lengths
    <3>3. FindMaxLog2(n) <= FindMaxLog2(m)
      BY <3>2, LogMonotone
    <3>4. QED
      BY <3>1, <3>2, <3>3 DEF IsLog2, Lengths
  <2>3. QED
    BY <2>1, <2>2
<1> HIDE DEF main
<1>4. LevelCount(m) = main(m) + 1
  BY <1>2 DEF LevelCount
<1>5. SplitSize(n)[1] \in 0..LevelCount(m) - 1 /\ SplitSize(n)[2] \in 0..3
  BY <1>2, <1>3, <1>4
<1>6. QED
  BY <1>1, <1>2, <1>4, <1>5 DEF Classes

-----------------------------------------------------------------------------
(* Heaps and their lists                                                   *)

Addresses(h) == DOMAIN h.hdr

Headers(D) == [size : Nat, used : BOOLEAN, prev_phys : D \cup {Nil},
               prev : D \cup {Nil}, next : D \cup {Nil}]

Typed(h, m) ==
  /\ h = [hdr |-> h.hdr, bucket |-> h.bucket]
  /\ Addresses(h) \subseteq Nat
  /\ h.hdr \in [Addresses(h) -> Headers(Addresses(h))]
  /\ h.bucket \in [Classes(m) -> Addresses(h) \cup {Nil}]

\* The links agree with each other, and only free blocks of one class are
\* linked; a bucket holds the first block of a list of its class.
Linked(h) ==
  /\ \A b \in Addresses(h) :
       /\ h.hdr[b].next # Nil =>
            /\ h.hdr[h.hdr[b].next].prev = b
            /\ ~h.hdr[b].used /\ ~h.hdr[h.hdr[b].next].used
            /\ ClassOf(h, b) = ClassOf(h, h.hdr[b].next)
       /\ h.hdr[b].prev # Nil => h.hdr[h.hdr[b].prev].next = b
  /\ \A c \in DOMAIN h.bucket :
       h.bucket[c] # Nil => /\ ~h.hdr[h.bucket[c]].used
                            /\ ClassOf(h, h.bucket[c]) = c
                            /\ h.hdr[h.bucket[c]].prev = Nil

\* A block that is in no list.
Loose(h, b) ==
  /\ h.hdr[b].prev = Nil /\ h.hdr[b].next = Nil
  /\ \A c \in DOMAIN h.bucket : h.bucket[c] # b

\* The blocks of two heaps are the same but for their lists.
SameBlocks(h, g) ==
  /\ Addresses(g) = Addresses(h)
  /\ \A x \in Addresses(h) : /\ g.hdr[x].size = h.hdr[x].size
                              /\ g.hdr[x].used = h.hdr[x].used
                              /\ g.hdr[x].prev_phys = h.hdr[x].prev_phys

LEMMA NilIsNoAddress == ASSUME NEW h, NEW m, Typed(h, m) PROVE Nil \notin Addresses(h)
BY DEF Typed, Nil

LEMMA SetPrevFields ==
  ASSUME NEW D, Nil \notin D, NEW r \in [D -> Headers(D)],
         NEW b \in D \cup {Nil}, NEW p \in D \cup {Nil}
  PROVE  /\ SetPrev(r, b, p) \in [D -> Headers(D)]
         /\ \A x \in D :
              /\ SetPrev(r, b, p)[x].size = r[x].size
              /\ SetPrev(r, b, p)[x].used = r[x].used
              /\ SetPrev(r, b, p)[x].prev_phys = r[x].prev_phys
              /\ SetPrev(r, b, p)[x].next = r[x].next
              /\ SetPrev(r, b, p)[x].prev = IF x = b THEN p ELSE r[x].prev
<1>1. CASE b = Nil
  BY <1>1 DEF SetPrev
<1>2. CASE b # Nil
  BY <1>2 DEF SetPrev, Headers
<1>3. QED
  BY <1>1, <1>2

LEMMA SetNextFields ==
  ASSUME NEW D, Nil \notin D, NEW r \in [D -> Headers(D)],
         NEW b \in D \cup {Nil}, NEW p \in D \cup {Nil}
  PROVE  /\ SetNext(r, b, p) \in [D -> Headers(D)]
         /\ \A x \in D :
              /\ SetNext(r, b, p)[x].size = r[x].size
              /\ SetNext(r, b, p)[x].used = r[x].used
              /\ SetNext(r, b, p)[x].prev_phys = r[x].prev_phys
              /\ SetNext(r, b, p)[x].prev = r[x].prev
              /\ SetNext(r, b, p)[x].next = IF x = b THEN p ELSE r[x].next
<1>1. CASE b = Nil
  BY <1>1 DEF SetNext
<1>2. CASE b # Nil
  BY <1>2 DEF SetNext, Headers
<1>3. QED
  BY <1>1, <1>2

LEMMA SetPhysFields ==
  ASSUME NEW C, NEW D, Nil \notin C, NEW r \in [C -> Headers(D)],
         NEW b \in C \cup {Nil}, NEW p \in D \cup {Nil}
  PROVE  /\ SetPhys(r, b, p) \in [C -> Headers(D)]
         /\ \A x \in C :
              /\ SetPhys(r, b, p)[x].size = r[x].size
              /\ SetPhys(r, b, p)[x].used = r[x].used
              /\ SetPhys(r, b, p)[x].prev = r[x].prev
              /\ SetPhys(r, b, p)[x].next = r[x].next
              /\ SetPhys(r, b, p)[x].prev_phys =
                   IF x = b THEN p ELSE r[x].prev_phys
<1>1. CASE b = Nil
  BY <1>1 DEF SetPhys
<1>2. CASE b # Nil
  BY <1>2 DEF SetPhys, Headers
<1>3. QED
  BY <1>1, <1>2

\* remove_from_list, field by field.
LEMMA RemoveFields ==
  ASSUME NEW h, NEW m, Typed(h, m), NEW b \in Addresses(h),
         NEW g, g = RemoveFromList(h, b)
  PROVE  /\ Typed(g, m) /\ SameBlocks(h, g)
         /\ \A x \in Addresses(h) :
              /\ g.hdr[x].next = IF x = b THEN Nil
                                 ELSE IF x = h.hdr[b].prev THEN h.hdr[b].next
                                 ELSE h.hdr[x].next
              /\ g.hdr[x].prev = IF x = b THEN Nil
                                 ELSE IF x = h.hdr[b].next THEN h.hdr[b].prev
                                 ELSE h.hdr[x].prev
         /\ \A c \in Classes(m) :
              g.bucket[c] = IF c = ClassOf(h, b) /\ h.hdr[b].prev = Nil
                            THEN h.hdr[b].next ELSE h.bucket[c]
<1> DEFINE D == Addresses(h)
<1>1. Nil \notin D
  BY NilIsNoAddress
<1>2. PICK p : p = h.hdr[b].prev /\ p \in D \cup {Nil}
  BY DEF Typed, Headers
<1>3. PICK n : n = h.hdr[b].next /\ n \in D \cup {Nil}
  BY DEF Typed, Headers
<1>4. PICK r : r = h.hdr /\ r \in [D -> Headers(D)]
  BY DEF Typed
<1> HIDE DEF D
<1>5. PICK r1 : r1 = SetPrev(r, n, p)
  OBVIOUS
<1>6. PICK r2 : r2 = SetNext(r1, p, n)
  OBVIOUS
<1>7. PICK r3 : r3 = SetPrev(r2, b, Nil)
  OBVIOUS
<1>8. PICK r4 : r4 = SetNext(r3, b, Nil)
  OBVIOUS
<1>9. b \in D
  BY DEF D
<1>10. /\ r1 \in [D -> Headers(D)]
       /\ \A x \in D : /\ r1[x].size = r[x].size /\ r1[x].used = r[x].used
                       /\ r1[x].prev_phys = r[x].prev_phys
                       /\ r1[x].next = r[x].next
                       /\ r1[x].prev = IF x = n THEN p ELSE r[x].prev
  BY ONLY <1>1, <1>2, <1>3, <1>4, <1>5, SetPrevFields
<1>11. /\ r2 \in [D -> Headers(D)]
       /\ \A x \in D : /\ r2[x].size = r1[x].size /\ r2[x].used = r1[x].used
                       /\ r2[x].prev_phys = r1[x].prev_phys
                       /\ r2[x].prev = r1[x].prev
                       /\ r2[x].next = IF x = p THEN n ELSE r1[x].next
  BY ONLY <1>1, <1>2, <1>3, <1>6, <1>10, SetNextFields
<1>12. /\ r3 \in [D -> Headers(D)]
       /\ \A x \in D : /\ r3[x].size = r2[x].size /\ r3[x].used = r2[x].used
                       /\ r3[x].prev_phys = r2[x].prev_phys
                       /\ r3[x].next = r2[x].next
                       /\ r3[x].prev = IF x = b THEN Nil ELSE r2[x].prev
  BY ONLY <1>1, <1>9, <1>7, <1>11, SetPrevFields
<1>13. /\ r4 \in [D -> Headers(D)]
       /\ \A x \in D : /\ r4[x].size = r3[x].size /\ r4[x].used = r3[x].used
                       /\ r4[x].prev_phys = r3[x].prev_phys
                       /\ r4[x].prev = r3[x].prev
                       /\ r4[x].next = IF x = b THEN Nil ELSE r3[x].next
  BY ONLY <1>1, <1>9, <1>8, <1>12, SetNextFields
<1>14. PICK k : k = IF p # Nil THEN h.bucket
                    ELSE [h.bucket EXCEPT ![ClassOf(h, b)] = n]
  OBVIOUS
<1>15. g = [hdr |-> r4, bucket |-> k]
  BY <1>2, <1>3, <1>4, <1>5, <1>6, <1>7, <1>8, <1>14 DEF RemoveFromList
<1>16. /\ k \in [Classes(m) -> D \cup {Nil}]
       /\ \A c \in Classes(m) : k[c] = IF c = ClassOf(h, b) /\ p = Nil
                                       THEN n ELSE h.bucket[c]
  <2>1. h.bucket \in [Classes(m) -> D \cup {Nil}]
    BY DEF Typed, D
  <2>2. QED
    BY <1>3, <1>14, <2>1
<1>17. g.hdr = r4 /\ g.bucket = k /\ Addresses(g) = D
  BY <1>13, <1>15 DEF Addresses
<1>18. D \subseteq Nat
  BY DEF Typed, D
<1>19. Typed(g, m)
  BY ONLY <1>13, <1>15, <1>16, <1>17, <1>18 DEF Typed
<1>20. \A x \in D : /\ r4[x].size = h.hdr[x].size /\ r4[x].used = h.hdr[x].used
                    /\ r4[x].prev_phys = h.hdr[x].prev_phys
                    /\ r4[x].next = IF x = b THEN Nil ELSE IF x = p THEN n
                                    ELSE h.hdr[x].next
                    /\ r4[x].prev = IF x = b THEN Nil ELSE IF x = n THEN p
                                    ELSE h.hdr[x].prev
  BY ONLY <1>4, <1>10, <1>11, <1>12, <1>13
<1>21. SameBlocks(h, g)
  BY ONLY <1>17, <1>20 DEF SameBlocks, D
<1>22. QED
  BY <1>2, <1>3, <1>16, <1>17, <1>19, <1>20, <1>21 DEF D

LEMMA SameClasses ==
  ASSUME NEW h, NEW g, SameBlocks(h, g), NEW x \in Addresses(h)
  PROVE  ClassOf(g, x) = ClassOf(h, x)
BY DEF SameBlocks, ClassOf

\* The values of links.
LEMMA LinkTypes ==
  ASSUME NEW h, NEW m, Typed(h, m), NEW x \in Addresses(h)
  PROVE  /\ h.hdr[x].next \in Addresses(h) \cup {Nil}
         /\ h.hdr[x].prev \in Addresses(h) \cup {Nil}
         /\ h.hdr[x].prev_phys \in Addresses(h) \cup {Nil}
         /\ h.hdr[x].size \in Nat /\ h.hdr[x].used \in BOOLEAN
         /\ x \in Nat
<1>1. h.hdr[x] \in Headers(Addresses(h))
  BY DEF Typed
<1>2. QED
  BY <1>1 DEF Headers, Typed

LEMMA RemoveKeepsLists ==
  ASSUME NEW h, NEW m, Typed(h, m), Linked(h), NEW b \in Addresses(h),
         NEW g, g = RemoveFromList(h, b)
  PROVE  /\ Linked(g) /\ Loose(g, b)
         /\ \A x \in Addresses(h) : Loose(h, x) => Loose(g, x)
<1> DEFINE D == Addresses(h)
<1>1. Typed(g, m) /\ SameBlocks(h, g) /\ Addresses(g) = D
  BY RemoveFields DEF SameBlocks
<1>2. PICK p : p = h.hdr[b].prev /\ p \in D \cup {Nil}
  BY LinkTypes
<1>3. PICK n : n = h.hdr[b].next /\ n \in D \cup {Nil}
  BY LinkTypes
<1>4. \A x \in D :
        /\ g.hdr[x].next = IF x = b THEN Nil ELSE IF x = p THEN n ELSE h.hdr[x].next
        /\ g.hdr[x].prev = IF x = b THEN Nil ELSE IF x = n THEN p ELSE h.hdr[x].prev
  BY <1>2, <1>3, RemoveFields
<1>5. \A c \in Classes(m) :
        g.bucket[c] = IF c = ClassOf(h, b) /\ p = Nil THEN n ELSE h.bucket[c]
  BY <1>2, <1>3, RemoveFields
<1>6. \A x \in D : ClassOf(g, x) = ClassOf(h, x) /\ g.hdr[x].used = h.hdr[x].used
  BY <1>1, SameClasses DEF SameBlocks
<1>7. DOMAIN g.bucket = Classes(m) /\ DOMAIN h.bucket = Classes(m)
  BY <1>1 DEF Typed
<1>8. Nil \notin D /\ b \in D
  BY NilIsNoAddress
<1>9. \A x \in D : /\ h.hdr[x].next \in D \cup {Nil}
                   /\ h.hdr[x].prev \in D \cup {Nil}
  BY LinkTypes
<1>10. \A c \in Classes(m) : h.bucket[c] \in D \cup {Nil}
  BY DEF Typed
<1>11. \A x \in D :
         /\ h.hdr[x].next # Nil =>
              /\ h.hdr[h.hdr[x].next].prev = x
              /\ ~h.hdr[x].used /\ ~h.hdr[h.hdr[x].next].used
              /\ ClassOf(h, x) = ClassOf(h, h.hdr[x].next)
         /\ h.hdr[x].prev # Nil => h.hdr[h.hdr[x].prev].next = x
  BY DEF Linked
<1>12. \A c \in Classes(m) :
         h.bucket[c] # Nil => /\ ~h.hdr[h.bucket[c]].used
                              /\ ClassOf(h, h.bucket[c]) = c
                              /\ h.hdr[h.bucket[c]].prev = Nil
  BY <1>7 DEF Linked
<1> HIDE DEF D
<1>13. ASSUME NEW x \in D, g.hdr[x].next # Nil
       PROVE  /\ g.hdr[g.hdr[x].next].prev = x
              /\ ~g.hdr[x].used /\ ~g.hdr[g.hdr[x].next].used
              /\ ClassOf(g, x) = ClassOf(g, g.hdr[x].next)
  <2>1. x # b
    BY <1>4, <1>13
  <2>2. CASE x = p
    <3>1. g.hdr[x].next = n /\ n \in D /\ n # b
      BY <1>2, <1>3, <1>4, <1>8, <1>11, <1>13, <2>1, <2>2
    <3>2. g.hdr[n].prev = p
      BY <1>4, <3>1
    <3>3. h.hdr[p].next = b /\ p # Nil
      BY <1>2, <1>8, <1>11, <2>2
    <3>4. ~h.hdr[p].used /\ ClassOf(h, p) = ClassOf(h, b)
      BY <1>8, <1>11, <2>2, <3>3
    <3>5. ~h.hdr[n].used /\ ClassOf(h, b) = ClassOf(h, n)
      BY <1>3, <1>8, <1>11, <3>1
    <3>6. QED
      BY <1>6, <2>2, <3>1, <3>2, <3>4, <3>5
  <2>3. CASE x # p
    <3>1. PICK y : y = h.hdr[x].next /\ y = g.hdr[x].next
      BY <1>4, <2>1, <2>3
    <3>2. y \in D /\ h.hdr[y].prev = x
      BY <1>9, <1>11, <1>13, <3>1
    <3>3. y # b
      BY <1>2, <2>3, <3>2
    <3>4. y # n
      BY <1>3, <1>8, <1>11, <2>1, <3>2
    <3>5. g.hdr[y].prev = x
      BY <1>4, <3>2, <3>3, <3>4
    <3>6. ~h.hdr[x].used /\ ~h.hdr[y].used /\ ClassOf(h, x) = ClassOf(h, y)
      BY <1>11, <1>13, <3>1
    <3>7. QED
      BY <1>6, <3>1, <3>2, <3>5, <3>6
  <2>4. QED
    BY <2>2, <2>3
<1>14. ASSUME NEW x \in D, g.hdr[x].prev # Nil
       PROVE  g.hdr[g.hdr[x].prev].next = x
  <2>1. x # b
    BY <1>4, <1>14
  <2>2. CASE x = n
    <3>1. g.hdr[x].prev = p /\ p \in D
      BY <1>2, <1>4, <1>14, <2>1, <2>2
    <3>2. p # b
      BY <1>2, <1>3, <1>8, <1>11, <2>1, <2>2, <3>1
    <3>3. QED
      BY <1>4, <2>2, <3>1, <3>2
  <2>3. CASE x # n
    <3>1. PICK y : y = h.hdr[x].prev /\ y = g.hdr[x].prev
      BY <1>4, <2>1, <2>3
    <3>2. y \in D /\ h.hdr[y].next = x
      BY <1>9, <1>11, <1>14, <3>1
    <3>3. y # b
      BY <1>3, <2>3, <3>2
    <3>4. y # p
      BY <1>2, <1>8, <1>11, <2>1, <3>2
    <3>5. QED
      BY <1>4, <3>1, <3>2, <3>3, <3>4
  <2>4. QED
    BY <2>2, <2>3
<1>15. ASSUME NEW c \in Classes(m), g.bucket[c] # Nil
       PROVE  /\ ~g.hdr[g.bucket[c]].used
              /\ ClassOf(g, g.bucket[c]) = c
              /\ g.hdr[g.bucket[c]].prev = Nil
              /\ g.bucket[c] # b
  <2>1. CASE c = ClassOf(h, b) /\ p = Nil
    <3>1. g.bucket[c] = n /\ n \in D
      BY <1>3, <1>5, <1>15, <2>1
    <3>2. n # b
      <4>1. h.hdr[n].prev = b
        BY <1>3, <1>8, <1>11, <3>1
      <4>2. h.hdr[b].prev = Nil /\ b # Nil
        BY <1>2, <1>8, <2>1
      <4>3. QED
        BY <4>1, <4>2
    <3>3. g.hdr[n].prev = Nil
      BY <1>4, <2>1, <3>1
    <3>4. ~h.hdr[n].used /\ ClassOf(h, n) = ClassOf(h, b)
      BY <1>3, <1>8, <1>11, <3>1
    <3>5. QED
      BY <1>6, <2>1, <3>1, <3>2, <3>3, <3>4
  <2>2. CASE ~(c = ClassOf(h, b) /\ p = Nil)
    <3>1. PICK y : y = h.bucket[c] /\ y = g.bucket[c]
      BY <1>5, <2>2
    <3>2. y \in D /\ ~h.hdr[y].used /\ ClassOf(h, y) = c /\ h.hdr[y].prev = Nil
      BY <1>10, <1>12, <1>15, <3>1
    <3>3. y # b
      BY <1>2, <2>2, <3>2
    <3>4. y # n
      BY <1>3, <1>8, <1>11, <3>2
    <3>5. QED
      BY <1>4, <1>6, <3>1, <3>2, <3>3, <3>4
  <2>3. QED
    BY <2>1, <2>2
<1>16. Linked(g)
  BY ONLY <1>1, <1>7, <1>13, <1>14, <1>15 DEF Linked
<1>17. Loose(g, b)
  BY <1>4, <1>7, <1>8, <1>15 DEF Loose
<1>18. ASSUME NEW x \in D, Loose(h, x) PROVE Loose(g, x)
  <2>1. h.hdr[x].prev = Nil /\ h.hdr[x].next = Nil
        /\ \A c \in Classes(m) : h.bucket[c] # x
    BY <1>7, <1>18 DEF Loose
  <2>2. x # n \/ x = b
    BY <1>3, <1>8, <1>11, <2>1
  <2>3. x # p \/ x = b
    BY <1>2, <1>8, <1>11, <2>1
  <2>4. g.hdr[x].prev = Nil /\ g.hdr[x].next = Nil
    BY <1>4, <2>1, <2>2, <2>3
  <2>5. CASE x = b
    BY <1>17, <2>5
  <2>6. CASE x # b
    BY <1>5, <1>7, <2>1, <2>2, <2>4, <2>6 DEF Loose
  <2>7. QED
    BY <2>5, <2>6
<1>19. QED
  BY <1>16, <1>17, <1>18 DEF D

\* insert_to_list, field by field.
LEMMA InsertFields ==
  ASSUME NEW h, NEW m, Typed(h, m), NEW b \in Addresses(h),
         ClassOf(h, b) \in Classes(m),
         NEW g, g = InsertToList(h, b),
         NEW f, f = h.bucket[ClassOf(h, b)], f # b
  PROVE  /\ Typed(g, m) /\ SameBlocks(h, g)
         /\ f \in Addresses(h) \cup {Nil}
         /\ \A x \in Addresses(h) :
              /\ g.hdr[x].next = IF x = b THEN f ELSE h.hdr[x].next
              /\ g.hdr[x].prev = IF x = b THEN Nil ELSE IF x = f THEN b
                                 ELSE h.hdr[x].prev
         /\ \A c \in Classes(m) :
              g.bucket[c] = IF c = ClassOf(h, b) THEN b ELSE h.bucket[c]
<1> DEFINE D == Addresses(h)
<1>1. Nil \notin D
  BY NilIsNoAddress
<1>2. h.bucket \in [Classes(m) -> D \cup {Nil}] /\ f \in D \cup {Nil}
  BY DEF Typed
<1>3. PICK r : r = h.hdr /\ r \in [D -> Headers(D)]
  BY DEF Typed
<1> HIDE DEF D
<1>4. PICK r1 : r1 = SetPrev(r, b, Nil)
  OBVIOUS
<1>5. PICK r2 : r2 = SetPrev(r1, f, b)
  OBVIOUS
<1>6. PICK r3 : r3 = SetNext(r2, b, f)
  OBVIOUS
<1>7. b \in D
  BY DEF D
<1>8. /\ r1 \in [D -> Headers(D)]
      /\ \A x \in D : /\ r1[x].size = r[x].size /\ r1[x].used = r[x].used
                      /\ r1[x].prev_phys = r[x].prev_phys
                      /\ r1[x].next = r[x].next
                      /\ r1[x].prev = IF x = b THEN Nil ELSE r[x].prev
  BY ONLY <1>1, <1>3, <1>4, <1>7, SetPrevFields
<1>9. /\ r2 \in [D -> Headers(D)]
      /\ \A x \in D : /\ r2[x].size = r1[x].size /\ r2[x].used = r1[x].used
                      /\ r2[x].prev_phys = r1[x].prev_phys
                      /\ r2[x].next = r1[x].next
                      /\ r2[x].prev = IF x = f THEN b ELSE r1[x].prev
  BY ONLY <1>1, <1>2, <1>5, <1>7, <1>8, SetPrevFields
<1>10. /\ r3 \in [D -> Headers(D)]
       /\ \A x \in D : /\ r3[x].size = r2[x].size /\ r3[x].used = r2[x].used
                       /\ r3[x].prev_phys = r2[x].prev_phys
                       /\ r3[x].prev = r2[x].prev
                       /\ r3[x].next = IF x = b THEN f ELSE r2[x].next
  BY ONLY <1>1, <1>2, <1>6, <1>7, <1>9, SetNextFields
<1>11. PICK k : k = [h.bucket EXCEPT ![ClassOf(h, b)] = b]
  OBVIOUS
<1>12. g = [hdr |-> r3, bucket |-> k]
  BY <1>3, <1>4, <1>5, <1>6, <1>11 DEF InsertToList
<1>13. /\ k \in [Classes(m) -> D \cup {Nil}]
       /\ \A c \in Classes(m) : k[c] = IF c = ClassOf(h, b) THEN b ELSE h.bucket[c]
  BY <1>2, <1>7, <1>11
<1>14. g.hdr = r3 /\ g.bucket = k /\ Addresses(g) = D
  BY <1>10, <1>12 DEF Addresses
<1>15. D \subseteq Nat
  BY DEF Typed, D
<1>16. Typed(g, m)
  BY ONLY <1>10, <1>12, <1>13, <1>14, <1>15 DEF Typed
<1>17. \A x \in D : /\ r3[x].size = h.hdr[x].size /\ r3[x].used = h.hdr[x].used
                    /\ r3[x].prev_phys = h.hdr[x].prev_phys
                    /\ r3[x].next = IF x = b THEN f ELSE h.hdr[x].next
                    /\ r3[x].prev = IF x = b THEN Nil ELSE IF x = f THEN b
                                    ELSE h.hdr[x].prev
  BY ONLY <1>3, <1>8, <1>9, <1>10, f # b
<1>18. SameBlocks(h, g)
  BY ONLY <1>14, <1>17 DEF SameBlocks, D
<1>19. QED
  BY <1>2, <1>13, <1>14, <1>16, <1>17, <1>18 DEF D

LEMMA InsertKeepsLists ==
  ASSUME NEW h, NEW m, Typed(h, m), Linked(h), NEW b \in Addresses(h),
         ClassOf(h, b) \in Classes(m), ~h.hdr[b].used, Loose(h, b),
         NEW g, g = InsertToList(h, b)
  PROVE  /\ Typed(g, m) /\ SameBlocks(h, g) /\ Linked(g)
         /\ g.bucket[ClassOf(h, b)] = b
         /\ \A x \in Addresses(h) : Loose(h, x) /\ x # b => Loose(g, x)
<1> DEFINE D == Addresses(h)
<1>1. PICK f : f = h.bucket[ClassOf(h, b)]
  OBVIOUS
<1>2. DOMAIN h.bucket = Classes(m)
  BY DEF Typed
<1>3. f # b
  BY <1>1, <1>2 DEF Loose
<1>4. Typed(g, m) /\ SameBlocks(h, g) /\ f \in D \cup {Nil}
  BY <1>1, <1>3, InsertFields
<1>5. \A x \in D :
        /\ g.hdr[x].next = IF x = b THEN f ELSE h.hdr[x].next
        /\ g.hdr[x].prev = IF x = b THEN Nil ELSE IF x = f THEN b ELSE h.hdr[x].prev
  BY <1>1, <1>3, InsertFields
<1>6. \A c \in Classes(m) :
        g.bucket[c] = IF c = ClassOf(h, b) THEN b ELSE h.bucket[c]
  BY <1>1, <1>3, InsertFields
<1>7. \A x \in D : ClassOf(g, x) = ClassOf(h, x) /\ g.hdr[x].used = h.hdr[x].used
  BY <1>4, SameClasses DEF SameBlocks
<1>8. DOMAIN g.bucket = Classes(m) /\ Addresses(g) = D
  BY <1>4 DEF Typed, SameBlocks
<1>9. Nil \notin D /\ b \in D
  BY NilIsNoAddress
<1>10. \A x \in D : /\ h.hdr[x].next \in D \cup {Nil}
                    /\ h.hdr[x].prev \in D \cup {Nil}
  BY LinkTypes
<1>11. \A c \in Classes(m) : h.bucket[c] \in D \cup {Nil}
  BY DEF Typed
<1>12. \A x \in D :
         /\ h.hdr[x].next # Nil =>
              /\ h.hdr[h.hdr[x].next].prev = x
              /\ ~h.hdr[x].used /\ ~h.hdr[h.hdr[x].next].used
              /\ ClassOf(h, x) = ClassOf(h, h.hdr[x].next)
         /\ h.hdr[x].prev # Nil => h.hdr[h.hdr[x].prev].next = x
  BY DEF Linked
<1>13. \A c \in Classes(m) :
         h.bucket[c] # Nil => /\ ~h.hdr[h.bucket[c]].used
                              /\ ClassOf(h, h.bucket[c]) = c
                              /\ h.hdr[h.bucket[c]].prev = Nil
  BY <1>2 DEF Linked
<1>14. h.hdr[b].prev = Nil /\ h.hdr[b].next = Nil
       /\ \A c \in Classes(m) : h.bucket[c] # b
  BY <1>2 DEF Loose
<1>15. f # Nil => ~h.hdr[f].used /\ ClassOf(h, f) = ClassOf(h, b) /\ h.hdr[f].prev = Nil
  BY <1>1, <1>13
<1> HIDE DEF D
<1>16. ASSUME NEW x \in D, g.hdr[x].next # Nil
       PROVE  /\ g.hdr[g.hdr[x].next].prev = x
              /\ ~g.hdr[x].used /\ ~g.hdr[g.hdr[x].next].used
              /\ ClassOf(g, x) = ClassOf(g, g.hdr[x].next)
  <2>1. CASE x = b
    <3>1. g.hdr[x].next = f /\ f \in D
      BY <1>4, <1>5, <1>16, <2>1
    <3>2. g.hdr[f].prev = b
      BY <1>3, <1>5, <3>1
    <3>3. QED
      BY <1>7, <1>9, <1>15, <2>1, <3>1, <3>2
  <2>2. CASE x # b
    <3>1. PICK y : y = h.hdr[x].next /\ y = g.hdr[x].next
      BY <1>5, <2>2
    <3>2. y \in D /\ h.hdr[y].prev = x
      BY <1>10, <1>12, <1>16, <3>1
    <3>3. y # b
      BY <1>9, <1>14, <3>2
    <3>4. y # f
      BY <1>9, <1>15, <3>2
    <3>5. g.hdr[y].prev = x
      BY <1>5, <3>2, <3>3, <3>4
    <3>6. ~h.hdr[x].used /\ ~h.hdr[y].used /\ ClassOf(h, x) = ClassOf(h, y)
      BY <1>12, <1>16, <3>1
    <3>7. QED
      BY <1>7, <3>1, <3>2, <3>5, <3>6
  <2>3. QED
    BY <2>1, <2>2
<1>17. ASSUME NEW x \in D, g.hdr[x].prev # Nil
       PROVE  g.hdr[g.hdr[x].prev].next = x
  <2>1. x # b
    BY <1>5, <1>17
  <2>2. CASE x = f
    BY <1>5, <1>9, <2>1, <2>2
  <2>3. CASE x # f
    <3>1. PICK y : y = h.hdr[x].prev /\ y = g.hdr[x].prev
      BY <1>5, <2>1, <2>3
    <3>2. y \in D /\ h.hdr[y].next = x
      BY <1>10, <1>12, <1>17, <3>1
    <3>3. y # b
      BY <1>9, <1>14, <3>2
    <3>4. QED
      BY <1>5, <3>1, <3>2, <3>3
  <2>4. QED
    BY <2>2, <2>3
<1>18. ASSUME NEW c \in Classes(m), g.bucket[c] # Nil
       PROVE  /\ ~g.hdr[g.bucket[c]].used
              /\ ClassOf(g, g.bucket[c]) = c
              /\ g.hdr[g.bucket[c]].prev = Nil
  <2>1. CASE c = ClassOf(h, b)
    BY <1>5, <1>6, <1>7, <1>9, <2>1
  <2>2. CASE c # ClassOf(h, b)
    <3>1. PICK y : y = h.bucket[c] /\ y = g.bucket[c]
      BY <1>6, <2>2
    <3>2. y \in D /\ ~h.hdr[y].used /\ ClassOf(h, y) = c /\ h.hdr[y].prev = Nil
      BY <1>11, <1>13, <1>18, <3>1
    <3>3. y # b /\ y # f
      BY <1>9, <1>15, <2>2, <3>2
    <3>4. QED
      BY <1>5, <1>7, <3>1, <3>2, <3>3
  <2>3. QED
    BY <2>1, <2>2
<1>19. Linked(g)
  BY ONLY <1>8, <1>16, <1>17, <1>18 DEF Linked
<1>20. ASSUME NEW x \in D, Loose(h, x), x # b PROVE Loose(g, x)
  <2>1. h.hdr[x].prev = Nil /\ h.hdr[x].next = Nil
        /\ \A c \in Classes(m) : h.bucket[c] # x
    BY <1>2, <1>20 DEF Loose
  <2>2. x # f
    BY <1>1, <2>1
  <2>3. QED
    BY <1>5, <1>6, <1>8, <1>20, <2>1, <2>2 DEF Loose
<1>21. QED
  BY <1>4, <1>6, <1>19, <1>20 DEF D

-----------------------------------------------------------------------------
(* Blocks in memory                                                        *)

EndAt(h, b) == b + h.hdr[b].size

\* The blocks of a heap from lo to hi tile it; each knows the one before it.
Tiles(h, lo, hi) ==
  /\ lo \in Addresses(h)
  /\ \A b \in Addresses(h) :
       /\ lo <= b /\ b + Header < hi /\ h.hdr[b].size >= Header
       /\ \/ EndAt(h, b) = hi
          \/ EndAt(h, b) \in Addresses(h) /\ h.hdr[EndAt(h, b)].prev_phys = b
       /\ h.hdr[b].prev_phys # Nil => EndAt(h, h.hdr[b].prev_phys) = b
       /\ \A c \in Addresses(h) : b < c => EndAt(h, b) <= c

LEMMA Spacing ==
  ASSUME NEW h, NEW m, Typed(h, m), NEW lo, NEW hi \in Nat, Tiles(h, lo, hi),
         NEW b \in Addresses(h)
  PROVE  /\ b \in Nat /\ h.hdr[b].size \in Nat /\ EndAt(h, b) \in Nat
         /\ b < EndAt(h, b) /\ EndAt(h, b) <= hi /\ b # Nil /\ lo \in Nat
         /\ EndAt(h, b) = b + h.hdr[b].size
<1>1. b \in Nat /\ h.hdr[b].size \in Nat /\ EndAt(h, b) = b + h.hdr[b].size
  BY LinkTypes DEF EndAt
<1>2. h.hdr[b].size >= 16
  BY DEF Tiles, Header
<1>3. EndAt(h, b) <= hi
  <2>1. CASE EndAt(h, b) = hi
    BY <2>1
  <2>2. CASE EndAt(h, b) \in Addresses(h)
    <3>1. EndAt(h, b) \in Nat /\ EndAt(h, b) + 16 < hi
      BY <2>2, LinkTypes DEF Tiles, Header
    <3>2. QED
      BY <3>1
  <2>3. QED
    BY <2>1, <2>2 DEF Tiles
<1>4. lo \in Nat
  BY LinkTypes DEF Tiles
<1>5. QED
  BY <1>1, <1>2, <1>3, <1>4, NilIsNoAddress

LEMMA NextIsBehind ==
  ASSUME NEW h, NEW m, Typed(h, m), NEW lo, end \in Nat, Tiles(h, lo, end),
         NEW b \in Addresses(h)
  PROVE  /\ NextPhysical(h, b) = IF EndAt(h, b) \in Addresses(h)
                                 THEN EndAt(h, b) ELSE Nil
         /\ FreeAt(h, NextPhysical(h, b)) <=>
              EndAt(h, b) \in Addresses(h) /\ ~h.hdr[EndAt(h, b)].used
<1>1. NextPhysical(h, b) = IF EndAt(h, b) < end - 16 THEN EndAt(h, b) ELSE Nil
  BY DEF NextPhysical, EndAt, Header
<1>2. EndAt(h, b) \in Nat
  BY Spacing
<1>3. CASE EndAt(h, b) \in Addresses(h)
  <2>1. EndAt(h, b) + 16 < end /\ EndAt(h, b) # Nil
    BY <1>3, NilIsNoAddress DEF Tiles, Header
  <2>2. NextPhysical(h, b) = EndAt(h, b)
    BY <1>1, <1>2, <2>1
  <2>3. QED
    BY <1>3, <2>1, <2>2 DEF FreeAt
<1>4. CASE EndAt(h, b) \notin Addresses(h)
  <2>1. EndAt(h, b) = end
    BY <1>4 DEF Tiles
  <2>2. NextPhysical(h, b) = Nil
    BY <1>1, <1>2, <2>1
  <2>3. QED
    BY <1>4, <2>2 DEF FreeAt
<1>5. QED
  BY <1>3, <1>4

\* No two blocks overlap, and no two end at the same place.
LEMMA Apart ==
  ASSUME NEW h, NEW m, Typed(h, m), NEW lo, NEW hi \in Nat, Tiles(h, lo, hi),
         NEW b \in Addresses(h), NEW c \in Addresses(h), b # c
  PROVE  /\ EndAt(h, b) <= c \/ EndAt(h, c) <= b
         /\ EndAt(h, b) # EndAt(h, c)
<1>1. b \in Nat /\ c \in Nat /\ EndAt(h, b) \in Nat /\ EndAt(h, c) \in Nat
      /\ b < EndAt(h, b) /\ c < EndAt(h, c)
  BY Spacing
<1>2. (b < c => EndAt(h, b) <= c) /\ (c < b => EndAt(h, c) <= b)
  BY DEF Tiles
<1>3. QED
  BY <1>1, <1>2

SamePlaces(h, g) ==
  /\ Addresses(g) = Addresses(h)
  /\ \A x \in Addresses(h) : /\ g.hdr[x].size = h.hdr[x].size
                              /\ g.hdr[x].prev_phys = h.hdr[x].prev_phys

LEMMA SamePlacesTile ==
  ASSUME NEW h, NEW g, SamePlaces(h, g), NEW lo, NEW hi, Tiles(h, lo, hi),
         NEW m, Typed(h, m)
  PROVE  Tiles(g, lo, hi) /\ \A x \in Addresses(h) : EndAt(g, x) = EndAt(h, x)
<1>1. Addresses(g) = Addresses(h)
  BY DEF SamePlaces
<1>2. \A x \in Addresses(h) : /\ EndAt(g, x) = EndAt(h, x)
                              /\ g.hdr[x].size = h.hdr[x].size
                              /\ g.hdr[x].prev_phys = h.hdr[x].prev_phys
  BY DEF SamePlaces, EndAt
<1>3. ASSUME NEW b \in Addresses(h)
      PROVE  /\ lo <= b /\ b + Header < hi /\ g.hdr[b].size >= Header
             /\ \/ EndAt(g, b) = hi
                \/ EndAt(g, b) \in Addresses(g) /\ g.hdr[EndAt(g, b)].prev_phys = b
             /\ \A c \in Addresses(g) : b < c => EndAt(g, b) <= c
  BY <1>1, <1>2 DEF Tiles
<1>4. ASSUME NEW b \in Addresses(h), g.hdr[b].prev_phys # Nil
      PROVE  EndAt(g, g.hdr[b].prev_phys) = b
  <2>1. PICK p : p = h.hdr[b].prev_phys /\ p = g.hdr[b].prev_phys
    BY <1>2
  <2>2. p \in Addresses(h)
    BY <1>4, <2>1, LinkTypes
  <2>3. EndAt(h, p) = b
    BY <1>4, <2>1 DEF Tiles
  <2>4. QED
    BY <1>2, <2>1, <2>2, <2>3
<1>5. QED
  BY <1>1, <1>2, <1>3, <1>4 DEF Tiles

LEMMA SameTiles ==
  ASSUME NEW h, NEW g, SameBlocks(h, g), NEW lo, NEW hi, Tiles(h, lo, hi),
         NEW m, Typed(h, m)
  PROVE  Tiles(g, lo, hi) /\ \A x \in Addresses(h) : EndAt(g, x) = EndAt(h, x)
<1>1. SamePlaces(h, g)
  BY DEF SameBlocks, SamePlaces
<1>2. QED
  BY <1>1, SamePlacesTile

-----------------------------------------------------------------------------
(* Two neighbours become one block                                         *)

Join(h, b, n) ==
  LET s == Swallow(h, b, n) IN [s EXCEPT !.hdr = SetPhys(@, NextPhysical(h, n), b)]

\* Nothing leads to a block that is in no list.
LEMMA NothingLeadsTo ==
  ASSUME NEW h, NEW m, Typed(h, m), Linked(h), NEW n \in Addresses(h), Loose(h, n)
  PROVE  /\ \A x \in Addresses(h) : h.hdr[x].next # n /\ h.hdr[x].prev # n
         /\ \A c \in Classes(m) : h.bucket[c] # n
<1>1. n # Nil /\ h.hdr[n].prev = Nil /\ h.hdr[n].next = Nil
  BY NilIsNoAddress DEF Loose
<1>2. ASSUME NEW x \in Addresses(h)
      PROVE  /\ h.hdr[x].next # Nil => h.hdr[h.hdr[x].next].prev = x
             /\ h.hdr[x].prev # Nil => h.hdr[h.hdr[x].prev].next = x
             /\ x # Nil
  BY NilIsNoAddress DEF Linked
<1>3. DOMAIN h.bucket = Classes(m)
  BY DEF Typed
<1>4. QED
  BY <1>1, <1>2, <1>3 DEF Loose

HeapOf(r, k) == [hdr |-> r, bucket |-> k]

Swallowed(h, b, n, s) ==
  /\ s = HeapOf(s.hdr, h.bucket)
  /\ s.hdr \in [Addresses(h) \ {n} -> Headers(Addresses(h))]
  /\ \A x \in Addresses(h) \ {n} :
       /\ s.hdr[x].size = IF x = b THEN h.hdr[b].size + h.hdr[n].size
                          ELSE h.hdr[x].size
       /\ s.hdr[x].used = h.hdr[x].used
       /\ s.hdr[x].prev = h.hdr[x].prev
       /\ s.hdr[x].next = h.hdr[x].next
       /\ s.hdr[x].prev_phys = h.hdr[x].prev_phys

LEMMA SwallowFields ==
  ASSUME NEW h, NEW m, Typed(h, m),
         NEW b \in Addresses(h), NEW n \in Addresses(h), b # n,
         NEW s, s = Swallow(h, b, n)
  PROVE  Swallowed(h, b, n, s)
<1> DEFINE D == Addresses(h)
           C == D \ {n}
           z == h.hdr[b].size + h.hdr[n].size
<1>1. b \in C /\ z \in Nat
  BY LinkTypes
<1>2. PICK r : r = [c \in C |-> IF c = b THEN [h.hdr[b] EXCEPT !.size = z] ELSE h.hdr[c]]
  OBVIOUS
<1>3. s = [hdr |-> r, bucket |-> h.bucket]
  <2>1. PICK k : k = h.bucket /\ h = [hdr |-> h.hdr, bucket |-> k]
    BY DEF Typed
  <2>2. r = [c \in DOMAIN h.hdr \ {n} |->
               IF c = b THEN [h.hdr[b] EXCEPT !.size = @ + h.hdr[n].size]
               ELSE h.hdr[c]]
    BY <1>2 DEF Addresses
  <2>3. QED
    BY <2>1, <2>2 DEF Swallow
<1>4. \A x \in D : h.hdr[x] \in Headers(D)
  BY DEF Typed
<1>5. [h.hdr[b] EXCEPT !.size = z] \in Headers(D)
      /\ [h.hdr[b] EXCEPT !.size = z].size = z
      /\ [h.hdr[b] EXCEPT !.size = z].used = h.hdr[b].used
      /\ [h.hdr[b] EXCEPT !.size = z].prev = h.hdr[b].prev
      /\ [h.hdr[b] EXCEPT !.size = z].next = h.hdr[b].next
      /\ [h.hdr[b] EXCEPT !.size = z].prev_phys = h.hdr[b].prev_phys
  <2>1. PICK y : y = h.hdr[b] /\ y \in Headers(D)
    BY <1>4
  <2>2. PICK w \in Nat : w = z
    BY <1>1
  <2>3. QED
    BY ONLY <2>1, <2>2 DEF Headers
<1> HIDE DEF z
<1>6. r \in [C -> Headers(D)]
  BY <1>2, <1>4, <1>5
<1>7. \A x \in C : x # b => r[x] = h.hdr[x]
  BY <1>2
<1>8. r[b] = [h.hdr[b] EXCEPT !.size = z]
  BY <1>1, <1>2
<1>9. s.hdr = r
  BY <1>3
<1>10. s = HeapOf(s.hdr, h.bucket)
  BY <1>3, <1>9 DEF HeapOf
<1>11. QED
  BY <1>10, <1>5, <1>6, <1>7, <1>8, <1>9 DEF z, Swallowed

LEMMA JoinFields ==
  ASSUME NEW h, NEW m, Typed(h, m), Linked(h),
         NEW lo, end \in Nat, Tiles(h, lo, end),
         NEW b \in Addresses(h), NEW n \in Addresses(h), n = EndAt(h, b),
         Loose(h, n), NEW g, g = Join(h, b, n)
  PROVE  /\ Typed(g, m) /\ Addresses(g) = Addresses(h) \ {n} /\ b # n
         /\ g.bucket = h.bucket
         /\ \A x \in Addresses(h) \ {n} :
              /\ g.hdr[x].size = IF x = b THEN h.hdr[b].size + h.hdr[n].size
                                 ELSE h.hdr[x].size
              /\ g.hdr[x].used = h.hdr[x].used
              /\ g.hdr[x].prev = h.hdr[x].prev
              /\ g.hdr[x].next = h.hdr[x].next
              /\ g.hdr[x].prev_phys = IF x = EndAt(h, n) THEN b
                                      ELSE h.hdr[x].prev_phys
<1> DEFINE D == Addresses(h)
           C == D \ {n}
           z == h.hdr[b].size + h.hdr[n].size
<1>1. b \in Nat /\ n \in Nat /\ b < n /\ h.hdr[b].size \in Nat /\ h.hdr[n].size \in Nat
      /\ EndAt(h, n) \in Nat /\ n < EndAt(h, n)
  BY Spacing
<1>2. Nil \notin D /\ b \in C /\ b # n /\ z \in Nat
  BY <1>1, NilIsNoAddress
<1>3. PICK e : e = NextPhysical(h, n) /\ e \in C \cup {Nil}
              /\ e = IF EndAt(h, n) \in D THEN EndAt(h, n) ELSE Nil
  <2>1. NextPhysical(h, n) = IF EndAt(h, n) \in D THEN EndAt(h, n) ELSE Nil
    BY NextIsBehind
  <2>2. QED
    BY <1>1, <2>1
<1>4. PICK s : s = Swallow(h, b, n)
  OBVIOUS
<1>5. PICK r : r = s.hdr
  OBVIOUS
<1>6. /\ Swallow(h, b, n) = HeapOf(r, h.bucket)
      /\ r \in [C -> Headers(D)]
      /\ \A x \in C : /\ r[x].size = IF x = b THEN z ELSE h.hdr[x].size
                      /\ r[x].used = h.hdr[x].used
                      /\ r[x].prev = h.hdr[x].prev
                      /\ r[x].next = h.hdr[x].next
                      /\ r[x].prev_phys = h.hdr[x].prev_phys
  <2>1. Typed(h, m) /\ b \in Addresses(h) /\ n \in Addresses(h) /\ b # n
    BY <1>2
  <2>2. /\ s = HeapOf(s.hdr, h.bucket)
        /\ s.hdr \in [D \ {n} -> Headers(D)]
        /\ \A x \in D \ {n} :
              /\ s.hdr[x].size = IF x = b THEN h.hdr[b].size + h.hdr[n].size
                                 ELSE h.hdr[x].size
              /\ s.hdr[x].used = h.hdr[x].used
              /\ s.hdr[x].prev = h.hdr[x].prev
              /\ s.hdr[x].next = h.hdr[x].next
              /\ s.hdr[x].prev_phys = h.hdr[x].prev_phys
    BY ONLY <1>4, <2>1, SwallowFields DEF Swallowed, D
  <2> HIDE DEF D
  <2>3. QED
    BY ONLY <1>4, <1>5, <2>2
<1> HIDE DEF z
<1>7. PICK q : q = SetPhys(r, e, b)
  OBVIOUS
<1>8. /\ q \in [C -> Headers(D)]
       /\ \A x \in C : /\ q[x].size = r[x].size /\ q[x].used = r[x].used
                       /\ q[x].prev = r[x].prev /\ q[x].next = r[x].next
                       /\ q[x].prev_phys = IF x = e THEN b ELSE r[x].prev_phys
  <2>1. Nil \notin C /\ b \in D \cup {Nil}
    BY <1>2
  <2> HIDE DEF C, D
  <2>2. QED
    BY ONLY <1>3, <1>6, <1>7, <2>1, SetPhysFields
<1>9. g = [hdr |-> q, bucket |-> h.bucket]
  BY <1>3, <1>6, <1>7 DEF Join, HeapOf
<1>10. g.hdr = q /\ g.bucket = h.bucket /\ Addresses(g) = C
  BY <1>8, <1>9 DEF Addresses
<1>11. \A x \in C : x = e <=> x = EndAt(h, n)
  BY <1>2, <1>3
<1>12. \A x \in C : q[x] \in Headers(C)
  <2>1. SUFFICES ASSUME NEW x \in C PROVE q[x] \in Headers(C)
    OBVIOUS
  <2>2. PICK y : y = q[x] /\ y \in Headers(D)
    BY <1>8
  <2>3. y.next # n /\ y.prev # n
    BY <1>6, <1>8, <2>2, NothingLeadsTo
  <2>4. y.prev_phys # n
    <3>1. CASE x = e
      BY <1>2, <1>8, <2>2, <3>1
    <3>2. CASE x # e
      <4>1. y.prev_phys = h.hdr[x].prev_phys
        BY <1>6, <1>8, <2>2, <3>2
      <4>2. h.hdr[x].prev_phys # Nil => EndAt(h, h.hdr[x].prev_phys) = x
        BY DEF Tiles
      <4>3. x # EndAt(h, n) /\ n # Nil
        BY <1>2, <1>11, <3>2
      <4>4. QED
        BY <4>1, <4>2, <4>3
    <3>3. QED
      BY <3>1, <3>2
  <2>5. QED
    BY <2>2, <2>3, <2>4 DEF Headers
<1>13. Typed(g, m)
  <2>1. h.bucket \in [Classes(m) -> C \cup {Nil}]
    <3>1. h.bucket \in [Classes(m) -> D \cup {Nil}]
      BY DEF Typed
    <3>2. QED
      BY <3>1, NothingLeadsTo
  <2>2. C \subseteq Nat
    BY DEF Typed
  <2> HIDE DEF C, D
  <2>3. q \in [C -> Headers(C)]
    BY <1>8, <1>12
  <2>4. QED
    BY ONLY <1>9, <1>10, <2>1, <2>2, <2>3 DEF Typed
<1>14. QED
  BY <1>2, <1>6, <1>8, <1>10, <1>11, <1>13 DEF z

LEMMA JoinTiles ==
  ASSUME NEW h, NEW m, Typed(h, m), Linked(h),
         NEW lo, end \in Nat, Tiles(h, lo, end),
         NEW b \in Addresses(h), NEW n \in Addresses(h), n = EndAt(h, b),
         Loose(h, n), NEW g, g = Join(h, b, n)
  PROVE  /\ Tiles(g, lo, end)
         /\ EndAt(g, b) = EndAt(h, n)
         /\ \A x \in Addresses(g) : x # b => EndAt(g, x) = EndAt(h, x)
<1> DEFINE D == Addresses(h)
           C == D \ {n}
<1>1. /\ Typed(g, m) /\ Addresses(g) = C /\ b # n
      /\ \A x \in C :
           /\ g.hdr[x].size = IF x = b THEN h.hdr[b].size + h.hdr[n].size
                              ELSE h.hdr[x].size
           /\ g.hdr[x].prev_phys = IF x = EndAt(h, n) THEN b ELSE h.hdr[x].prev_phys
  BY JoinFields
<1>2. /\ b \in Nat /\ h.hdr[b].size \in Nat /\ EndAt(h, b) = b + h.hdr[b].size
      /\ n \in Nat /\ h.hdr[n].size \in Nat /\ EndAt(h, n) = n + h.hdr[n].size
      /\ b < n /\ n < EndAt(h, n) /\ b \in C /\ lo \in Nat /\ b \in D /\ n \in D
  BY <1>1, Spacing
<1>3. EndAt(g, b) = EndAt(h, n)
  BY <1>1, <1>2 DEF EndAt
<1>4. \A x \in C : x # b => EndAt(g, x) = EndAt(h, x)
  BY <1>1 DEF EndAt
<1>5. ASSUME NEW x \in D
      PROVE  /\ lo <= x /\ x + Header < end /\ h.hdr[x].size >= Header
             /\ \/ EndAt(h, x) = end
                \/ EndAt(h, x) \in D /\ h.hdr[EndAt(h, x)].prev_phys = x
             /\ h.hdr[x].prev_phys # Nil => EndAt(h, h.hdr[x].prev_phys) = x
             /\ \A c \in D : x < c => EndAt(h, x) <= c
  BY DEF Tiles
<1>6. \A x \in D : x \in Nat /\ EndAt(h, x) \in Nat /\ x < EndAt(h, x)
                  /\ h.hdr[x].prev_phys \in D \cup {Nil} /\ x # Nil
  BY Spacing, LinkTypes
<1>7. \A x, y \in D : EndAt(h, x) = EndAt(h, y) => x = y
  BY Apart
<1>8. lo \in C
  <2>1. lo \in D /\ lo <= b
    BY DEF Tiles
  <2>2. QED
    BY <1>2, <2>1
<1> HIDE DEF D
<1>9. ASSUME NEW x \in C
      PROVE  \/ EndAt(g, x) = end
             \/ EndAt(g, x) \in C /\ g.hdr[EndAt(g, x)].prev_phys = x
  <2>1. CASE x = b
    <3>1. CASE EndAt(h, n) = end
      BY <1>3, <2>1, <3>1
    <3>2. CASE EndAt(h, n) \in D
      <4>1. EndAt(h, n) \in C
        BY <1>2, <3>2
      <4>2. g.hdr[EndAt(h, n)].prev_phys = b
        BY <1>1, <4>1
      <4>3. QED
        BY <1>3, <2>1, <4>1, <4>2
    <3>3. QED
      BY <1>2, <1>5, <3>1, <3>2
  <2>2. CASE x # b
    <3>1. PICK e : e = EndAt(h, x) /\ e = EndAt(g, x)
      BY <1>4, <2>2
    <3>2. e # n /\ e # EndAt(h, n)
      BY <1>1, <1>2, <1>7, <2>2, <3>1
    <3>3. e = end \/ (e \in C /\ h.hdr[e].prev_phys = x)
      BY <1>5, <3>1, <3>2
    <3>4. e \in C => g.hdr[e].prev_phys = h.hdr[e].prev_phys
      BY <1>1, <3>2
    <3>5. QED
      BY <3>1, <3>3, <3>4
  <2>3. QED
    BY <2>1, <2>2
<1>10. ASSUME NEW x \in C, g.hdr[x].prev_phys # Nil
       PROVE  EndAt(g, g.hdr[x].prev_phys) = x
  <2>1. CASE x = EndAt(h, n)
    BY <1>1, <1>3, <2>1
  <2>2. CASE x # EndAt(h, n)
    <3>1. PICK p : p = h.hdr[x].prev_phys /\ p = g.hdr[x].prev_phys
      BY <1>1, <2>2
    <3>2. p \in D /\ EndAt(h, p) = x
      BY <1>5, <1>6, <1>10, <3>1
    <3>3. p # n /\ p # b
      BY <2>2, <3>2
    <3>4. QED
      BY <1>4, <3>1, <3>2, <3>3
  <2>3. QED
    BY <2>1, <2>2
<1>11. ASSUME NEW x \in C
       PROVE  /\ lo <= x /\ x + Header < end /\ g.hdr[x].size >= Header
              /\ \A c \in C : x < c => EndAt(g, x) <= c
  <2>1. lo <= x /\ x + Header < end
    BY <1>5
  <2>2. g.hdr[x].size >= Header
    <3>1. h.hdr[x].size >= 16 /\ h.hdr[b].size >= 16
      BY <1>2, <1>5 DEF Header
    <3>2. CASE x = b
      BY <1>1, <1>2, <3>1, <3>2 DEF Header
    <3>3. CASE x # b
      BY <1>1, <1>5, <3>3
    <3>4. QED
      BY <3>2, <3>3
  <2>3. ASSUME NEW c \in C, x < c PROVE EndAt(g, x) <= c
    <3>1. CASE x = b
      <4>1. n <= c
        BY <1>5, <2>3, <3>1
      <4>2. n < c /\ c \in D /\ n \in D
        BY <1>2, <1>6, <4>1
      <4>3. EndAt(h, n) <= c
        BY <1>5, <4>2
      <4>4. QED
        BY <1>3, <3>1, <4>3
    <3>2. CASE x # b
      BY <1>4, <1>5, <2>3, <3>2
    <3>3. QED
      BY <3>1, <3>2
  <2>4. QED
    BY <2>1, <2>2, <2>3
<1>12. Tiles(g, lo, end)
  BY ONLY <1>1, <1>8, <1>9, <1>10, <1>11 DEF Tiles
<1>13. QED
  BY <1>1, <1>3, <1>4, <1>12

LEMMA JoinKeepsLists ==
  ASSUME NEW h, NEW m, Typed(h, m), Linked(h),
         NEW lo, end \in Nat, Tiles(h, lo, end),
         NEW b \in Addresses(h), NEW n \in Addresses(h), n = EndAt(h, b),
         Loose(h, n), Loose(h, b), NEW g, g = Join(h, b, n)
  PROVE  /\ Linked(g)
         /\ \A x \in Addresses(g) : Loose(h, x) => Loose(g, x)
<1> DEFINE D == Addresses(h)
           C == D \ {n}
<1>1. /\ Typed(g, m) /\ Addresses(g) = C /\ b # n /\ g.bucket = h.bucket
      /\ \A x \in C :
           /\ g.hdr[x].size = IF x = b THEN h.hdr[b].size + h.hdr[n].size
                              ELSE h.hdr[x].size
           /\ g.hdr[x].used = h.hdr[x].used
           /\ g.hdr[x].prev = h.hdr[x].prev
           /\ g.hdr[x].next = h.hdr[x].next
  BY JoinFields
<1>2. \A x \in D : /\ h.hdr[x].next \notin {n, b} /\ h.hdr[x].prev \notin {n, b}
                   /\ h.hdr[x].next \in D \cup {Nil} /\ h.hdr[x].prev \in D \cup {Nil}
  BY NothingLeadsTo, LinkTypes
<1>3. \A c \in Classes(m) : h.bucket[c] \notin {n, b} /\ h.bucket[c] \in D \cup {Nil}
  BY NothingLeadsTo DEF Typed
<1>4. DOMAIN h.bucket = Classes(m)
  BY DEF Typed
<1>5. \A x \in C : x # b => ClassOf(g, x) = ClassOf(h, x)
  BY <1>1 DEF ClassOf
<1>6. h.hdr[b].next = Nil /\ h.hdr[b].prev = Nil
  BY DEF Loose
<1>7. \A x \in D :
        /\ h.hdr[x].next # Nil =>
             /\ h.hdr[h.hdr[x].next].prev = x
             /\ ~h.hdr[x].used /\ ~h.hdr[h.hdr[x].next].used
             /\ ClassOf(h, x) = ClassOf(h, h.hdr[x].next)
        /\ h.hdr[x].prev # Nil => h.hdr[h.hdr[x].prev].next = x
  BY DEF Linked
<1>8. \A c \in Classes(m) :
        h.bucket[c] # Nil => /\ ~h.hdr[h.bucket[c]].used
                             /\ ClassOf(h, h.bucket[c]) = c
                             /\ h.hdr[h.bucket[c]].prev = Nil
  BY <1>4 DEF Linked
<1> HIDE DEF D
<1>9. ASSUME NEW x \in C, g.hdr[x].next # Nil
      PROVE  /\ g.hdr[g.hdr[x].next].prev = x
             /\ ~g.hdr[x].used /\ ~g.hdr[g.hdr[x].next].used
             /\ ClassOf(g, x) = ClassOf(g, g.hdr[x].next)
  <2>1. x # b
    BY <1>1, <1>6, <1>9
  <2>2. PICK y : y = h.hdr[x].next /\ y = g.hdr[x].next
    BY <1>1
  <2>3. y \in C /\ y # b
    BY <1>2, <1>9, <2>2
  <2>4. h.hdr[y].prev = x /\ ~h.hdr[x].used /\ ~h.hdr[y].used
        /\ ClassOf(h, x) = ClassOf(h, y)
    BY <1>7, <1>9, <2>2
  <2>5. QED
    BY <1>1, <1>5, <2>1, <2>2, <2>3, <2>4
<1>10. ASSUME NEW x \in C, g.hdr[x].prev # Nil
       PROVE  g.hdr[g.hdr[x].prev].next = x
  <2>1. PICK y : y = h.hdr[x].prev /\ y = g.hdr[x].prev
    BY <1>1
  <2>2. y \in C
    BY <1>2, <1>10, <2>1
  <2>3. h.hdr[y].next = x
    BY <1>7, <1>10, <2>1
  <2>4. QED
    BY <1>1, <2>1, <2>2, <2>3
<1>11. ASSUME NEW c \in Classes(m), g.bucket[c] # Nil
       PROVE  /\ ~g.hdr[g.bucket[c]].used
              /\ ClassOf(g, g.bucket[c]) = c
              /\ g.hdr[g.bucket[c]].prev = Nil
  <2>1. PICK y : y = h.bucket[c] /\ y = g.bucket[c]
    BY <1>1
  <2>2. y \in C /\ y # b
    BY <1>3, <1>11, <2>1
  <2>3. ~h.hdr[y].used /\ ClassOf(h, y) = c /\ h.hdr[y].prev = Nil
    BY <1>8, <1>11, <2>1
  <2>4. QED
    BY <1>1, <1>5, <2>1, <2>2, <2>3
<1>12. Linked(g)
  BY ONLY <1>1, <1>4, <1>9, <1>10, <1>11 DEF Linked
<1>13. \A x \in C : Loose(h, x) => Loose(g, x)
  BY <1>1 DEF Loose
<1>14. QED
  BY <1>1, <1>12, <1>13

-----------------------------------------------------------------------------
(* The loops of merge: where no two neighbours are free, they turn once    *)

\* A function by recursion that changes its value in the first turn only.
StepsOnce(f, N, x, y) ==
  /\ N \in Nat /\ N >= 1
  /\ f[0] = x
  /\ \A k \in 1..N : f[k - 1] \in {x, y} => f[k] = y

LEMMA OneTurn ==
  ASSUME NEW N, NEW x, NEW y, NEW f, StepsOnce(f, N, x, y)
  PROVE  f[N] = y
<1> USE DEF StepsOnce
<1> DEFINE T == {k \in 1..N : f[k] # y}
<1> SUFFICES ASSUME T # {} PROVE FALSE
  OBVIOUS
<1>1. PICK k \in T : \A i \in T : k <= i
  <2>1. T \subseteq Nat
    OBVIOUS
  <2> HIDE DEF T
  <2>2. QED
    BY <2>1, LeastNumber
<1>2. k \in 1..N /\ f[k] # y
  BY <1>1
<1>3. CASE k = 1
  BY <1>2, <1>3
<1>4. CASE k # 1
  <2>1. k - 1 \in 1..N /\ k - 1 \notin T
    BY <1>1, <1>2, <1>4
  <2>2. f[k - 1] = y
    BY <2>1
  <2>3. QED
    BY <1>2, <2>2
<1>5. QED
  BY <1>3, <1>4

LEMMA TurnsAreNumbers ==
  ASSUME NEW h, NEW m, Typed(h, m), NEW lo, NEW hi \in Nat, Tiles(h, lo, hi)
  PROVE  /\ Cardinality(DOMAIN h.hdr) \in Nat /\ Cardinality(DOMAIN h.hdr) >= 1
         /\ Turns(h) = 0..Cardinality(DOMAIN h.hdr)
<1>1. Addresses(h) \subseteq 0..hi
  <2>1. SUFFICES ASSUME NEW b \in Addresses(h) PROVE b \in 0..hi
    OBVIOUS
  <2>2. QED
    BY Spacing
<1>2. IsFiniteSet(0..hi)
  BY FS_Interval
<1>3. IsFiniteSet(Addresses(h))
  BY <1>1, <1>2, FS_Subset
<1>4. Addresses(h) # {}
  BY DEF Tiles
<1>5. Cardinality(Addresses(h)) \in Nat /\ Cardinality(Addresses(h)) # 0
  BY <1>3, <1>4, FS_CardinalityType, FS_EmptySet
<1>6. QED
  BY <1>5 DEF Turns, Addresses

\* Each block already knows the one before it.
LEMMA PhysKnown ==
  ASSUME NEW h, NEW m, Typed(h, m), NEW lo, end \in Nat, Tiles(h, lo, end),
         NEW b \in Addresses(h)
  PROVE  [h EXCEPT !.hdr = SetPhys(@, NextPhysical(h, b), b)] = h
<1> DEFINE D == Addresses(h)
           e == EndAt(h, b)
<1>1. PICK r : r = h.hdr /\ r \in [D -> Headers(D)]
  BY DEF Typed
<1>2. SetPhys(r, NextPhysical(h, b), b) = r
  <2>1. CASE e \in D
    <3>1. NextPhysical(h, b) = e /\ e # Nil
      BY <2>1, NextIsBehind, NilIsNoAddress
    <3>2. e # end /\ e \in Nat
      BY <2>1, Spacing
    <3>3. PICK y : y = r[e] /\ y \in Headers(D)
      BY <1>1, <2>1
    <3>4. y.prev_phys = b
      BY <1>1, <3>2, <3>3 DEF Tiles
    <3>5. [y EXCEPT !.prev_phys = b] = y
      BY <3>3, <3>4 DEF Headers
    <3> HIDE DEF D, e
    <3>6. [r EXCEPT ![e] = [y EXCEPT !.prev_phys = b]] = r
      BY <1>1, <2>1, <3>3, <3>5
    <3>7. [r EXCEPT ![e].prev_phys = b] = [r EXCEPT ![e] = [y EXCEPT !.prev_phys = b]]
      BY <3>3
    <3>8. QED
      BY <3>1, <3>6, <3>7 DEF SetPhys
  <2>2. CASE e \notin D
    BY <2>2, NextIsBehind DEF SetPhys
  <2>3. QED
    BY <2>1, <2>2
<1>3. PICK k : k = h.bucket /\ h = [hdr |-> r, bucket |-> k]
  BY <1>1 DEF Typed
<1>4. QED
  BY <1>1, <1>2, <1>3

\* The block behind n, if there is one, is the first that is not swallowed.
EndOfRun(h, n) ==
  EndAt(h, n) \in Addresses(h) => h.hdr[EndAt(h, n)].used

FreeBlock(h, n) == n \in Addresses(h) /\ ~h.hdr[n].used

LEMMA SwallowOnce ==
  ASSUME NEW h, NEW m, Typed(h, m), NEW lo, end \in Nat, Tiles(h, lo, end),
         NEW b \in Addresses(h), FreeBlock(h, EndAt(h, b)),
         EndOfRun(h, EndAt(h, b)), NEW k, k = SwallowNext(h, b)
  PROVE  /\ k = Swallow(RemoveFromList(h, EndAt(h, b)), b, EndAt(h, b))
         /\ SwallowNext(k, b) = k
         /\ NextPhysical(k, b) = NextPhysical(RemoveFromList(h, EndAt(h, b)), EndAt(h, b))
<1> DEFINE n == EndAt(h, b)
           r == RemoveFromList(h, n)
<1>1. /\ n \in Addresses(h) /\ b # n /\ b \in Nat /\ n \in Nat
      /\ h.hdr[b].size \in Nat /\ h.hdr[n].size \in Nat
      /\ n = b + h.hdr[b].size /\ EndAt(h, n) = n + h.hdr[n].size /\ EndAt(h, n) > n
      /\ b < n
  BY Spacing DEF FreeBlock
<1>2. NextPhysical(h, b) = n /\ FreeAt(h, NextPhysical(h, b))
  BY NextIsBehind DEF FreeBlock
<1>3. k = Swallow(r, b, n)
  BY <1>2 DEF SwallowNext
<1>4. Typed(r, m) /\ SameBlocks(h, r)
  BY <1>1, RemoveFields
<1>5. Tiles(r, lo, end) /\ EndAt(r, n) = EndAt(h, n)
  BY <1>1, <1>4, SameTiles
<1>6. Addresses(r) = Addresses(h) /\ r.hdr[b].size = h.hdr[b].size
      /\ r.hdr[n].size = h.hdr[n].size
  BY <1>1, <1>4 DEF SameBlocks
<1> HIDE DEF r
<1>7. /\ k.hdr[b].size = r.hdr[b].size + r.hdr[n].size
      /\ \A x \in Addresses(h) \ {n} : k.hdr[x].used = r.hdr[x].used
  <2>1. b \in Addresses(r) /\ n \in Addresses(r) /\ b # n /\ Typed(r, m)
    BY <1>1, <1>4, <1>6
  <2>2. Swallowed(r, b, n, k)
    BY <1>3, <2>1, SwallowFields
  <2>3. QED
    BY <1>6, <2>1, <2>2 DEF Swallowed
<1>8. EndAt(k, b) = EndAt(h, n)
  BY <1>1, <1>6, <1>7 DEF EndAt
<1>9. NextPhysical(k, b) = NextPhysical(r, n)
  BY <1>5, <1>8 DEF NextPhysical, EndAt
<1>10. NextPhysical(r, n) = IF EndAt(h, n) \in Addresses(h) THEN EndAt(h, n) ELSE Nil
  BY <1>1, <1>4, <1>5, <1>6, NextIsBehind
<1>11. ~FreeAt(k, NextPhysical(k, b))
  <2>1. CASE EndAt(h, n) \in Addresses(h)
    <3>1. h.hdr[EndAt(h, n)].used
      BY <2>1 DEF EndOfRun
    <3>2. k.hdr[EndAt(h, n)].used
      BY <1>1, <1>4, <1>7, <2>1, <3>1 DEF SameBlocks
    <3>3. QED
      BY <1>9, <1>10, <2>1, <3>2 DEF FreeAt
  <2>2. CASE EndAt(h, n) \notin Addresses(h)
    BY <1>9, <1>10, <2>2 DEF FreeAt
  <2>3. QED
    BY <2>1, <2>2
<1>12. SwallowNext(k, b) = k
  BY <1>11 DEF SwallowNext
<1>13. QED
  BY <1>3, <1>9, <1>12 DEF r

\* merge_forward.
LEMMA ForwardOnce ==
  ASSUME NEW h, NEW m, Typed(h, m), NEW lo, end \in Nat, Tiles(h, lo, end),
         NEW b \in Addresses(h),
         FreeBlock(h, EndAt(h, b)) => EndOfRun(h, EndAt(h, b))
  PROVE  MergeForward(h, b) =
           IF FreeBlock(h, EndAt(h, b))
           THEN Join(RemoveFromList(h, EndAt(h, b)), b, EndAt(h, b)) ELSE h
<1> DEFINE n == EndAt(h, b)
           N == Cardinality(DOMAIN h.hdr)
           k == SwallowNext(h, b)
           IsRun(f) == f = [i \in Turns(h) |->
                              IF i = 0 THEN h ELSE SwallowNext(f[i - 1], b)]
           run == CHOOSE f : IsRun(f)
           w == [i \in Turns(h) |-> IF i = 0 THEN h ELSE k]
<1>1. N \in Nat /\ N >= 1 /\ Turns(h) = 0..N
  BY TurnsAreNumbers
<1>2. FreeAt(h, NextPhysical(h, b)) <=> FreeBlock(h, n)
  BY NextIsBehind DEF FreeBlock
<1>3. SwallowNext(k, b) = k
  <2>1. CASE FreeBlock(h, n)
    BY <2>1, SwallowOnce
  <2>2. CASE ~FreeBlock(h, n)
    BY <1>2, <2>2 DEF SwallowNext
  <2>3. QED
    BY <2>1, <2>2
<1>4. PICK k1 : k1 = k
  OBVIOUS
<1>5. SwallowNext(h, b) = k1 /\ SwallowNext(k1, b) = k1
  BY <1>3, <1>4
<1>6. MergeForward(h, b) =
        [run[N] EXCEPT !.hdr = SetPhys(@, NextPhysical(run[N], b), b)]
  BY DEF MergeForward
<1> HIDE DEF N, k
<1>7. IsRun(w)
  <2>1. \A i \in Turns(h) : i # 0 => i - 1 \in Turns(h)
    BY <1>1
  <2>2. \A i \in Turns(h) : i # 0 => w[i - 1] = IF i - 1 = 0 THEN h ELSE k
    BY <2>1
  <2>3. \A i \in Turns(h) : i # 0 => SwallowNext(w[i - 1], b) = k
    BY <1>4, <1>5, <2>2
  <2>4. \A i \in Turns(h) :
          (IF i = 0 THEN h ELSE k) = IF i = 0 THEN h ELSE SwallowNext(w[i - 1], b)
    BY <2>3
  <2>5. QED
    BY <2>4
<1>8. IsRun(run)
  BY <1>7
<1> HIDE DEF run
<1>9. run[0] = h
  BY <1>1, <1>8
<1>10. \A i \in 1..N : run[i] = SwallowNext(run[i - 1], b)
  BY <1>1, <1>8
<1>11. run[N] = k1
  <2>1. \A i \in 1..N : run[i - 1] \in {h, k1} => run[i] = k1
    BY <1>5, <1>10
  <2>2. N \in Nat /\ N >= 1
    BY <1>1
  <2> HIDE DEF IsRun
  <2>3. StepsOnce(run, N, h, k1)
    BY ONLY <1>9, <2>1, <2>2 DEF StepsOnce
  <2>4. QED
    BY <2>3, OneTurn
<1>12. MergeForward(h, b) = [k1 EXCEPT !.hdr = SetPhys(@, NextPhysical(k1, b), b)]
  BY <1>6, <1>11
<1>13. CASE FreeBlock(h, n)
  <2>1. /\ k1 = Swallow(RemoveFromList(h, n), b, n)
        /\ NextPhysical(k1, b) = NextPhysical(RemoveFromList(h, n), n)
    BY <1>4, <1>13, SwallowOnce DEF k
  <2>2. QED
    BY <1>12, <1>13, <2>1 DEF Join
<1>14. CASE ~FreeBlock(h, n)
  <2>1. k1 = h
    BY <1>2, <1>4, <1>14 DEF SwallowNext, k
  <2>2. QED
    BY <1>12, <1>14, <2>1, PhysKnown
<1>15. QED
  BY <1>13, <1>14

PrevOf(h, b) == h.hdr[b].prev_phys

\* The block before p, if there is one, is the first that is not swallowed.
StartOfRun(h, p) == PrevOf(h, p) # Nil => h.hdr[PrevOf(h, p)].used

LEMMA PrevIsBefore ==
  ASSUME NEW h, NEW m, Typed(h, m), NEW lo, NEW hi \in Nat, Tiles(h, lo, hi),
         NEW b \in Addresses(h), PrevOf(h, b) # Nil
  PROVE  /\ PrevOf(h, b) \in Addresses(h) /\ EndAt(h, PrevOf(h, b)) = b
         /\ PrevOf(h, b) # b /\ PrevOf(h, b) < b
<1>1. PrevOf(h, b) \in Addresses(h)
  BY LinkTypes DEF PrevOf
<1>2. EndAt(h, PrevOf(h, b)) = b
  BY DEF PrevOf, Tiles
<1>3. PrevOf(h, b) \in Nat /\ b \in Nat /\ PrevOf(h, b) < b
  BY <1>1, <1>2, Spacing
<1>4. QED
  BY <1>1, <1>2, <1>3

LEMMA SwallowPrevOnce ==
  ASSUME NEW h, NEW m, Typed(h, m), NEW lo, NEW hi \in Nat, Tiles(h, lo, hi),
         NEW b \in Addresses(h), FreeBlock(h, PrevOf(h, b)),
         StartOfRun(h, PrevOf(h, b)), NEW k, k = SwallowedByPrev(<<h, b>>)
  PROVE  /\ k = <<Swallow(RemoveFromList(h, PrevOf(h, b)), PrevOf(h, b), b), PrevOf(h, b)>>
         /\ SwallowedByPrev(k) = k
<1> DEFINE p == PrevOf(h, b)
           r == RemoveFromList(h, p)
           q == PrevOf(h, p)
<1>1. p \in Addresses(h) /\ p # Nil /\ ~h.hdr[p].used
  BY NilIsNoAddress DEF FreeBlock
<1>2. EndAt(h, p) = b /\ p # b /\ p < b /\ p \in Nat /\ b \in Nat
  BY <1>1, PrevIsBefore, Spacing
<1>3. PrevPhysical(h, b) = p /\ FreeAt(h, p)
  BY <1>1 DEF PrevPhysical, PrevOf, FreeAt
<1>4. k = <<Swallow(r, p, b), p>>
  BY <1>3 DEF SwallowedByPrev
<1>5. Typed(r, m) /\ SameBlocks(h, r)
  BY <1>1, RemoveFields
<1>6. Addresses(r) = Addresses(h) /\ PrevOf(r, p) = q
      /\ \A x \in Addresses(h) : r.hdr[x].used = h.hdr[x].used
  BY <1>1, <1>5 DEF SameBlocks, PrevOf
<1> HIDE DEF r
<1>7. PICK s : s = Swallow(r, p, b)
  OBVIOUS
<1>8. Swallowed(r, p, b, s)
  BY <1>1, <1>2, <1>5, <1>6, <1>7, SwallowFields
<1>9. PrevOf(s, p) = q /\ \A x \in Addresses(h) \ {b} : s.hdr[x].used = h.hdr[x].used
  <2>1. p \in Addresses(r) \ {b}
    BY <1>1, <1>2, <1>6
  <2>2. PrevOf(s, p) = PrevOf(r, p)
    BY <1>8, <2>1 DEF Swallowed, PrevOf
  <2>3. \A x \in Addresses(r) \ {b} : s.hdr[x].used = r.hdr[x].used
    BY <1>8 DEF Swallowed
  <2>4. QED
    BY <1>6, <2>2, <2>3
<1>10. ~FreeAt(s, q)
  <2>1. CASE q = Nil
    BY <2>1 DEF FreeAt
  <2>2. CASE q # Nil
    <3>1. q \in Addresses(h) /\ q < p /\ q \in Nat
      BY <1>1, <2>2, PrevIsBefore, Spacing
    <3>2. q # b
      BY <1>2, <3>1
    <3>3. h.hdr[q].used
      BY <2>2 DEF StartOfRun
    <3>4. s.hdr[q].used
      BY <1>9, <3>1, <3>2, <3>3
    <3>5. QED
      BY <3>4 DEF FreeAt
  <2>3. QED
    BY <2>1, <2>2
<1>11. SwallowedByPrev(<<s, p>>) = <<s, p>>
  <2>1. PrevPhysical(s, p) = q
    BY <1>9 DEF PrevPhysical, PrevOf
  <2>2. QED
    BY <1>10, <2>1 DEF SwallowedByPrev
<1>12. QED
  BY <1>4, <1>7, <1>11 DEF r

\* merge_backward.
LEMMA BackwardOnce ==
  ASSUME NEW h, NEW m, Typed(h, m), NEW lo, end \in Nat, Tiles(h, lo, end),
         NEW b \in Addresses(h),
         FreeBlock(h, PrevOf(h, b)) => StartOfRun(h, PrevOf(h, b))
  PROVE  MergeBackward(h, b) =
           IF FreeBlock(h, PrevOf(h, b))
           THEN <<Join(RemoveFromList(h, PrevOf(h, b)), PrevOf(h, b), b), PrevOf(h, b)>>
           ELSE <<h, b>>
<1> DEFINE p == PrevOf(h, b)
           N == Cardinality(DOMAIN h.hdr)
           IsRun(f) == f = [i \in Turns(h) |->
                              IF i = 0 THEN <<h, b>> ELSE SwallowedByPrev(f[i - 1])]
           run == CHOOSE f : IsRun(f)
<1>1. N \in Nat /\ N >= 1 /\ Turns(h) = 0..N
  BY TurnsAreNumbers
<1>2. FreeAt(h, PrevPhysical(h, b)) <=> FreeBlock(h, p)
  <2>1. p \in Addresses(h) \cup {Nil} /\ Nil \notin Addresses(h)
    BY LinkTypes, NilIsNoAddress DEF PrevOf
  <2>2. QED
    BY <2>1 DEF FreeBlock, FreeAt, PrevPhysical, PrevOf
<1>3. PICK x : x = <<h, b>>
  OBVIOUS
<1>4. PICK k : k = SwallowedByPrev(x)
  OBVIOUS
<1>5. SwallowedByPrev(k) = k
  <2>1. CASE FreeBlock(h, p)
    BY <1>3, <1>4, <2>1, SwallowPrevOnce
  <2>2. CASE ~FreeBlock(h, p)
    <3>1. SwallowedByPrev(x) = x
      BY <1>2, <1>3, <2>2 DEF SwallowedByPrev
    <3>2. QED
      BY <1>4, <3>1
  <2>3. QED
    BY <2>1, <2>2
<1>6. MergeBackward(h, b) =
        <<[run[N][1] EXCEPT !.hdr = SetPhys(@, NextPhysical(h, b), run[N][2])], run[N][2]>>
  BY DEF MergeBackward
<1> HIDE DEF N
<1>7. IsRun([i \in Turns(h) |-> IF i = 0 THEN x ELSE k])
  <2> DEFINE w == [i \in Turns(h) |-> IF i = 0 THEN x ELSE k]
  <2>1. \A i \in Turns(h) : i # 0 => i - 1 \in Turns(h)
    BY <1>1
  <2>2. \A i \in Turns(h) : i # 0 => w[i - 1] = IF i - 1 = 0 THEN x ELSE k
    BY <2>1
  <2>3. \A i \in Turns(h) : i # 0 => SwallowedByPrev(w[i - 1]) = k
    BY <1>4, <1>5, <2>2
  <2>4. \A i \in Turns(h) :
          (IF i = 0 THEN x ELSE k) = IF i = 0 THEN <<h, b>> ELSE SwallowedByPrev(w[i - 1])
    BY <1>3, <2>3
  <2>5. QED
    BY <2>4
<1>8. IsRun(run)
  BY <1>7
<1> HIDE DEF run
<1>9. run[0] = x
  BY <1>1, <1>3, <1>8
<1>10. \A i \in 1..N : run[i] = SwallowedByPrev(run[i - 1])
  BY <1>1, <1>8
<1>11. run[N] = k
  <2>1. \A i \in 1..N : run[i - 1] \in {x, k} => run[i] = k
    BY <1>4, <1>5, <1>10
  <2>2. N \in Nat /\ N >= 1
    BY <1>1
  <2> HIDE DEF IsRun
  <2>3. StepsOnce(run, N, x, k)
    BY ONLY <1>9, <2>1, <2>2 DEF StepsOnce
  <2>4. QED
    BY <2>3, OneTurn
<1>12. MergeBackward(h, b) =
         <<[k[1] EXCEPT !.hdr = SetPhys(@, NextPhysical(h, b), k[2])], k[2]>>
  BY <1>6, <1>11
<1>13. CASE FreeBlock(h, p)
  <2>1. k = <<Swallow(RemoveFromList(h, p), p, b), p>>
    BY <1>3, <1>4, <1>13, SwallowPrevOnce
  <2>2. NextPhysical(RemoveFromList(h, p), b) = NextPhysical(h, b)
    <3>1. p \in Addresses(h)
      BY <1>13 DEF FreeBlock
    <3>2. SameBlocks(h, RemoveFromList(h, p))
      BY <3>1, RemoveFields
    <3>3. QED
      BY <3>2 DEF NextPhysical, SameBlocks
  <2>3. QED
    BY <1>12, <1>13, <2>1, <2>2 DEF Join
<1>14. CASE ~FreeBlock(h, p)
  <2>1. k = <<h, b>>
    BY <1>2, <1>3, <1>4, <1>14 DEF SwallowedByPrev
  <2>2. QED
    BY <1>12, <1>14, <2>1, PhysKnown
<1>15. QED
  BY <1>13, <1>14

-----------------------------------------------------------------------------
(* Merging                                                                 *)

Sound(h, m, lo, hi) == Typed(h, m) /\ Linked(h) /\ Tiles(h, lo, hi)

\* No two neighbours are free, but for those of which one is c.
CalmBut(h, c) ==
  \A x \in Addresses(h) :
    EndAt(h, x) \in Addresses(h) /\ x # c /\ EndAt(h, x) # c =>
      h.hdr[x].used \/ h.hdr[EndAt(h, x)].used

\* Block n, which lies behind b, has become a part of b.
Absorbed(h, b, n, k) ==
  /\ Addresses(k) = Addresses(h) \ {n}
  /\ Loose(k, b)
  /\ EndAt(k, b) = EndAt(h, n)
  /\ \A x \in Addresses(k) :
       /\ k.hdr[x].used = h.hdr[x].used
       /\ PrevOf(k, x) = IF x = EndAt(h, n) THEN b ELSE PrevOf(h, x)
       /\ x # b => EndAt(k, x) = EndAt(h, x)

LEMMA AbsorbKeeps ==
  ASSUME NEW h, NEW m, NEW lo, end \in Nat, Sound(h, m, lo, end),
         NEW b \in Addresses(h), NEW n \in Addresses(h), n = EndAt(h, b),
         NEW v \in {b, n}, NEW w \in {b, n}, v # w, Loose(h, w),
         NEW k, k = Join(RemoveFromList(h, v), b, n)
  PROVE  Sound(k, m, lo, end) /\ Absorbed(h, b, n, k)
<1>1. Typed(h, m) /\ Linked(h) /\ Tiles(h, lo, end)
  BY DEF Sound
<1>2. PICK r : r = RemoveFromList(h, v)
  OBVIOUS
<1>3. Typed(r, m) /\ SameBlocks(h, r) /\ Linked(r) /\ Loose(r, v) /\ Loose(r, w)
  BY <1>1, <1>2, RemoveFields, RemoveKeepsLists
<1>4. /\ Tiles(r, lo, end) /\ Addresses(r) = Addresses(h)
      /\ \A x \in Addresses(h) :
           /\ EndAt(r, x) = EndAt(h, x) /\ r.hdr[x].used = h.hdr[x].used
           /\ r.hdr[x].prev_phys = h.hdr[x].prev_phys
  BY <1>1, <1>3, SameTiles DEF SameBlocks
<1>5. Loose(r, b) /\ Loose(r, n) /\ k = Join(r, b, n) /\ n = EndAt(r, b)
  BY <1>2, <1>3, <1>4
<1>6. /\ Typed(k, m) /\ Addresses(k) = Addresses(r) \ {n} /\ b # n
      /\ \A x \in Addresses(r) \ {n} :
           /\ k.hdr[x].used = r.hdr[x].used
           /\ k.hdr[x].prev_phys = IF x = EndAt(r, n) THEN b ELSE r.hdr[x].prev_phys
  BY <1>3, <1>4, <1>5, JoinFields
<1>7. /\ Tiles(k, lo, end) /\ EndAt(k, b) = EndAt(r, n)
      /\ \A x \in Addresses(k) : x # b => EndAt(k, x) = EndAt(r, x)
  BY <1>3, <1>4, <1>5, JoinTiles
<1>8. Linked(k) /\ \A x \in Addresses(k) : Loose(r, x) => Loose(k, x)
  BY <1>3, <1>4, <1>5, JoinKeepsLists
<1>9. Absorbed(h, b, n, k)
  BY <1>4, <1>5, <1>6, <1>7, <1>8 DEF Absorbed, PrevOf
<1>10. Typed(k, m) /\ Linked(k) /\ Tiles(k, lo, end)
  BY <1>6, <1>7, <1>8
<1>11. Sound(k, m, lo, end)
  BY <1>10 DEF Sound
<1>12. QED
  BY ONLY <1>9, <1>11

LEMMA AbsorbCalm ==
  ASSUME NEW h, NEW b, NEW n, NEW k, Absorbed(h, b, n, k),
         NEW c \in {b, n}, CalmBut(h, c)
  PROVE  CalmBut(k, b)
BY DEF Absorbed, CalmBut

\* What merge returns: block g of k, in which b and its free neighbours lie.
Merged(h, b, g, k) ==
  /\ g = IF FreeBlock(h, PrevOf(h, b)) THEN PrevOf(h, b) ELSE b
  /\ Addresses(k) \subseteq Addresses(h) /\ g \in Addresses(k)
  /\ \A x \in Addresses(h) : h.hdr[x].used /\ x # b => x \in Addresses(k)
  /\ g # b => b \notin Addresses(k)
  /\ \A x \in Addresses(k) :
       /\ k.hdr[x].used = h.hdr[x].used
       /\ x # g => EndAt(k, x) = EndAt(h, x)
  /\ EndAt(k, g) = IF FreeBlock(h, EndAt(h, b)) THEN EndAt(h, EndAt(h, b))
                   ELSE EndAt(h, b)
  /\ Loose(k, g) /\ CalmBut(k, g) /\ EndOfRun(k, g) /\ StartOfRun(k, g)

LEMMA NeighboursFree ==
  ASSUME NEW h, NEW m, NEW lo, NEW hi \in Nat, Sound(h, m, lo, hi),
         NEW b \in Addresses(h), CalmBut(h, b)
  PROVE  /\ FreeBlock(h, EndAt(h, b)) => EndOfRun(h, EndAt(h, b))
         /\ FreeBlock(h, PrevOf(h, b)) => StartOfRun(h, PrevOf(h, b))
<1>1. Typed(h, m) /\ Tiles(h, lo, hi)
  BY DEF Sound
<1>2. ASSUME FreeBlock(h, EndAt(h, b)), EndAt(h, EndAt(h, b)) \in Addresses(h)
      PROVE  h.hdr[EndAt(h, EndAt(h, b))].used
  <2>1. PICK n \in Addresses(h) : n = EndAt(h, b)
    BY <1>2 DEF FreeBlock
  <2>2. b \in Nat /\ n \in Nat /\ EndAt(h, n) \in Nat /\ b < n /\ n < EndAt(h, n)
    BY <1>1, <2>1, Spacing
  <2>3. n # b /\ EndAt(h, n) # b
    BY <2>2
  <2>4. QED
    BY <1>2, <2>1, <2>3 DEF CalmBut, FreeBlock
<1>3. ASSUME FreeBlock(h, PrevOf(h, b)), PrevOf(h, PrevOf(h, b)) # Nil
      PROVE  h.hdr[PrevOf(h, PrevOf(h, b))].used
  <2>1. PICK p \in Addresses(h) : p = PrevOf(h, b)
    BY <1>3 DEF FreeBlock
  <2>2. p # Nil /\ ~h.hdr[p].used
    BY <1>1, <1>3, <2>1, NilIsNoAddress DEF FreeBlock
  <2>3. PICK q \in Addresses(h) : q = PrevOf(h, p) /\ EndAt(h, q) = p /\ q # p /\ q < p
    BY <1>1, <1>3, <2>1, PrevIsBefore
  <2>4. p < b /\ p # b
    BY <1>1, <2>1, <2>2, PrevIsBefore
  <2>5. q \in Nat /\ p \in Nat /\ b \in Nat
    BY <1>1, Spacing
  <2>6. q # b /\ EndAt(h, q) \in Addresses(h) /\ EndAt(h, q) # b
    BY <2>3, <2>4, <2>5
  <2>7. h.hdr[q].used
    BY <2>2, <2>3, <2>6 DEF CalmBut
  <2>8. QED
    BY <2>1, <2>3, <2>7
<1>4. QED
  BY <1>2, <1>3 DEF EndOfRun, StartOfRun

\* merge, first half.
BackMerged(h, b, g, k) ==
  /\ g = IF FreeBlock(h, PrevOf(h, b)) THEN PrevOf(h, b) ELSE b
  /\ Addresses(k) \subseteq Addresses(h) /\ g \in Addresses(k)
  /\ \A x \in Addresses(h) : h.hdr[x].used /\ x # b => x \in Addresses(k)
  /\ g # b => b \notin Addresses(k)
  /\ \A x \in Addresses(k) :
       /\ k.hdr[x].used = h.hdr[x].used
       /\ x # g => EndAt(k, x) = EndAt(h, x)
  /\ EndAt(k, g) = EndAt(h, b)
  /\ EndAt(h, b) \in Addresses(h) => EndAt(h, b) \in Addresses(k) /\ EndAt(h, b) # g
  /\ Loose(k, g) /\ CalmBut(k, g) /\ StartOfRun(k, g)

LEMMA MergeBack ==
  ASSUME NEW h, NEW m, NEW lo, end \in Nat, Sound(h, m, lo, end),
         NEW b \in Addresses(h), Loose(h, b), CalmBut(h, b),
         NEW r, r = MergeBackward(h, b)
  PROVE  Sound(r[1], m, lo, end) /\ BackMerged(h, b, r[2], r[1])
<1> DEFINE p == PrevOf(h, b)
<1>1. Typed(h, m) /\ Linked(h) /\ Tiles(h, lo, end)
  BY DEF Sound
<1>2. /\ FreeBlock(h, EndAt(h, b)) => EndOfRun(h, EndAt(h, b))
      /\ FreeBlock(h, p) => StartOfRun(h, p)
  BY NeighboursFree
<1>3. r = IF FreeBlock(h, p) THEN <<Join(RemoveFromList(h, p), p, b), p>> ELSE <<h, b>>
  BY <1>1, <1>2, BackwardOnce
<1>4. b \in Nat /\ EndAt(h, b) \in Nat /\ b < EndAt(h, b)
  BY <1>1, Spacing
<1>5. CASE FreeBlock(h, p)
  <2>1. PICK k : k = Join(RemoveFromList(h, p), p, b)
    OBVIOUS
  <2>2. r[1] = k /\ r[2] = p
    BY <1>3, <1>5, <2>1
  <2>3. p \in Addresses(h) /\ p # Nil /\ ~h.hdr[p].used
    BY <1>1, <1>5, NilIsNoAddress DEF FreeBlock
  <2>4. EndAt(h, p) = b /\ p # b /\ p < b /\ p \in Nat
    BY <1>1, <2>3, PrevIsBefore, Spacing
  <2>5. p \in {p, b} /\ b \in {p, b}
    OBVIOUS
  <2>6. StartOfRun(h, p)
    BY <1>2, <1>5
  <2>7. PrevOf(h, p) # EndAt(h, b) /\ PrevOf(h, p) # b /\ p # EndAt(h, b)
        /\ PrevOf(h, p) \in Addresses(h) \cup {Nil} /\ Nil \notin Addresses(h)
    <3>1. CASE PrevOf(h, p) = Nil
      BY <1>1, <1>4, <2>3, <2>4, <3>1, NilIsNoAddress DEF Nil
    <3>2. CASE PrevOf(h, p) # Nil
      <4>1. PrevOf(h, p) \in Addresses(h) /\ PrevOf(h, p) < p
        BY <1>1, <2>3, <3>2, PrevIsBefore
      <4>2. PrevOf(h, p) \in Nat
        BY <1>1, <4>1, Spacing
      <4>3. QED
        BY <1>1, <1>4, <2>4, <4>1, <4>2, NilIsNoAddress
    <3>3. QED
      BY <3>1, <3>2
  <2> HIDE DEF p
  <2>8. Sound(k, m, lo, end) /\ Absorbed(h, p, b, k)
    BY <2>1, <2>3, <2>4, <2>5, AbsorbKeeps
  <2>9. CalmBut(k, p)
    BY <2>5, <2>8, AbsorbCalm
  <2>10. /\ Addresses(k) = Addresses(h) \ {b} /\ Loose(k, p)
         /\ EndAt(k, p) = EndAt(h, b)
         /\ \A x \in Addresses(k) :
              /\ k.hdr[x].used = h.hdr[x].used
              /\ PrevOf(k, x) = IF x = EndAt(h, b) THEN p ELSE PrevOf(h, x)
              /\ x # p => EndAt(k, x) = EndAt(h, x)
    BY <2>8 DEF Absorbed
  <2>11. p \in Addresses(k) /\ PrevOf(k, p) = PrevOf(h, p)
    BY <2>3, <2>4, <2>7, <2>10
  <2>12. StartOfRun(k, p)
    BY <2>6, <2>7, <2>10, <2>11 DEF StartOfRun
  <2>13. EndAt(h, b) \in Addresses(h) => EndAt(h, b) \in Addresses(k) /\ EndAt(h, b) # p
    BY <1>4, <2>7, <2>10
  <2>14. p = IF FreeBlock(h, PrevOf(h, b)) THEN PrevOf(h, b) ELSE b
    BY <1>5 DEF p
  <2>15. BackMerged(h, b, p, k)
    BY <2>9, <2>10, <2>11, <2>12, <2>13, <2>14 DEF BackMerged
  <2>16. QED
    BY <2>2, <2>8, <2>15
<1>6. CASE ~FreeBlock(h, p)
  <2>1. r[1] = h /\ r[2] = b
    BY <1>3, <1>6
  <2>2. StartOfRun(h, b)
    <3>1. p # Nil => p \in Addresses(h)
      BY <1>1, PrevIsBefore
    <3>2. QED
      BY <1>6, <3>1 DEF StartOfRun, FreeBlock
  <2>3. EndAt(h, b) # b
    BY <1>4
  <2>4. BackMerged(h, b, b, h)
    BY <1>6, <2>2, <2>3 DEF BackMerged
  <2>5. QED
    BY <2>1, <2>4
<1>7. QED
  BY <1>5, <1>6

LEMMA MergeOnce ==
  ASSUME NEW h, NEW m, NEW lo, end \in Nat, Sound(h, m, lo, end),
         NEW b \in Addresses(h), Loose(h, b), CalmBut(h, b),
         NEW r, r = Merge(h, b)
  PROVE  Sound(r[1], m, lo, end) /\ Merged(h, b, r[2], r[1])
<1>1. PICK x : x = MergeBackward(h, b)
  OBVIOUS
<1>2. PICK k : k = x[1]
  OBVIOUS
<1>3. PICK g : g = x[2]
  OBVIOUS
<1>4. Sound(k, m, lo, end) /\ BackMerged(h, b, g, k)
  BY <1>1, <1>2, <1>3, MergeBack
<1>5. r = <<MergeForward(k, g), g>>
  BY <1>1, <1>2, <1>3 DEF Merge
<1>6. /\ g = IF FreeBlock(h, PrevOf(h, b)) THEN PrevOf(h, b) ELSE b
      /\ Addresses(k) \subseteq Addresses(h) /\ g \in Addresses(k)
      /\ \A y \in Addresses(h) : h.hdr[y].used /\ y # b => y \in Addresses(k)
      /\ g # b => b \notin Addresses(k)
      /\ \A y \in Addresses(k) :
           /\ k.hdr[y].used = h.hdr[y].used
           /\ y # g => EndAt(k, y) = EndAt(h, y)
      /\ EndAt(k, g) = EndAt(h, b)
      /\ EndAt(h, b) \in Addresses(h) => EndAt(h, b) \in Addresses(k) /\ EndAt(h, b) # g
      /\ Loose(k, g) /\ CalmBut(k, g) /\ StartOfRun(k, g)
  BY <1>4 DEF BackMerged
<1>7. Typed(k, m) /\ Tiles(k, lo, end) /\ Typed(h, m) /\ Tiles(h, lo, end)
  BY <1>4 DEF Sound
<1>8. PICK n : n = EndAt(h, b)
  OBVIOUS
<1>9. FreeBlock(k, n) <=> FreeBlock(h, n)
  BY <1>6, <1>8 DEF FreeBlock
<1>10. FreeBlock(k, n) => EndOfRun(k, n)
  BY <1>4, <1>6, <1>8, NeighboursFree
<1>11. MergeForward(k, g) = IF FreeBlock(k, n) THEN Join(RemoveFromList(k, n), g, n)
                            ELSE k
  <2>1. EndAt(k, g) = n /\ g \in Addresses(k)
    BY <1>6, <1>8
  <2>2. FreeBlock(k, EndAt(k, g)) => EndOfRun(k, EndAt(k, g))
    BY <1>10, <2>1
  <2>3. QED
    BY <1>7, <2>1, <2>2, ForwardOnce
<1>12. CASE FreeBlock(h, n)
  <2>1. PICK j : j = Join(RemoveFromList(k, n), g, n)
    OBVIOUS
  <2>2. r[1] = j /\ r[2] = g
    BY <1>5, <1>9, <1>11, <1>12, <2>1
  <2>3. n \in Addresses(k) /\ n # g /\ n # Nil /\ n \in {g, n} /\ g \in {g, n}
        /\ EndAt(k, g) = n /\ g \in Addresses(k)
    BY <1>6, <1>7, <1>8, <1>9, <1>12, NilIsNoAddress DEF FreeBlock
  <2>4. Sound(j, m, lo, end) /\ Absorbed(k, g, n, j)
    BY <1>4, <1>6, <2>1, <2>3, AbsorbKeeps
  <2>5. CalmBut(j, g)
    BY <1>6, <2>3, <2>4, AbsorbCalm
  <2>6. /\ Addresses(j) = Addresses(k) \ {n} /\ Loose(j, g)
        /\ EndAt(j, g) = EndAt(k, n)
        /\ \A y \in Addresses(j) :
             /\ j.hdr[y].used = k.hdr[y].used
             /\ PrevOf(j, y) = IF y = EndAt(k, n) THEN g ELSE PrevOf(k, y)
             /\ y # g => EndAt(j, y) = EndAt(k, y)
    BY <2>4 DEF Absorbed
  <2>7. EndAt(k, n) = EndAt(h, n)
    BY <1>6, <2>3
  <2>8. n \in Nat /\ g \in Nat /\ EndAt(k, n) \in Nat /\ n < EndAt(k, n) /\ g < n
    BY <1>7, <2>3, Spacing
  <2>9. EndOfRun(j, g)
    <3>1. SUFFICES ASSUME EndAt(k, n) \in Addresses(j) PROVE j.hdr[EndAt(k, n)].used
      BY <2>6 DEF EndOfRun
    <3>2. k.hdr[EndAt(k, n)].used
      BY <1>9, <1>10, <1>12, <2>6, <3>1 DEF EndOfRun
    <3>3. QED
      BY <2>6, <3>1, <3>2
  <2>10. StartOfRun(j, g)
    <3>1. g \in Addresses(j) /\ PrevOf(j, g) = PrevOf(k, g)
      BY <2>3, <2>6, <2>8
    <3>2. SUFFICES ASSUME PrevOf(k, g) # Nil PROVE j.hdr[PrevOf(k, g)].used
      BY <3>1 DEF StartOfRun
    <3>3. k.hdr[PrevOf(k, g)].used /\ PrevOf(k, g) \in Addresses(k)
      BY <1>6, <1>7, <2>3, <3>2, PrevIsBefore DEF StartOfRun
    <3>4. PrevOf(k, g) # n
      BY <1>9, <1>12, <3>3 DEF FreeBlock
    <3>5. QED
      BY <2>6, <3>3, <3>4
  <2>11. \A y \in Addresses(h) : h.hdr[y].used /\ y # b => y \in Addresses(j)
    BY <1>6, <1>12, <2>6 DEF FreeBlock
  <2>12. g \in Addresses(j) /\ Addresses(j) \subseteq Addresses(h)
         /\ (g # b => b \notin Addresses(j))
    BY <1>6, <2>3, <2>6
  <2>13. \A y \in Addresses(j) :
             /\ j.hdr[y].used = h.hdr[y].used
             /\ y # g => EndAt(j, y) = EndAt(h, y)
    BY <1>6, <2>6
  <2>14. EndAt(j, g) = IF FreeBlock(h, EndAt(h, b)) THEN EndAt(h, EndAt(h, b))
                       ELSE EndAt(h, b)
    BY <1>8, <1>12, <2>6, <2>7
  <2>15. Merged(h, b, g, j)
    BY <1>6, <2>5, <2>6, <2>9, <2>10, <2>11, <2>12, <2>13, <2>14 DEF Merged
  <2>16. QED
    BY <2>2, <2>4, <2>15
<1>13. CASE ~FreeBlock(h, n)
  <2>1. r[1] = k /\ r[2] = g
    BY <1>5, <1>9, <1>11, <1>13
  <2>2. EndOfRun(k, g)
    BY <1>6, <1>8, <1>9, <1>13 DEF EndOfRun, FreeBlock
  <2>3. EndAt(k, g) = IF FreeBlock(h, EndAt(h, b)) THEN EndAt(h, EndAt(h, b))
                      ELSE EndAt(h, b)
    BY <1>6, <1>8, <1>13
  <2>4. Merged(h, b, g, k)
    BY <1>6, <2>2, <2>3 DEF Merged
  <2>5. QED
    BY <1>4, <2>1, <2>4
<1>14. QED
  BY <1>12, <1>13

-----------------------------------------------------------------------------
(* A block that is in no list changes its mark or its size                 *)

LEMMA UsedAreLoose ==
  ASSUME NEW h, NEW m, Typed(h, m), Linked(h), NEW b \in Addresses(h), h.hdr[b].used
  PROVE  Loose(h, b)
<1>1. h.hdr[b].next = Nil
  BY DEF Linked
<1>2. PICK p : p = h.hdr[b].prev /\ p \in Addresses(h) \cup {Nil}
  BY LinkTypes
<1>3. p = Nil
  <2>1. SUFFICES ASSUME p # Nil PROVE FALSE
    OBVIOUS
  <2>2. p \in Addresses(h) /\ h.hdr[p].next = b /\ b # Nil
    BY <1>2, <2>1, NilIsNoAddress DEF Linked
  <2>3. ~h.hdr[h.hdr[p].next].used
    BY <2>2 DEF Linked
  <2>4. QED
    BY <2>2, <2>3
<1>4. \A c \in DOMAIN h.bucket : h.bucket[c] # b
  <2>1. SUFFICES ASSUME NEW c \in DOMAIN h.bucket, h.bucket[c] = b PROVE FALSE
    OBVIOUS
  <2>2. h.bucket[c] # Nil
    BY <2>1, NilIsNoAddress
  <2>3. ~h.hdr[h.bucket[c]].used
    BY <2>2 DEF Linked
  <2>4. QED
    BY <2>1, <2>3
<1>5. QED
  BY <1>1, <1>2, <1>3, <1>4 DEF Loose

\* The two heaps differ in the mark and the size of b only.
Differ(h, g, b) ==
  /\ Addresses(g) = Addresses(h) /\ g.bucket = h.bucket
  /\ \A x \in Addresses(h) :
       /\ g.hdr[x].prev = h.hdr[x].prev
       /\ g.hdr[x].next = h.hdr[x].next
       /\ g.hdr[x].prev_phys = h.hdr[x].prev_phys
       /\ x # b => g.hdr[x].size = h.hdr[x].size /\ g.hdr[x].used = h.hdr[x].used

LEMMA LooseMayDiffer ==
  ASSUME NEW h, NEW m, Typed(h, m), Linked(h), NEW b \in Addresses(h), Loose(h, b),
         NEW g, Typed(g, m), Differ(h, g, b)
  PROVE  Linked(g) /\ \A x \in Addresses(h) : Loose(h, x) => Loose(g, x)
<1> DEFINE D == Addresses(h)
<1>1. /\ Addresses(g) = D /\ g.bucket = h.bucket
      /\ \A x \in D :
           /\ g.hdr[x].prev = h.hdr[x].prev
           /\ g.hdr[x].next = h.hdr[x].next
           /\ x # b => g.hdr[x].size = h.hdr[x].size /\ g.hdr[x].used = h.hdr[x].used
  BY DEF Differ
<1>2. /\ \A x \in D : h.hdr[x].next # b /\ h.hdr[x].prev # b
      /\ \A c \in Classes(m) : h.bucket[c] # b
  BY NothingLeadsTo
<1>3. \A x \in D : x # b => ClassOf(g, x) = ClassOf(h, x)
  BY <1>1 DEF ClassOf
<1>4. h.hdr[b].prev = Nil /\ h.hdr[b].next = Nil
  BY DEF Loose
<1>5. \A x \in D : h.hdr[x].next \in D \cup {Nil} /\ h.hdr[x].prev \in D \cup {Nil}
  BY LinkTypes
<1>6. /\ DOMAIN h.bucket = Classes(m) /\ Nil \notin D
      /\ \A c \in Classes(m) : h.bucket[c] \in D \cup {Nil}
  BY NilIsNoAddress DEF Typed
<1>7. ASSUME NEW x \in D, g.hdr[x].next # Nil
      PROVE  /\ g.hdr[g.hdr[x].next].prev = x
             /\ ~g.hdr[x].used /\ ~g.hdr[g.hdr[x].next].used
             /\ ClassOf(g, x) = ClassOf(g, g.hdr[x].next)
  <2>1. PICK y \in D : y = h.hdr[x].next /\ y = g.hdr[x].next
    BY <1>1, <1>5, <1>7
  <2>2. y # b /\ x # b
    BY <1>2, <1>4, <1>6, <2>1
  <2>3. h.hdr[y].prev = x /\ ~h.hdr[x].used /\ ~h.hdr[y].used
        /\ ClassOf(h, x) = ClassOf(h, y)
    BY <1>6, <2>1 DEF Linked
  <2>4. QED
    BY <1>1, <1>3, <2>1, <2>2, <2>3
<1>8. ASSUME NEW x \in D, g.hdr[x].prev # Nil
      PROVE  g.hdr[g.hdr[x].prev].next = x
  <2>1. PICK y \in D : y = h.hdr[x].prev /\ y = g.hdr[x].prev
    BY <1>1, <1>5, <1>8
  <2>2. h.hdr[y].next = x
    BY <1>6, <2>1 DEF Linked
  <2>3. QED
    BY <1>1, <2>1, <2>2
<1>9. ASSUME NEW c \in DOMAIN g.bucket, g.bucket[c] # Nil
      PROVE  /\ ~g.hdr[g.bucket[c]].used
             /\ ClassOf(g, g.bucket[c]) = c
             /\ g.hdr[g.bucket[c]].prev = Nil
  <2>1. PICK y \in D : y = h.bucket[c] /\ y = g.bucket[c]
    BY <1>1, <1>6, <1>9
  <2>2. y # b
    BY <1>1, <1>2, <1>6, <2>1
  <2>3. ~h.hdr[y].used /\ ClassOf(h, y) = c /\ h.hdr[y].prev = Nil
    BY <1>1, <1>6, <2>1 DEF Linked
  <2>4. QED
    BY <1>1, <1>3, <2>1, <2>2, <2>3
<1>10. Linked(g)
  BY ONLY <1>1, <1>7, <1>8, <1>9 DEF Linked
<1>11. \A x \in D : Loose(h, x) => Loose(g, x)
  BY <1>1 DEF Loose
<1>12. QED
  BY <1>10, <1>11

Marked(h, g, b, u) ==
  Differ(h, g, b) /\ g.hdr[b].size = h.hdr[b].size /\ g.hdr[b].used = u

LEMMA MarkFields ==
  ASSUME NEW h, NEW m, Typed(h, m), NEW b \in Addresses(h), NEW u \in BOOLEAN,
         NEW g, g = [h EXCEPT !.hdr[b].used = u]
  PROVE  Typed(g, m) /\ Marked(h, g, b, u)
<1> DEFINE D == Addresses(h)
<1>1. PICK r : r = h.hdr /\ r \in [D -> Headers(D)]
  BY DEF Typed
<1>2. PICK k : k = h.bucket /\ k \in [Classes(m) -> D \cup {Nil}]
               /\ h = [hdr |-> r, bucket |-> k]
  BY <1>1 DEF Typed
<1>3. PICK y : y = r[b] /\ y \in Headers(D)
  BY <1>1
<1>4. PICK z : z = [y EXCEPT !.used = u]
  OBVIOUS
<1>5. /\ z \in Headers(D) /\ z.used = u /\ z.size = y.size /\ z.prev = y.prev
      /\ z.next = y.next /\ z.prev_phys = y.prev_phys
  BY <1>3, <1>4 DEF Headers
<1>6. PICK s : s = [r EXCEPT ![b] = z]
  OBVIOUS
<1>7. g = [hdr |-> s, bucket |-> k]
  BY <1>2, <1>3, <1>4, <1>6
<1>8. s \in [D -> Headers(D)] /\ s[b] = z /\ \A x \in D : x # b => s[x] = r[x]
  BY <1>1, <1>5, <1>6
<1>9. g.hdr = s /\ g.bucket = k /\ Addresses(g) = D
  <2>1. g.hdr = s /\ g.bucket = k
    BY <1>7
  <2>2. DOMAIN s = D
    BY <1>8
  <2> HIDE DEF D
  <2>3. QED
    BY <2>1, <2>2 DEF Addresses
<1>10. D \subseteq Nat
  BY DEF Typed
<1>11. Typed(g, m)
  BY ONLY <1>2, <1>7, <1>8, <1>9, <1>10 DEF Typed
<1>12. Differ(h, g, b)
  BY <1>1, <1>2, <1>3, <1>5, <1>8, <1>9 DEF Differ
<1>13. QED
  BY <1>1, <1>3, <1>5, <1>8, <1>9, <1>11, <1>12 DEF Marked

-----------------------------------------------------------------------------
(* free                                                                    *)

Calm(h) ==
  \A x \in Addresses(h) :
    EndAt(h, x) \in Addresses(h) => h.hdr[x].used \/ h.hdr[EndAt(h, x)].used

UsedOf(h) == {x \in Addresses(h) : h.hdr[x].used}

\* With how many main classes a heap is laid out.
Extent(m, lo, hi) ==
  lo \in Nat /\ hi \in Nat /\ hi - lo \in Lengths /\ m = LevelCount(hi - lo)

LEMMA ClassKnown ==
  ASSUME NEW h, NEW m, NEW lo, NEW hi, Extent(m, lo, hi), Sound(h, m, lo, hi),
         NEW b \in Addresses(h)
  PROVE  ClassOf(h, b) \in Classes(m)
<1>1. lo \in Nat /\ hi \in Nat /\ hi - lo \in Lengths /\ m = LevelCount(hi - lo)
  BY DEF Extent
<1>2. Typed(h, m) /\ Tiles(h, lo, hi)
  BY DEF Sound
<1>3. /\ h.hdr[b].size \in Nat /\ b \in Nat /\ EndAt(h, b) <= hi
      /\ EndAt(h, b) = b + h.hdr[b].size /\ lo <= b
  <2>1. lo <= b
    BY <1>2 DEF Tiles
  <2>2. QED
    BY <1>1, <1>2, <2>1, Spacing
<1>4. h.hdr[b].size <= hi - lo
  BY <1>1, <1>3
<1>5. h.hdr[b].size \in Lengths
  BY <1>1, <1>3, <1>4, SomePowers DEF Lengths
<1>6. QED
  BY <1>1, <1>4, <1>5, SplitIsClass DEF ClassOf

LEMMA CalmAround ==
  ASSUME NEW h, NEW m, NEW lo, NEW hi \in Nat, Sound(h, m, lo, hi),
         NEW g \in Addresses(h), CalmBut(h, g), EndOfRun(h, g), StartOfRun(h, g)
  PROVE  Calm(h)
<1>1. Typed(h, m) /\ Tiles(h, lo, hi)
  BY DEF Sound
<1>2. SUFFICES ASSUME NEW x \in Addresses(h), EndAt(h, x) \in Addresses(h)
               PROVE  h.hdr[x].used \/ h.hdr[EndAt(h, x)].used
  BY DEF Calm
<1>3. CASE x = g
  BY <1>2, <1>3 DEF EndOfRun
<1>4. CASE EndAt(h, x) = g
  <2>1. EndAt(h, x) # hi
    BY <1>1, <1>4 DEF Tiles, Header
  <2>2. PrevOf(h, g) = x /\ x # Nil
    BY <1>1, <1>4, <2>1, NilIsNoAddress DEF Tiles, PrevOf
  <2>3. QED
    BY <2>2 DEF StartOfRun
<1>5. CASE x # g /\ EndAt(h, x) # g
  BY <1>2, <1>5 DEF CalmBut
<1>6. QED
  BY <1>3, <1>4, <1>5

LEMMA SameCalm ==
  ASSUME NEW h, NEW g, SameBlocks(h, g), Calm(h)
  PROVE  Calm(g) /\ UsedOf(g) = UsedOf(h)
<1>1. /\ Addresses(g) = Addresses(h)
      /\ \A x \in Addresses(h) :
           EndAt(g, x) = EndAt(h, x) /\ g.hdr[x].used = h.hdr[x].used
  BY DEF SameBlocks, EndAt
<1>2. QED
  BY <1>1 DEF Calm, UsedOf

\* After a call that returns block b to the heap: it is not in use any more,
\* and the block in which it lies now is the first of its class.
GivenBack(h, b, k) ==
  /\ UsedOf(k) = UsedOf(h) \ {b}
  /\ \A x \in UsedOf(k) : EndAt(k, x) = EndAt(h, x)
  /\ \E g \in Addresses(k) : k.bucket[ClassOf(k, g)] = g

LEMMA FreedKeeps ==
  ASSUME NEW h, NEW m, NEW lo, Extent(m, lo, end), Sound(h, m, lo, end), Calm(h),
         NEW b \in Addresses(h), h.hdr[b].used, NEW k, k = Freed(h, b)
  PROVE  Sound(k, m, lo, end) /\ Calm(k) /\ GivenBack(h, b, k)
<1>1. Typed(h, m) /\ Linked(h) /\ Tiles(h, lo, end) /\ end \in Nat
  BY DEF Sound, Extent
<1>2. PICK u : u = MarkFree(h, b)
  OBVIOUS
<1>3. Typed(u, m) /\ Differ(h, u, b) /\ u.hdr[b].size = h.hdr[b].size /\ ~u.hdr[b].used
  <2>1. PICK v \in BOOLEAN : v = FALSE
    OBVIOUS
  <2>2. u = [h EXCEPT !.hdr[b].used = v]
    BY <1>2, <2>1 DEF MarkFree
  <2>3. Typed(u, m) /\ Marked(h, u, b, v)
    BY <1>1, <2>2, MarkFields
  <2>4. QED
    BY <2>1, <2>3 DEF Marked
<1>4. Loose(h, b)
  BY <1>1, UsedAreLoose
<1>5. Linked(u) /\ Loose(u, b)
  BY <1>1, <1>3, <1>4, LooseMayDiffer
<1>6. /\ Addresses(u) = Addresses(h)
      /\ \A x \in Addresses(h) : /\ EndAt(u, x) = EndAt(h, x)
                                 /\ x # b => u.hdr[x].used = h.hdr[x].used
  BY <1>3 DEF Differ, EndAt
<1>7. Sound(u, m, lo, end)
  <2>1. SamePlaces(h, u)
    BY <1>3 DEF Differ, SamePlaces
  <2>2. Tiles(u, lo, end)
    BY <1>1, <2>1, SamePlacesTile
  <2>3. QED
    BY <1>3, <1>5, <2>2 DEF Sound
<1>8. CalmBut(u, b)
  BY <1>6 DEF CalmBut, Calm
<1>9. PICK r : r = Merge(u, b)
  OBVIOUS
<1>10. PICK j : j = r[1]
  OBVIOUS
<1>11. PICK g : g = r[2]
  OBVIOUS
<1>12. Sound(j, m, lo, end) /\ Merged(u, b, g, j)
  <2>1. b \in Addresses(u)
    BY <1>6
  <2>2. QED
    BY <1>1, <1>5, <1>7, <1>8, <1>9, <1>10, <1>11, <2>1, MergeOnce
<1>13. /\ g = IF FreeBlock(u, PrevOf(u, b)) THEN PrevOf(u, b) ELSE b
       /\ Addresses(j) \subseteq Addresses(u) /\ g \in Addresses(j)
       /\ \A x \in Addresses(u) : u.hdr[x].used /\ x # b => x \in Addresses(j)
       /\ \A x \in Addresses(j) :
            /\ j.hdr[x].used = u.hdr[x].used
            /\ x # g => EndAt(j, x) = EndAt(u, x)
       /\ Loose(j, g) /\ CalmBut(j, g) /\ EndOfRun(j, g) /\ StartOfRun(j, g)
  BY <1>12 DEF Merged
<1>14. ~j.hdr[g].used
  <2>1. ~u.hdr[g].used
    BY <1>3, <1>13 DEF FreeBlock
  <2>2. QED
    BY <1>13, <2>1
<1>15. Typed(j, m) /\ Linked(j) /\ Tiles(j, lo, end)
  BY <1>12 DEF Sound
<1>16. k = InsertToList(j, g)
  BY <1>2, <1>9, <1>10, <1>11 DEF Freed
<1>17. ClassOf(j, g) \in Classes(m)
  BY <1>12, <1>13, ClassKnown
<1>18. /\ Typed(k, m) /\ SameBlocks(j, k) /\ Linked(k)
       /\ k.bucket[ClassOf(j, g)] = g
  BY <1>13, <1>14, <1>15, <1>16, <1>17, InsertKeepsLists
<1>19. Sound(k, m, lo, end)
  BY <1>15, <1>18, SameTiles DEF Sound
<1>20. Calm(j)
  BY <1>1, <1>12, <1>13, CalmAround
<1>21. Calm(k) /\ UsedOf(k) = UsedOf(j)
  BY <1>18, <1>20, SameCalm
<1>22. UsedOf(j) = UsedOf(h) \ {b}
  <2>1. ASSUME NEW x \in UsedOf(j) PROVE x \in UsedOf(h) \ {b}
    BY <1>3, <1>6, <1>13, <2>1 DEF UsedOf
  <2>2. ASSUME NEW x \in UsedOf(h) \ {b} PROVE x \in UsedOf(j)
    BY <1>6, <1>13, <2>2 DEF UsedOf
  <2>3. QED
    BY <2>1, <2>2
<1>23. ASSUME NEW x \in UsedOf(k) PROVE EndAt(k, x) = EndAt(h, x)
  <2>1. x \in Addresses(j) /\ j.hdr[x].used
    BY <1>21 DEF UsedOf
  <2>2. EndAt(j, x) = EndAt(h, x)
    BY <1>6, <1>13, <1>14, <2>1
  <2>3. EndAt(k, x) = EndAt(j, x)
    BY <1>18, <2>1 DEF SameBlocks, EndAt
  <2>4. QED
    BY <2>2, <2>3
<1>24. g \in Addresses(k) /\ k.bucket[ClassOf(k, g)] = g
  BY <1>13, <1>18, SameClasses DEF SameBlocks
<1>25. GivenBack(h, b, k)
  BY <1>21, <1>22, <1>23, <1>24 DEF GivenBack
<1>26. QED
  BY <1>19, <1>21, <1>25

-----------------------------------------------------------------------------
(* Splitting                                                               *)

\* The part of b from address z on becomes a block of its own.
Parted(h, b, z, k) ==
  /\ Addresses(k) = Addresses(h) \cup {z}
  /\ EndAt(k, b) = z /\ EndAt(k, z) = EndAt(h, b)
  /\ PrevOf(k, z) = b
  /\ \A x \in Addresses(h) :
       /\ x # b => EndAt(k, x) = EndAt(h, x)
       /\ PrevOf(k, x) = IF x = EndAt(h, b) THEN z ELSE PrevOf(h, x)

LEMMA NoBlockInside ==
  ASSUME NEW h, NEW m, Typed(h, m), NEW lo, NEW hi \in Nat, Tiles(h, lo, hi),
         NEW b \in Addresses(h), NEW z \in Nat, b < z, z < EndAt(h, b)
  PROVE  z \notin Addresses(h)
<1>1. SUFFICES ASSUME z \in Addresses(h) PROVE FALSE
  OBVIOUS
<1>2. EndAt(h, b) <= z
  BY <1>1 DEF Tiles
<1>3. EndAt(h, b) \in Nat
  BY Spacing
<1>4. QED
  BY <1>2, <1>3

LEMMA PartedTiles ==
  ASSUME NEW h, NEW m, Typed(h, m), NEW lo, NEW hi \in Nat, Tiles(h, lo, hi),
         NEW b \in Addresses(h), NEW z \in Nat, b + 16 <= z, z + 24 <= EndAt(h, b),
         NEW k, Typed(k, m), Parted(h, b, z, k)
  PROVE  Tiles(k, lo, hi) /\ z \notin Addresses(h)
<1> DEFINE D == Addresses(h)
           e == EndAt(h, b)
<1>1. /\ Addresses(k) = D \cup {z}
      /\ EndAt(k, b) = z /\ EndAt(k, z) = e /\ PrevOf(k, z) = b
      /\ \A x \in D : /\ x # b => EndAt(k, x) = EndAt(h, x)
                      /\ PrevOf(k, x) = IF x = e THEN z ELSE PrevOf(h, x)
  BY DEF Parted
<1>2. b \in Nat /\ e \in Nat /\ e <= hi
  BY Spacing
<1>3. z \notin D
  BY <1>2, NoBlockInside
<1>4. \A x \in D :
        /\ lo <= x /\ x + 16 < hi
        /\ EndAt(h, x) = hi \/ (EndAt(h, x) \in D /\ PrevOf(h, EndAt(h, x)) = x)
        /\ PrevOf(h, x) # Nil => EndAt(h, PrevOf(h, x)) = x
        /\ \A c \in D : x < c => EndAt(h, x) <= c
  BY DEF Tiles, PrevOf, Header
<1>5. \A x \in D : /\ x \in Nat /\ EndAt(h, x) \in Nat /\ x < EndAt(h, x) /\ EndAt(h, x) <= hi
                   /\ PrevOf(h, x) \in D \cup {Nil} /\ x # Nil
                   /\ EndAt(h, x) = x + h.hdr[x].size /\ h.hdr[x].size >= 16
                   /\ h.hdr[x].size \in Nat
  <2>1. TAKE x \in D
  <2>2. h.hdr[x].size >= 16
    BY DEF Tiles, Header
  <2>3. PrevOf(h, x) \in D \cup {Nil} /\ h.hdr[x].size \in Nat
    BY LinkTypes DEF PrevOf
  <2>4. QED
    BY <2>2, <2>3, Spacing
<1>6. \A x \in D : x # b => EndAt(h, x) # e /\ (EndAt(h, x) <= b \/ e <= x)
  BY Apart
<1>7. lo \in Addresses(k)
  BY <1>1 DEF Tiles
<1>8. lo \in Nat
  BY Spacing
<1>9. \A x \in Addresses(k) : k.hdr[x].size = EndAt(k, x) - x /\ k.hdr[x].size \in Nat
  BY LinkTypes DEF EndAt
<1> HIDE DEF D, e
<1>10. b \in D /\ b + 16 <= z /\ z + 24 <= e /\ Nil \notin D /\ z # b /\ z # Nil
  BY <1>2, <1>5, z \in Nat DEF D, e, Nil
<1>11. ASSUME NEW x \in D \cup {z}
       PROVE  lo <= x /\ x + 16 < hi /\ k.hdr[x].size >= 16
  <2>1. CASE x = z
    BY <1>1, <1>2, <1>4, <1>8, <1>9, <1>10, <2>1
  <2>2. CASE x = b
    BY <1>1, <1>2, <1>4, <1>9, <1>10, <2>2
  <2>3. CASE x \in D /\ x # b
    <3>1. k.hdr[x].size = EndAt(h, x) - x
      BY <1>1, <1>9, <2>3
    <3>2. QED
      BY <1>4, <1>5, <2>3, <3>1
  <2>4. QED
    BY <2>1, <2>2, <2>3
<1>12. ASSUME NEW x \in D \cup {z}
       PROVE  \/ EndAt(k, x) = hi
              \/ EndAt(k, x) \in Addresses(k) /\ PrevOf(k, EndAt(k, x)) = x
  <2>1. CASE x = z
    BY <1>1, <1>4, <1>10, <2>1 DEF e
  <2>2. CASE x = b
    BY <1>1, <1>10, <2>2
  <2>3. CASE x \in D /\ x # b
    <3>1. EndAt(k, x) = EndAt(h, x) /\ EndAt(h, x) # e
      BY <1>1, <1>6, <2>3
    <3>2. QED
      BY <1>1, <1>4, <2>3, <3>1
  <2>4. QED
    BY <2>1, <2>2, <2>3
<1>13. ASSUME NEW x \in D \cup {z}, PrevOf(k, x) # Nil
       PROVE  EndAt(k, PrevOf(k, x)) = x
  <2>1. CASE x = z
    BY <1>1, <2>1
  <2>2. CASE x \in D /\ x = e
    BY <1>1, <2>2
  <2>3. CASE x \in D /\ x # e
    <3>1. PICK p : p = PrevOf(h, x) /\ p = PrevOf(k, x)
      BY <1>1, <2>3
    <3>2. p \in D /\ EndAt(h, p) = x
      BY <1>4, <1>5, <1>13, <2>3, <3>1
    <3>3. p # b
      BY <2>3, <3>2 DEF e
    <3>4. QED
      BY <1>1, <3>1, <3>2, <3>3
  <2>4. QED
    BY <2>1, <2>2, <2>3
<1>14. ASSUME NEW x \in D \cup {z}, NEW c \in D \cup {z}, x < c
       PROVE  EndAt(k, x) <= c
  <2>1. CASE x = z /\ c \in D
    <3>1. c # b /\ e \in Nat /\ c \in Nat /\ EndAt(h, c) \in Nat /\ c < EndAt(h, c)
      BY <1>2, <1>5, <1>10, <1>14, <2>1
    <3>2. EndAt(h, c) <= b \/ e <= c
      BY <1>6, <2>1, <3>1
    <3>3. e <= c
      BY <1>2, <1>10, <1>14, <2>1, <3>1, <3>2
    <3>4. QED
      BY <1>1, <2>1, <3>3
  <2>2. CASE x = b
    <3>1. CASE c = z
      BY <1>1, <2>2, <3>1
    <3>2. CASE c \in D
      <4>1. e <= c /\ c \in Nat
        BY <1>4, <1>5, <1>10, <1>14, <2>2, <3>2 DEF e
      <4>2. QED
        BY <1>1, <1>2, <1>10, <2>2, <4>1
    <3>3. QED
      BY <3>1, <3>2
  <2>3. CASE x \in D /\ x # b /\ c = z
    <3>1. EndAt(h, x) <= b \/ e <= x
      BY <1>6, <2>3
    <3>2. x \in Nat /\ EndAt(h, x) \in Nat
      BY <1>5, <2>3
    <3>3. EndAt(h, x) <= b
      BY <1>2, <1>10, <1>14, <2>3, <3>1, <3>2
    <3>4. QED
      BY <1>1, <1>2, <1>10, <2>3, <3>2, <3>3
  <2>4. CASE x \in D /\ x # b /\ c \in D
    BY <1>1, <1>4, <1>14, <2>4
  <2>5. CASE x = z /\ c = z
    BY <1>14, <2>5
  <2>6. QED
    BY <2>1, <2>2, <2>3, <2>4, <2>5
<1>15. QED
  BY ONLY <1>1, <1>3, <1>7, <1>11, <1>12, <1>13, <1>14 DEF Tiles, PrevOf, Header, D

\* A new block z of size s behind block b and before e is in no list yet.
Extended(h, b, z, s, e, k) ==
  /\ Addresses(k) = Addresses(h) \cup {z} /\ k.bucket = h.bucket
  /\ k.hdr[z].size = s /\ ~k.hdr[z].used /\ k.hdr[z].prev_phys = b
  /\ k.hdr[z].prev = Nil /\ k.hdr[z].next = Nil
  /\ \A x \in Addresses(h) :
       /\ k.hdr[x].size = h.hdr[x].size
       /\ k.hdr[x].used = h.hdr[x].used
       /\ k.hdr[x].prev = h.hdr[x].prev
       /\ k.hdr[x].next = h.hdr[x].next
       /\ k.hdr[x].prev_phys = IF x = e THEN z ELSE h.hdr[x].prev_phys

WithRest(h, b, z, s) ==
  [h EXCEPT !.hdr = [c \in DOMAIN h.hdr \cup {z} |->
                       IF c = z THEN NewHeader(s, b) ELSE h.hdr[c]]]

LEMMA ExtendFields ==
  ASSUME NEW h, NEW m, Typed(h, m), NEW b \in Addresses(h),
         NEW z \in Nat, z \notin Addresses(h), NEW s \in Nat,
         NEW e \in Addresses(h) \cup {Nil},
         NEW g, g = WithRest(h, b, z, s),
         NEW k, k = [g EXCEPT !.hdr = SetPhys(@, e, z)]
  PROVE  Typed(k, m) /\ Extended(h, b, z, s, e, k)
<1> DEFINE D == Addresses(h)
           C == D \cup {z}
<1>1. D \subseteq Nat /\ h.hdr \in [D -> Headers(D)]
  BY DEF Typed
<1>2. PICK w : w = h.bucket /\ w \in [Classes(m) -> D \cup {Nil}]
               /\ h = [hdr |-> h.hdr, bucket |-> w]
  BY DEF Typed
<1>3. PICK y : y = NewHeader(s, b)
  OBVIOUS
<1>4. /\ y \in Headers(C) /\ y.size = s /\ ~y.used /\ y.prev_phys = b
      /\ y.prev = Nil /\ y.next = Nil
  BY <1>3 DEF NewHeader, Headers
<1>5. PICK r : r = [c \in C |-> IF c = z THEN y ELSE h.hdr[c]]
  OBVIOUS
<1>6. g = [hdr |-> r, bucket |-> w]
  <2>1. [c \in DOMAIN h.hdr \cup {z} |->
           IF c = z THEN NewHeader(s, b) ELSE h.hdr[c]] = r
    BY <1>3, <1>5 DEF Addresses
  <2>2. g = [h EXCEPT !.hdr = r]
    BY <2>1 DEF WithRest
  <2>3. QED
    BY <1>2, <2>2
<1>7. /\ r \in [C -> Headers(C)] /\ r[z] = y
      /\ \A x \in D : r[x] = h.hdr[x]
  <2>1. \A x \in D : h.hdr[x] \in Headers(C)
    <3>1. \A x \in D : h.hdr[x] \in Headers(D)
      BY <1>1
    <3> HIDE DEF D
    <3>2. Headers(D) \subseteq Headers(C)
      BY DEF Headers
    <3>3. QED
      BY <3>1, <3>2
  <2>2. \A x \in D : x # z
    OBVIOUS
  <2> HIDE DEF D
  <2>3. QED
    BY <1>4, <1>5, <2>1, <2>2
<1>8. PICK q : q = SetPhys(r, e, z)
  OBVIOUS
<1>9. k = [hdr |-> q, bucket |-> w]
  BY <1>6, <1>8
<1>10. Nil \notin C /\ e \in C \cup {Nil} /\ z \in C \cup {Nil} /\ e # z
  BY <1>1 DEF Nil
<1> HIDE DEF D
<1>11. /\ q \in [C -> Headers(C)]
       /\ \A x \in C :
            /\ q[x].size = r[x].size
            /\ q[x].used = r[x].used
            /\ q[x].prev = r[x].prev
            /\ q[x].next = r[x].next
            /\ q[x].prev_phys = IF x = e THEN z ELSE r[x].prev_phys
  <2> HIDE DEF C
  <2>1. QED
    BY <1>7, <1>8, <1>10, SetPhysFields
<1>12. k.hdr = q /\ k.bucket = w /\ Addresses(k) = C
  <2>1. k.hdr = q /\ k.bucket = w
    BY <1>9
  <2>2. DOMAIN q = C
    BY <1>11
  <2>3. QED
    BY <2>1, <2>2 DEF Addresses
<1>13. C \subseteq Nat /\ w \in [Classes(m) -> C \cup {Nil}]
  BY <1>1, <1>2
<1>14. Typed(k, m)
  BY ONLY <1>9, <1>11, <1>12, <1>13 DEF Typed
<1>15. Extended(h, b, z, s, e, k)
  <2>1. \A x \in D : q[x].prev_phys = IF x = e THEN z ELSE h.hdr[x].prev_phys
    BY <1>7, <1>11
  <2>2. \A x \in D : /\ q[x].size = h.hdr[x].size
                     /\ q[x].used = h.hdr[x].used
                     /\ q[x].prev = h.hdr[x].prev
                     /\ q[x].next = h.hdr[x].next
    BY <1>7, <1>11
  <2>3. /\ q[z].size = s /\ ~q[z].used /\ q[z].prev_phys = b
        /\ q[z].prev = Nil /\ q[z].next = Nil
    BY <1>4, <1>7, <1>10, <1>11
  <2>4. QED
    BY <1>2, <1>12, <2>1, <2>2, <2>3 DEF Extended, D
<1>16. QED
  BY <1>14, <1>15

LEMMA ExtendKeepsLists ==
  ASSUME NEW h, NEW m, Typed(h, m), Linked(h), NEW b, NEW z, z \notin Addresses(h),
         NEW s, NEW e, NEW k, Typed(k, m), Extended(h, b, z, s, e, k)
  PROVE  /\ Linked(k) /\ Loose(k, z)
         /\ \A x \in Addresses(h) : Loose(h, x) => Loose(k, x)
<1> DEFINE D == Addresses(h)
<1>1. /\ Addresses(k) = D \cup {z} /\ k.bucket = h.bucket
      /\ k.hdr[z].prev = Nil /\ k.hdr[z].next = Nil
      /\ \A x \in D : /\ k.hdr[x].size = h.hdr[x].size
                      /\ k.hdr[x].used = h.hdr[x].used
                      /\ k.hdr[x].prev = h.hdr[x].prev
                      /\ k.hdr[x].next = h.hdr[x].next
  BY DEF Extended
<1>2. \A x \in D : h.hdr[x].next \in D \cup {Nil} /\ h.hdr[x].prev \in D \cup {Nil}
  BY LinkTypes
<1>3. /\ DOMAIN h.bucket = Classes(m)
      /\ \A c \in Classes(m) : h.bucket[c] \in D \cup {Nil}
  BY DEF Typed
<1>4. \A x \in D : ClassOf(k, x) = ClassOf(h, x)
  BY <1>1 DEF ClassOf
<1>5. z # Nil /\ Nil \notin D
  BY <1>1, NilIsNoAddress
<1>6. ASSUME NEW x \in Addresses(k), k.hdr[x].next # Nil
      PROVE  /\ k.hdr[k.hdr[x].next].prev = x
             /\ ~k.hdr[x].used /\ ~k.hdr[k.hdr[x].next].used
             /\ ClassOf(k, x) = ClassOf(k, k.hdr[x].next)
  <2>1. x \in D
    BY <1>1, <1>6
  <2>2. PICK y \in D : y = h.hdr[x].next /\ y = k.hdr[x].next
    BY <1>1, <1>2, <1>6, <2>1
  <2>3. h.hdr[y].prev = x /\ ~h.hdr[x].used /\ ~h.hdr[y].used
        /\ ClassOf(h, x) = ClassOf(h, y)
    BY <1>5, <2>1, <2>2 DEF Linked
  <2>4. QED
    BY <1>1, <1>4, <2>1, <2>2, <2>3
<1>7. ASSUME NEW x \in Addresses(k), k.hdr[x].prev # Nil
      PROVE  k.hdr[k.hdr[x].prev].next = x
  <2>1. x \in D
    BY <1>1, <1>7
  <2>2. PICK y \in D : y = h.hdr[x].prev /\ y = k.hdr[x].prev
    BY <1>1, <1>2, <1>7, <2>1
  <2>3. h.hdr[y].next = x
    BY <1>5, <2>1, <2>2 DEF Linked
  <2>4. QED
    BY <1>1, <2>2, <2>3
<1>8. ASSUME NEW c \in DOMAIN k.bucket, k.bucket[c] # Nil
      PROVE  /\ ~k.hdr[k.bucket[c]].used
             /\ ClassOf(k, k.bucket[c]) = c
             /\ k.hdr[k.bucket[c]].prev = Nil
  <2>1. PICK y \in D : y = h.bucket[c] /\ y = k.bucket[c]
    BY <1>1, <1>3, <1>8
  <2>2. ~h.hdr[y].used /\ ClassOf(h, y) = c /\ h.hdr[y].prev = Nil
    BY <1>1, <1>5, <2>1 DEF Linked
  <2>3. QED
    BY <1>1, <1>4, <2>1, <2>2
<1>9. Linked(k)
  BY ONLY <1>6, <1>7, <1>8 DEF Linked
<1>10. Loose(k, z)
  <2>1. \A c \in Classes(m) : h.bucket[c] # z
    BY <1>3, <1>5
  <2>2. QED
    BY <1>1, <1>3, <2>1 DEF Loose
<1>11. \A x \in D : Loose(h, x) => Loose(k, x)
  BY <1>1 DEF Loose
<1>12. QED
  BY <1>9, <1>10, <1>11

LEMMA ResizeFields ==
  ASSUME NEW h, NEW m, Typed(h, m), NEW b \in Addresses(h), NEW s \in Nat,
         NEW g, g = [h EXCEPT !.hdr[b].size = s]
  PROVE  Typed(g, m) /\ Differ(h, g, b) /\ g.hdr[b].size = s
<1> DEFINE D == Addresses(h)
<1>1. PICK r : r = h.hdr /\ r \in [D -> Headers(D)]
  BY DEF Typed
<1>2. PICK k : k = h.bucket /\ k \in [Classes(m) -> D \cup {Nil}]
               /\ h = [hdr |-> r, bucket |-> k]
  BY <1>1 DEF Typed
<1>3. PICK y : y = r[b] /\ y \in Headers(D)
  BY <1>1
<1>4. PICK z : z = [y EXCEPT !.size = s]
  OBVIOUS
<1>5. /\ z \in Headers(D) /\ z.used = y.used /\ z.size = s /\ z.prev = y.prev
      /\ z.next = y.next /\ z.prev_phys = y.prev_phys
  BY <1>3, <1>4 DEF Headers
<1>6. PICK t : t = [r EXCEPT ![b] = z]
  OBVIOUS
<1>7. g = [hdr |-> t, bucket |-> k]
  BY <1>2, <1>3, <1>4, <1>6
<1>8. t \in [D -> Headers(D)] /\ t[b] = z /\ \A x \in D : x # b => t[x] = r[x]
  BY <1>1, <1>5, <1>6
<1>9. g.hdr = t /\ g.bucket = k /\ Addresses(g) = D
  <2>1. g.hdr = t /\ g.bucket = k
    BY <1>7
  <2>2. DOMAIN t = D
    BY <1>8
  <2> HIDE DEF D
  <2>3. QED
    BY <2>1, <2>2 DEF Addresses
<1>10. D \subseteq Nat
  BY DEF Typed
<1>11. Typed(g, m)
  BY ONLY <1>2, <1>7, <1>8, <1>9, <1>10 DEF Typed
<1>12. Differ(h, g, b)
  BY <1>1, <1>2, <1>3, <1>5, <1>8, <1>9 DEF Differ
<1>13. QED
  BY <1>5, <1>8, <1>9, <1>11, <1>12

LEMMA Gross ==
  ASSUME NEW n \in Nat
  PROVE  GrossSize(n) \in Nat /\ GrossSize(n) >= n + 16
BY DEF GrossSize, AlignUp, Align, Header

\* Block b, which is now in use, has kept the room for n bytes.
SplitDone(h, b, n, k) ==
  /\ b + GrossSize(n) \notin Addresses(h)
  /\ Parted(h, b, b + GrossSize(n), k)
  /\ k.hdr[b].used /\ ~k.hdr[b + GrossSize(n)].used
  /\ \A x \in Addresses(h) : x # b => k.hdr[x].used = h.hdr[x].used

LEMMA SplitKeeps ==
  ASSUME NEW h, NEW m, NEW lo, Extent(m, lo, end), Sound(h, m, lo, end),
         NEW b \in Addresses(h), Loose(h, b), NEW n \in Nat,
         WorthSplitting(h, b, n), NEW k, k = SplitBlock(h, b, n)
  PROVE  Sound(k, m, lo, end) /\ SplitDone(h, b, n, k)
<1>1. Typed(h, m) /\ Linked(h) /\ Tiles(h, lo, end) /\ end \in Nat /\ lo \in Nat
      /\ end - lo \in Lengths /\ m = LevelCount(end - lo)
  BY DEF Sound, Extent
<1>2. b \in Nat /\ h.hdr[b].size \in Nat /\ EndAt(h, b) \in Nat
      /\ EndAt(h, b) = b + h.hdr[b].size /\ EndAt(h, b) <= end
  BY <1>1, Spacing
<1>3. PICK o \in Nat : o = GrossSize(n) /\ o >= 16
  BY Gross
<1>4. PICK z \in Nat : z = b + o
  BY <1>2
<1>5. PICK s \in Nat : s = h.hdr[b].size - o /\ s >= 24
  BY <1>2, <1>3 DEF WorthSplitting, MinRest, Header, Align
<1>6. b + 16 <= z /\ z + 24 <= EndAt(h, b) /\ EndAt(h, b) = z + s
  BY <1>2, <1>3, <1>4, <1>5
<1>7. z \notin Addresses(h)
  BY <1>1, <1>2, <1>6, NoBlockInside
<1>8. PICK e : e = NextPhysical(h, b)
  OBVIOUS
<1>9. e = IF EndAt(h, b) \in Addresses(h) THEN EndAt(h, b) ELSE Nil
  BY <1>1, <1>8, NextIsBehind
<1>10. PICK h1 : h1 = RemoveFromList(h, b)
  OBVIOUS
<1>11. Typed(h1, m) /\ SameBlocks(h, h1) /\ Linked(h1) /\ Loose(h1, b)
  BY <1>1, <1>10, RemoveFields, RemoveKeepsLists
<1>12. PICK h2 : h2 = WithRest(h1, b, z, s)
  OBVIOUS
<1>13. PICK h3 : h3 = [h2 EXCEPT !.hdr = SetPhys(@, e, z)]
  OBVIOUS
<1>14. PICK h4 : h4 = InsertToList(h3, z)
  OBVIOUS
<1>15. PICK h5 : h5 = [h4 EXCEPT !.hdr[b].size = o]
  OBVIOUS
<1>16. k = [h5 EXCEPT !.hdr[b].used = TRUE]
  <2>1. h2 = [h1 EXCEPT !.hdr = [c \in DOMAIN h1.hdr \cup {b + GrossSize(n)} |->
                 IF c = b + GrossSize(n)
                 THEN NewHeader(h.hdr[b].size - GrossSize(n), b) ELSE h1.hdr[c]]]
    BY <1>3, <1>4, <1>5, <1>12 DEF WithRest
  <2>2. k = [InsertToList([h2 EXCEPT !.hdr = SetPhys(@, NextPhysical(h, b), b + GrossSize(n))],
                          b + GrossSize(n))
               EXCEPT !.hdr[b].size = GrossSize(n), !.hdr[b].used = TRUE]
    BY <1>10, <2>1 DEF SplitBlock
  <2>3. k = [h4 EXCEPT !.hdr[b].size = o, !.hdr[b].used = TRUE]
    BY <1>3, <1>4, <1>8, <1>13, <1>14, <2>2
  <2>4. QED
    BY <1>15, <2>3
<1>17. Addresses(h1) = Addresses(h) /\ b \in Addresses(h1) /\ z \notin Addresses(h1)
       /\ e \in Addresses(h1) \cup {Nil}
  BY <1>7, <1>9, <1>11 DEF SameBlocks
<1>18. Typed(h3, m) /\ Extended(h1, b, z, s, e, h3)
  BY <1>11, <1>12, <1>13, <1>17, ExtendFields
<1>19. Linked(h3) /\ Loose(h3, z) /\ Loose(h3, b)
  BY <1>11, <1>17, <1>18, ExtendKeepsLists
<1>20. z \in Addresses(h3) /\ b \in Addresses(h3) /\ h3.hdr[z].size = s /\ ~h3.hdr[z].used
       /\ b # z
  BY <1>7, <1>17, <1>18 DEF Extended
<1>21. ClassOf(h3, z) \in Classes(m)
  <2>1. lo <= b
    BY <1>1 DEF Tiles
  <2>2. s <= end - lo
    BY <1>1, <1>2, <1>4, <1>6, <2>1
  <2>3. s \in Lengths
    BY <1>1, <2>2, SomePowers DEF Lengths
  <2>4. SplitSize(s) \in Classes(m)
    BY <1>1, <2>2, <2>3, SplitIsClass
  <2>5. QED
    BY <1>20, <2>4 DEF ClassOf
<1>22. Typed(h4, m) /\ SameBlocks(h3, h4) /\ Linked(h4) /\ Loose(h4, b)
  BY <1>14, <1>18, <1>19, <1>20, <1>21, InsertKeepsLists
<1>23. b \in Addresses(h4)
  BY <1>20, <1>22 DEF SameBlocks
<1>24. Typed(h5, m) /\ Differ(h4, h5, b) /\ h5.hdr[b].size = o
  BY <1>15, <1>22, <1>23, ResizeFields
<1>25. Linked(h5) /\ Loose(h5, b) /\ b \in Addresses(h5)
  <2>1. Linked(h5) /\ Loose(h5, b)
    BY <1>22, <1>23, <1>24, LooseMayDiffer
  <2>2. QED
    BY <1>23, <1>24, <2>1 DEF Differ
<1>26. Typed(k, m) /\ Differ(h5, k, b) /\ k.hdr[b].size = o /\ k.hdr[b].used
  <2>1. PICK v \in BOOLEAN : v = TRUE
    OBVIOUS
  <2>2. k = [h5 EXCEPT !.hdr[b].used = v]
    BY <1>16, <2>1
  <2>3. Typed(k, m) /\ Marked(h5, k, b, v)
    BY <1>24, <1>25, <2>2, MarkFields
  <2>4. QED
    BY <1>24, <2>1, <2>3 DEF Marked
<1>27. Linked(k)
  BY <1>24, <1>25, <1>26, LooseMayDiffer
<1>28. /\ Addresses(k) = Addresses(h) \cup {z}
       /\ k.hdr[z].size = s /\ ~k.hdr[z].used /\ k.hdr[z].prev_phys = b
       /\ \A x \in Addresses(h) :
            /\ x # b => k.hdr[x].size = h.hdr[x].size /\ k.hdr[x].used = h.hdr[x].used
            /\ k.hdr[x].prev_phys = IF x = e THEN z ELSE h.hdr[x].prev_phys
  <2>1. /\ Addresses(h3) = Addresses(h) \cup {z}
        /\ h3.hdr[z].size = s /\ ~h3.hdr[z].used /\ h3.hdr[z].prev_phys = b
        /\ \A x \in Addresses(h) :
             /\ h3.hdr[x].size = h.hdr[x].size /\ h3.hdr[x].used = h.hdr[x].used
             /\ h3.hdr[x].prev_phys = IF x = e THEN z ELSE h.hdr[x].prev_phys
    BY <1>11, <1>18 DEF Extended, SameBlocks
  <2>2. /\ Addresses(k) = Addresses(h3)
        /\ \A x \in Addresses(h3) :
             /\ x # b => k.hdr[x].size = h3.hdr[x].size /\ k.hdr[x].used = h3.hdr[x].used
             /\ k.hdr[x].prev_phys = h3.hdr[x].prev_phys
    BY <1>22, <1>24, <1>26 DEF SameBlocks, Differ
  <2>3. QED
    BY <1>20, <2>1, <2>2
<1>29. Parted(h, b, z, k)
  <2>1. EndAt(k, b) = z /\ EndAt(k, z) = EndAt(h, b) /\ PrevOf(k, z) = b
    BY <1>4, <1>6, <1>26, <1>28 DEF EndAt, PrevOf
  <2>2. \A x \in Addresses(h) :
          /\ x # b => EndAt(k, x) = EndAt(h, x)
          /\ PrevOf(k, x) = IF x = EndAt(h, b) THEN z ELSE PrevOf(h, x)
    <3>1. TAKE x \in Addresses(h)
    <3>2. x = e <=> x = EndAt(h, b)
      BY <1>1, <1>9, NilIsNoAddress
    <3>3. QED
      BY <1>28, <3>2 DEF EndAt, PrevOf
  <2>3. QED
    BY <1>28, <2>1, <2>2 DEF Parted
<1>30. Tiles(k, lo, end)
  BY <1>1, <1>6, <1>26, <1>29, PartedTiles
<1>31. SplitDone(h, b, n, k)
  BY <1>3, <1>4, <1>7, <1>26, <1>28, <1>29 DEF SplitDone
<1>32. QED
  BY <1>26, <1>27, <1>30, <1>31 DEF Sound

LEMMA SplitIsCalm ==
  ASSUME NEW h, NEW m, NEW lo, NEW hi \in Nat, Sound(h, m, lo, hi),
         NEW b \in Addresses(h), NEW n, NEW k, Sound(k, m, lo, hi), SplitDone(h, b, n, k),
         CalmBut(h, b), EndOfRun(h, b)
  PROVE  Calm(k)
<1>1. PICK z : z = b + GrossSize(n)
  OBVIOUS
<1>2. /\ z \notin Addresses(h) /\ Addresses(k) = Addresses(h) \cup {z}
      /\ EndAt(k, b) = z /\ EndAt(k, z) = EndAt(h, b)
      /\ \A x \in Addresses(h) : x # b => EndAt(k, x) = EndAt(h, x)
      /\ k.hdr[b].used
      /\ \A x \in Addresses(h) : x # b => k.hdr[x].used = h.hdr[x].used
  BY <1>1 DEF SplitDone, Parted
<1>3. Typed(k, m) /\ Tiles(k, lo, hi)
  BY DEF Sound
<1>4. SUFFICES ASSUME NEW x \in Addresses(k), EndAt(k, x) \in Addresses(k),
                      ~k.hdr[x].used, ~k.hdr[EndAt(k, x)].used
               PROVE  FALSE
  BY DEF Calm
<1>5. x # b /\ EndAt(k, x) # b
  BY <1>2, <1>4
<1>6. CASE x = z
  <2>1. EndAt(h, b) \in Addresses(h)
    <3>1. EndAt(k, z) # z
      BY <1>3, <1>4, <1>6, Spacing
    <3>2. QED
      BY <1>2, <1>4, <1>6, <3>1
  <2>2. h.hdr[EndAt(h, b)].used
    BY <2>1 DEF EndOfRun
  <2>3. QED
    BY <1>2, <1>4, <1>5, <1>6, <2>1, <2>2
<1>7. CASE x # z
  <2>1. x \in Addresses(h) /\ EndAt(k, x) = EndAt(h, x)
    BY <1>2, <1>4, <1>5, <1>7
  <2>2. EndAt(k, x) # z
    <3>1. b \in Addresses(k) /\ EndAt(k, b) = z
      BY <1>2
    <3>2. QED
      BY <1>3, <1>4, <1>5, <3>1, Apart
  <2>3. EndAt(h, x) \in Addresses(h)
    BY <1>2, <1>4, <2>1, <2>2
  <2>4. h.hdr[x].used \/ h.hdr[EndAt(h, x)].used
    BY <1>5, <2>1, <2>3 DEF CalmBut
  <2>5. QED
    BY <1>2, <1>4, <1>5, <2>1, <2>3, <2>4
<1>8. QED
  BY <1>6, <1>7

-----------------------------------------------------------------------------
(* allocate                                                                *)

LEMMA FirstClass ==
  ASSUME NEW m \in Nat, NEW F, F \subseteq Classes(m), F # {}
  PROVE  \E c \in F : \A d \in F : NotBefore(d, c)
<1>1. \A c \in F : c[1] \in Nat /\ c[2] \in Nat
  BY DEF Classes, SubclassCount
<1>2. PICK a \in {c[1] : c \in F} : \A x \in {c[1] : c \in F} : a <= x
  <2>1. {c[1] : c \in F} \subseteq Nat /\ {c[1] : c \in F} # {}
    BY <1>1
  <2>2. PICK T : T = {c[1] : c \in F}
    OBVIOUS
  <2>3. \E x \in T : \A y \in T : x <= y
    BY <2>1, <2>2, LeastNumber
  <2>4. QED
    BY <2>2, <2>3
<1>3. PICK G : G = {c \in F : c[1] = a}
  OBVIOUS
<1>4. G # {}
  BY <1>2, <1>3
<1>5. PICK b \in {c[2] : c \in G} : \A x \in {c[2] : c \in G} : b <= x
  <2>1. PICK T : T = {c[2] : c \in G}
    OBVIOUS
  <2>2. T \subseteq Nat /\ T # {}
    BY <1>1, <1>3, <1>4, <2>1
  <2>3. \E x \in T : \A y \in T : x <= y
    BY <2>2, LeastNumber
  <2>4. QED
    BY <2>1, <2>3
<1>6. PICK c \in G : c[2] = b
  BY <1>5
<1>7. ASSUME NEW d \in F PROVE NotBefore(d, c)
  <2>1. c[1] = a /\ c[2] = b /\ c \in F
    BY <1>3, <1>6
  <2>2. a \in Nat /\ b \in Nat /\ d[1] \in Nat /\ d[2] \in Nat
    BY <1>1, <2>1
  <2>3. a <= d[1]
    BY <1>2
  <2>4. d[1] = a => b <= d[2]
    BY <1>3, <1>5
  <2>5. QED
    BY <2>1, <2>2, <2>3, <2>4 DEF NotBefore
<1>8. QED
  BY <1>3, <1>6, <1>7

\* What find_proper_block returns is free and large enough.
LEMMA FoundBlock ==
  ASSUME NEW h, levels \in Nat, Typed(h, levels), Linked(h), NEW n \in Nat,
         NEW b, b = FindProperBlock(h, n), b # Nil
  PROVE  b \in Addresses(h) /\ ~h.hdr[b].used /\ h.hdr[b].size >= GrossSize(n)
<1> DEFINE F == {c \in Classes(levels) :
                   NotBefore(c, SplitSize(GrossSize(n))) /\ Fits(h, c, n)}
           first == CHOOSE c \in F : \A d \in F : NotBefore(d, c)
<1>1. F # {} /\ b = h.bucket[first]
  BY DEF FindProperBlock
<1>2. \E c \in F : \A d \in F : NotBefore(d, c)
  <2>1. F \subseteq Classes(levels)
    OBVIOUS
  <2> HIDE DEF F
  <2>2. QED
    BY <1>1, <2>1, FirstClass
<1>3. first \in F
  <2> HIDE DEF F
  <2>1. QED
    BY <1>2
<1>4. first \in Classes(levels) /\ Fits(h, first, n)
  BY <1>3
<1> HIDE DEF F, first
<1>5. h.bucket[first] \in Addresses(h) \cup {Nil} /\ DOMAIN h.bucket = Classes(levels)
  BY <1>4 DEF Typed
<1>6. ~h.hdr[h.bucket[first]].used
  BY <1>1, <1>4, <1>5 DEF Linked
<1>7. QED
  BY <1>1, <1>4, <1>5, <1>6 DEF Fits

LEMMA MarkUsedKeeps ==
  ASSUME NEW h, NEW m, NEW lo, NEW hi \in Nat, Sound(h, m, lo, hi), Calm(h),
         NEW b \in Addresses(h), Loose(h, b), NEW k, k = MarkUsed(h, b)
  PROVE  /\ Sound(k, m, lo, hi) /\ Calm(k)
         /\ UsedOf(k) = UsedOf(h) \cup {b}
         /\ \A x \in Addresses(h) : EndAt(k, x) = EndAt(h, x)
<1>1. Typed(h, m) /\ Linked(h) /\ Tiles(h, lo, hi)
  BY DEF Sound
<1>2. Typed(k, m) /\ Differ(h, k, b) /\ k.hdr[b].size = h.hdr[b].size /\ k.hdr[b].used
  <2>1. PICK v \in BOOLEAN : v = TRUE
    OBVIOUS
  <2>2. k = [h EXCEPT !.hdr[b].used = v]
    BY <2>1 DEF MarkUsed
  <2>3. Typed(k, m) /\ Marked(h, k, b, v)
    BY <1>1, <2>2, MarkFields
  <2>4. QED
    BY <2>1, <2>3 DEF Marked
<1>3. Linked(k)
  BY <1>1, <1>2, LooseMayDiffer
<1>4. SamePlaces(h, k)
  BY <1>2 DEF Differ, SamePlaces
<1>5. Tiles(k, lo, hi) /\ \A x \in Addresses(h) : EndAt(k, x) = EndAt(h, x)
  BY <1>1, <1>4, SamePlacesTile
<1>6. /\ Addresses(k) = Addresses(h) /\ k.hdr[b].used
      /\ \A x \in Addresses(h) : x # b => k.hdr[x].used = h.hdr[x].used
  BY <1>2 DEF Differ
<1>7. Calm(k)
  BY <1>5, <1>6 DEF Calm
<1>8. UsedOf(k) = UsedOf(h) \cup {b}
  BY <1>6 DEF UsedOf
<1>9. QED
  BY <1>2, <1>3, <1>5, <1>7, <1>8 DEF Sound

\* After a call that takes block b, with room for n bytes, from the heap.
Taken(h, b, n, k) ==
  /\ b \notin UsedOf(h) /\ UsedOf(k) = UsedOf(h) \cup {b}
  /\ \A x \in UsedOf(h) : EndAt(k, x) = EndAt(h, x)
  /\ b + 16 + n <= EndAt(k, b)

LEMMA AllocatedKeeps ==
  ASSUME NEW h, NEW m, NEW lo, Extent(m, lo, end), Sound(h, m, lo, end), Calm(h),
         NEW b \in Addresses(h), ~h.hdr[b].used, NEW n \in Nat,
         h.hdr[b].size >= GrossSize(n), NEW k, k = Allocated(h, b, n)
  PROVE  Sound(k, m, lo, end) /\ Calm(k) /\ Taken(h, b, n, k)
<1>1. Typed(h, m) /\ Linked(h) /\ Tiles(h, lo, end) /\ end \in Nat
  BY DEF Sound, Extent
<1>2. PICK h1 : h1 = RemoveFromList(h, b)
  OBVIOUS
<1>3. Typed(h1, m) /\ SameBlocks(h, h1) /\ Linked(h1) /\ Loose(h1, b)
  BY <1>1, <1>2, RemoveFields, RemoveKeepsLists
<1>4. /\ Sound(h1, m, lo, end) /\ Calm(h1) /\ UsedOf(h1) = UsedOf(h)
      /\ \A x \in Addresses(h) : EndAt(h1, x) = EndAt(h, x)
  BY <1>1, <1>3, SameTiles, SameCalm DEF Sound
<1>5. Addresses(h1) = Addresses(h) /\ ~h1.hdr[b].used /\ h1.hdr[b].size = h.hdr[b].size
  BY <1>3 DEF SameBlocks
<1>6. CalmBut(h1, b) /\ EndOfRun(h1, b)
  BY <1>4, <1>5 DEF Calm, CalmBut, EndOfRun
<1>7. PICK s : s = SplitBlock(h1, b, n)
  OBVIOUS
<1>8. k = MarkUsed(s, b)
  BY <1>2, <1>7 DEF Allocated
<1>9. /\ GrossSize(n) \in Nat /\ GrossSize(n) >= n + 16 /\ b \in Nat
      /\ h.hdr[b].size \in Nat /\ EndAt(h, b) = b + h.hdr[b].size
  BY <1>1, Gross, Spacing
<1>10. /\ Sound(s, m, lo, end) /\ Calm(s) /\ b \in Addresses(s) /\ Loose(s, b)
       /\ UsedOf(s) \cup {b} = UsedOf(h) \cup {b}
       /\ \A x \in UsedOf(h) : x \in Addresses(s) /\ EndAt(s, x) = EndAt(h, x)
       /\ b + 16 + n <= EndAt(s, b)
  <2>1. CASE WorthSplitting(h1, b, n)
    <3>1. Sound(s, m, lo, end) /\ SplitDone(h1, b, n, s)
      BY <1>3, <1>4, <1>5, <1>7, <2>1, SplitKeeps
    <3>2. Calm(s)
      BY <1>1, <1>4, <1>5, <1>6, <3>1, SplitIsCalm
    <3>3. PICK z : z = b + GrossSize(n)
      OBVIOUS
    <3>4. /\ Addresses(s) = Addresses(h1) \cup {z} /\ EndAt(s, b) = z
          /\ s.hdr[b].used /\ ~s.hdr[z].used
          /\ \A x \in Addresses(h1) : x # b => /\ s.hdr[x].used = h1.hdr[x].used
                                               /\ EndAt(s, x) = EndAt(h1, x)
      BY <3>1, <3>3 DEF SplitDone, Parted
    <3>5. Loose(s, b)
      BY <1>5, <3>1, <3>4, UsedAreLoose DEF Sound
    <3>6. UsedOf(s) \cup {b} = UsedOf(h1) \cup {b}
      BY <1>5, <3>4 DEF UsedOf
    <3>7. \A x \in UsedOf(h) : x \in Addresses(s) /\ EndAt(s, x) = EndAt(h, x)
      BY <1>4, <1>5, <3>4 DEF UsedOf
    <3>8. b + 16 + n <= EndAt(s, b)
      BY <1>9, <3>3, <3>4
    <3>9. QED
      BY <1>4, <1>5, <3>1, <3>2, <3>4, <3>5, <3>6, <3>7, <3>8
  <2>2. CASE ~WorthSplitting(h1, b, n)
    <3>1. s = h1
      BY <1>7, <2>2 DEF SplitBlock
    <3>2. b + 16 + n <= EndAt(s, b)
      BY <1>4, <1>9, <3>1
    <3>3. QED
      BY <1>3, <1>4, <1>5, <3>1, <3>2 DEF UsedOf
  <2>3. QED
    BY <2>1, <2>2
<1>11. /\ Sound(k, m, lo, end) /\ Calm(k) /\ UsedOf(k) = UsedOf(s) \cup {b}
       /\ \A x \in Addresses(s) : EndAt(k, x) = EndAt(s, x)
  BY <1>1, <1>8, <1>10, MarkUsedKeeps
<1>12. b \notin UsedOf(h)
  BY DEF UsedOf
<1>13. Taken(h, b, n, k)
  BY <1>10, <1>11, <1>12 DEF Taken
<1>14. QED
  BY <1>11, <1>13

-----------------------------------------------------------------------------
(* realloc in place                                                        *)

\* get_forward_available_size: at most the block behind is free.
LEMMA BehindIsOne ==
  ASSUME NEW h, NEW m, NEW lo, end \in Nat, Sound(h, m, lo, end), Calm(h),
         NEW b \in Addresses(h)
  PROVE  FreeBehind(h, b) = IF FreeBlock(h, EndAt(h, b)) THEN h.hdr[EndAt(h, b)].size
                            ELSE 0
<1> DEFINE D == Addresses(h)
           IsSum(f) == f = [c \in D |-> IF FreeAt(h, NextPhysical(h, c))
                                        THEN h.hdr[NextPhysical(h, c)].size
                                             + f[NextPhysical(h, c)]
                                        ELSE 0]
           sum == CHOOSE f : IsSum(f)
           w == [c \in D |-> IF FreeAt(h, NextPhysical(h, c))
                             THEN h.hdr[NextPhysical(h, c)].size ELSE 0]
<1>1. Typed(h, m) /\ Tiles(h, lo, end)
  BY DEF Sound
<1>2. \A c \in D : FreeAt(h, NextPhysical(h, c)) =>
        /\ NextPhysical(h, c) = EndAt(h, c) /\ FreeBlock(h, EndAt(h, c))
        /\ h.hdr[EndAt(h, c)].size \in Nat
  BY <1>1, NextIsBehind, LinkTypes DEF FreeBlock
<1>3. \A c \in D : FreeBlock(h, EndAt(h, c)) => FreeAt(h, NextPhysical(h, c))
  BY <1>1, NextIsBehind DEF FreeBlock
<1>4. ASSUME NEW c \in D, FreeAt(h, NextPhysical(h, c))
      PROVE  ~FreeAt(h, NextPhysical(h, EndAt(h, c)))
  <2>1. SUFFICES ASSUME FreeAt(h, NextPhysical(h, EndAt(h, c))) PROVE FALSE
    OBVIOUS
  <2>2. PICK n \in D : n = EndAt(h, c) /\ ~h.hdr[n].used
    BY <1>2, <1>4 DEF FreeBlock
  <2>3. EndAt(h, n) \in D /\ ~h.hdr[EndAt(h, n)].used
    BY <1>2, <2>1, <2>2 DEF FreeBlock
  <2>4. QED
    BY <2>2, <2>3 DEF Calm
<1>5. FreeBehind(h, b) = sum[b]
  BY DEF FreeBehind, Addresses
<1> HIDE DEF D
<1>6. \A c \in D : FreeAt(h, NextPhysical(h, c)) =>
        /\ NextPhysical(h, c) \in D
        /\ w[NextPhysical(h, c)] = 0
        /\ h.hdr[NextPhysical(h, c)].size \in Nat
  BY <1>2, <1>4 DEF FreeBlock, D
<1>7. IsSum(w)
  <2>1. \A c \in D :
          (IF FreeAt(h, NextPhysical(h, c)) THEN h.hdr[NextPhysical(h, c)].size ELSE 0)
          = IF FreeAt(h, NextPhysical(h, c))
            THEN h.hdr[NextPhysical(h, c)].size + w[NextPhysical(h, c)] ELSE 0
    BY <1>6
  <2>2. QED
    BY <2>1
<1>8. IsSum(sum)
  BY <1>7
<1> HIDE DEF sum
<1>9. \A c \in D : sum[c] = IF FreeAt(h, NextPhysical(h, c))
                            THEN h.hdr[NextPhysical(h, c)].size + sum[NextPhysical(h, c)]
                            ELSE 0
  BY <1>8
<1>10. b \in D
  BY DEF D
<1>11. CASE FreeBlock(h, EndAt(h, b))
  <2>1. FreeAt(h, NextPhysical(h, b)) /\ NextPhysical(h, b) = EndAt(h, b)
        /\ EndAt(h, b) \in D /\ h.hdr[EndAt(h, b)].size \in Nat
    BY <1>2, <1>3, <1>10, <1>11 DEF FreeBlock, D
  <2>2. sum[EndAt(h, b)] = 0
    BY <1>4, <1>9, <1>10, <2>1
  <2>3. sum[b] = h.hdr[EndAt(h, b)].size + 0
    BY <1>9, <1>10, <2>1, <2>2
  <2>4. QED
    BY <1>5, <1>11, <2>1, <2>3
<1>12. CASE ~FreeBlock(h, EndAt(h, b))
  <2>1. ~FreeAt(h, NextPhysical(h, b))
    BY <1>2, <1>10, <1>12
  <2>2. QED
    BY <1>5, <1>9, <1>10, <1>12, <2>1
<1>13. QED
  BY <1>11, <1>12

\* get_backward_available_size: at most the block before is free.
LEMMA BeforeIsOne ==
  ASSUME NEW h, NEW m, NEW lo, NEW hi \in Nat, Sound(h, m, lo, hi), Calm(h),
         NEW b \in Addresses(h)
  PROVE  FreeBefore(h, b) = IF FreeBlock(h, PrevOf(h, b)) THEN h.hdr[PrevOf(h, b)].size
                            ELSE 0
<1> DEFINE D == Addresses(h)
           IsSum(f) == f = [c \in D |-> IF FreeAt(h, PrevPhysical(h, c))
                                        THEN h.hdr[PrevPhysical(h, c)].size
                                             + f[PrevPhysical(h, c)]
                                        ELSE 0]
           sum == CHOOSE f : IsSum(f)
           w == [c \in D |-> IF FreeAt(h, PrevPhysical(h, c))
                             THEN h.hdr[PrevPhysical(h, c)].size ELSE 0]
<1>1. Typed(h, m) /\ Tiles(h, lo, hi)
  BY DEF Sound
<1>2. \A c \in D : PrevPhysical(h, c) = PrevOf(h, c) /\ PrevOf(h, c) \in D \cup {Nil}
                   /\ Nil \notin D
  BY <1>1, LinkTypes, NilIsNoAddress DEF PrevPhysical, PrevOf
<1>3. \A c \in D : FreeAt(h, PrevPhysical(h, c)) <=> FreeBlock(h, PrevOf(h, c))
  BY <1>2 DEF FreeAt, FreeBlock
<1>4. \A c \in D : h.hdr[c].size \in Nat
  BY <1>1, LinkTypes
<1>5. ASSUME NEW c \in D, FreeAt(h, PrevPhysical(h, c))
      PROVE  ~FreeAt(h, PrevPhysical(h, PrevOf(h, c)))
  <2>1. SUFFICES ASSUME FreeAt(h, PrevPhysical(h, PrevOf(h, c))) PROVE FALSE
    OBVIOUS
  <2>2. PICK n \in D : n = PrevOf(h, c) /\ ~h.hdr[n].used
    BY <1>3, <1>5 DEF FreeBlock
  <2>3. PICK q \in D : q = PrevOf(h, n) /\ ~h.hdr[q].used
    BY <1>3, <2>1, <2>2 DEF FreeBlock
  <2>4. EndAt(h, q) = n
    BY <1>1, <1>2, <2>2, <2>3, PrevIsBefore
  <2>5. QED
    BY <2>2, <2>3, <2>4 DEF Calm
<1>6. FreeBefore(h, b) = sum[b]
  BY DEF FreeBefore, Addresses
<1> HIDE DEF D
<1>7. \A c \in D : FreeAt(h, PrevPhysical(h, c)) =>
        /\ PrevPhysical(h, c) \in D
        /\ w[PrevPhysical(h, c)] = 0
        /\ h.hdr[PrevPhysical(h, c)].size \in Nat
  BY <1>2, <1>3, <1>4, <1>5 DEF FreeBlock, D
<1>8. IsSum(w)
  <2>1. \A c \in D :
          (IF FreeAt(h, PrevPhysical(h, c)) THEN h.hdr[PrevPhysical(h, c)].size ELSE 0)
          = IF FreeAt(h, PrevPhysical(h, c))
            THEN h.hdr[PrevPhysical(h, c)].size + w[PrevPhysical(h, c)] ELSE 0
    BY <1>7
  <2>2. QED
    BY <2>1
<1>9. IsSum(sum)
  BY <1>8
<1> HIDE DEF sum
<1>10. \A c \in D : sum[c] = IF FreeAt(h, PrevPhysical(h, c))
                             THEN h.hdr[PrevPhysical(h, c)].size + sum[PrevPhysical(h, c)]
                             ELSE 0
  BY <1>9
<1>11. b \in D
  BY DEF D
<1>12. CASE FreeBlock(h, PrevOf(h, b))
  <2>1. FreeAt(h, PrevPhysical(h, b)) /\ PrevPhysical(h, b) = PrevOf(h, b)
        /\ PrevOf(h, b) \in D /\ h.hdr[PrevOf(h, b)].size \in Nat
    BY <1>2, <1>3, <1>4, <1>11, <1>12 DEF FreeBlock, D
  <2>2. sum[PrevOf(h, b)] = 0
    BY <1>5, <1>10, <1>11, <2>1
  <2>3. sum[b] = h.hdr[PrevOf(h, b)].size + 0
    BY <1>10, <1>11, <2>1, <2>2
  <2>4. QED
    BY <1>6, <1>12, <2>1, <2>3
<1>13. CASE ~FreeBlock(h, PrevOf(h, b))
  <2>1. ~FreeAt(h, PrevPhysical(h, b))
    BY <1>3, <1>11, <1>13
  <2>2. QED
    BY <1>6, <1>10, <1>11, <1>13, <2>1
<1>14. QED
  BY <1>12, <1>13

\* What merge joins is what was counted.
LEMMA MergedSize ==
  ASSUME NEW h, NEW m, NEW lo, end \in Nat, Sound(h, m, lo, end), Calm(h),
         NEW b \in Addresses(h), NEW g, NEW k, Merged(h, b, g, k)
  PROVE  EndAt(k, g) = g + InPlaceAvailable(h, b)
<1>1. Typed(h, m) /\ Tiles(h, lo, end)
  BY DEF Sound
<1>2. /\ b \in Nat /\ h.hdr[b].size \in Nat /\ EndAt(h, b) = b + h.hdr[b].size
  BY <1>1, Spacing
<1>3. PICK f \in Nat : f = FreeBehind(h, b) /\ EndAt(k, g) = EndAt(h, b) + f
  <2>1. CASE FreeBlock(h, EndAt(h, b))
    <3>1. PICK n \in Addresses(h) : n = EndAt(h, b)
      BY <2>1 DEF FreeBlock
    <3>2. h.hdr[n].size \in Nat /\ EndAt(h, n) = n + h.hdr[n].size
      BY <1>1, Spacing
    <3>3. EndAt(k, g) = EndAt(h, n)
      BY <2>1, <3>1 DEF Merged
    <3>4. FreeBehind(h, b) = h.hdr[n].size
      BY <2>1, <3>1, BehindIsOne
    <3>5. QED
      BY <3>1, <3>2, <3>3, <3>4
  <2>2. CASE ~FreeBlock(h, EndAt(h, b))
    <3>1. FreeBehind(h, b) = 0
      BY <2>2, BehindIsOne
    <3>2. EndAt(k, g) = EndAt(h, b)
      BY <2>2 DEF Merged
    <3>3. QED
      BY <1>2, <3>1, <3>2
  <2>3. QED
    BY <2>1, <2>2
<1>4. PICK e \in Nat : e = FreeBefore(h, b) /\ g + e = b /\ g \in Nat
  <2>1. CASE FreeBlock(h, PrevOf(h, b))
    <3>1. PICK p \in Addresses(h) : p = PrevOf(h, b) /\ p # Nil
      BY <1>1, <2>1, NilIsNoAddress DEF FreeBlock
    <3>2. h.hdr[p].size \in Nat /\ EndAt(h, p) = p + h.hdr[p].size /\ EndAt(h, p) = b
          /\ p \in Nat
      BY <1>1, <3>1, Spacing, PrevIsBefore
    <3>3. FreeBefore(h, b) = h.hdr[p].size
      BY <2>1, <3>1, BeforeIsOne
    <3>4. g = p
      BY <2>1, <3>1 DEF Merged
    <3>5. QED
      BY <3>2, <3>3, <3>4
  <2>2. CASE ~FreeBlock(h, PrevOf(h, b))
    <3>1. FreeBefore(h, b) = 0
      BY <2>2, BeforeIsOne
    <3>2. g = b
      BY <2>2 DEF Merged
    <3>3. QED
      BY <1>2, <3>1, <3>2
  <2>3. QED
    BY <2>1, <2>2
<1>5. InPlaceAvailable(h, b) = h.hdr[b].size + f + e
  BY <1>3, <1>4 DEF InPlaceAvailable
<1>6. QED
  BY <1>2, <1>3, <1>4, <1>5

LEMMA MarkFreeKeeps ==
  ASSUME NEW h, NEW m, NEW lo, NEW hi \in Nat, Sound(h, m, lo, hi),
         NEW b \in Addresses(h), Loose(h, b),
         CalmBut(h, b), EndOfRun(h, b), StartOfRun(h, b), NEW k, k = MarkFree(h, b)
  PROVE  /\ Sound(k, m, lo, hi) /\ Calm(k) /\ Loose(k, b) /\ EndOfRun(k, b)
         /\ Addresses(k) = Addresses(h) /\ UsedOf(k) = UsedOf(h) \ {b}
         /\ \A x \in Addresses(h) : EndAt(k, x) = EndAt(h, x)
<1>1. Typed(h, m) /\ Linked(h) /\ Tiles(h, lo, hi)
  BY DEF Sound
<1>2. Typed(k, m) /\ Differ(h, k, b) /\ k.hdr[b].size = h.hdr[b].size /\ ~k.hdr[b].used
  <2>1. PICK v \in BOOLEAN : v = FALSE
    OBVIOUS
  <2>2. k = [h EXCEPT !.hdr[b].used = v]
    BY <2>1 DEF MarkFree
  <2>3. Typed(k, m) /\ Marked(h, k, b, v)
    BY <1>1, <2>2, MarkFields
  <2>4. QED
    BY <2>1, <2>3 DEF Marked
<1>3. Linked(k) /\ Loose(k, b)
  BY <1>1, <1>2, LooseMayDiffer
<1>4. SamePlaces(h, k)
  BY <1>2 DEF Differ, SamePlaces
<1>5. Tiles(k, lo, hi) /\ \A x \in Addresses(h) : EndAt(k, x) = EndAt(h, x)
  BY <1>1, <1>4, SamePlacesTile
<1>6. /\ Addresses(k) = Addresses(h) /\ ~k.hdr[b].used
      /\ \A x \in Addresses(h) : /\ x # b => k.hdr[x].used = h.hdr[x].used
                                 /\ PrevOf(k, x) = PrevOf(h, x)
  BY <1>2 DEF Differ, PrevOf
<1>7. Sound(k, m, lo, hi)
  BY <1>2, <1>3, <1>5 DEF Sound
<1>8. CalmBut(k, b)
  BY <1>5, <1>6 DEF CalmBut
<1>9. b \in Nat /\ EndAt(h, b) \in Nat /\ EndAt(h, b) # b
  BY <1>1, Spacing
<1>10. EndOfRun(k, b)
  BY <1>5, <1>6, <1>9 DEF EndOfRun
<1>11. StartOfRun(k, b)
  <2>1. PrevOf(h, b) # Nil => PrevOf(h, b) \in Addresses(h) /\ PrevOf(h, b) # b
    BY <1>1, PrevIsBefore
  <2>2. QED
    BY <1>6, <2>1 DEF StartOfRun
<1>12. Calm(k)
  BY <1>6, <1>7, <1>8, <1>10, <1>11, CalmAround
<1>13. UsedOf(k) = UsedOf(h) \ {b}
  BY <1>6 DEF UsedOf
<1>14. QED
  BY <1>3, <1>5, <1>6, <1>7, <1>10, <1>12, <1>13

\* After realloc has let block b grow in place: it begins at g now.
Grown(h, b, g, n, k) ==
  /\ g \in Addresses(k) /\ g + 16 + n <= EndAt(k, g)
  /\ g \notin UsedOf(h) \ {b}
  /\ UsedOf(k) \ {g} = UsedOf(h) \ {b}
  /\ \A x \in UsedOf(h) \ {b} : EndAt(k, x) = EndAt(h, x)

InPlace(h, b, n) ==
  LET m == Merge(h, b)
      g == m[2]
  IN  SplitBlock(IF g = b THEN MarkFree(m[1], b) ELSE m[1], g, n)

LEMMA InPlaceKeeps ==
  ASSUME NEW h, NEW m, NEW lo, Extent(m, lo, end), Sound(h, m, lo, end), Calm(h),
         NEW b \in Addresses(h), h.hdr[b].used, NEW n \in Nat,
         FitsInPlace(h, b, n), NEW k, k = InPlace(h, b, n)
  PROVE  Sound(k, m, lo, end) /\ Calm(k) /\ Grown(h, b, Merge(h, b)[2], n, k)
<1>1. Typed(h, m) /\ Linked(h) /\ Tiles(h, lo, end) /\ end \in Nat
  BY DEF Sound, Extent
<1>2. PICK r : r = Merge(h, b)
  OBVIOUS
<1>3. PICK j : j = r[1]
  OBVIOUS
<1>4. PICK g : g = r[2]
  OBVIOUS
<1>5. Sound(j, m, lo, end) /\ Merged(h, b, g, j)
  <2>1. Loose(h, b) /\ CalmBut(h, b)
    BY <1>1, UsedAreLoose DEF Calm, CalmBut
  <2>2. QED
    BY <1>1, <1>2, <1>3, <1>4, <2>1, MergeOnce
<1>6. /\ g = IF FreeBlock(h, PrevOf(h, b)) THEN PrevOf(h, b) ELSE b
      /\ Addresses(j) \subseteq Addresses(h) /\ g \in Addresses(j)
      /\ \A x \in Addresses(h) : h.hdr[x].used /\ x # b => x \in Addresses(j)
      /\ g # b => b \notin Addresses(j)
      /\ \A x \in Addresses(j) : /\ j.hdr[x].used = h.hdr[x].used
                                 /\ x # g => EndAt(j, x) = EndAt(h, x)
      /\ Loose(j, g) /\ CalmBut(j, g) /\ EndOfRun(j, g) /\ StartOfRun(j, g)
  BY <1>5 DEF Merged
<1>7. EndAt(j, g) = g + InPlaceAvailable(h, b)
  BY <1>1, <1>5, MergedSize
<1>8. g # b => ~h.hdr[g].used
  BY <1>6 DEF FreeBlock
<1>9. PICK u : u = IF g = b THEN MarkFree(j, b) ELSE j
  OBVIOUS
<1>10. /\ Sound(u, m, lo, end) /\ Calm(u) /\ Loose(u, g) /\ EndOfRun(u, g)
       /\ Addresses(u) = Addresses(j) /\ UsedOf(u) = UsedOf(j) \ {b}
       /\ \A x \in Addresses(j) : EndAt(u, x) = EndAt(j, x)
  <2>1. CASE g = b
    BY <1>1, <1>5, <1>6, <1>9, <2>1, MarkFreeKeeps
  <2>2. CASE g # b
    <3>1. u = j /\ b \notin UsedOf(j)
      BY <1>6, <1>9, <2>2 DEF UsedOf
    <3>2. Calm(j)
      BY <1>1, <1>5, <1>6, CalmAround
    <3>3. QED
      BY <1>5, <1>6, <3>1, <3>2
  <2>3. QED
    BY <2>1, <2>2
<1>11. UsedOf(u) = UsedOf(h) \ {b} /\ g \notin UsedOf(h) \ {b}
  BY <1>6, <1>8, <1>10 DEF UsedOf
<1>12. \A x \in UsedOf(h) \ {b} : x \in Addresses(u) /\ x # g /\ EndAt(u, x) = EndAt(h, x)
  BY <1>6, <1>10, <1>11 DEF UsedOf
<1>13. g + 16 + n <= EndAt(u, g)
  <2>1. EndAt(u, g) = g + InPlaceAvailable(h, b) /\ InPlaceAvailable(h, b) >= GrossSize(n)
    BY <1>6, <1>7, <1>10 DEF FitsInPlace
  <2>2. EndAt(u, g) \in Nat /\ g \in Nat
    BY <1>1, <1>6, <1>10, Spacing DEF Sound
  <2>3. PICK a : a = InPlaceAvailable(h, b)
    OBVIOUS
  <2>4. u.hdr[g].size \in Nat /\ EndAt(u, g) = g + u.hdr[g].size
    BY <1>1, <1>6, <1>10, Spacing DEF Sound
  <2>5. h.hdr[b].size \in Nat /\ FreeBehind(h, b) \in Nat /\ FreeBefore(h, b) \in Nat
    <3>1. FreeBehind(h, b) \in Nat
      BY <1>1, BehindIsOne, LinkTypes DEF FreeBlock
    <3>2. FreeBefore(h, b) \in Nat
      BY <1>1, BeforeIsOne, LinkTypes DEF FreeBlock
    <3>3. QED
      BY <1>1, <3>1, <3>2, LinkTypes
  <2>6. InPlaceAvailable(h, b) \in Nat
    BY <2>5 DEF InPlaceAvailable
  <2>7. GrossSize(n) \in Nat /\ GrossSize(n) >= n + 16
    BY Gross
  <2>8. QED
    BY <2>1, <2>2, <2>6, <2>7
<1>14. k = SplitBlock(u, g, n)
  BY <1>2, <1>3, <1>4, <1>9 DEF InPlace
<1>15. g \in Addresses(u) /\ g \notin UsedOf(u)
  BY <1>6, <1>10, <1>11
<1>16. CASE WorthSplitting(u, g, n)
  <2>1. Sound(k, m, lo, end) /\ SplitDone(u, g, n, k)
    BY <1>10, <1>14, <1>15, <1>16, SplitKeeps
  <2>2. CalmBut(u, g)
    BY <1>10 DEF Calm, CalmBut
  <2>3. Calm(k)
    BY <1>1, <1>10, <1>15, <2>1, <2>2, SplitIsCalm
  <2>4. PICK z : z = g + GrossSize(n)
    OBVIOUS
  <2>5. /\ z \notin Addresses(u) /\ Addresses(k) = Addresses(u) \cup {z} /\ EndAt(k, g) = z
        /\ k.hdr[g].used /\ ~k.hdr[z].used
        /\ \A x \in Addresses(u) : x # g => /\ k.hdr[x].used = u.hdr[x].used
                                            /\ EndAt(k, x) = EndAt(u, x)
    BY <2>1, <2>4 DEF SplitDone, Parted
  <2>6. g + 16 + n <= EndAt(k, g)
    <3>1. g \in Nat /\ GrossSize(n) \in Nat /\ GrossSize(n) >= n + 16
      BY <1>1, <1>10, <1>15, Spacing, Gross DEF Sound
    <3>2. QED
      BY <2>4, <2>5, <3>1
  <2>7. UsedOf(k) \ {g} = UsedOf(u)
    BY <1>15, <2>5 DEF UsedOf
  <2>8. Grown(h, b, g, n, k)
    BY <1>11, <1>12, <1>15, <2>5, <2>6, <2>7 DEF Grown
  <2>9. QED
    BY <1>2, <1>4, <2>1, <2>3, <2>8
<1>17. CASE ~WorthSplitting(u, g, n)
  <2>1. k = u
    BY <1>14, <1>17 DEF SplitBlock
  <2>2. Grown(h, b, g, n, k)
    BY <1>11, <1>12, <1>13, <1>15, <2>1 DEF Grown
  <2>3. QED
    BY <1>2, <1>4, <1>10, <2>1, <2>2
<1>18. QED
  BY <1>16, <1>17

-----------------------------------------------------------------------------
(* The clients                                                             *)

\* What the clients hold, f, are the blocks in use of h, each with its room.
Client(h, f) ==
  /\ UsedOf(h) = {p - 16 : p \in DOMAIN f}
  /\ \A p \in DOMAIN f : p + f[p] <= EndAt(h, p - 16)

Pieces(f) == DOMAIN f \subseteq Nat /\ f \in [DOMAIN f -> Nat]

PieceAdded(f, p, n, g) ==
  /\ DOMAIN g = DOMAIN f \cup {p} /\ g[p] = n
  /\ \A q \in DOMAIN f : q # p => g[q] = f[q]

PieceDropped(f, p, g) ==
  DOMAIN g = DOMAIN f \ {p} /\ \A q \in DOMAIN f : q # p => g[q] = f[q]

LEMMA WithPiece ==
  ASSUME NEW f, Pieces(f), NEW p \in Nat, NEW n \in Nat, NEW g, g = Abstract!With(f, p, n)
  PROVE  Pieces(g) /\ PieceAdded(f, p, n, g)
BY DEF Pieces, PieceAdded, Abstract!With

LEMMA WithoutPiece ==
  ASSUME NEW f, Pieces(f), NEW p, NEW g, g = Abstract!Without(f, p)
  PROVE  Pieces(g) /\ PieceDropped(f, p, g)
BY DEF Pieces, PieceDropped, Abstract!Without

LEMMA ClientTakes ==
  ASSUME NEW h, NEW k, NEW f, Pieces(f), Client(h, f),
         NEW b \in Nat, NEW n \in Nat, Taken(h, b, n, k),
         NEW g, g = Abstract!With(f, b + 16, n)
  PROVE  Pieces(g) /\ Client(k, g) /\ b + 16 \notin DOMAIN f
<1>1. /\ Pieces(g) /\ DOMAIN g = DOMAIN f \cup {b + 16} /\ g[b + 16] = n
      /\ \A q \in DOMAIN f : q # b + 16 => g[q] = f[q]
  <2>1. Pieces(g) /\ PieceAdded(f, b + 16, n, g)
    BY b + 16 \in Nat, WithPiece
  <2>2. QED
    BY <2>1 DEF PieceAdded
<1>2. DOMAIN f \subseteq Nat
  BY DEF Pieces
<1>3. b + 16 \notin DOMAIN f
  <2>1. SUFFICES ASSUME b + 16 \in DOMAIN f PROVE FALSE
    OBVIOUS
  <2>2. b + 16 - 16 \in UsedOf(h)
    BY <2>1 DEF Client
  <2>3. b + 16 - 16 = b
    OBVIOUS
  <2>4. QED
    BY <2>2, <2>3 DEF Taken
<1>4. \A q \in DOMAIN f : q - 16 \in UsedOf(h) /\ q + f[q] <= EndAt(h, q - 16)
  BY DEF Client
<1>5. \A x \in UsedOf(h) : EndAt(k, x) = EndAt(h, x)
  BY DEF Taken
<1>6. UsedOf(k) = {q - 16 : q \in DOMAIN g}
  <2>1. UsedOf(k) = UsedOf(h) \cup {b}
    BY DEF Taken
  <2>2. UsedOf(h) = {q - 16 : q \in DOMAIN f}
    BY DEF Client
  <2>3. b + 16 - 16 = b
    OBVIOUS
  <2>4. {q - 16 : q \in DOMAIN g} = {q - 16 : q \in DOMAIN f} \cup {b}
    BY <1>1, <2>3
  <2>5. QED
    BY <2>1, <2>2, <2>4
<1>7. ASSUME NEW q \in DOMAIN g PROVE q + g[q] <= EndAt(k, q - 16)
  <2>1. CASE q = b + 16
    <3>1. q - 16 = b /\ g[q] = n /\ b + 16 + n <= EndAt(k, b)
      BY <1>1, <2>1 DEF Taken
    <3>2. QED
      BY <2>1, <3>1
  <2>2. CASE q # b + 16
    BY <1>1, <1>4, <1>5, <2>2
  <2>3. QED
    BY <2>1, <2>2
<1>8. QED
  BY <1>1, <1>3, <1>6, <1>7 DEF Client

LEMMA ClientGives ==
  ASSUME NEW h, NEW k, NEW f, Pieces(f), Client(h, f),
         NEW p \in DOMAIN f, GivenBack(h, p - 16, k),
         NEW g, g = Abstract!Without(f, p)
  PROVE  Pieces(g) /\ Client(k, g)
<1>1. /\ Pieces(g) /\ DOMAIN g = DOMAIN f \ {p}
      /\ \A q \in DOMAIN f : q # p => g[q] = f[q]
  <2>1. Pieces(g) /\ PieceDropped(f, p, g)
    BY WithoutPiece
  <2>2. QED
    BY <2>1 DEF PieceDropped
<1>2. \A q \in DOMAIN f : q \in Nat
  BY DEF Pieces
<1>3. UsedOf(k) = UsedOf(h) \ {p - 16} /\ UsedOf(h) = {q - 16 : q \in DOMAIN f}
  BY DEF Client, GivenBack
<1>4. \A q \in DOMAIN f : q # p => q - 16 # p - 16
  BY <1>2
<1>5. UsedOf(k) = {q - 16 : q \in DOMAIN g}
  BY <1>1, <1>3, <1>4
<1>6. ASSUME NEW q \in DOMAIN g PROVE q + g[q] <= EndAt(k, q - 16)
  <2>1. q - 16 \in UsedOf(k)
    BY <1>5
  <2>2. EndAt(k, q - 16) = EndAt(h, q - 16)
    BY <2>1 DEF GivenBack
  <2>3. QED
    BY <1>1, <2>2 DEF Client
<1>7. QED
  BY <1>1, <1>5, <1>6 DEF Client

LEMMA ClientGrows ==
  ASSUME NEW h, NEW k, NEW f, Pieces(f), Client(h, f), NEW p \in DOMAIN f,
         NEW b \in Nat, NEW n \in Nat, Grown(h, p - 16, b, n, k), b \in UsedOf(k),
         NEW g, g = Abstract!With(Abstract!Without(f, p), b + 16, n)
  PROVE  Pieces(g) /\ Client(k, g)
<1>1. PICK e : e = Abstract!Without(f, p)
  OBVIOUS
<1>2. /\ Pieces(e) /\ DOMAIN e = DOMAIN f \ {p}
      /\ \A q \in DOMAIN f : q # p => e[q] = f[q]
  <2>1. Pieces(e) /\ PieceDropped(f, p, e)
    BY <1>1, WithoutPiece
  <2>2. QED
    BY <2>1 DEF PieceDropped
<1>3. /\ Pieces(g) /\ DOMAIN g = DOMAIN e \cup {b + 16} /\ g[b + 16] = n
      /\ \A q \in DOMAIN e : q # b + 16 => g[q] = e[q]
  <2>1. Pieces(g) /\ PieceAdded(e, b + 16, n, g)
    BY <1>1, <1>2, b + 16 \in Nat, WithPiece
  <2>2. QED
    BY <2>1 DEF PieceAdded
<1>4. \A q \in DOMAIN f : q \in Nat
  BY DEF Pieces
<1>5. /\ UsedOf(k) \ {b} = UsedOf(h) \ {p - 16} /\ b \notin UsedOf(h) \ {p - 16}
      /\ \A x \in UsedOf(h) \ {p - 16} : EndAt(k, x) = EndAt(h, x)
      /\ b + 16 + n <= EndAt(k, b)
  BY DEF Grown
<1>6. UsedOf(h) = {q - 16 : q \in DOMAIN f}
  BY DEF Client
<1>7. \A q \in DOMAIN f : q # p => q - 16 # p - 16
  BY <1>4
<1>8. UsedOf(h) \ {p - 16} = {q - 16 : q \in DOMAIN e}
  BY <1>2, <1>6, <1>7
<1>9. b + 16 - 16 = b
  OBVIOUS
<1>10. {q - 16 : q \in DOMAIN g} = {q - 16 : q \in DOMAIN e} \cup {b}
  BY <1>3, <1>9
<1>11. UsedOf(k) = {q - 16 : q \in DOMAIN g}
  BY <1>5, <1>8, <1>10
<1>12. ASSUME NEW q \in DOMAIN g PROVE q + g[q] <= EndAt(k, q - 16)
  <2>1. CASE q = b + 16
    BY <1>3, <1>5, <1>9, <2>1
  <2>2. CASE q # b + 16
    <3>1. q \in DOMAIN e /\ q \in DOMAIN f /\ q # p /\ g[q] = f[q]
      BY <1>2, <1>3, <2>2
    <3>2. q - 16 \in UsedOf(h) \ {p - 16}
      BY <1>8, <3>1
    <3>3. EndAt(k, q - 16) = EndAt(h, q - 16)
      BY <1>5, <3>2
    <3>4. q + f[q] <= EndAt(h, q - 16)
      BY <3>1 DEF Client
    <3>5. QED
      BY <3>1, <3>3, <3>4
  <2>3. QED
    BY <2>1, <2>2
<1>13. QED
  BY <1>3, <1>11, <1>12 DEF Client

\* A heap without a block in use is one block.
LEMMA OneBlock ==
  ASSUME NEW h, NEW m, NEW lo, NEW hi \in Nat, Sound(h, m, lo, hi), Calm(h),
         UsedOf(h) = {}
  PROVE  Addresses(h) = {lo}
<1>1. Typed(h, m) /\ Tiles(h, lo, hi)
  BY DEF Sound
<1>2. lo \in Addresses(h) /\ \A x \in Addresses(h) : ~h.hdr[x].used
  BY <1>1 DEF Tiles, UsedOf
<1>3. EndAt(h, lo) = hi
  BY <1>1, <1>2 DEF Calm, Tiles
<1>4. ASSUME NEW x \in Addresses(h), x # lo PROVE FALSE
  <2>1. x \in Nat /\ lo \in Nat /\ lo <= x /\ x + 16 < hi
    BY <1>1, Spacing DEF Tiles, Header
  <2>2. EndAt(h, lo) <= x
    BY <1>1, <1>2, <1>4, <2>1 DEF Tiles
  <2>3. QED
    BY <1>3, <2>1, <2>2
<1>5. QED
  BY <1>2, <1>4

\* A block that has been taken is a piece of memory of its own.
LEMMA TakenFits ==
  ASSUME NEW h, NEW k, NEW m, NEW lo, NEW hi \in Nat, hi <= HeapEnd,
         Sound(k, m, lo, hi), NEW f, Pieces(f), Client(h, f),
         NEW b \in Nat, NEW n \in Nat, Taken(h, b, n, k)
  PROVE  Abstract!Fits(f, b + 16, n)
<1>1. Typed(k, m) /\ Tiles(k, lo, hi)
  BY DEF Sound
<1>2. /\ UsedOf(k) = UsedOf(h) \cup {b} /\ b \notin UsedOf(h)
      /\ \A x \in UsedOf(h) : EndAt(k, x) = EndAt(h, x)
      /\ b + 16 + n <= EndAt(k, b)
  BY DEF Taken
<1>3. b \in Addresses(k) /\ \A x \in UsedOf(h) : x \in Addresses(k)
  BY <1>2 DEF UsedOf
<1>4. EndAt(k, b) \in Nat /\ EndAt(k, b) <= hi
  BY <1>1, <1>3, Spacing
<1>5. \A q \in DOMAIN f : /\ q \in Nat /\ f[q] \in Nat /\ q - 16 \in UsedOf(h)
                          /\ q + f[q] <= EndAt(h, q - 16)
  BY DEF Pieces, Client
<1>6. b + 16 \notin DOMAIN f
  <2>1. b + 16 - 16 = b
    OBVIOUS
  <2>2. QED
    BY <1>2, <1>5, <2>1
<1>7. ASSUME NEW q \in DOMAIN f
      PROVE  b + 16 + n <= q \/ q + f[q] <= b + 16
  <2>1. PICK x \in UsedOf(h) : x = q - 16
    BY <1>5
  <2>2. x \in Addresses(k) /\ x # b /\ EndAt(k, x) = EndAt(h, x)
    BY <1>2, <1>3
  <2>3. x \in Nat /\ EndAt(k, x) \in Nat
    BY <1>1, <2>2, Spacing
  <2>4. EndAt(k, b) <= x \/ EndAt(k, x) <= b
    BY <1>1, <1>3, <2>2, Apart
  <2>5. q \in Nat /\ f[q] \in Nat /\ q + f[q] <= EndAt(k, x) /\ x = q - 16
    BY <1>5, <2>1, <2>2
  <2>6. QED
    BY <1>2, <1>4, <2>3, <2>4, <2>5
<1>8. 0 <= b + 16 /\ b + 16 + n <= HeapEnd
  BY <1>2, <1>4, HeapEndAssumption
<1>9. QED
  BY <1>6, <1>7, <1>8 DEF Abstract!Fits

\* So is a block that has grown in place.
LEMMA GrownFits ==
  ASSUME NEW h, NEW k, NEW m, NEW lo, NEW hi \in Nat, hi <= HeapEnd,
         Sound(k, m, lo, hi), NEW f, Pieces(f), Client(h, f), NEW p \in DOMAIN f,
         NEW b \in Nat, NEW n \in Nat, Grown(h, p - 16, b, n, k)
  PROVE  Abstract!Fits(Abstract!Without(f, p), b + 16, n)
<1>1. Typed(k, m) /\ Tiles(k, lo, hi)
  BY DEF Sound
<1>2. PICK e : e = Abstract!Without(f, p)
  OBVIOUS
<1>3. /\ DOMAIN e = DOMAIN f \ {p} /\ Pieces(e)
      /\ \A q \in DOMAIN f : q # p => e[q] = f[q]
  <2>1. Pieces(e) /\ PieceDropped(f, p, e)
    BY <1>2, WithoutPiece
  <2>2. QED
    BY <2>1 DEF PieceDropped
<1>4. /\ UsedOf(k) \ {b} = UsedOf(h) \ {p - 16} /\ b \notin UsedOf(h) \ {p - 16}
      /\ b \in Addresses(k)
      /\ \A x \in UsedOf(h) \ {p - 16} : EndAt(k, x) = EndAt(h, x)
      /\ b + 16 + n <= EndAt(k, b)
  BY DEF Grown
<1>5. \A x \in UsedOf(h) \ {p - 16} : x \in Addresses(k)
  BY <1>4 DEF UsedOf
<1>6. EndAt(k, b) \in Nat /\ EndAt(k, b) <= hi
  BY <1>1, <1>4, Spacing
<1>7. \A q \in DOMAIN e : /\ q \in Nat /\ e[q] \in Nat /\ q - 16 \in UsedOf(h) \ {p - 16}
                          /\ q + e[q] <= EndAt(h, q - 16)
  <2>1. TAKE q \in DOMAIN e
  <2>2. q \in DOMAIN f /\ q # p /\ e[q] = f[q]
    BY <1>3
  <2>3. q \in Nat /\ p \in Nat /\ f[q] \in Nat
    BY <2>2 DEF Pieces
  <2>4. q - 16 \in UsedOf(h) /\ q + f[q] <= EndAt(h, q - 16)
    BY <2>2 DEF Client
  <2>5. q - 16 # p - 16
    BY <2>2, <2>3
  <2>6. QED
    BY <2>2, <2>3, <2>4, <2>5
<1>8. b + 16 \notin DOMAIN e
  <2>1. b + 16 - 16 = b
    OBVIOUS
  <2>2. QED
    BY <1>4, <1>7, <2>1
<1>9. ASSUME NEW q \in DOMAIN e
      PROVE  b + 16 + n <= q \/ q + e[q] <= b + 16
  <2>1. PICK x \in UsedOf(h) \ {p - 16} : x = q - 16
    BY <1>7
  <2>2. x \in Addresses(k) /\ x # b /\ EndAt(k, x) = EndAt(h, x)
    BY <1>4, <1>5
  <2>3. x \in Nat /\ EndAt(k, x) \in Nat
    BY <1>1, <2>2, Spacing
  <2>4. EndAt(k, b) <= x \/ EndAt(k, x) <= b
    BY <1>1, <1>4, <2>2, Apart
  <2>5. q \in Nat /\ e[q] \in Nat /\ q + e[q] <= EndAt(k, x) /\ x = q - 16
    BY <1>7, <2>1, <2>2
  <2>6. QED
    BY <1>4, <1>6, <2>3, <2>4, <2>5
<1>10. 0 <= b + 16 /\ b + 16 + n <= HeapEnd
  BY <1>4, <1>6, HeapEndAssumption
<1>11. QED
  BY <1>2, <1>8, <1>9, <1>10 DEF Abstract!Fits

-----------------------------------------------------------------------------
(* The inductive invariant                                                 *)

ListPart == ListTypeOK /\ (instance = "list" => IInv)

\* The structure of the heap is sound even when realloc has left a client's
\* block marked free.
HeapOK ==
  /\ Extent(levels, begin, end) /\ end <= HeapEnd
  /\ Sound(heap, levels, begin, end) /\ Calm(heap)

ClientsOK == Intact => Client(heap, live)

FirstFiled == Intact /\ Held = {} => heap.bucket[ClassOf(heap, begin)] = begin

AllocatorsInv ==
  /\ instance \in {"list", "tlsf"} /\ impl \in {"region", "fixed"}
  /\ ListPart /\ HeapOK /\ ClientsOK /\ FirstFiled

LEMMA TlsfStep ==
  ASSUME AllocatorsInv, instance = "tlsf",
         UNCHANGED <<instance, listVars, impl, levels, begin, end>>,
         Sound(heap', levels, begin, end), Calm(heap'), Pieces(live'),
         damage' = {} => Client(heap', live'),
         damage' = {} /\ DOMAIN live' = {} => heap'.bucket[ClassOf(heap', begin)] = begin
  PROVE  AllocatorsInv'
<1>1. /\ instance' = instance /\ impl' = impl /\ levels' = levels
      /\ begin' = begin /\ end' = end
      /\ UNCHANGED <<policy, blk, stage, cursor, want>>
  BY DEF listVars
<1>2. HeapOK'
  BY <1>1 DEF AllocatorsInv, HeapOK
<1>3. ClientsOK'
  BY DEF ClientsOK, Intact
<1>4. FirstFiled'
  BY <1>1 DEF FirstFiled, Intact, Held
<1>5. ListPart'
  <2>1. ListTypeOK'
    BY <1>1 DEF AllocatorsInv, ListPart, ListTypeOK, Pieces, Held, Starts
  <2>2. QED
    BY <1>1, <2>1 DEF ListPart
<1>6. QED
  BY <1>1, <1>2, <1>3, <1>4, <1>5 DEF AllocatorsInv

LEMMA RequestIsNumber == ASSUME NEW n \in Requests PROVE n \in Nat
BY RequestsAssumption

LEMMA HeapFacts ==
  ASSUME AllocatorsInv
  PROVE  /\ Extent(levels, begin, end) /\ end <= HeapEnd /\ levels \in Nat
         /\ Sound(heap, levels, begin, end) /\ Calm(heap) /\ end \in Nat
         /\ Typed(heap, levels) /\ Linked(heap) /\ Pieces(live)
<1>1. /\ Extent(levels, begin, end) /\ end <= HeapEnd
      /\ Sound(heap, levels, begin, end) /\ Calm(heap)
  BY DEF AllocatorsInv, HeapOK
<1>2. /\ end \in Nat /\ end - begin \in Lengths /\ levels = LevelCount(end - begin)
      /\ end - begin <= end - begin
  BY <1>1 DEF Extent, Lengths
<1>3. levels \in Nat
  BY <1>2, SplitIsClass
<1>4. Pieces(live)
  BY DEF AllocatorsInv, ListPart, ListTypeOK, Pieces, Held
<1>5. QED
  BY <1>1, <1>2, <1>3, <1>4 DEF Sound

\* The block behind which the client's piece lies has been found.
LEMMA FoundIsTaken ==
  ASSUME AllocatorsInv, NEW n \in Requests, NEW b, b = FindProperBlock(heap, n), b # Nil,
         NEW k, k = Allocated(heap, b, n)
  PROVE  /\ Sound(k, levels, begin, end) /\ Calm(k) /\ Taken(heap, b, n, k)
         /\ b \in Nat /\ n \in Nat
<1>1. n \in Nat
  BY RequestIsNumber
<1>2. b \in Addresses(heap) /\ ~heap.hdr[b].used /\ heap.hdr[b].size >= GrossSize(n)
  BY <1>1, HeapFacts, FoundBlock
<1>3. Sound(k, levels, begin, end) /\ Calm(k) /\ Taken(heap, b, n, k)
  BY <1>1, <1>2, HeapFacts, AllocatedKeeps
<1>4. b \in Nat
  BY <1>2, HeapFacts DEF Typed
<1>5. QED
  BY <1>1, <1>3, <1>4

LEMMA AllocStep ==
  ASSUME AllocatorsInv, instance = "tlsf", UNCHANGED <<instance, listVars>>,
         NEW n \in Requests, TlsfAlloc(n)
  PROVE  AllocatorsInv'
<1>1. PICK b : b = FindProperBlock(heap, n)
  OBVIOUS
<1>2. /\ b # Nil /\ heap' = Allocated(heap, b, n)
      /\ live' = Abstract!With(live, b + 16, n)
      /\ UNCHANGED <<impl, levels, begin, end, damage>>
  BY <1>1 DEF TlsfAlloc, Obtain, Header
<1>3. PICK k : k = heap'
  OBVIOUS
<1>4. PICK g : g = live'
  OBVIOUS
<1>5. /\ Sound(k, levels, begin, end) /\ Calm(k) /\ Taken(heap, b, n, k)
      /\ b \in Nat /\ n \in Nat
  BY <1>1, <1>2, <1>3, FoundIsTaken
<1>6. Pieces(g) /\ DOMAIN g # {}
  <2>1. b + 16 \in Nat
    BY <1>5
  <2>2. Pieces(g) /\ PieceAdded(live, b + 16, n, g)
    BY <1>2, <1>4, <1>5, <2>1, HeapFacts, WithPiece
  <2>3. QED
    BY <2>2 DEF PieceAdded
<1>7. damage = {} => Client(k, g)
  <2>1. SUFFICES ASSUME damage = {} PROVE Client(k, g)
    OBVIOUS
  <2>2. Client(heap, live)
    BY <2>1 DEF AllocatorsInv, ClientsOK, Intact
  <2>3. QED
    BY <1>2, <1>4, <1>5, <2>2, HeapFacts, ClientTakes
<1>8. QED
  BY <1>2, <1>3, <1>4, <1>5, <1>6, <1>7, TlsfStep

\* While the heap is intact, every pointer a client holds is behind the header
\* of a block in use: check_block_valid never rejects one.
LEMMA HeldIsValid ==
  ASSUME AllocatorsInv, Intact, NEW p \in Held
  PROVE  p - 16 \in Addresses(heap) /\ heap.hdr[p - 16].used /\ ValidBlock(p - Header)
BY DEF AllocatorsInv, ClientsOK, Client, UsedOf, ValidBlock, Header, Addresses, Held

LEMMA FreeTlsfStep ==
  ASSUME AllocatorsInv, instance = "tlsf", UNCHANGED <<instance, listVars>>,
         NEW p \in Held, TlsfFree(p)
  PROVE  AllocatorsInv'
<1>1. PICK b : b = p - 16
  OBVIOUS
<1>2. /\ heap' = IF ValidBlock(b) THEN Freed(heap, b) ELSE heap
      /\ live' = Abstract!Without(live, p)
      /\ UNCHANGED <<impl, levels, begin, end, damage>>
  BY <1>1 DEF TlsfFree, GiveUp, Header
<1>3. PICK k : k = heap'
  OBVIOUS
<1>4. PICK g : g = live'
  OBVIOUS
<1>5. Pieces(g)
  BY <1>2, <1>4, HeapFacts, WithoutPiece
<1>6. CASE ValidBlock(b)
  <2>1. b \in Addresses(heap) /\ heap.hdr[b].used
    BY <1>6 DEF ValidBlock, Addresses
  <2>2. Sound(k, levels, begin, end) /\ Calm(k) /\ GivenBack(heap, b, k)
    BY <1>2, <1>3, <1>6, <2>1, HeapFacts, FreedKeeps
  <2>3. damage = {} => Client(k, g)
    <3>1. SUFFICES ASSUME damage = {} PROVE Client(k, g)
      OBVIOUS
    <3>2. Client(heap, live)
      BY <3>1 DEF AllocatorsInv, ClientsOK, Intact
    <3>3. QED
      BY <1>1, <1>2, <1>4, <2>2, <3>2, HeapFacts, ClientGives DEF Held
  <2>4. damage = {} /\ DOMAIN g = {} => k.bucket[ClassOf(k, begin)] = begin
    <3>1. SUFFICES ASSUME damage = {}, DOMAIN g = {}
                   PROVE  k.bucket[ClassOf(k, begin)] = begin
      OBVIOUS
    <3>2. UsedOf(k) = {}
      BY <2>3, <3>1 DEF Client
    <3>3. Addresses(k) = {begin}
      BY <2>2, <3>2, HeapFacts, OneBlock
    <3>4. QED
      BY <2>2, <3>3 DEF GivenBack
  <2>5. QED
    BY <1>2, <1>3, <1>4, <1>5, <2>2, <2>3, <2>4, TlsfStep
<1>7. CASE ~ValidBlock(b)
  <2>1. damage # {}
    BY <1>1, <1>7, HeldIsValid DEF Intact, Header
  <2>2. heap' = heap
    BY <1>2, <1>7
  <2>3. Sound(heap', levels, begin, end) /\ Calm(heap')
    BY <2>2, HeapFacts
  <2>4. QED
    BY <1>2, <1>4, <1>5, <2>1, <2>3, TlsfStep
<1>8. QED
  BY <1>6, <1>7

LEMMA InPlaceStep ==
  ASSUME AllocatorsInv, instance = "tlsf", UNCHANGED <<instance, listVars>>,
         NEW p \in Held, NEW n \in Requests, ReallocInPlace(p, n)
  PROVE  AllocatorsInv'
<1>1. PICK b : b = p - 16
  OBVIOUS
<1>2. PICK a : a = Merge(heap, b)[2]
  OBVIOUS
<1>3. PICK k : k = InPlace(heap, b, n)
  OBVIOUS
<1>4. /\ ValidBlock(b) /\ FitsInPlace(heap, b, n) /\ heap' = k
      /\ live' = Abstract!With(Abstract!Without(live, p), a + 16, n)
      /\ damage' = {} => damage = {} /\ k.hdr[a].used
      /\ UNCHANGED <<impl, levels, begin, end>>
  BY <1>1, <1>2, <1>3 DEF ReallocInPlace, Exchange, Header, InPlace
<1>5. PICK g : g = live'
  OBVIOUS
<1>6. b \in Addresses(heap) /\ heap.hdr[b].used /\ n \in Nat
  BY <1>4, RequestIsNumber DEF ValidBlock, Addresses
<1>7. Sound(k, levels, begin, end) /\ Calm(k) /\ Grown(heap, b, a, n, k)
  BY <1>2, <1>3, <1>4, <1>6, HeapFacts, InPlaceKeeps
<1>8. a \in Addresses(k) /\ a \in Nat
  BY <1>7 DEF Grown, Sound, Typed
<1>9. Pieces(g) /\ DOMAIN g # {}
  <2>1. PICK e : e = Abstract!Without(live, p)
    OBVIOUS
  <2>2. Pieces(e)
    BY <2>1, HeapFacts, WithoutPiece
  <2>3. a + 16 \in Nat
    BY <1>8
  <2>4. Pieces(g) /\ PieceAdded(e, a + 16, n, g)
    BY <1>4, <1>5, <1>6, <2>1, <2>2, <2>3, WithPiece
  <2>5. QED
    BY <2>4 DEF PieceAdded
<1>10. damage' = {} => Client(k, g)
  <2>1. SUFFICES ASSUME damage' = {} PROVE Client(k, g)
    OBVIOUS
  <2>2. Client(heap, live)
    BY <1>4, <2>1 DEF AllocatorsInv, ClientsOK, Intact
  <2>3. a \in UsedOf(k)
    BY <1>4, <1>8, <2>1 DEF UsedOf
  <2>4. Pieces(live) /\ p \in DOMAIN live
    BY HeapFacts DEF Held
  <2>5. QED
    BY <1>1, <1>4, <1>5, <1>6, <1>7, <1>8, <2>2, <2>3, <2>4, ClientGrows
<1>11. QED
  BY <1>4, <1>5, <1>7, <1>9, <1>10, TlsfStep

\* The order of giving up p and taking q does not matter.
LEMMA ExchangeOrder ==
  ASSUME NEW f, NEW p, NEW q, p # q, NEW n
  PROVE  Abstract!With(Abstract!Without(f, p), q, n)
           = Abstract!Without(Abstract!With(f, q, n), p)
BY DEF Abstract!With, Abstract!Without

LEMMA MovesStep ==
  ASSUME AllocatorsInv, instance = "tlsf", UNCHANGED <<instance, listVars>>,
         NEW p \in Held, NEW n \in Requests, ReallocMoves(p, n)
  PROVE  AllocatorsInv'
<1>1. PICK b : b = p - 16
  OBVIOUS
<1>2. PICK a : a = FindProperBlock(heap, n)
  OBVIOUS
<1>3. PICK h : h = Allocated(heap, a, n)
  OBVIOUS
<1>4. /\ ValidBlock(b) /\ a # Nil /\ heap' = Freed(h, b)
      /\ live' = Abstract!With(Abstract!Without(live, p), a + 16, n)
      /\ UNCHANGED <<impl, levels, begin, end, damage>>
  BY <1>1, <1>2, <1>3 DEF ReallocMoves, Exchange, Header
<1>5. PICK k : k = heap'
  OBVIOUS
<1>6. PICK g : g = live'
  OBVIOUS
<1>7. /\ Sound(h, levels, begin, end) /\ Calm(h) /\ Taken(heap, a, n, h)
      /\ a \in Nat /\ n \in Nat
  BY <1>2, <1>3, <1>4, FoundIsTaken
<1>8. b \in UsedOf(heap) /\ b # a /\ b \in Addresses(h) /\ h.hdr[b].used
  BY <1>4, <1>7 DEF ValidBlock, Addresses, UsedOf, Taken
<1>9. Sound(k, levels, begin, end) /\ Calm(k) /\ GivenBack(h, b, k)
  BY <1>4, <1>5, <1>7, <1>8, HeapFacts, FreedKeeps
<1>10. Pieces(live) /\ p \in DOMAIN live /\ p \in Nat /\ p # a + 16
  BY <1>1, <1>7, <1>8, HeapFacts DEF Held, Pieces
<1>11. PICK f : f = Abstract!With(live, a + 16, n)
  OBVIOUS
<1>12. Pieces(f) /\ PieceAdded(live, a + 16, n, f)
  BY <1>7, <1>10, <1>11, a + 16 \in Nat, WithPiece
<1>13. p \in DOMAIN f /\ a + 16 \in DOMAIN f
  BY <1>10, <1>12 DEF PieceAdded
<1>14. g = Abstract!Without(f, p)
  BY <1>4, <1>6, <1>10, <1>11, ExchangeOrder
<1>15. Pieces(g) /\ DOMAIN g # {}
  <2>1. Pieces(g) /\ PieceDropped(f, p, g)
    BY <1>12, <1>14, WithoutPiece
  <2>2. QED
    BY <1>10, <1>13, <2>1 DEF PieceDropped
<1>16. damage = {} => Client(k, g)
  <2>1. SUFFICES ASSUME damage = {} PROVE Client(k, g)
    OBVIOUS
  <2>2. Client(heap, live)
    BY <2>1 DEF AllocatorsInv, ClientsOK, Intact
  <2>3. Client(h, f)
    BY <1>7, <1>10, <1>11, <2>2, ClientTakes
  <2>4. QED
    BY <1>1, <1>9, <1>12, <1>13, <1>14, <2>3, ClientGives
<1>17. QED
  BY <1>4, <1>5, <1>6, <1>9, <1>15, <1>16, TlsfStep

\* The calls of the list allocators, and those that change nothing.
LEMMA ListCallStep ==
  ASSUME AllocatorsInv, instance = "list", UNCHANGED <<instance, tlsfVars>>,
         [ListNext]_<<listVars, live>>
  PROVE  AllocatorsInv'
<1>1. /\ instance' = instance /\ impl' = impl /\ heap' = heap
      /\ levels' = levels /\ begin' = begin /\ end' = end
  BY DEF tlsfVars
<1>2. IInv'
  BY Induction DEF AllocatorsInv, ListPart
<1>3. ListPart'
  BY <1>2 DEF ListPart, IInv
<1>4. HeapOK'
  BY <1>1 DEF AllocatorsInv, HeapOK
<1>5. ClientsOK' /\ FirstFiled'
  BY <1>1 DEF ClientsOK, FirstFiled, Intact
<1>6. QED
  BY <1>1, <1>3, <1>4, <1>5 DEF AllocatorsInv

LEMMA NothingStep ==
  ASSUME AllocatorsInv, UNCHANGED vars
  PROVE  AllocatorsInv'
<1>1. /\ UNCHANGED <<policy, blk, stage, cursor, want>> /\ live' = live
      /\ instance' = instance /\ impl' = impl /\ heap' = heap
      /\ levels' = levels /\ begin' = begin /\ end' = end /\ damage' = damage
      /\ UNCHANGED <<listVars, live>>
  BY DEF vars, listVars, tlsfVars
<1>2. ListTypeOK'
  BY <1>1 DEF AllocatorsInv, ListPart, ListTypeOK, Starts, Held
<1>3. ListPart'
  BY <1>1, <1>2, StutterStep DEF AllocatorsInv, ListPart
<1>4. HeapOK'
  BY <1>1 DEF AllocatorsInv, HeapOK
<1>5. ClientsOK' /\ FirstFiled'
  BY <1>1 DEF AllocatorsInv, ClientsOK, FirstFiled, Intact, Held
<1>6. QED
  BY <1>1, <1>3, <1>4, <1>5 DEF AllocatorsInv

\* A step of the system is a step of the list allocator's or of TLSF's.
ListPartStep ==
  /\ instance = "list" /\ UNCHANGED <<instance, tlsfVars>>
  /\ [ListNext]_<<listVars, live>>

TlsfPartStep ==
  /\ instance = "tlsf" /\ UNCHANGED <<instance, listVars>>
  /\ \/ \E n \in Requests : TlsfAlloc(n)
     \/ \E p \in Held : TlsfFree(p)
     \/ \E p \in Held, n \in Requests : ReallocInPlace(p, n) \/ ReallocMoves(p, n)

LEMMA StepIsOneOf ==
  ASSUME [Next]_vars
  PROVE  ListPartStep \/ TlsfPartStep \/ UNCHANGED vars
<1>1. ASSUME NEW n \in Requests, Malloc(n)
      PROVE  ListPartStep \/ TlsfPartStep \/ UNCHANGED vars
  BY <1>1 DEF Malloc, ListPartStep, TlsfPartStep, ListNext, TlsfAllocFails, vars
<1>2. ASSUME NEW p \in Held, FreePointer(p)
      PROVE  ListPartStep \/ TlsfPartStep
  BY <1>2 DEF FreePointer, ListPartStep, TlsfPartStep, ListNext
<1>3. ASSUME NEW p \in Held, NEW n \in Requests, Realloc(p, n)
      PROVE  TlsfPartStep \/ UNCHANGED vars
  BY <1>3 DEF Realloc, TlsfPartStep, ReallocFails, vars
<1>4. CASE Loop
  BY <1>4 DEF Loop, ListPartStep, ListNext
<1>5. CASE Damaged
  BY <1>5 DEF Damaged, DamagedHeap, vars
<1>6. QED
  BY <1>1, <1>2, <1>3, <1>4, <1>5 DEF Next

LEMMA AllocatorsInduction == AllocatorsInv /\ [Next]_vars => AllocatorsInv'
<1>1. SUFFICES ASSUME AllocatorsInv, [Next]_vars PROVE AllocatorsInv'
  OBVIOUS
<1>2. CASE ListPartStep
  BY <1>1, <1>2, ListCallStep DEF ListPartStep
<1>3. CASE TlsfPartStep
  <2>1. instance = "tlsf" /\ UNCHANGED <<instance, listVars>>
    BY <1>3 DEF TlsfPartStep
  <2>2. ASSUME NEW n \in Requests, TlsfAlloc(n) PROVE AllocatorsInv'
    BY <1>1, <2>1, <2>2, AllocStep
  <2>3. ASSUME NEW p \in Held, TlsfFree(p) PROVE AllocatorsInv'
    BY <1>1, <2>1, <2>3, FreeTlsfStep
  <2>4. ASSUME NEW p \in Held, NEW n \in Requests, ReallocInPlace(p, n) PROVE AllocatorsInv'
    BY <1>1, <2>1, <2>4, InPlaceStep
  <2>5. ASSUME NEW p \in Held, NEW n \in Requests, ReallocMoves(p, n) PROVE AllocatorsInv'
    BY <1>1, <2>1, <2>5, MovesStep
  <2>6. QED
    BY <1>3, <2>2, <2>3, <2>4, <2>5 DEF TlsfPartStep
<1>4. CASE UNCHANGED vars
  BY <1>1, <1>4, NothingStep
<1>5. QED
  BY <1>1, <1>2, <1>3, <1>4, StepIsOneOf

-----------------------------------------------------------------------------
(* init                                                                    *)

\* What the theorems ask of the region given to init and of the requests.  The
\* region holds more than two headers, is not longer than the fixed allocator
\* was built for (else init files the first block in the wrong bucket, see
\* BucketsLeadToFree), and has a length for which the search of region::init
\* finds a row for every class (else the table overlaps the first header).
\* The size of a request does not wrap around when the header is added.
UsableRegion ==
  /\ HeapEnd \in Lengths /\ HeapEnd > 2 * Header
  /\ MaximumMemory \in Nat /\ HeapEnd <= MaximumMemory
  /\ LevelCount(HeapEnd - AlignUp(TableBytes(HeapEnd))) <= TableLevels(HeapEnd)
  /\ \A n \in Requests : GrossSize(n) \in Lengths

LEMMA OneLevel == ASSUME NEW n \in Int, n < 32 PROVE LevelCount(n) = 1
<1>1. 2^MinClassLog2 = 32
  BY DEF MinClassLog2
<1>2. QED
  BY <1>1 DEF LevelCount, SplitSize

LEMMA SomeLevels == ASSUME NEW n \in Lengths PROVE LevelCount(n) \in 1..27
<1>1. SplitSize(n) \in Classes(LevelCount(n)) /\ LevelCount(n) \in Nat
  BY SplitIsClass DEF Lengths
<1>2. SplitSize(n)[1] \in Nat /\ LevelCount(n) = SplitSize(n)[1] + 1
  BY <1>1 DEF Classes, LevelCount
<1>3. LevelCount(n) <= 27
  <2>1. CASE n < 32
    BY <2>1, OneLevel DEF Lengths
  <2>2. CASE n >= 32
    <3>1. FindMaxLog2(n) \in 5..31
      BY <2>2, MainClass
    <3>2. 2^MinClassLog2 = 32 /\ MinClassLog2 = 5
      BY DEF MinClassLog2
    <3>3. SplitSize(n)[1] = FindMaxLog2(n) - 5
      BY <2>2, <3>2 DEF SplitSize, Lengths
    <3>4. QED
      BY <1>2, <3>1, <3>3
  <2>3. QED
    BY <2>1, <2>2 DEF Lengths
<1>4. QED
  BY <1>2, <1>3

\* Of finitely many numbers one is the largest.
LEMMA LargestNumber ==
  ASSUME NEW T, T \subseteq 1..27, T # {}
  PROVE  \E x \in T : \A y \in T : y <= x
<1>1. PICK S : S = {27 - x : x \in T}
  OBVIOUS
<1>2. S \subseteq Nat /\ S # {}
  <2>1. \A x \in T : 27 - x \in Nat
    OBVIOUS
  <2>2. PICK x \in T : TRUE
    OBVIOUS
  <2>3. 27 - x \in S
    BY <1>1
  <2>4. S \subseteq Nat
    BY <1>1, <2>1
  <2>5. QED
    BY <2>3, <2>4
<1>3. PICK s \in S : \A y \in S : s <= y
  BY <1>2, LeastNumber
<1>4. PICK x \in T : s = 27 - x
  BY <1>1, <1>3
<1>5. ASSUME NEW y \in T PROVE y <= x
  <2>1. 27 - y \in S
    BY <1>1
  <2>2. s <= 27 - y
    BY <1>3, <2>1
  <2>3. QED
    BY <1>4, <2>2
<1>6. QED
  BY <1>5

\* The table leaves room for a block.
LEMMA TableFits ==
  ASSUME NEW n \in Lengths, n > 32
  PROVE  AlignUp(TableBytes(n)) \in Nat /\ AlignUp(TableBytes(n)) + 16 < n
<1> DEFINE Enough(k) == LevelCount(n - k * TableRow) >= k
           tried == 1..LevelCount(n)
           T == {k \in tried : Enough(k)}
<1>1. TableRow = 16
  BY DEF TableRow, SubclassCount
<1>2. tried \subseteq 1..27 /\ 1 \in tried
  BY SomeLevels
<1>3. Enough(1)
  <2>1. n - 16 \in Lengths
    BY SomePowers DEF Lengths
  <2>2. LevelCount(n - 16) >= 1
    BY <2>1, SomeLevels
  <2>3. n - 1 * TableRow = n - 16
    BY <1>1
  <2>4. QED
    BY <2>2, <2>3
<1>4. PICK x \in tried : Enough(x) /\ \A j \in tried : Enough(j) => j <= x
  <2>1. T \subseteq 1..27 /\ T # {}
    BY <1>2, <1>3
  <2>2. PICK x \in T : \A y \in T : y <= x
    <3> HIDE DEF T
    <3>1. QED
      BY <2>1, LargestNumber
  <2>3. QED
    BY <2>2
<1>5. TableLevels(n) \in tried /\ Enough(TableLevels(n))
  <2>1. TableLevels(n) =
          CHOOSE k \in tried : Enough(k) /\ \A j \in tried : Enough(j) => j <= k
    BY <1>2, <1>3 DEF TableLevels
  <2> HIDE DEF tried, Enough
  <2>2. QED
    BY <1>4, <2>1
<1>6. PICK K \in 1..27 : K = TableLevels(n)
  BY <1>2, <1>5
<1>7. LevelCount(n - 16 * K) >= K
  <2>1. K * TableRow = 16 * K
    BY <1>1
  <2>2. QED
    BY <1>5, <1>6, <2>1
<1>8. 16 * K + 16 < n
  <2>1. CASE K = 1
    BY <2>1 DEF Lengths
  <2>2. CASE K # 1
    <3>1. n - 16 * K \in Int /\ (n - 16 * K < 32 => LevelCount(n - 16 * K) = 1)
      BY OneLevel DEF Lengths
    <3>2. ~(n - 16 * K < 32)
      BY <1>7, <2>2, <3>1
    <3>3. QED
      BY <3>2 DEF Lengths
  <2>3. QED
    BY <2>1, <2>2
<1>9. AlignUp(TableBytes(n)) = 16 * K
  <2>1. TableBytes(n) = 16 * K
    BY <1>1, <1>6 DEF TableBytes
  <2>2. AlignUp(16 * K) = 16 * K
    BY DEF AlignUp, Align
  <2>3. QED
    BY <2>1, <2>2
<1>10. QED
  BY <1>8, <1>9

\* The heap that init leaves is one free block, in the bucket of its class.
LEMMA FirstHeap ==
  ASSUME NEW kind, NEW from \in Nat, HeapEnd \in Lengths, from + 16 < HeapEnd,
         Commit(kind, from, HeapEnd, SplitSize(HeapEnd - from)[2])
  PROVE  /\ impl = kind /\ damage = {} /\ HeapOK /\ UsedOf(heap) = {}
         /\ heap.bucket[ClassOf(heap, begin)] = begin
<1>1. /\ impl = kind /\ begin = from /\ end = HeapEnd /\ damage = {}
      /\ levels = LevelCount(end - begin)
  BY DEF Commit
<1>2. PICK n : n = HeapEnd - from
  OBVIOUS
<1>3. PICK c : c = SplitSize(n)
  OBVIOUS
<1>4. n \in Lengths /\ n \in Nat /\ n > 16 /\ from + n = HeapEnd /\ HeapEnd \in Nat
  BY <1>2, SomePowers DEF Lengths
<1>5. c \in Classes(levels) /\ c = <<levels - 1, SplitSize(n)[2]>> /\ levels \in Nat
  <2>1. n <= n /\ levels = LevelCount(n)
    BY <1>1, <1>2, <1>4 DEF Lengths
  <2>2. c \in Classes(levels) /\ levels \in Nat
    BY <1>3, <1>4, <2>1, SplitIsClass
  <2>3. c = <<c[1], c[2]>> /\ c[1] \in Nat
    BY <2>2 DEF Classes
  <2>4. levels - 1 = c[1]
    BY <1>3, <2>1, <2>3 DEF LevelCount
  <2>5. QED
    BY <1>3, <2>2, <2>3, <2>4
<1>6. PICK r : r = [b \in {from} |-> NewHeader(n, Nil)]
  OBVIOUS
<1>7. PICK s : s = [d \in Classes(levels) |-> IF d = c THEN from ELSE Nil]
  OBVIOUS
<1>8. heap = HeapOf(r, s)
  BY <1>1, <1>2, <1>5, <1>6, <1>7 DEF Commit, HeapOf
<1>9. /\ heap = [hdr |-> heap.hdr, bucket |-> heap.bucket]
      /\ heap.hdr = r /\ heap.bucket = s
  BY <1>8 DEF HeapOf
<1>10. Addresses(heap) = {from}
  BY <1>6, <1>9 DEF Addresses
<1>11. /\ r[from].size = n /\ r[from].used = FALSE /\ r[from].prev_phys = Nil
       /\ r[from].prev = Nil /\ r[from].next = Nil
       /\ r \in [{from} -> Headers({from})]
  BY <1>4, <1>6 DEF NewHeader, Headers, Lengths
<1>12. DOMAIN s = Classes(levels) /\ \A d \in Classes(levels) : s[d] = IF d = c THEN from ELSE Nil
  BY <1>7
<1>13. Typed(heap, levels)
  <2>1. s \in [Classes(levels) -> {from} \cup {Nil}]
    BY <1>7
  <2>2. QED
    BY <1>9, <1>10, <1>11, <2>1 DEF Typed
<1>14. ClassOf(heap, from) = c
  BY <1>3, <1>9, <1>11 DEF ClassOf
<1>15. Linked(heap)
  BY <1>9, <1>10, <1>11, <1>12, <1>14 DEF Linked
<1>16. EndAt(heap, from) = end /\ from < end /\ end \notin Addresses(heap)
  BY <1>1, <1>4, <1>9, <1>10, <1>11 DEF EndAt
<1>17. Tiles(heap, begin, end)
  <2>1. begin = from /\ from + 16 < end /\ heap.hdr[from].size >= 16
    BY <1>1, <1>4, <1>9, <1>11
  <2>2. heap.hdr[from].prev_phys = Nil
    BY <1>9, <1>11
  <2>3. QED
    BY <1>4, <1>10, <1>16, <2>1, <2>2 DEF Tiles, Header
<1>18. Calm(heap)
  BY <1>10, <1>16 DEF Calm
<1>19. Extent(levels, begin, end) /\ end <= HeapEnd
  BY <1>1, <1>2, <1>4 DEF Extent
<1>20. UsedOf(heap) = {}
  BY <1>9, <1>10, <1>11 DEF UsedOf
<1>21. heap.bucket[ClassOf(heap, begin)] = begin
  BY <1>1, <1>5, <1>9, <1>12, <1>14
<1>22. QED
  BY <1>1, <1>13, <1>15, <1>17, <1>18, <1>19, <1>20, <1>21 DEF HeapOK, Sound

LEMMA FirstState == ASSUME UsableRegion, Init PROVE AllocatorsInv
<1>1. HeapEnd \in Lengths /\ HeapEnd > 32 /\ MaximumMemory \in Nat
      /\ HeapEnd <= MaximumMemory
  BY DEF UsableRegion, Header
<1>2. /\ impl \in {"region", "fixed"} /\ damage = {} /\ HeapOK /\ UsedOf(heap) = {}
      /\ heap.bucket[ClassOf(heap, begin)] = begin
  <2>1. CASE RegionInit
    <3>1. PICK from : from = AlignUp(TableBytes(HeapEnd))
      OBVIOUS
    <3>2. from \in Nat /\ from + 16 < HeapEnd
      BY <1>1, <3>1, TableFits
    <3>3. Commit("region", from, HeapEnd, SplitSize(HeapEnd - from)[2])
      BY <2>1, <3>1 DEF RegionInit
    <3>4. QED
      BY <1>1, <3>2, <3>3, FirstHeap
  <2>2. CASE FixedInit
    <3>1. Min({HeapEnd, MaximumMemory}) = HeapEnd
      BY <1>1 DEF Min, Lengths
    <3>2. HeapEnd - 0 = HeapEnd /\ 0 + 16 < HeapEnd
      BY <1>1 DEF Lengths
    <3>3. Commit("fixed", 0, HeapEnd, SplitSize(HeapEnd - 0)[2])
      BY <2>2, <3>1, <3>2 DEF FixedInit
    <3>4. QED
      BY <1>1, <3>2, <3>3, FirstHeap
  <2>3. QED
    BY <2>1, <2>2 DEF Init, TlsfInit
<1>3. DOMAIN live = {}
  BY DEF Init, Abstract!HeapInit
<1>4. IInv
  BY InitialState DEF Init
<1>5. ListPart
  BY <1>4 DEF ListPart, IInv
<1>6. ClientsOK
  BY <1>2, <1>3 DEF ClientsOK, Client
<1>7. FirstFiled
  BY <1>2 DEF FirstFiled
<1>8. instance \in {"list", "tlsf"}
  BY DEF Init
<1>9. QED
  BY <1>2, <1>5, <1>6, <1>7, <1>8 DEF AllocatorsInv

-----------------------------------------------------------------------------
(* Theorems                                                                *)

\* The strengthening above is an invariant of the memory core, whichever
\* allocator init was given and whatever the clients call.
THEOREM AllocatorsInvariant == ASSUME UsableRegion PROVE Spec => []AllocatorsInv
<1>1. Init => AllocatorsInv
  BY FirstState
<1>2. QED
  BY <1>1, AllocatorsInduction, PTL DEF Spec

\* Headers, links and buckets lead to blocks or are null: no list operation of
\* tlsf/base.hpp follows a link to a header that has been merged away.
THEOREM MemoryTypes == ASSUME UsableRegion PROVE Spec => []MemoryTypeOK
<1>1. AllocatorsInv => MemoryTypeOK
  <2>1. SUFFICES ASSUME AllocatorsInv PROVE MemoryTypeOK
    OBVIOUS
  <2>2. instance \in {"list", "tlsf"} /\ impl \in {"region", "fixed"} /\ ListTypeOK
    BY <2>1 DEF AllocatorsInv, ListPart
  <2>3. /\ heap.hdr \in [Addresses(heap) -> Headers(Addresses(heap))]
        /\ heap.bucket \in [Classes(levels) -> Addresses(heap) \cup {Nil}]
    BY <2>1, HeapFacts DEF Typed
  <2>4. Addresses(heap) = Blocks
    BY DEF Addresses, Blocks
  <2>5. QED
    BY <2>2, <2>3, <2>4 DEF MemoryTypeOK, Headers
<1>2. QED
  BY <1>1, AllocatorsInvariant, PTL

\* Whatever is allocated, freed and resized, the blocks of an intact heap tile
\* it, and each TLSF block knows the one before it.
THEOREM AllocatorsTile == ASSUME UsableRegion PROVE Spec => []BlocksTile
<1>1. AllocatorsInv => BlocksTile
  <2>1. SUFFICES ASSUME AllocatorsInv PROVE BlocksTile
    OBVIOUS
  <2>2. instance = "list" => Tiled
    BY <2>1 DEF AllocatorsInv, ListPart, IInv
  <2>3. Tiles(heap, begin, end) /\ Addresses(heap) = Blocks
    BY <2>1, HeapFacts DEF Sound, Addresses, Blocks
  <2>4. begin \in Blocks
    BY <2>3 DEF Tiles
  <2>5. ASSUME NEW b \in Blocks
        PROVE  /\ EndAt(heap, b) = end \/ (/\ EndAt(heap, b) \in Blocks
                                           /\ heap.hdr[EndAt(heap, b)].prev_phys = b)
               /\ \A c \in Blocks : b < c => EndAt(heap, b) <= c
    BY <2>3, <2>5 DEF Tiles
  <2>6. QED
    BY <2>2, <2>4, <2>5 DEF BlocksTile, EndAt
<1>2. QED
  BY <1>1, AllocatorsInvariant, PTL

\* In an intact heap a block is marked used exactly while one client holds it,
\* with room for what was asked: nothing leaks, nothing is handed out twice.
THEOREM AllocatorsHandOut == ASSUME UsableRegion PROVE Spec => []BlocksInUse
<1>1. AllocatorsInv => BlocksInUse
  <2>1. SUFFICES ASSUME AllocatorsInv PROVE BlocksInUse
    OBVIOUS
  <2>2. instance = "list" => HeldAreUsed
    BY <2>1 DEF AllocatorsInv, ListPart, IInv
  <2>3. ASSUME Intact
        PROVE  /\ \A b \in Blocks : heap.hdr[b].used <=> b + Header \in Held
               /\ \A p \in Held :
                    p + live[p] <= p - Header + heap.hdr[p - Header].size
    <3>1. /\ UsedOf(heap) = {p - 16 : p \in Held}
          /\ \A p \in Held : p + live[p] <= EndAt(heap, p - 16)
      BY <2>1, <2>3 DEF AllocatorsInv, ClientsOK, Client, Held
    <3>2. Held \subseteq Nat /\ Blocks \subseteq Nat /\ Blocks = Addresses(heap)
      BY <2>1, HeapFacts DEF Pieces, Held, Typed, Addresses, Blocks
    <3>3. ASSUME NEW b \in Blocks
          PROVE  heap.hdr[b].used <=> b + Header \in Held
      <4>1. heap.hdr[b].used <=> \E p \in Held : b = p - 16
        BY <3>1, <3>2 DEF UsedOf
      <4>2. \A p \in Held : b = p - 16 <=> p = b + 16
        BY <3>2
      <4>3. QED
        BY <4>1, <4>2 DEF Header
    <3>4. QED
      BY <3>1, <3>3 DEF EndAt, Header
  <2>4. QED
    BY <2>2, <2>3 DEF BlocksInUse
<1>2. QED
  BY <1>1, AllocatorsInvariant, PTL

\* No bucket and no list of an intact heap leads to a block in use, and the
\* links of the free blocks of a class agree with each other.
THEOREM TlsfListsSound == ASSUME UsableRegion PROVE Spec => []FreeListsSound
<1>1. AllocatorsInv => FreeListsSound
  BY HeapFacts DEF FreeListsSound, Linked, Addresses, Blocks
<1>2. QED
  BY <1>1, AllocatorsInvariant, PTL

\* No bucket leads to a block that is marked used, also where realloc has left
\* a block in place, when the fixed allocator is given no more than its maximum.
THEOREM TlsfBucketsFree ==
  ASSUME UsableRegion, FollowDamage = FALSE
  PROVE  Spec => []BucketsLeadToFree
<1>1. AllocatorsInv => BucketsLeadToFree
  BY HeapFacts DEF BucketsLeadToFree, Linked
<1>2. QED
  BY <1>1, AllocatorsInvariant, PTL

\* Between two calls no two neighbours are free, with allocator_dlist and with
\* an intact TLSF heap, whatever the order of the calls.
THEOREM AllocatorsCoalesce == ASSUME UsableRegion PROVE Spec => []Coalesced
<1>1. AllocatorsInv => Coalesced
  <2>1. SUFFICES ASSUME AllocatorsInv PROVE Coalesced
    OBVIOUS
  <2>2. IInv => DlistCoalesced
    BY DEF IInv, DlistCoalesced, PairsPending, FreePair, Pending, Free
  <2>3. ASSUME NEW b \in Blocks, FreeAt(heap, b)
        PROVE  ~FreeAt(heap, NextPhysical(heap, b))
    <3>1. b \in Addresses(heap) /\ ~heap.hdr[b].used
      BY <2>3 DEF Addresses, Blocks, FreeAt
    <3>2. EndAt(heap, b) \in Addresses(heap) => heap.hdr[EndAt(heap, b)].used
      BY <2>1, <3>1, HeapFacts DEF Calm
    <3>3. Tiles(heap, begin, end)
      BY <2>1, HeapFacts DEF Sound
    <3>4. QED
      BY <2>1, <3>1, <3>2, <3>3, HeapFacts, NextIsBehind
  <2>4. QED
    BY <2>1, <2>2, <2>3 DEF Coalesced, AllocatorsInv, ListPart
<1>2. QED
  BY <1>1, AllocatorsInvariant, PTL

\* When all blocks of an intact TLSF heap have been freed, in whatever order,
\* the heap is one block again and find_proper_block finds it.
THEOREM TlsfRecovers == ASSUME UsableRegion PROVE Spec => []FullRecovery
<1>1. AllocatorsInv => FullRecovery
  <2>1. SUFFICES ASSUME AllocatorsInv, Intact, Held = {}
                 PROVE  Blocks = {begin} /\ heap.bucket[ClassOf(heap, begin)] = begin
    BY DEF FullRecovery
  <2>2. UsedOf(heap) = {}
    BY <2>1 DEF AllocatorsInv, ClientsOK, Client, Held
  <2>3. Addresses(heap) = {begin}
    BY <2>1, <2>2, HeapFacts, OneBlock
  <2>4. heap.bucket[ClassOf(heap, begin)] = begin
    BY <2>1 DEF AllocatorsInv, FirstFiled
  <2>5. QED
    BY <2>3, <2>4 DEF Addresses, Blocks
<1>2. QED
  BY <1>1, AllocatorsInvariant, PTL

-----------------------------------------------------------------------------
(* The abstract heap                                                       *)

LEMMA ListRefines ==
  ASSUME IInv, [ListNext]_<<listVars, live>>
  PROVE  [Abstract!HeapNext]_live
<1>1. CASE SearchTake
  <2>1. PICK p : p = cursor + HeaderSize
    OBVIOUS
  <2>2. Abstract!Fits(live, p, want) /\ live' = Abstract!With(live, p, want)
    BY <1>1, <2>1, TakenPieceFits DEF SearchTake, Obtain
  <2>3. p \in DOMAIN live' /\ live'[p] = want
    BY <2>2 DEF Abstract!With
  <2>4. QED
    BY <2>2, <2>3 DEF Abstract!HeapNext, Abstract!HeapAlloc
<1>2. ASSUME NEW p \in Held, ListFree(p) PROVE Abstract!HeapNext
  BY <1>2 DEF ListFree, GiveUp, Held, Abstract!HeapNext, Abstract!HeapFree
<1>3. CASE UNCHANGED live
  BY <1>3
<1>4. QED
  BY <1>1, <1>2, <1>3
     DEF ListNext, ListStep, ListAlloc, SearchMerge, SearchNext, SearchFails,
         ListMergeForward, ForwardEnd, ListMergeBackward, BackwardEnd, listVars

\* Giving p up leaves room for what fits while p is still held.
LEMMA RoomWithout ==
  ASSUME NEW f, Pieces(f), NEW p, NEW q, NEW n, Abstract!Fits(f, q, n)
  PROVE  Abstract!Fits(Abstract!Without(f, p), q, n)
BY DEF Abstract!Fits, Abstract!Without

LEMMA TlsfRefines ==
  ASSUME AllocatorsInv, Intact, TlsfPartStep
  PROVE  Abstract!HeapNext
<1>1. Client(heap, live) /\ Pieces(live) /\ end \in Nat /\ end <= HeapEnd
  BY HeapFacts DEF AllocatorsInv, ClientsOK
<1>2. ASSUME NEW n \in Requests, NEW b, b = FindProperBlock(heap, n), b # Nil
      PROVE  Abstract!Fits(live, b + 16, n)
  <2>1. PICK k : k = Allocated(heap, b, n)
    OBVIOUS
  <2>2. /\ Sound(k, levels, begin, end) /\ Taken(heap, b, n, k)
        /\ b \in Nat /\ n \in Nat
    BY <1>2, <2>1, FoundIsTaken
  <2>3. QED
    BY <1>1, <2>2, TakenFits
<1>3. ASSUME NEW n \in Requests, TlsfAlloc(n) PROVE Abstract!HeapNext
  <2>1. PICK b : b = FindProperBlock(heap, n)
    OBVIOUS
  <2>2. b # Nil /\ live' = Abstract!With(live, b + 16, n)
    BY <1>3, <2>1 DEF TlsfAlloc, Obtain, Header
  <2>3. PICK q : q = b + 16
    OBVIOUS
  <2>4. Abstract!Fits(live, q, n)
    BY <1>2, <2>1, <2>2, <2>3
  <2>5. q \in DOMAIN live' /\ live'[q] = n
    BY <2>2, <2>3 DEF Abstract!With
  <2>6. QED
    BY <2>2, <2>3, <2>4, <2>5 DEF Abstract!HeapNext, Abstract!HeapAlloc
<1>4. ASSUME NEW p \in Held, TlsfFree(p) PROVE Abstract!HeapNext
  BY <1>4 DEF TlsfFree, GiveUp, Held, Abstract!HeapNext, Abstract!HeapFree
<1>5. ASSUME NEW p \in Held, NEW q, NEW n,
             Abstract!Fits(Abstract!Without(live, p), q, n),
             live' = Abstract!With(Abstract!Without(live, p), q, n)
      PROVE  Abstract!HeapNext
  <2>1. q \in DOMAIN live' /\ live'[q] = n
    BY <1>5 DEF Abstract!With
  <2>2. QED
    BY <1>5, <2>1 DEF Held, Abstract!HeapNext, Abstract!HeapResize
<1>6. ASSUME NEW p \in Held, NEW n \in Requests, ReallocInPlace(p, n)
      PROVE  Abstract!HeapNext
  <2>1. PICK b : b = p - 16
    OBVIOUS
  <2>2. PICK a : a = Merge(heap, b)[2]
    OBVIOUS
  <2>3. PICK k : k = InPlace(heap, b, n)
    OBVIOUS
  <2>4. /\ ValidBlock(b) /\ FitsInPlace(heap, b, n)
        /\ live' = Abstract!With(Abstract!Without(live, p), a + 16, n)
    BY <1>6, <2>1, <2>2 DEF ReallocInPlace, Exchange, Header
  <2>5. b \in Addresses(heap) /\ heap.hdr[b].used /\ n \in Nat
    BY <2>4, RequestIsNumber DEF ValidBlock, Addresses
  <2>6. Sound(k, levels, begin, end) /\ Grown(heap, b, a, n, k)
    BY <2>2, <2>3, <2>4, <2>5, HeapFacts, InPlaceKeeps
  <2>7. a \in Nat
    BY <2>6 DEF Grown, Sound, Typed
  <2>8. PICK q : q = a + 16
    OBVIOUS
  <2>9. p \in DOMAIN live
    BY DEF Held
  <2>10. Abstract!Fits(Abstract!Without(live, p), q, n)
    BY <1>1, <2>1, <2>5, <2>6, <2>7, <2>8, <2>9, GrownFits
  <2>11. QED
    BY <1>5, <2>4, <2>8, <2>10
<1>7. ASSUME NEW p \in Held, NEW n \in Requests, ReallocMoves(p, n)
      PROVE  Abstract!HeapNext
  <2>1. PICK a : a = FindProperBlock(heap, n)
    OBVIOUS
  <2>2. a # Nil /\ live' = Abstract!With(Abstract!Without(live, p), a + 16, n)
    BY <1>7, <2>1 DEF ReallocMoves, Exchange, Header
  <2>3. PICK q : q = a + 16
    OBVIOUS
  <2>4. Abstract!Fits(live, q, n)
    BY <1>2, <2>1, <2>2, <2>3
  <2>5. Abstract!Fits(Abstract!Without(live, p), q, n)
    BY <1>1, <2>4, RoomWithout
  <2>6. QED
    BY <1>5, <2>2, <2>3, <2>5
<1>8. QED
  BY <1>3, <1>4, <1>6, <1>7 DEF TlsfPartStep

\* Whatever the clients call, the pieces of memory they hold lie in the heap
\* and do not overlap, with every allocator, as long as no realloc has left
\* the heap damaged: the memory core implements Heap.
THEOREM AllocatorsImplementHeap ==
  ASSUME UsableRegion, FollowDamage = FALSE
  PROVE  Spec => ImplementsHeap
<1>1. AllocatorsInv /\ [Next]_vars => [Abstract!HeapNext]_live
  <2>1. SUFFICES ASSUME AllocatorsInv, [Next]_vars PROVE [Abstract!HeapNext]_live
    OBVIOUS
  <2>2. CASE ListPartStep
    BY <2>1, <2>2, ListRefines DEF ListPartStep, AllocatorsInv, ListPart
  <2>3. CASE TlsfPartStep
    <3>1. Intact
      BY <2>3 DEF TlsfPartStep, Intact, TlsfAlloc, TlsfFree, ReallocInPlace,
                  ReallocMoves, Usable
    <3>2. QED
      BY <2>1, <2>3, <3>1, TlsfRefines
  <2>4. CASE UNCHANGED vars
    BY <2>4 DEF vars
  <2>5. QED
    BY <2>1, <2>2, <2>3, <2>4, StepIsOneOf
<1>2. Init => Abstract!HeapInit
  BY DEF Init
<1>3. QED
  BY <1>1, <1>2, AllocatorsInvariant, PTL
     DEF Spec, ImplementsHeap, Abstract!HeapSpec

-----------------------------------------------------------------------------
(* The search of the list allocators                                       *)

\* With TLSF the loops of the list allocators do not run.
SearchInv ==
  /\ instance \in {"list", "tlsf"}
  /\ instance = "tlsf" => stage = "idle"
  /\ instance = "list" => IInv /\ Passed

LEMMA ListAlone == SearchInv /\ [Next]_vars => SearchInv'
<1>1. SUFFICES ASSUME SearchInv, [Next]_vars PROVE SearchInv'
  OBVIOUS
<1>2. CASE ListPartStep
  <2>1. instance' = "list" /\ IInv' /\ Passed'
    BY <1>1, <1>2, Induction, PassedStep DEF ListPartStep, SearchInv
  <2>2. QED
    BY <2>1 DEF SearchInv
<1>3. CASE TlsfPartStep
  BY <1>1, <1>3 DEF TlsfPartStep, SearchInv, listVars
<1>4. CASE UNCHANGED vars
  <2>1. UNCHANGED instance /\ UNCHANGED <<listVars, live>> /\ stage' = stage
    BY <1>4 DEF vars, listVars
  <2>2. instance = "list" => IInv' /\ Passed'
    BY <1>1, <2>1, Induction, PassedStep DEF SearchInv
  <2>3. QED
    BY <1>1, <2>1, <2>2 DEF SearchInv
<1>5. QED
  BY <1>1, <1>2, <1>3, <1>4, StepIsOneOf

\* malloc with a list allocator returns nullptr only when no stretch of free
\* blocks is long enough, for any region and any sequence of calls before.
THEOREM AllocatorsRefuseOnlyIfFull == Spec => RefusesOnlyIfFull
<1> DEFINE Refused ==
      stage = "search" /\ stage' = "idle" /\ live' = live =>
        \A lo, hi \in Starts \cup {ListEnd} :
          FreeStretch(lo, hi) => hi - lo < FullSize
<1>1. Init => SearchInv
  BY InitialState DEF Init, ListInit, SearchInv, Passed
<1>2. SearchInv /\ [Next]_vars => Refused
  <2>1. SUFFICES ASSUME SearchInv, [Next]_vars, stage = "search", stage' = "idle",
                        live' = live, NEW lo \in Starts \cup {ListEnd},
                        NEW hi \in Starts \cup {ListEnd}, FreeStretch(lo, hi)
                 PROVE  hi - lo < FullSize
    OBVIOUS
  <2>2. instance = "list" /\ IInv /\ Passed
    BY <2>1 DEF SearchInv
  <2>3. [ListNext]_<<listVars, live>> /\ stage' # stage
    <3>1. ~TlsfPartStep /\ ~UNCHANGED vars
      BY <2>1, <2>2 DEF TlsfPartStep, vars, listVars
    <3>2. QED
      BY <2>1, <3>1, StepIsOneOf DEF ListPartStep
  <2>4. ~SearchTake
    <3>1. SUFFICES ASSUME SearchTake PROVE FALSE
      OBVIOUS
    <3>2. Held' # Held
      BY <2>2, <2>3, <3>1, TakenPointers
    <3>3. QED
      BY <2>1, <3>2 DEF Held
  <2>5. SearchFails
    BY <2>1, <2>3, <2>4
       DEF ListNext, ListStep, ListAlloc, SearchMerge, SearchNext, ListFree,
           ListMergeForward, ForwardEnd, ListMergeBackward, BackwardEnd, listVars
  <2>6. QED
    BY <2>1, <2>2, <2>5, NothingSuits, ShortStretches
<1>3. QED
  BY <1>1, <1>2, ListAlone, PTL DEF Spec, RefusesOnlyIfFull

=============================================================================
