----------------------------- MODULE LightBitset ----------------------------
(***************************************************************************)
(* utils::light_bitset: BitsCount bits in words of DataBits bits, rounded  *)
(* up to whole words.  A word is the set of the positions of its ones.     *)
(***************************************************************************)
EXTENDS Integers, FiniteSetsExt

CONSTANTS BitsCount, DataBits

ASSUME BitsetAssumption == BitsCount \in Nat \ {0} /\ DataBits \in Nat \ {0}

BucketCount == (BitsCount + DataBits - 1) \div DataBits
Buckets     == 0..(BucketCount - 1)
Word        == 0..(DataBits - 1)

NoBits == [k \in Buckets |-> {}]

SetBit(b, pos) ==
  IF BitsCount <= pos THEN b
  ELSE [b EXCEPT ![pos \div DataBits] = @ \cup {pos % DataBits}]

ClearBit(b, pos) ==
  IF BitsCount <= pos THEN b
  ELSE [b EXCEPT ![pos \div DataBits] = @ \ {pos % DataBits}]

TestBit(b, pos) ==
  pos < BitsCount /\ pos % DataBits \in b[pos \div DataBits]

\* What both searches do: the least position in the words w of the first
\* bucket that has one below BitsCount, which the padding of the last word
\* is not; BitsCount when there is none.
FirstPosition(w) ==
  LET found == {k \in Buckets : w[k] # {} /\ k * DataBits + Min(w[k]) < BitsCount}
  IN  IF found = {} THEN BitsCount
      ELSE Min(found) * DataBits + Min(w[Min(found)])

\* Seeded fault: only the first word is searched.
FindZeroInFirst(b) ==
  IF Word \ b[0] = {} THEN BitsCount ELSE Min(Word \ b[0])

FindZeroBit(b) == FirstPosition([k \in Buckets |-> Word \ b[k]])

FindSetBit(b) == FirstPosition(b)

Popcount(b) ==
  LET ones[k \in 0..BucketCount] ==
        IF k = 0 THEN 0 ELSE ones[k - 1] + Cardinality(b[k - 1])
  IN  ones[BucketCount]

=============================================================================
