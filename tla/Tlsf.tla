-------------------------------- MODULE Tlsf --------------------------------
(***************************************************************************)
(* The two-level segregated fit allocator: tlsf::base with its two states, *)
(* region (the index table lies in the memory given to init) and fixed     *)
(* (the table is a member).  Free blocks of one size class form a doubly   *)
(* linked list whose first block is in the class's bucket; every header    *)
(* also knows the block before it in memory.                               *)
(*                                                                         *)
(* A heap is a record: hdr maps the address of each block to its header,   *)
(* bucket maps each class to the first block of its list.  The functions   *)
(* of tlsf::base map heaps to heaps.                                       *)
(***************************************************************************)
EXTENDS MemoryClient, FiniteSets, FiniteSetsExt

CONSTANTS
  MaximumMemory,   \* the capacity of the fixed allocator
  FollowDamage     \* go on after realloc has left a heap damaged?

VARIABLES
  impl,     \* which state type: region or fixed
  heap,     \* the headers and the index table
  levels,   \* main_class_count
  begin,    \* get_begin_addr()
  end,      \* get_end_addr()
  damage    \* what realloc has done to the block it expanded in place

tlsfVars == <<impl, heap, levels, begin, end, damage>>

Header == 16          \* four 32-bit words
MinClassLog2 == 5
SubclassCount == 4
MinRest == Header + Align
TableRow == SubclassCount * 4

-----------------------------------------------------------------------------
(* Size classes                                                            *)

FindMaxLog2(n) == CHOOSE k \in 0..31 : 2^k <= n /\ n < 2^(k + 1)

\* split_size: the power of two below the size, and which quarter of the way
\* to the next one it has reached.
SplitSize(n) ==
  LET k == FindMaxLog2(n)
      base == 2^k
  IN  IF n < 2^MinClassLog2 THEN <<0, 0>>
      ELSE <<k - MinClassLog2, (n - base) \div (base \div SubclassCount)>>

LevelCount(n) == SplitSize(n)[1] + 1

Classes(m) == (0..m - 1) \X (0..SubclassCount - 1)

\* The order in which find_proper_block visits the classes.
NotBefore(c, d) == c[1] > d[1] \/ (c[1] = d[1] /\ c[2] >= d[2])

-----------------------------------------------------------------------------
(* The lists                                                               *)

NewHeader(n, p) ==
  [size |-> n, used |-> FALSE, prev_phys |-> p, prev |-> Nil, next |-> Nil]

ClassOf(h, b) == SplitSize(h.hdr[b].size)

\* Assignment to one field of a header, if there is such a block.
SetPrev(hdr, b, p) == IF b = Nil THEN hdr ELSE [hdr EXCEPT ![b].prev = p]
SetNext(hdr, b, n) == IF b = Nil THEN hdr ELSE [hdr EXCEPT ![b].next = n]
SetPhys(hdr, b, p) == IF b = Nil THEN hdr ELSE [hdr EXCEPT ![b].prev_phys = p]

\* Seeded fault: the old first block does not learn of the new one.
InsertOneWay(h, b) ==
  LET first == h.bucket[ClassOf(h, b)] IN
  [hdr    |-> SetNext(SetPrev(h.hdr, b, Nil), b, first),
   bucket |-> [h.bucket EXCEPT ![ClassOf(h, b)] = b]]

InsertToList(h, b) ==
  LET first == h.bucket[ClassOf(h, b)] IN
  [hdr    |-> SetNext(SetPrev(SetPrev(h.hdr, b, Nil), first, b), b, first),
   bucket |-> [h.bucket EXCEPT ![ClassOf(h, b)] = b]]

\* A block without a predecessor is taken for the first of its list, whether
\* or not it is in a list at all.
RemoveFromList(h, b) ==
  LET p == h.hdr[b].prev
      n == h.hdr[b].next
      linked == SetNext(SetPrev(h.hdr, n, p), p, n)
  IN  [hdr    |-> SetNext(SetPrev(linked, b, Nil), b, Nil),
       bucket |-> IF p # Nil THEN h.bucket
                  ELSE [h.bucket EXCEPT ![ClassOf(h, b)] = n]]

-----------------------------------------------------------------------------
(* Neighbours in memory                                                    *)

NextPhysical(h, b) ==
  LET n == b + h.hdr[b].size IN IF n < end - Header THEN n ELSE Nil

PrevPhysical(h, b) == h.hdr[b].prev_phys

FreeAt(h, b) == b # Nil /\ ~h.hdr[b].used

\* Block n, which lies behind b, becomes a part of b.
Swallow(h, b, n) ==
  [h EXCEPT !.hdr = [c \in DOMAIN h.hdr \ {n} |->
     IF c = b THEN [h.hdr[b] EXCEPT !.size = @ + h.hdr[n].size] ELSE h.hdr[c]]]

\* Seeded fault: the block behind the merged ones keeps its predecessor.
MergeForwardSilently(h, b) ==
  LET n == NextPhysical(h, b) IN
  IF FreeAt(h, n) THEN Swallow(RemoveFromList(h, n), b, n) ELSE h

\* The loops of merge_forward and merge_backward turn at most once for each
\* block; a turn that finds no free neighbour changes nothing.
Turns(h) == 0..Cardinality(DOMAIN h.hdr)

SwallowNext(h, b) ==
  LET n == NextPhysical(h, b) IN
  IF FreeAt(h, n) THEN Swallow(RemoveFromList(h, n), b, n) ELSE h

MergeForward(h, b) ==
  LET after[k \in Turns(h)] == IF k = 0 THEN h ELSE SwallowNext(after[k - 1], b)
      m == after[Cardinality(DOMAIN h.hdr)]
  IN  [m EXCEPT !.hdr = SetPhys(@, NextPhysical(m, b), b)]

\* A heap and the block that grows: its predecessor takes its place.
SwallowedByPrev(m) ==
  LET p == PrevPhysical(m[1], m[2]) IN
  IF FreeAt(m[1], p)
  THEN <<Swallow(RemoveFromList(m[1], p), p, m[2]), p>>
  ELSE m

MergeBackward(h, b) ==
  LET after[k \in Turns(h)] ==
        IF k = 0 THEN <<h, b>> ELSE SwallowedByPrev(after[k - 1])
      m == after[Cardinality(DOMAIN h.hdr)]
  IN  <<[m[1] EXCEPT !.hdr = SetPhys(@, NextPhysical(h, b), m[2])], m[2]>>

Merge(h, b) ==
  LET m == MergeBackward(h, b) IN <<MergeForward(m[1], m[2]), m[2]>>

\* get_forward_available_size and get_backward_available_size.
FreeBehind(h, b) ==
  LET sum[c \in DOMAIN h.hdr] ==
        LET n == NextPhysical(h, c) IN
        IF FreeAt(h, n) THEN h.hdr[n].size + sum[n] ELSE 0
  IN  sum[b]

FreeBefore(h, b) ==
  LET sum[c \in DOMAIN h.hdr] ==
        LET p == PrevPhysical(h, c) IN
        IF FreeAt(h, p) THEN h.hdr[p].size + sum[p] ELSE 0
  IN  sum[b]

InPlaceAvailable(h, b) == h.hdr[b].size + FreeBehind(h, b) + FreeBefore(h, b)

-----------------------------------------------------------------------------
(* allocate                                                                *)

GrossSize(n) == AlignUp(n + Header)

\* find_in: only the first block of a list is looked at.
Fits(h, c, n) ==
  LET b == h.bucket[c] IN b # Nil /\ h.hdr[b].size >= GrossSize(n)

\* The first block of the first class that is not below the request's and
\* whose first block is large enough.
FindProperBlock(h, n) ==
  LET fit == {c \in Classes(levels) :
                NotBefore(c, SplitSize(GrossSize(n))) /\ Fits(h, c, n)}
  IN  IF fit = {} THEN Nil
      ELSE h.bucket[CHOOSE c \in fit : \A d \in fit : NotBefore(d, c)]

MarkUsed(h, b) == [h EXCEPT !.hdr[b].used = TRUE]
MarkFree(h, b) == [h EXCEPT !.hdr[b].used = FALSE]

WorthSplitting(h, b, n) == h.hdr[b].size - GrossSize(n) >= MinRest

\* Seeded fault: the block behind keeps its old predecessor.
SplitForgetsNext(h, b, n) ==
  LET rest == b + GrossSize(n)
      h1 == RemoveFromList(h, b)
      h2 == [h1 EXCEPT !.hdr = [c \in DOMAIN h1.hdr \cup {rest} |->
               IF c = rest THEN NewHeader(h.hdr[b].size - GrossSize(n), b)
               ELSE h1.hdr[c]]]
      h3 == InsertToList(h2, rest)
  IN  IF ~WorthSplitting(h, b, n) THEN h
      ELSE [h3 EXCEPT !.hdr[b].size = GrossSize(n), !.hdr[b].used = TRUE]

\* The block has been taken from its list already; it is removed again.
SplitBlock(h, b, n) ==
  LET rest == b + GrossSize(n)
      h1 == RemoveFromList(h, b)
      h2 == [h1 EXCEPT !.hdr = [c \in DOMAIN h1.hdr \cup {rest} |->
               IF c = rest THEN NewHeader(h.hdr[b].size - GrossSize(n), b)
               ELSE h1.hdr[c]]]
      h3 == [h2 EXCEPT !.hdr = SetPhys(@, NextPhysical(h, b), rest)]
      h4 == InsertToList(h3, rest)
  IN  IF ~WorthSplitting(h, b, n) THEN h
      ELSE [h4 EXCEPT !.hdr[b].size = GrossSize(n), !.hdr[b].used = TRUE]

\* The heap after allocate has chosen block b.
Allocated(h, b, n) == MarkUsed(SplitBlock(RemoveFromList(h, b), b, n), b)

-----------------------------------------------------------------------------
(* init                                                                    *)

\* region::init: with how many levels the table and the memory behind it are
\* laid out.  The search goes down from the levels of the whole length and
\* stops where the memory left has at least as many levels as the table.
TableLevels(length) ==
  LET Enough(k) == LevelCount(length - k * TableRow) >= k
      tried == 1..LevelCount(length)
  IN  IF \E k \in tried : Enough(k)
      THEN CHOOSE k \in tried : Enough(k) /\ \A j \in tried : Enough(j) => j <= k
      ELSE 0

TableBytes(length) == TableLevels(length) * TableRow

Commit(kind, from, to, first_class) ==
  /\ impl = kind
  /\ begin = from
  /\ end = to
  /\ levels = LevelCount(to - from)
  /\ damage = {}
  /\ heap = [hdr    |-> [b \in {from} |-> NewHeader(to - from, Nil)],
             bucket |-> [c \in Classes(levels) |->
                           IF c = <<levels - 1, first_class>> THEN from
                           ELSE Nil]]

\* The table is at the start of the region, the heap behind it.
RegionInit ==
  LET from == AlignUp(TableBytes(HeapEnd)) IN
  Commit("region", from, HeapEnd, SplitSize(HeapEnd - from)[2])

\* commit_region cuts the region at MaximumMemory; the sub-class in which the
\* first block is filed was computed before.
FixedInit ==
  LET to == Min({HeapEnd, MaximumMemory}) IN
  Commit("fixed", 0, to, SplitSize(HeapEnd)[2])

TlsfInit == RegionInit \/ FixedInit

-----------------------------------------------------------------------------
(* alloc, free and realloc                                                 *)

Usable == FollowDamage \/ damage = {}

TlsfAlloc(n) ==
  LET b == FindProperBlock(heap, n) IN
  /\ Usable
  /\ b # Nil
  /\ heap' = Allocated(heap, b, n)
  /\ Obtain(b + Header, n)
  /\ UNCHANGED <<impl, levels, begin, end, damage>>

TlsfAllocFails(n) ==
  /\ Usable
  /\ FindProperBlock(heap, n) = Nil
  /\ UNCHANGED <<tlsfVars, live>>

\* Seeded fault: a block that has merged backward is taken to be in a list.
FreedUnlisted(h, b) ==
  LET m == Merge(MarkFree(h, b), b) IN
  IF m[2] # b THEN m[1] ELSE InsertToList(m[1], b)

Freed(h, b) ==
  LET m == Merge(MarkFree(h, b), b) IN InsertToList(m[1], m[2])

\* check_block_valid: a block that is not marked used is left alone.  So is
\* one that a neighbour has swallowed, for its header still lies there.
ValidBlock(b) == b \in DOMAIN heap.hdr /\ heap.hdr[b].used

TlsfFree(p) ==
  LET b == p - Header IN
  /\ Usable
  /\ heap' = IF ValidBlock(b) THEN Freed(heap, b) ELSE heap
  /\ GiveUp(p)
  /\ UNCHANGED <<impl, levels, begin, end, damage>>

\* Seeded fault: the in-place branch does not count the header.
InPlaceWithoutHeader(h, b, n) == InPlaceAvailable(h, b) >= AlignUp(n)

FitsInPlace(h, b, n) == InPlaceAvailable(h, b) >= GrossSize(n)

\* realloc, the block and its free neighbours suffice: they are merged, the
\* old header is marked free where it lies and the merged block is split.  A
\* merged block that is not split stays marked free; an old header that lies
\* in the payload by then has overwritten a word of it.
ReallocInPlace(p, n) ==
  LET b == p - Header
      m == Merge(heap, b)
      g == m[2]
      h == IF g = b THEN MarkFree(m[1], b) ELSE m[1]
      s == SplitBlock(h, g, n)
      kept == Min({live[p], n})
  IN
  /\ Usable
  /\ ValidBlock(b)
  /\ FitsInPlace(heap, b, n)
  /\ heap' = s
  /\ Exchange(p, g + Header, n)
  /\ damage' = damage \cup
       (IF s.hdr[g].used THEN {} ELSE {"free while in use"}) \cup
       (IF g # b /\ b + Header - 4 < g + Header + kept
        THEN {"payload overwritten"} ELSE {})
  /\ UNCHANGED <<impl, levels, begin, end>>

\* realloc, a block elsewhere: the contents are copied, the old block freed.
ReallocMoves(p, n) ==
  LET b == p - Header
      a == FindProperBlock(heap, n)
  IN
  /\ Usable
  /\ ValidBlock(b)
  /\ ~FitsInPlace(heap, b, n)
  /\ a # Nil
  /\ heap' = Freed(Allocated(heap, a, n), b)
  /\ Exchange(p, a + Header, n)
  /\ UNCHANGED <<impl, levels, begin, end, damage>>

ReallocFails(p, n) ==
  LET b == p - Header IN
  /\ Usable
  /\ \/ ~ValidBlock(b)
     \/ ValidBlock(b) /\ ~FitsInPlace(heap, b, n) 
          /\ FindProperBlock(heap, n) = Nil
  /\ UNCHANGED <<tlsfVars, live>>

\* The model leaves a damaged heap alone unless it is told to follow it.
DamagedHeap == ~Usable /\ UNCHANGED <<tlsfVars, live>>

TlsfNext ==
  \/ \E n \in Requests : TlsfAlloc(n) \/ TlsfAllocFails(n)
  \/ \E p \in Held : TlsfFree(p)
  \/ \E p \in Held, n \in Requests :
       ReallocInPlace(p, n) \/ ReallocMoves(p, n) \/ ReallocFails(p, n)
  \/ DamagedHeap

=============================================================================
