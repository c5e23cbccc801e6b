--------------------------- MODULE ListHeapProofs ---------------------------
(***************************************************************************)
(* Proofs about ListHeap for every size of the heap and of the requests:   *)
(* the blocks tile the heap, the used ones are the clients', dlist leaves  *)
(* no free neighbours, and both allocators implement Heap.                 *)
(***************************************************************************)
EXTENDS ListHeap, TLAPS

\* The block that free works on is free: merge_backward does not look.
CursorFree == stage \in {"forward", "backward"} => ~blk[cursor].used

\* Two free neighbours are on their way to be merged.
FreePair(b) == Free(b) /\ Free(EndOf(b))

Pending(b) ==
  \/ stage = "forward" /\ (b = cursor \/ EndOf(b) = cursor)
  \/ stage = "backward" /\ EndOf(b) = cursor

PairsPending == policy = "dlist" => \A b \in Starts : FreePair(b) => Pending(b)

IInv == ListTypeOK /\ Tiled /\ HeldAreUsed /\ CursorFree /\ PairsPending

-----------------------------------------------------------------------------
(* Facts about one state                                                   *)

LEMMA HeaderSizes == HeaderSize \in {8, 16}
BY DEF HeaderSize

LEMMA Sizes ==
  ASSUME want \in Nat
  PROVE  /\ AlignUp(want) \in Nat /\ want <= AlignUp(want)
         /\ FullSize \in Nat /\ want + HeaderSize <= FullSize
         /\ HeaderSize <= FullSize
<1>1. AlignUp(want) \in Nat /\ want <= AlignUp(want)
  BY DEF AlignUp, Align
<1>2. QED
  BY <1>1, HeaderSizes DEF FullSize

\* Addresses and sizes are numbers.
LEMMA BlockNumbers ==
  ASSUME ListTypeOK, NEW b \in Starts
  PROVE  /\ b \in Nat /\ blk[b].size \in Nat /\ blk[b].used \in BOOLEAN
         /\ EndOf(b) \in Nat /\ EndOf(b) = b + blk[b].size
BY DEF ListTypeOK, EndOf

\* Two blocks do not overlap, and no two end at the same place.
LEMMA Disjoint ==
  ASSUME ListTypeOK, Tiled, NEW b \in Starts, NEW c \in Starts, b # c
  PROVE  /\ EndOf(b) <= c \/ EndOf(c) <= b
         /\ b < EndOf(b) /\ EndOf(b) # EndOf(c)
<1>1. b \in Nat /\ c \in Nat /\ EndOf(b) \in Nat /\ EndOf(c) \in Nat
  BY BlockNumbers
<1>2. b < c \/ c < b
  BY <1>1
<1>3. (b < c => EndOf(b) <= c) /\ (c < b => EndOf(c) <= b)
  BY DEF Tiled
<1>4. b < EndOf(b) /\ c < EndOf(c)
  BY BlockNumbers, HeaderSizes DEF Tiled
<1>5. QED
  BY <1>1, <1>2, <1>3, <1>4

-----------------------------------------------------------------------------
(* A block absorbs the free one behind it                                  *)

LEMMA AbsorbShape ==
  ASSUME ListTypeOK, Tiled, NEW b \in Starts, EndOf(b) \in Starts, Absorb(b)
  PROVE  /\ Starts' = Starts \ {EndOf(b)}
         /\ b \in Starts' /\ 0 \in Starts'
         /\ blk'[b].size = blk[b].size + blk[EndOf(b)].size
         /\ EndOf(b)' = EndOf(EndOf(b))
         /\ \A c \in Starts' \ {b} : blk'[c] = blk[c] /\ EndOf(c)' = EndOf(c)
         /\ \A c \in Starts' : blk'[c].used = blk[c].used
<1> DEFINE n == EndOf(b)
<1>1. n \in Starts /\ b < n /\ b \in Nat /\ n \in Nat
  BY BlockNumbers, HeaderSizes DEF Tiled
<1>2. blk' = [c \in Starts \ {n} |->
                IF c = b THEN Block(blk[b].size + blk[n].size, blk[b].used)
                ELSE blk[c]]
  BY DEF Absorb
<1>3. Starts' = Starts \ {n}
  BY <1>2 DEF Starts
<1>4. b # n /\ 0 # n /\ b \in Starts' /\ 0 \in Starts'
  BY <1>1, <1>3 DEF Tiled
<1>5. blk'[b] = Block(blk[b].size + blk[n].size, blk[b].used)
  BY <1>2, <1>3, <1>4
<1>6. \A c \in Starts' \ {b} : blk'[c] = blk[c]
  BY <1>2, <1>3
<1>7. EndOf(b)' = EndOf(n)
  <2>1. EndOf(b)' = b + blk'[b].size
    BY DEF EndOf
  <2>2. blk'[b].size = blk[b].size + blk[n].size
    BY <1>5 DEF Block
  <2>3. n = b + blk[b].size /\ EndOf(n) = n + blk[n].size
        /\ blk[b].size \in Nat /\ blk[n].size \in Nat
    BY <1>1, BlockNumbers
  <2>4. QED
    BY <1>1, <2>1, <2>2, <2>3
<1>8. \A c \in Starts' \ {b} : EndOf(c)' = EndOf(c)
  BY <1>6 DEF EndOf
<1>9. \A c \in Starts' : blk'[c].used = blk[c].used
  BY <1>5, <1>6 DEF Block
<1>10. blk'[b].size = blk[b].size + blk[n].size
  BY <1>5 DEF Block
<1>11. QED
  BY <1>3, <1>4, <1>6, <1>7, <1>8, <1>9, <1>10

LEMMA AbsorbTypes ==
  ASSUME ListTypeOK, Tiled, NEW b \in Starts, EndOf(b) \in Starts, Absorb(b)
  PROVE  blk' \in [Starts' -> [size : Nat, used : BOOLEAN]] /\ Starts' \subseteq Nat
<1> DEFINE n == EndOf(b)
<1>1. blk[b].size + blk[n].size \in Nat /\ blk[b].used \in BOOLEAN
  BY BlockNumbers
<1>2. \A c \in Starts : blk[c] \in [size : Nat, used : BOOLEAN]
  BY DEF ListTypeOK
<1>3. Block(blk[b].size + blk[n].size, blk[b].used) \in [size : Nat, used : BOOLEAN]
  BY <1>1 DEF Block
<1>4. blk' \in [Starts \ {n} -> [size : Nat, used : BOOLEAN]]
  BY <1>2, <1>3 DEF Absorb
<1>5. QED
  BY <1>4, AbsorbShape DEF ListTypeOK

LEMMA AbsorbTiles ==
  ASSUME ListTypeOK, Tiled, NEW b \in Starts, EndOf(b) \in Starts, Absorb(b),
         UNCHANGED policy
  PROVE  Tiled'
<1> DEFINE n == EndOf(b)
<1>1. HeaderSize' = HeaderSize
  BY DEF HeaderSize
<1>2. n \in Nat /\ b \in Nat /\ b < n
  BY BlockNumbers, HeaderSizes DEF Tiled
<1>3. SUFFICES ASSUME NEW c \in Starts'
               PROVE  /\ blk'[c].size >= HeaderSize
                      /\ EndOf(c)' = ListEnd \/ EndOf(c)' \in Starts'
                      /\ EndOf(c)' <= ListEnd
                      /\ \A d \in Starts' : c < d => EndOf(c)' <= d
  BY <1>1, AbsorbShape DEF Tiled
<1>4. CASE c = b
  <2>1. /\ blk'[c].size = blk[b].size + blk[n].size
        /\ EndOf(c)' = EndOf(n)
    <3>1. blk'[b].size = blk[b].size + blk[n].size /\ EndOf(b)' = EndOf(n)
      BY AbsorbShape
    <3>2. QED
      BY <1>4, <3>1 DEF EndOf
  <2>2. blk'[c].size >= HeaderSize
    BY <2>1, HeaderSizes, BlockNumbers DEF Tiled
  <2>3. n < EndOf(n) /\ EndOf(n) \in Nat
    BY BlockNumbers, HeaderSizes DEF Tiled
  <2>4. EndOf(c)' = ListEnd \/ EndOf(c)' \in Starts'
    BY <1>2, <2>1, <2>3, AbsorbShape DEF Tiled
  <2>5. ASSUME NEW d \in Starts', c < d PROVE EndOf(c)' <= d
    <3>1. d \in Starts /\ d # n /\ d \in Nat
      BY AbsorbShape, BlockNumbers
    <3>2. n <= d
      BY <1>4, <2>5, <3>1 DEF Tiled
    <3>3. n < d
      BY <1>2, <3>1, <3>2
    <3>4. QED
      BY <2>1, <3>1, <3>3 DEF Tiled
  <2>6. QED
    BY <2>1, <2>2, <2>4, <2>5 DEF Tiled
<1>5. CASE c # b
  <2>1. c \in Starts /\ blk'[c] = blk[c] /\ EndOf(c)' = EndOf(c) /\ Starts' \subseteq Starts
    BY <1>5, AbsorbShape
  <2>2. EndOf(c) # n
    BY <1>5, <2>1, Disjoint
  <2>3. EndOf(c)' = ListEnd \/ EndOf(c)' \in Starts'
    BY <2>1, <2>2, AbsorbShape DEF Tiled
  <2>4. QED
    BY <2>1, <2>3 DEF Tiled
<1>6. QED
  BY <1>4, <1>5

\* The absorbed block is free, so the clients' blocks stay.
LEMMA AbsorbHeld ==
  ASSUME ListTypeOK, Tiled, HeldAreUsed, NEW b \in Starts, Free(EndOf(b)),
         Absorb(b), UNCHANGED <<policy, live>>
  PROVE  HeldAreUsed'
<1> DEFINE n == EndOf(b)
<1>1. n \in Starts /\ ~blk[n].used
  BY DEF Free
<1>2. HeaderSize' = HeaderSize /\ Held' = Held /\ live' = live
  BY DEF HeaderSize, Held
<1>3. /\ Starts' = Starts \ {n} /\ EndOf(b)' = EndOf(n)
      /\ \A c \in Starts' : blk'[c].used = blk[c].used
      /\ \A c \in Starts' \ {b} : EndOf(c)' = EndOf(c)
  BY <1>1, AbsorbShape
<1>4. ASSUME NEW p \in Held, NEW c \in Starts, c = p - HeaderSize
      PROVE  c \in Starts' /\ blk'[c].used /\ p + live[p] <= EndOf(c)'
  <2>1. blk[c].used /\ p + live[p] <= EndOf(c)
    BY <1>4 DEF HeldAreUsed
  <2>2. c \in Starts'
    BY <1>1, <1>3, <2>1
  <2>3. blk'[c].used
    BY <1>3, <2>1, <2>2
  <2>4. p + live[p] <= EndOf(c)'
    <3>1. CASE c = b
      <4>1. EndOf(c)' = EndOf(n)
        BY <1>3, <3>1
      <4>2. EndOf(n) \in Nat /\ n \in Nat /\ n < EndOf(n)
        BY <1>1, BlockNumbers, HeaderSizes DEF Tiled
      <4>3. p + live[p] <= n /\ p + live[p] \in Nat
        BY <2>1, <3>1 DEF ListTypeOK
      <4>4. QED
        BY <4>1, <4>2, <4>3
    <3>2. CASE c # b
      BY <1>3, <2>1, <2>2, <3>2
    <3>3. QED
      BY <3>1, <3>2
  <2>5. QED
    BY <2>2, <2>3, <2>4
<1>5. \A p \in Held : p - HeaderSize \in Starts
  BY DEF HeldAreUsed
<1>6. QED
  BY <1>2, <1>3, <1>4, <1>5 DEF HeldAreUsed

-----------------------------------------------------------------------------
(* The inductive invariant                                                 *)

LEMMA InitialState == ListInit /\ Abstract!HeapInit => IInv
<1> SUFFICES ASSUME ListInit, Abstract!HeapInit PROVE IInv
  OBVIOUS
<1> USE DEF ListInit
<1>1. Starts = {0} /\ blk[0] = Block(ListEnd, FALSE) /\ EndOf(0) = ListEnd
      /\ ListEnd \in Nat
  BY ListEndAssumption DEF Starts, EndOf, Block
<1>2. Held = {}
  BY DEF Abstract!HeapInit, Held
<1>3. ListTypeOK
  <2>1. blk \in [Starts -> [size : Nat, used : BOOLEAN]]
    BY <1>1 DEF Block
  <2>2. live \in [Held -> Nat]
    BY <1>2 DEF Abstract!HeapInit
  <2>3. QED
    BY <1>1, <1>2, <2>1, <2>2 DEF ListTypeOK, Stages
<1>4. Tiled
  BY <1>1, HeaderSizes DEF Tiled, Block
<1>5. HeldAreUsed
  BY <1>1, <1>2 DEF HeldAreUsed, Block
<1>6. CursorFree
  BY DEF CursorFree
<1>7. PairsPending
  <2>1. ListEnd # 0
    BY <1>1, HeaderSizes
  <2>2. QED
    BY <1>1, <2>1 DEF PairsPending, FreePair, Free
<1>8. QED
  BY <1>3, <1>4, <1>5, <1>6, <1>7 DEF IInv

\* What is said of the blocks and of the clients alone.
LEMMA ChainUnchanged ==
  ASSUME UNCHANGED <<policy, blk, live>>
  PROVE  /\ Starts' = Starts /\ Held' = Held /\ HeaderSize' = HeaderSize
         /\ (Tiled => Tiled') /\ (HeldAreUsed => HeldAreUsed')
         /\ \A b : EndOf(b)' = EndOf(b) /\ Free(b)' = Free(b)
                  /\ FreePair(b)' = FreePair(b)
BY DEF Tiled, HeldAreUsed, Starts, Held, HeaderSize, EndOf, Free, FreePair

\* alloc and its search, as long as no block changes.
LEMMA SearchStep ==
  ASSUME IInv,
         (\E n \in Requests : ListAlloc(n)) \/ SearchNext \/ SearchFails
  PROVE  IInv'
<1> USE DEF ListAlloc, SearchNext, SearchFails, Return
<1>1. UNCHANGED <<policy, blk, live>> /\ stage' \in {"search", "idle"}
  OBVIOUS
<1>2. Tiled' /\ HeldAreUsed'
  BY <1>1, ChainUnchanged DEF IInv
<1>3. 0 \in Starts /\ cursor' \in Starts /\ want' \in Nat
  BY RequestsAssumption DEF IInv, ListTypeOK, Tiled
<1>4. ListTypeOK'
  BY <1>1, <1>3, ChainUnchanged DEF IInv, ListTypeOK, Stages
<1>5. CursorFree'
  BY <1>1 DEF CursorFree
<1>6. PairsPending'
  <2>1. stage \in {"search", "idle"}
    OBVIOUS
  <2>2. QED
    BY <1>1, <2>1, ChainUnchanged DEF IInv, PairsPending, Pending
<1>7. QED
  BY <1>2, <1>4, <1>5, <1>6 DEF IInv

\* free_list merges while it searches.
LEMMA SearchMergeStep ==
  ASSUME IInv, SearchMerge
  PROVE  IInv'
<1> USE DEF SearchMerge, Unmerged
<1>1. /\ policy = "free_list" /\ cursor \in Starts /\ EndOf(cursor) \in Starts
      /\ Free(EndOf(cursor)) /\ Absorb(cursor)
      /\ UNCHANGED <<policy, stage, cursor, want, live>>
  BY DEF Free
<1>2. Tiled' /\ HeldAreUsed'
  BY <1>1, AbsorbTiles, AbsorbHeld DEF IInv
<1>3. ListTypeOK'
  <2>1. cursor' \in Starts'
    BY <1>1, AbsorbShape DEF IInv
  <2>2. blk' \in [Starts' -> [size : Nat, used : BOOLEAN]] /\ Starts' \subseteq Nat
    BY <1>1, AbsorbTypes DEF IInv
  <2>3. QED
    BY <1>1, <2>1, <2>2 DEF IInv, ListTypeOK, Held
<1>4. CursorFree' /\ PairsPending'
  BY <1>1 DEF CursorFree, PairsPending
<1>5. QED
  BY <1>2, <1>3, <1>4 DEF IInv

-----------------------------------------------------------------------------
(* alloc takes a block                                                     *)

\* The piece the client gets lies in a block nobody holds.
LEMMA TakenPieceFits ==
  ASSUME IInv, Suits(cursor)
  PROVE  Abstract!Fits(live, cursor + HeaderSize, want)
<1> DEFINE p == cursor + HeaderSize
<1>1. /\ cursor \in Starts /\ ~blk[cursor].used /\ blk[cursor].size >= FullSize
      /\ want \in Nat /\ ListTypeOK /\ Tiled /\ HeldAreUsed
  BY DEF Suits, Free, IInv, ListTypeOK
<1>2. /\ cursor \in Nat /\ blk[cursor].size \in Nat
      /\ EndOf(cursor) = cursor + blk[cursor].size /\ EndOf(cursor) <= ListEnd
  BY <1>1, BlockNumbers DEF Tiled
<1>3. p \in Nat /\ p + want \in Nat /\ p + want <= EndOf(cursor) /\ cursor <= p
  BY <1>1, <1>2, Sizes, HeaderSizes
<1>4. 0 <= p /\ p + want <= HeapEnd
  BY <1>2, <1>3, ListEndAssumption, HeapEndAssumption
<1>5. p \notin Held
  <2>1. p - HeaderSize = cursor
    BY <1>2, HeaderSizes
  <2>2. QED
    BY <1>1, <2>1 DEF HeldAreUsed
<1>6. ASSUME NEW q \in Held PROVE p + want <= q \/ q + live[q] <= p
  <2>1. PICK b \in Starts : b = q - HeaderSize /\ blk[b].used /\ q + live[q] <= EndOf(b)
    BY <1>1 DEF HeldAreUsed
  <2>2. b # cursor
    BY <1>1, <2>1
  <2>3. EndOf(b) <= cursor \/ EndOf(cursor) <= b
    BY <1>1, <2>2, Disjoint
  <2>4. b \in Nat /\ q \in Nat /\ live[q] \in Nat /\ EndOf(b) \in Nat /\ b <= q
    BY <1>1, <2>1, HeaderSizes, BlockNumbers DEF ListTypeOK
  <2>5. CASE EndOf(b) <= cursor
    BY <1>2, <1>3, <2>1, <2>4, <2>5
  <2>6. CASE EndOf(cursor) <= b
    BY <1>2, <1>3, <2>4, <2>6
  <2>7. QED
    BY <2>3, <2>5, <2>6
<1>7. QED
  BY <1>4, <1>5, <1>6 DEF Abstract!Fits, Held

\* The clients' pointers after alloc.
LEMMA TakenPointers ==
  ASSUME IInv, SearchTake
  PROVE  LET p == cursor + HeaderSize IN
         /\ Held' = Held \cup {p} /\ p \notin Held
         /\ live'[p] = want /\ \A q \in Held : live'[q] = live[q]
         /\ Held' \subseteq Nat /\ live' \in [Held' -> Nat]
<1> DEFINE p == cursor + HeaderSize
<1>1. live' = [q \in Held \cup {p} |-> IF q = p THEN want ELSE live[q]]
  BY DEF SearchTake, Obtain, Abstract!With, Held
<1>2. p \notin Held
  BY TakenPieceFits DEF SearchTake, Abstract!Fits, Held
<1>3. Held' = Held \cup {p}
  BY <1>1 DEF Held
<1>4. cursor \in Nat /\ want \in Nat /\ p \in Nat
  BY HeaderSizes DEF IInv, ListTypeOK
<1>5. live' \in [Held' -> Nat] /\ Held' \subseteq Nat
  BY <1>1, <1>3, <1>4 DEF IInv, ListTypeOK
<1>6. QED
  BY <1>1, <1>2, <1>3, <1>5


\* The block is cut in two if the rest is worth it: the rest starts where no
\* block started.
LEMMA CutShape ==
  ASSUME IInv, NEW b \in Starts, WorthCutting(b), blk' = Cut(b),
         NEW rest, rest = b + FullSize
  PROVE  /\ rest \in Nat /\ rest \notin Starts /\ b < rest /\ rest < EndOf(b)
         /\ Starts' = Starts \cup {rest}
         /\ blk'[b] = Block(FullSize, TRUE) /\ EndOf(b)' = rest
         /\ blk'[rest] = Block(blk[b].size - FullSize, FALSE)
         /\ EndOf(rest)' = EndOf(b) /\ blk[b].size - FullSize >= HeaderSize
         /\ \A c \in Starts \ {b} : blk'[c] = blk[c] /\ EndOf(c)' = EndOf(c)
<1>1. /\ ListTypeOK /\ Tiled /\ want \in Nat /\ b \in Nat /\ blk[b].size \in Nat
      /\ EndOf(b) = b + blk[b].size
  BY BlockNumbers DEF IInv, ListTypeOK
<1>2. /\ FullSize \in Nat /\ HeaderSize <= FullSize /\ HeaderSize \in {8, 16}
      /\ blk[b].size > HeaderSize + FullSize + 8
  BY <1>1, Sizes, HeaderSizes DEF WorthCutting, MinPayload, Align
<1>3. rest \in Nat /\ b < rest /\ rest < EndOf(b) /\ blk[b].size - FullSize >= HeaderSize
  BY <1>1, <1>2
<1>4. rest \notin Starts
  BY <1>1, <1>3 DEF Tiled
<1>5. blk' = [c \in Starts \cup {rest} |->
               CASE c = b    -> Block(FullSize, TRUE)
                 [] c = rest -> Block(blk[b].size - FullSize, FALSE)
                 [] OTHER    -> blk[c]]
  BY DEF Cut
<1>6. Starts' = Starts \cup {rest}
  BY <1>5 DEF Starts
<1>7. blk'[b] = Block(FullSize, TRUE)
  <2>1. b # rest
    BY <1>1, <1>3
  <2>2. QED
    BY <1>5, <2>1
<1>8. blk'[rest] = Block(blk[b].size - FullSize, FALSE)
  BY <1>3, <1>1, <1>5
<1>9. \A c \in Starts \ {b} : blk'[c] = blk[c]
  BY <1>4, <1>5
<1>10. EndOf(b)' = rest
  BY <1>7 DEF EndOf, Block
<1>11. EndOf(rest)' = EndOf(b)
  <2>1. EndOf(rest)' = rest + (blk[b].size - FullSize)
    BY <1>8 DEF EndOf, Block
  <2>2. QED
    BY <1>1, <1>2, <2>1
<1>12. \A c \in Starts \ {b} : EndOf(c)' = EndOf(c)
  BY <1>9 DEF EndOf
<1>13. QED
  BY <1>3, <1>4, <1>6, <1>7, <1>8, <1>9, <1>10, <1>11, <1>12

LEMMA CutStep ==
  ASSUME IInv, stage = "search", NEW b, Suits(b), WorthCutting(b),
         blk' = Cut(b), UNCHANGED policy, NEW rest, rest = b + FullSize
  PROVE  /\ blk' \in [Starts' -> [size : Nat, used : BOOLEAN]]
         /\ Starts' \subseteq Nat
         /\ Tiled'
         /\ Starts \subseteq Starts'
         /\ \A c \in Starts' : blk'[c].used <=> c = b \/ (c \in Starts /\ blk[c].used)
         /\ \A c \in Starts \ {b} : EndOf(c)' = EndOf(c)
         /\ b + FullSize <= EndOf(b)'
         /\ policy = "dlist" => \A c \in Starts' : ~FreePair(c)'
<1>1. /\ b \in Starts /\ ~blk[b].used /\ blk' = Cut(b) /\ stage = "search"
      /\ UNCHANGED policy /\ ListTypeOK /\ Tiled /\ want \in Nat
  BY DEF Suits, Free, IInv, ListTypeOK
<1>2. HeaderSize' = HeaderSize /\ HeaderSize \in Nat /\ FullSize \in Nat
      /\ HeaderSize <= FullSize
  BY <1>1, Sizes, HeaderSizes DEF HeaderSize
<1>3. /\ rest \in Nat /\ rest \notin Starts /\ b < rest /\ rest < EndOf(b)
      /\ Starts' = Starts \cup {rest}
      /\ blk'[b] = Block(FullSize, TRUE) /\ EndOf(b)' = rest
      /\ blk'[rest] = Block(blk[b].size - FullSize, FALSE)
      /\ EndOf(rest)' = EndOf(b) /\ blk[b].size - FullSize >= HeaderSize
      /\ \A c \in Starts \ {b} : blk'[c] = blk[c] /\ EndOf(c)' = EndOf(c)
  BY <1>1, CutShape
<1>4. b \in Nat /\ EndOf(b) \in Nat /\ blk[b].size \in Nat
      /\ blk[b].size - FullSize \in Nat
  BY <1>1, <1>2, <1>3, BlockNumbers
<1>5. blk' \in [Starts' -> [size : Nat, used : BOOLEAN]] /\ Starts' \subseteq Nat
  <2>1. Block(FullSize, TRUE) \in [size : Nat, used : BOOLEAN]
        /\ Block(blk[b].size - FullSize, FALSE) \in [size : Nat, used : BOOLEAN]
    BY <1>2, <1>4 DEF Block
  <2>2. \A c \in Starts : blk[c] \in [size : Nat, used : BOOLEAN]
    BY <1>1 DEF ListTypeOK
  <2>3. \A c \in Starts' : blk'[c] \in [size : Nat, used : BOOLEAN]
    BY <1>3, <2>1, <2>2
  <2>4. blk' = [c \in Starts' |-> blk'[c]]
    BY <1>1, <1>3 DEF Cut, Starts
  <2>5. QED
    BY <1>1, <1>3, <2>3, <2>4 DEF ListTypeOK
<1>6. Tiled'
  <2>1. SUFFICES ASSUME NEW c \in Starts'
                 PROVE  /\ blk'[c].size >= HeaderSize
                        /\ EndOf(c)' = ListEnd \/ EndOf(c)' \in Starts'
                        /\ EndOf(c)' <= ListEnd
                        /\ \A d \in Starts' : c < d => EndOf(c)' <= d
    BY <1>1, <1>2, <1>3 DEF Tiled
  <2>2. CASE c = b
    <3>1. blk'[c].size = FullSize /\ EndOf(c)' = rest /\ rest <= ListEnd
      BY <1>1, <1>3, <1>4, <2>2, ListEndAssumption DEF Block, Tiled
    <3>2. ASSUME NEW d \in Starts, c < d PROVE rest <= d
      <4>1. EndOf(b) <= d /\ d \in Nat
        BY <1>1, <2>2, <3>2, BlockNumbers DEF Tiled
      <4>2. QED
        BY <1>3, <1>4, <4>1
    <3>3. QED
      BY <1>2, <1>3, <3>1, <3>2
  <2>3. CASE c = rest
    <3>1. blk'[c].size = blk[b].size - FullSize /\ EndOf(c)' = EndOf(b)
      BY <1>3, <2>3 DEF Block
    <3>2. ASSUME NEW d \in Starts, rest < d PROVE EndOf(b) <= d
      <4>1. b < d
        <5>1. d \in Nat
          BY <1>1, <3>2 DEF ListTypeOK
        <5>2. QED
          BY <1>3, <1>4, <3>2, <5>1
      <4>2. QED
        BY <1>1, <4>1 DEF Tiled
    <3>3. QED
      BY <1>1, <1>3, <1>4, <2>3, <3>1, <3>2 DEF Tiled
  <2>4. CASE c \in Starts \ {b}
    <3>1. blk'[c] = blk[c] /\ EndOf(c)' = EndOf(c) /\ c \in Nat /\ EndOf(c) \in Nat
      BY <1>1, <1>3, <2>4, BlockNumbers
    <3>2. c < rest => EndOf(c) <= rest
      <4>1. EndOf(c) <= b \/ EndOf(b) <= c
        BY <1>1, <2>4, Disjoint
      <4>2. QED
        BY <1>3, <1>4, <3>1, <4>1
    <3>3. QED
      BY <1>1, <1>3, <2>4, <3>1, <3>2 DEF Tiled
  <2>5. QED
    BY <1>3, <2>2, <2>3, <2>4
<1>7. \A c \in Starts' : blk'[c].used <=> c = b \/ (c \in Starts /\ blk[c].used)
  BY <1>1, <1>3 DEF Block
<1>8. ASSUME policy = "dlist", NEW c \in Starts' PROVE ~FreePair(c)'
  <2>1. \A d \in Starts : ~(~blk[d].used /\ EndOf(d) \in Starts /\ ~blk[EndOf(d)].used)
    BY <1>1, <1>8 DEF IInv, PairsPending, FreePair, Free, Pending
  <2>2. CASE c = b
    BY <1>1, <1>3, <1>7, <2>2 DEF FreePair, Free
  <2>3. CASE c = rest
    <3>1. EndOf(c)' = EndOf(b) /\ EndOf(b) # rest
      BY <1>3, <1>4, <2>3
    <3>2. EndOf(b) \in Starts' => EndOf(b) \in Starts /\ blk[EndOf(b)].used
      BY <1>1, <1>3, <2>1, <3>1
    <3>3. QED
      BY <1>7, <3>1, <3>2 DEF FreePair, Free
  <2>4. CASE c \in Starts \ {b}
    <3>1. EndOf(c)' = EndOf(c) /\ (blk'[c].used <=> blk[c].used)
      BY <1>3, <2>4
    <3>2. EndOf(c) # rest
      <4>1. EndOf(c) <= b \/ EndOf(b) <= c
        BY <1>1, <2>4, Disjoint
      <4>2. c < EndOf(c) /\ c \in Nat /\ EndOf(c) \in Nat
        BY <1>1, <2>4, Disjoint, BlockNumbers
      <4>3. QED
        BY <1>3, <1>4, <4>1, <4>2
    <3>3. EndOf(c) \in Starts' => EndOf(c) \in Starts
      BY <1>3, <3>2
    <3>4. QED
      BY <1>7, <2>1, <2>4, <3>1, <3>3 DEF FreePair, Free
  <2>5. QED
    BY <1>3, <2>2, <2>3, <2>4
<1>9. Starts \subseteq Starts' /\ b + FullSize <= EndOf(b)'
  BY <1>2, <1>3, <1>4
<1>10. QED
  BY <1>3, <1>5, <1>6, <1>7, <1>8, <1>9

\* Otherwise the client gets the whole block.
LEMMA WholeStep ==
  ASSUME IInv, stage = "search", NEW b, Suits(b),
         blk' = [blk EXCEPT ![b].used = TRUE], UNCHANGED policy
  PROVE  /\ blk' \in [Starts' -> [size : Nat, used : BOOLEAN]]
         /\ Starts' \subseteq Nat
         /\ Tiled'
         /\ Starts \subseteq Starts'
         /\ \A c \in Starts' : blk'[c].used <=> c = b \/ (c \in Starts /\ blk[c].used)
         /\ \A c \in Starts \ {b} : EndOf(c)' = EndOf(c)
         /\ b + FullSize <= EndOf(b)'
         /\ policy = "dlist" => \A c \in Starts' : ~FreePair(c)'
<1>1. /\ b \in Starts /\ ~blk[b].used /\ blk[b].size >= FullSize /\ stage = "search"
      /\ blk' = [blk EXCEPT ![b].used = TRUE]
      /\ UNCHANGED policy /\ ListTypeOK /\ Tiled /\ want \in Nat
  BY DEF Suits, Free, IInv, ListTypeOK
<1>2. \A c \in Starts : blk[c] \in [size : Nat, used : BOOLEAN]
  BY <1>1 DEF ListTypeOK
<1>3. /\ Starts' = Starts
      /\ blk' \in [Starts -> [size : Nat, used : BOOLEAN]]
      /\ \A c \in Starts : /\ blk'[c].size = blk[c].size
                            /\ c # b => blk'[c] = blk[c]
      /\ blk'[b].used = TRUE
  BY <1>1, <1>2 DEF ListTypeOK, Starts
<1>4. \A c \in Starts : EndOf(c)' = EndOf(c)
  BY <1>3 DEF EndOf
<1>5. HeaderSize' = HeaderSize
  BY <1>1 DEF HeaderSize
<1>6. Tiled'
  BY <1>1, <1>3, <1>4, <1>5 DEF Tiled
<1>7. b + FullSize <= EndOf(b)'
  <2>1. b \in Nat /\ blk[b].size \in Nat /\ FullSize \in Nat /\ EndOf(b) = b + blk[b].size
    BY <1>1, BlockNumbers, Sizes
  <2>2. QED
    BY <1>1, <1>4, <2>1
<1>8. \A c \in Starts' : blk'[c].used <=> c = b \/ (c \in Starts /\ blk[c].used)
  BY <1>3
<1>9. ASSUME policy = "dlist", NEW c \in Starts' PROVE ~FreePair(c)'
  <2>1. ~FreePair(c)
    BY <1>1, <1>3, <1>9 DEF IInv, PairsPending, Pending
  <2>2. QED
    BY <1>3, <1>4, <2>1 DEF FreePair, Free
<1>10. QED
  BY <1>1, <1>3, <1>4, <1>6, <1>7, <1>8, <1>9 DEF ListTypeOK

LEMMA TakeStep ==
  ASSUME IInv, SearchTake
  PROVE  IInv'
<1> DEFINE p == cursor + HeaderSize
<1>1. PICK b : b = cursor
  OBVIOUS
<1>2. PICK rest : rest = b + FullSize
  OBVIOUS
<1>3. /\ blk' \in [Starts' -> [size : Nat, used : BOOLEAN]]
      /\ Starts' \subseteq Nat
      /\ Tiled'
      /\ Starts \subseteq Starts'
      /\ \A c \in Starts' : blk'[c].used <=> c = b \/ (c \in Starts /\ blk[c].used)
      /\ \A c \in Starts \ {b} : EndOf(c)' = EndOf(c)
      /\ b + FullSize <= EndOf(b)'
      /\ policy = "dlist" => \A c \in Starts' : ~FreePair(c)'
  <2>1. /\ stage = "search" /\ Suits(b) /\ UNCHANGED policy
        /\ blk' = IF WorthCutting(b) THEN Cut(b) ELSE [blk EXCEPT ![b].used = TRUE]
    BY <1>1 DEF SearchTake
  <2>2. CASE WorthCutting(b)
    BY <1>2, <2>1, <2>2, CutStep
  <2>3. CASE ~WorthCutting(b)
    BY <2>1, <2>3, WholeStep
  <2>4. QED
    BY <2>2, <2>3
<1>4. /\ Held' = Held \cup {p} /\ p \notin Held
      /\ live'[p] = want /\ \A q \in Held : live'[q] = live[q]
      /\ Held' \subseteq Nat /\ live' \in [Held' -> Nat]
  BY TakenPointers
<1>5. /\ UNCHANGED policy /\ stage' = "idle" /\ cursor' = 0 /\ want' = 0
      /\ b \in Starts /\ ~blk[b].used /\ b \in Nat /\ want \in Nat
      /\ ListTypeOK /\ Tiled /\ HeldAreUsed
  BY <1>1 DEF SearchTake, Return, Suits, Free, IInv, ListTypeOK
<1>6. HeaderSize' = HeaderSize /\ HeaderSize \in {8, 16}
  BY <1>5, HeaderSizes DEF HeaderSize
<1>7. ListTypeOK'
  BY <1>3, <1>4, <1>5 DEF ListTypeOK, Tiled, Stages
<1>8. HeldAreUsed'
  <2>1. ASSUME NEW c \in Starts', blk'[c].used PROVE c + HeaderSize \in Held'
    BY <1>1, <1>3, <1>4, <1>5, <2>1 DEF HeldAreUsed
  <2>2. ASSUME NEW q \in Held', NEW c, c = q - HeaderSize
        PROVE  c \in Starts' /\ blk'[c].used /\ q + live'[q] <= EndOf(c)'
    <3>1. CASE q = p
      <4>1. c = b
        BY <1>1, <1>5, <1>6, <2>2, <3>1
      <4>2. q + live'[q] <= b + FullSize
        BY <1>1, <1>4, <1>5, <1>6, <3>1, Sizes
      <4>3. b + FullSize \in Nat /\ q + live'[q] \in Nat /\ EndOf(b)' \in Nat
        <5>1. blk'[b].size \in Nat
          BY <1>3, <1>5
        <5>2. EndOf(b)' \in Nat
          BY <1>5, <5>1 DEF EndOf
        <5>3. QED
          BY <1>4, <1>5, <5>2, Sizes DEF ListTypeOK
      <4>4. QED
        BY <1>3, <1>5, <4>1, <4>2, <4>3
    <3>2. CASE q \in Held
      <4>1. c \in Starts /\ blk[c].used /\ q + live[q] <= EndOf(c)
        BY <1>5, <2>2, <3>2 DEF HeldAreUsed
      <4>2. c # b
        BY <1>5, <4>1
      <4>3. QED
        BY <1>3, <1>4, <3>2, <4>1, <4>2
    <3>3. QED
      BY <1>4, <3>1, <3>2
  <2>3. QED
    BY <1>6, <2>1, <2>2 DEF HeldAreUsed
<1>9. CursorFree' /\ PairsPending'
  BY <1>3, <1>5 DEF CursorFree, PairsPending
<1>10. QED
  BY <1>3, <1>7, <1>8, <1>9 DEF IInv

-----------------------------------------------------------------------------
(* free                                                                    *)

LEMMA FreeStep ==
  ASSUME IInv, NEW p \in Held, ListFree(p)
  PROVE  IInv'
<1> USE DEF ListFree
<1>1. PICK b : b = p - HeaderSize
  OBVIOUS
<1>2. /\ b \in Starts /\ blk' = [blk EXCEPT ![b].used = FALSE]
      /\ stage' = "forward" /\ cursor' = b /\ UNCHANGED <<policy, want>>
      /\ ListTypeOK /\ Tiled /\ HeldAreUsed /\ stage = "idle"
  BY <1>1 DEF IInv
<1>3. \A c \in Starts : blk[c] \in [size : Nat, used : BOOLEAN]
  BY <1>2 DEF ListTypeOK
<1>4. /\ Starts' = Starts
      /\ blk' \in [Starts -> [size : Nat, used : BOOLEAN]]
      /\ \A c \in Starts : /\ blk'[c].size = blk[c].size
                            /\ c # b => blk'[c] = blk[c]
      /\ blk'[b].used = FALSE
  BY <1>2, <1>3 DEF ListTypeOK, Starts
<1>5. \A c \in Starts : EndOf(c)' = EndOf(c)
  BY <1>4 DEF EndOf
<1>6. HeaderSize' = HeaderSize /\ HeaderSize \in {8, 16}
  BY <1>2, HeaderSizes DEF HeaderSize
<1>7. /\ Held' = Held \ {p} /\ \A q \in Held' : live'[q] = live[q]
      /\ live' \in [Held' -> Nat] /\ Held' \subseteq Nat
  <2>1. live' = [q \in Held \ {p} |-> live[q]]
    BY DEF GiveUp, Abstract!Without, Held
  <2>2. Held' = Held \ {p}
    BY <2>1 DEF Held
  <2>3. QED
    BY <1>2, <2>1, <2>2 DEF ListTypeOK
<1>8. ListTypeOK'
  BY <1>2, <1>4, <1>7 DEF ListTypeOK, Stages
<1>9. Tiled'
  BY <1>2, <1>4, <1>5, <1>6 DEF Tiled
<1>10. HeldAreUsed'
  <2>1. ASSUME NEW c \in Starts', blk'[c].used PROVE c + HeaderSize \in Held'
    <3>1. c # b /\ c \in Starts /\ blk[c].used
      BY <1>4, <2>1
    <3>2. c + HeaderSize \in Held /\ c \in Nat
      BY <1>2, <3>1 DEF HeldAreUsed, ListTypeOK
    <3>3. c + HeaderSize # p
      BY <1>1, <1>6, <3>1, <3>2
    <3>4. QED
      BY <1>7, <3>2, <3>3
  <2>2. ASSUME NEW q \in Held', NEW c, c = q - HeaderSize
        PROVE  c \in Starts' /\ blk'[c].used /\ q + live'[q] <= EndOf(c)'
    <3>1. q \in Held /\ q # p /\ q \in Nat /\ p \in Nat
      BY <1>2, <1>7 DEF ListTypeOK
    <3>2. c # b
      BY <1>1, <1>6, <2>2, <3>1
    <3>3. c \in Starts /\ blk[c].used /\ q + live[q] <= EndOf(c)
      BY <1>2, <2>2, <3>1 DEF HeldAreUsed
    <3>4. QED
      BY <1>4, <1>5, <1>7, <3>2, <3>3
  <2>3. QED
    BY <1>6, <2>1, <2>2 DEF HeldAreUsed
<1>11. CursorFree'
  BY <1>2, <1>4 DEF CursorFree
<1>12. PairsPending'
  <2>1. SUFFICES ASSUME policy = "dlist", NEW c \in Starts, FreePair(c)'
                 PROVE  c = b \/ EndOf(c)' = b
    BY <1>2, <1>4 DEF PairsPending, Pending
  <2>2. ~FreePair(c)
    BY <1>2, <2>1 DEF IInv, PairsPending, Pending
  <2>3. QED
    BY <1>4, <1>5, <2>1, <2>2 DEF FreePair, Free
<1>13. QED
  BY <1>8, <1>9, <1>10, <1>11, <1>12 DEF IInv

\* What both merges keep, whatever they do to the cursor.
LEMMA MergeTypes ==
  ASSUME IInv, NEW b \in Starts, Free(EndOf(b)), Absorb(b),
         UNCHANGED <<policy, stage, want, live>>, cursor' \in Starts'
  PROVE  ListTypeOK' /\ Tiled' /\ HeldAreUsed'
<1>1. EndOf(b) \in Starts
  BY DEF Free
<1>2. Tiled' /\ HeldAreUsed'
  BY <1>1, AbsorbTiles, AbsorbHeld DEF IInv
<1>3. blk' \in [Starts' -> [size : Nat, used : BOOLEAN]] /\ Starts' \subseteq Nat
  BY <1>1, AbsorbTypes DEF IInv
<1>4. ListTypeOK'
  BY <1>3 DEF IInv, ListTypeOK, Held
<1>5. QED
  BY <1>2, <1>4

LEMMA ForwardStep ==
  ASSUME IInv, ListMergeForward
  PROVE  IInv'
<1> USE DEF ListMergeForward
<1>1. PICK b \in Starts : b = cursor
  BY DEF IInv, ListTypeOK
<1>2. /\ stage = "forward" /\ Free(EndOf(b)) /\ EndOf(b) \in Starts /\ Absorb(b)
      /\ ~blk[b].used /\ cursor' = b
      /\ UNCHANGED <<policy, stage, want, live>> /\ ListTypeOK /\ Tiled
  BY <1>1 DEF Free, IInv, CursorFree
<1>3. /\ Starts' = Starts \ {EndOf(b)} /\ b \in Starts'
      /\ EndOf(b)' = EndOf(EndOf(b))
      /\ \A c \in Starts' \ {b} : EndOf(c)' = EndOf(c)
      /\ \A c \in Starts' : blk'[c].used = blk[c].used
  BY <1>2, AbsorbShape
<1>4. ListTypeOK' /\ Tiled' /\ HeldAreUsed'
  BY <1>2, <1>3, MergeTypes
<1>5. CursorFree'
  BY <1>2, <1>3 DEF CursorFree
<1>6. PairsPending'
  <2>1. SUFFICES ASSUME policy = "dlist", NEW c \in Starts', FreePair(c)', c # b
                 PROVE  EndOf(c)' = b
    BY <1>2 DEF PairsPending, Pending
  <2>2. FreePair(c)
    BY <1>3, <2>1 DEF FreePair, Free
  <2>3. EndOf(c) = b
    BY <1>1, <1>2, <1>3, <2>1, <2>2 DEF IInv, PairsPending, Pending
  <2>4. QED
    BY <1>3, <2>1, <2>3
<1>7. QED
  BY <1>4, <1>5, <1>6 DEF IInv

LEMMA ForwardEndStep ==
  ASSUME IInv, ForwardEnd
  PROVE  IInv'
<1> USE DEF ForwardEnd, Return
<1>1. /\ stage = "forward" /\ ~Free(EndOf(cursor)) /\ UNCHANGED <<policy, blk, live>>
      /\ \/ policy = "dlist" /\ stage' = "backward" /\ UNCHANGED <<cursor, want>>
         \/ policy = "free_list" /\ stage' = "idle" /\ cursor' = 0 /\ want' = 0
  OBVIOUS
<1>2. Tiled' /\ HeldAreUsed'
  BY <1>1, ChainUnchanged DEF IInv
<1>3. 0 \in Starts /\ cursor' \in Starts /\ want' \in Nat
  BY <1>1 DEF IInv, ListTypeOK, Tiled
<1>4. ListTypeOK'
  BY <1>1, <1>3, ChainUnchanged DEF IInv, ListTypeOK, Stages
<1>5. CursorFree'
  BY <1>1 DEF IInv, CursorFree
<1>6. PairsPending'
  <2>1. SUFFICES ASSUME policy = "dlist", NEW c \in Starts', FreePair(c)'
                 PROVE  Pending(c)'
    BY <1>1 DEF PairsPending
  <2>2. c \in Starts /\ FreePair(c) /\ EndOf(c)' = EndOf(c)
    BY <1>1, <2>1, ChainUnchanged
  <2>3. c # cursor
    BY <1>1, <2>2 DEF FreePair
  <2>4. EndOf(c) = cursor
    BY <1>1, <2>1, <2>2, <2>3 DEF IInv, PairsPending, Pending
  <2>5. QED
    BY <1>1, <2>1, <2>2, <2>4 DEF Pending
<1>7. QED
  BY <1>2, <1>4, <1>5, <1>6 DEF IInv

LEMMA BackwardStep ==
  ASSUME IInv, NEW a \in Starts, ListMergeBackward(a)
  PROVE  IInv'
<1> USE DEF ListMergeBackward
<1>1. /\ stage = "backward" /\ EndOf(a) = cursor /\ ~blk[a].used /\ Absorb(a)
      /\ cursor' = a /\ UNCHANGED <<policy, stage, want, live>>
      /\ ListTypeOK /\ Tiled
  BY DEF Before, Free, IInv
<1>2. Free(EndOf(a)) /\ EndOf(a) \in Starts
  BY <1>1 DEF Free, IInv, ListTypeOK, CursorFree
<1>3. /\ Starts' = Starts \ {EndOf(a)} /\ a \in Starts'
      /\ EndOf(a)' = EndOf(EndOf(a))
      /\ \A c \in Starts' \ {a} : EndOf(c)' = EndOf(c)
      /\ \A c \in Starts' : blk'[c].used = blk[c].used
  BY <1>1, <1>2, AbsorbShape
<1>4. ListTypeOK' /\ Tiled' /\ HeldAreUsed'
  BY <1>1, <1>2, <1>3, MergeTypes
<1>5. CursorFree'
  BY <1>1, <1>3 DEF CursorFree
<1>6. PairsPending'
  <2>1. SUFFICES ASSUME policy = "dlist", NEW c \in Starts', FreePair(c)'
                 PROVE  EndOf(c)' = a
    BY <1>1 DEF PairsPending, Pending
  <2>2. c # a
    <3>1. ASSUME c = a PROVE FALSE
      <4>1. Free(EndOf(EndOf(a)))
        BY <1>3, <2>1, <3>1 DEF FreePair, Free
      <4>2. FreePair(EndOf(a))
        BY <1>2, <4>1 DEF FreePair
      <4>3. EndOf(EndOf(a)) = EndOf(a)
        BY <1>1, <1>2, <2>1, <4>2 DEF IInv, PairsPending, Pending
      <4>4. EndOf(a) < EndOf(EndOf(a)) /\ EndOf(a) \in Nat
        BY <1>1, <1>2, BlockNumbers, HeaderSizes DEF Tiled
      <4>5. QED
        BY <4>3, <4>4
    <3>2. QED
      BY <3>1
  <2>3. EndOf(c)' = EndOf(c) /\ FreePair(c) /\ c \in Starts
    BY <1>3, <2>1, <2>2 DEF FreePair, Free
  <2>4. EndOf(c) = EndOf(a)
    BY <1>1, <2>1, <2>3 DEF IInv, PairsPending, Pending
  <2>5. QED
    BY <1>1, <2>2, <2>3, <2>4, Disjoint
<1>7. QED
  BY <1>4, <1>5, <1>6 DEF IInv

LEMMA BackwardEndStep ==
  ASSUME IInv, BackwardEnd
  PROVE  IInv'
<1> USE DEF BackwardEnd, Return
<1>1. /\ stage = "backward" /\ \A a \in Starts : EndOf(a) = cursor => ~Free(a)
      /\ UNCHANGED <<policy, blk, live>> /\ stage' = "idle" /\ cursor' = 0 /\ want' = 0
  BY DEF Before
<1>2. Tiled' /\ HeldAreUsed'
  BY <1>1, ChainUnchanged DEF IInv
<1>3. ListTypeOK'
  BY <1>1, ChainUnchanged DEF IInv, ListTypeOK, Stages, Tiled
<1>4. CursorFree'
  BY <1>1 DEF CursorFree
<1>5. PairsPending'
  <2>1. SUFFICES ASSUME policy = "dlist", NEW c \in Starts', FreePair(c)'
                 PROVE  FALSE
    BY <1>1 DEF PairsPending
  <2>2. c \in Starts /\ FreePair(c)
    BY <1>1, <2>1, ChainUnchanged
  <2>3. EndOf(c) = cursor
    BY <1>1, <2>1, <2>2 DEF IInv, PairsPending, Pending
  <2>4. QED
    BY <1>1, <2>2, <2>3 DEF FreePair
<1>6. QED
  BY <1>2, <1>3, <1>4, <1>5 DEF IInv

LEMMA StutterStep ==
  ASSUME IInv, UNCHANGED <<listVars, live>>
  PROVE  IInv'
<1>1. UNCHANGED <<policy, blk, stage, cursor, want, live>>
  BY DEF listVars
<1>2. Tiled' /\ HeldAreUsed'
  BY <1>1, ChainUnchanged DEF IInv
<1>3. ListTypeOK' /\ CursorFree' /\ PairsPending'
  BY <1>1, ChainUnchanged DEF IInv, ListTypeOK, CursorFree, PairsPending, Pending
<1>4. QED
  BY <1>2, <1>3 DEF IInv

LEMMA Induction == IInv /\ [ListNext]_<<listVars, live>> => IInv'
<1>1. SUFFICES ASSUME IInv, [ListNext]_<<listVars, live>> PROVE IInv'
  OBVIOUS
<1>2. CASE (\E n \in Requests : ListAlloc(n)) \/ SearchNext \/ SearchFails
  BY <1>1, <1>2, SearchStep
<1>3. CASE SearchMerge \/ SearchTake
  BY <1>1, <1>3, SearchMergeStep, TakeStep
<1>4. CASE \E p \in Held : ListFree(p)
  BY <1>1, <1>4, FreeStep
<1>5. CASE ListMergeForward \/ ForwardEnd \/ BackwardEnd
  BY <1>1, <1>5, ForwardStep, ForwardEndStep, BackwardEndStep
<1>6. CASE \E a \in Starts : ListMergeBackward(a)
  BY <1>1, <1>6, BackwardStep
<1>7. CASE UNCHANGED <<listVars, live>>
  BY <1>1, <1>7, StutterStep
<1>8. QED
  BY <1>1, <1>2, <1>3, <1>4, <1>5, <1>6, <1>7 DEF ListNext, ListStep

-----------------------------------------------------------------------------
(* The search of alloc                                                     *)

\* The blocks the search has passed are too small and cannot be merged.
Passed ==
  stage = "search" =>
    \A b \in Starts : b < cursor => ~Suits(b) /\ ~FreePair(b)

\* The block the search leaves behind is like those before it: free_list would
\* have merged it, and dlist has no free neighbours while it searches.
LEMMA NoPairAtCursor ==
  ASSUME IInv, stage = "search", ~Unmerged(cursor)
  PROVE  ~FreePair(cursor)
BY DEF IInv, ListTypeOK, Policies, Unmerged, FreePair, PairsPending, Pending

LEMMA PassedStep == IInv /\ Passed /\ [ListNext]_<<listVars, live>> => Passed'
<1> SUFFICES ASSUME IInv, Passed, [ListNext]_<<listVars, live>> PROVE Passed'
  OBVIOUS
<1>1. ASSUME NEW n \in Requests, ListAlloc(n) PROVE Passed'
  BY <1>1 DEF ListAlloc, Passed, Starts, IInv, ListTypeOK
<1>2. CASE SearchNext
  <2>1. /\ stage = "search" /\ ~Unmerged(cursor) /\ ~Suits(cursor)
        /\ cursor' = EndOf(cursor) /\ UNCHANGED <<policy, blk, want, live>>
    BY <1>2 DEF SearchNext
  <2>2. ASSUME NEW b \in Starts, b < cursor' PROVE ~Suits(b) /\ ~FreePair(b)
    <3>1. b \in Nat /\ cursor \in Nat /\ cursor \in Starts /\ EndOf(cursor) \in Nat
      BY BlockNumbers DEF IInv, ListTypeOK
    <3>2. ~(cursor < b)
      BY <2>1, <2>2, <3>1 DEF IInv, Tiled
    <3>3. CASE b = cursor
      BY <2>1, <3>3, NoPairAtCursor
    <3>4. CASE b < cursor
      BY <2>1, <3>4 DEF Passed
    <3>5. QED
      BY <3>1, <3>2, <3>3, <3>4
  <2>3. QED
    BY <2>1, <2>2 DEF Passed, Suits, FreePair, Free, Starts, EndOf, FullSize,
                      HeaderSize
<1>3. CASE SearchMerge
  <2>1. /\ stage = "search" /\ Free(EndOf(cursor)) /\ Absorb(cursor)
        /\ EndOf(cursor) \in Starts
        /\ UNCHANGED <<policy, stage, cursor, want, live>>
    BY <1>3 DEF SearchMerge, Unmerged, Free
  <2>2. /\ Starts' = Starts \ {EndOf(cursor)}
        /\ \A c \in Starts' \ {cursor} : blk'[c] = blk[c] /\ EndOf(c)' = EndOf(c)
        /\ \A c \in Starts' : blk'[c].used = blk[c].used
    BY <2>1, AbsorbShape DEF IInv, ListTypeOK
  <2>3. ASSUME NEW b \in Starts', b < cursor PROVE ~Suits(b)' /\ ~FreePair(b)'
    <3>1. b \in Starts /\ b # cursor /\ ~Suits(b) /\ ~FreePair(b)
      <4>1. b \in Starts /\ b \in Nat /\ cursor \in Nat
        BY <2>2, <2>3 DEF IInv, ListTypeOK
      <4>2. ~Suits(b) /\ ~FreePair(b)
        BY <2>1, <2>3, <4>1 DEF Passed
      <4>3. QED
        BY <2>3, <4>1, <4>2
    <3>2. FullSize' = FullSize
      BY <2>1 DEF FullSize, HeaderSize
    <3>3. blk'[b] = blk[b] /\ EndOf(b)' = EndOf(b)
      BY <2>2, <2>3, <3>1
    <3>4. QED
      BY <2>2, <3>1, <3>2, <3>3 DEF Suits, FreePair, Free
  <2>4. QED
    BY <2>1, <2>3 DEF Passed
<1>4. CASE stage' # "search"
  BY <1>4 DEF Passed
<1>5. CASE UNCHANGED <<listVars, live>>
  BY <1>5 DEF listVars, Passed, Suits, FreePair, Free, Starts, EndOf, FullSize,
              HeaderSize
<1>6. QED
  BY <1>1, <1>2, <1>3, <1>4, <1>5
     DEF ListNext, ListStep, SearchFails, SearchTake, ListFree,
         ListMergeForward, ForwardEnd, ListMergeBackward, BackwardEnd, Return

\* Where no block suits and no two free ones are neighbours, a stretch of free
\* blocks is one block, and too short.
LEMMA ShortStretches ==
  ASSUME IInv, \A b \in Starts : ~Suits(b) /\ ~FreePair(b),
         NEW lo \in Starts \cup {ListEnd}, NEW hi \in Starts \cup {ListEnd},
         FreeStretch(lo, hi)
  PROVE  hi - lo < FullSize
<1>1. lo \in Starts /\ \A b \in Starts : lo <= b /\ b < hi => Free(b)
  BY DEF FreeStretch
<1>2. /\ lo \in Nat /\ hi \in Nat /\ FullSize \in Nat /\ FullSize > 0
      /\ EndOf(lo) \in Nat /\ EndOf(lo) = lo + blk[lo].size
      /\ blk[lo].size \in Nat /\ lo < EndOf(lo) /\ want \in Nat
  <2>1. ListTypeOK /\ Tiled /\ want \in Nat
    BY DEF IInv, ListTypeOK
  <2>2. FullSize \in Nat /\ FullSize > 0
    BY <2>1, Sizes, HeaderSizes
  <2>3. hi \in Nat
    BY <2>1, ListEndAssumption DEF ListTypeOK
  <2>4. QED
    BY <1>1, <2>1, <2>2, <2>3, BlockNumbers, HeaderSizes DEF Tiled
<1>3. CASE hi <= lo
  BY <1>2, <1>3
<1>4. CASE lo < hi
  <2>1. Free(lo)
    BY <1>1, <1>2, <1>4
  <2>2. blk[lo].size < FullSize
    BY <1>1, <1>2, <2>1 DEF Suits
  <2>3. hi <= EndOf(lo)
    <3>1. SUFFICES ASSUME EndOf(lo) < hi PROVE FALSE
      BY <1>2
    <3>2. hi <= ListEnd
      <4>1. hi \in Starts => hi <= EndOf(hi) /\ EndOf(hi) <= ListEnd
                             /\ EndOf(hi) \in Nat
        BY BlockNumbers DEF IInv, Tiled
      <4>2. QED
        BY <1>2, <4>1, ListEndAssumption
    <3>3. EndOf(lo) \in Starts
      BY <1>1, <1>2, <3>1, <3>2, ListEndAssumption DEF IInv, Tiled
    <3>4. Free(EndOf(lo))
      BY <1>1, <1>2, <3>1, <3>3
    <3>5. QED
      BY <1>1, <2>1, <3>4 DEF FreePair
  <2>4. QED
    BY <1>2, <2>2, <2>3
<1>5. QED
  BY <1>2, <1>3, <1>4

\* When the search ends at the last block, it has passed all the others.
LEMMA NothingSuits ==
  ASSUME IInv, Passed, SearchFails
  PROVE  \A b \in Starts : ~Suits(b) /\ ~FreePair(b)
<1>1. /\ stage = "search" /\ ~Unmerged(cursor) /\ ~Suits(cursor)
      /\ EndOf(cursor) \notin Starts /\ cursor \in Starts
  BY DEF SearchFails, IInv, ListTypeOK
<1>2. ASSUME NEW b \in Starts PROVE ~Suits(b) /\ ~FreePair(b)
  <2>1. /\ b \in Nat /\ cursor \in Nat /\ EndOf(b) \in Nat /\ b < EndOf(b)
        /\ EndOf(b) <= ListEnd /\ EndOf(cursor) = ListEnd /\ ListEnd \in Nat
    BY <1>1, BlockNumbers, HeaderSizes, ListEndAssumption DEF IInv, Tiled
  <2>2. ~(cursor < b)
    BY <1>1, <2>1 DEF IInv, Tiled
  <2>3. CASE b = cursor
    BY <1>1, <2>3, NoPairAtCursor
  <2>4. CASE b < cursor
    BY <1>1, <2>4 DEF Passed
  <2>5. QED
    BY <2>1, <2>2, <2>3, <2>4
<1>3. QED
  BY <1>2

-----------------------------------------------------------------------------
(* Theorems                                                                *)

\* The strengthening above is an invariant of both list allocators.
THEOREM ListInvariant == ListSpec => []IInv
<1>1. QED
  BY InitialState, Induction, PTL DEF ListSpec

\* The blocks of allocator_dlist and allocator_free_list tile the heap, after
\* every split and merge, for any region and any requests.
THEOREM ListBlocksTile == ListSpec => []Tiled
<1>1. IInv => Tiled
  BY DEF IInv
<1>2. QED
  BY <1>1, ListInvariant, PTL

\* A block is marked used exactly while a client holds it, and has room for
\* what was asked for: nothing leaks, and free never meets an unused header.
THEOREM ListNothingLeaks == ListSpec => []HeldAreUsed
<1>1. IInv => HeldAreUsed
  BY DEF IInv
<1>2. QED
  BY <1>1, ListInvariant, PTL

\* allocator_dlist merges in both directions: between two calls no two free
\* blocks are neighbours.
THEOREM DlistNoFreeNeighbours == ListSpec => []DlistCoalesced
<1>1. IInv => DlistCoalesced
  BY DEF IInv, DlistCoalesced, PairsPending, FreePair, Pending, Free
<1>2. QED
  BY <1>1, ListInvariant, PTL

\* alloc returns nullptr only when no stretch of free blocks is long enough
\* (allocator_dlist.hpp, alloc; allocator_free_list.hpp, alloc with the merges
\* on its way), for any region and any sequence of calls before.
THEOREM ListRefusesOnlyIfFull == ListSpec => RefusesOnlyIfFull
<1> DEFINE Refused ==
      stage = "search" /\ stage' = "idle" /\ live' = live =>
        \A lo, hi \in Starts \cup {ListEnd} :
          FreeStretch(lo, hi) => hi - lo < FullSize
<1>1. ListInit /\ Abstract!HeapInit => Passed
  BY DEF ListInit, Passed
<1>2. IInv /\ Passed /\ [ListNext]_<<listVars, live>> => Refused
  <2>1. SUFFICES ASSUME IInv, Passed, [ListNext]_<<listVars, live>>,
                        stage = "search", stage' = "idle", live' = live,
                        NEW lo \in Starts \cup {ListEnd},
                        NEW hi \in Starts \cup {ListEnd}, FreeStretch(lo, hi)
                 PROVE  hi - lo < FullSize
    OBVIOUS
  <2>2. ~SearchTake
    <3>1. SUFFICES ASSUME SearchTake PROVE FALSE
      OBVIOUS
    <3>2. Held' # Held
      BY <2>1, <3>1, TakenPointers
    <3>3. QED
      BY <2>1, <3>2 DEF Held
  <2>3. SearchFails
    BY <2>1, <2>2
       DEF ListNext, ListStep, ListAlloc, SearchMerge, SearchNext, ListFree,
           ListMergeForward, ForwardEnd, ListMergeBackward, BackwardEnd, listVars
  <2>4. QED
    BY <2>1, <2>3, NothingSuits, ShortStretches
<1>3. QED
  BY <1>1, <1>2, PassedStep, ListInvariant, PTL
     DEF ListSpec, RefusesOnlyIfFull

\* Whatever is allocated and freed, the clients' pieces of memory lie in the
\* heap and do not overlap: both list allocators implement Heap.
THEOREM ListImplementsHeap == ListSpec => ImplementsHeap
<1>1. IInv /\ [ListNext]_<<listVars, live>> => [Abstract!HeapNext]_live
  <2>1. SUFFICES ASSUME IInv, [ListNext]_<<listVars, live>>
                 PROVE  [Abstract!HeapNext]_live
    OBVIOUS
  <2>2. CASE SearchTake
    <3>1. PICK p : p = cursor + HeaderSize
      OBVIOUS
    <3>2. Abstract!Fits(live, p, want) /\ live' = Abstract!With(live, p, want)
      BY <2>1, <2>2, <3>1, TakenPieceFits DEF SearchTake, Obtain
    <3>3. p \in DOMAIN live' /\ live'[p] = want
      BY <3>2 DEF Abstract!With
    <3>4. QED
      BY <3>2, <3>3 DEF Abstract!HeapNext, Abstract!HeapAlloc
  <2>3. ASSUME NEW p \in Held, ListFree(p) PROVE Abstract!HeapNext
    BY <2>3 DEF ListFree, GiveUp, Held, Abstract!HeapNext, Abstract!HeapFree
  <2>4. CASE UNCHANGED live
    BY <2>4
  <2>5. QED
    BY <2>1, <2>2, <2>3, <2>4
       DEF ListNext, ListStep, ListAlloc, SearchMerge, SearchNext, SearchFails,
           ListMergeForward, ForwardEnd, ListMergeBackward, BackwardEnd, listVars
<1>2. QED
  BY <1>1, ListInvariant, PTL DEF ListSpec, ImplementsHeap, Abstract!HeapSpec

=============================================================================
