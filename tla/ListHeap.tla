------------------------------ MODULE ListHeap ------------------------------
(***************************************************************************)
(* allocator_dlist and allocator_free_list.  Both chain the headers of all *)
(* blocks, used and free, in the order of their addresses, take the first  *)
(* block that fits and split it when the rest is worth a block.  dlist     *)
(* merges a freed block with its neighbours on both sides; free_list can   *)
(* only look forward, and merges while it searches.                        *)
(*                                                                         *)
(* The chain is in address order, so it needs no variable of its own: blk  *)
(* maps the address of each header in the chain to its size and used bit,  *)
(* and the header behind a block is the one where the block ends.          *)
(***************************************************************************)
EXTENDS MemoryClient

CONSTANT ListEnd   \* the end of the region these allocators are given

ASSUME ListEndAssumption == ListEnd \in Nat /\ ListEnd <= HeapEnd

VARIABLES
  policy,   \* which of the two allocators this is
  blk,      \* the chained blocks, by the address of their header
  stage,    \* the loop of alloc or free that is under way
  cursor,   \* the block that loop looks at
  want      \* the size alloc was called with

listVars == <<policy, blk, stage, cursor, want>>

Policies == {"dlist", "free_list"}
Stages == {"idle", "search", "forward", "backward"}

\* sizeof(block_header): two pointers or one beside the size, rounded up.
HeaderSize == IF policy = "dlist" THEN 16 ELSE 8

MinPayload == Align

Block(n, u) == [size |-> n, used |-> u]

Starts   == DOMAIN blk
EndOf(b) == b + blk[b].size
Free(b)  == b \in Starts /\ ~blk[b].used

ListInit ==
  /\ policy \in Policies
  /\ ListEnd > HeaderSize
  /\ blk = [b \in {0} |-> Block(ListEnd, FALSE)]
  /\ stage = "idle"
  /\ cursor = 0
  /\ want = 0

\* The call is over; its local variables are gone.
Return == stage' = "idle" /\ cursor' = 0 /\ want' = 0

\* The block behind b is taken out of the chain and b grows by its size.
Absorb(b) ==
  LET n == EndOf(b) IN
  blk' = [c \in Starts \ {n} |->
            IF c = b THEN Block(blk[b].size + blk[n].size, blk[b].used)
            ELSE blk[c]]

-----------------------------------------------------------------------------
(* alloc                                                                   *)

FullSize == AlignUp(want) + HeaderSize

Suits(b) == Free(b) /\ blk[b].size >= FullSize

ListAlloc(n) ==
  /\ stage = "idle"
  /\ stage' = "search"
  /\ cursor' = 0
  /\ want' = n
  /\ UNCHANGED <<policy, blk, live>>

\* free_list merges each free block it meets before it looks at its size.
Unmerged(b) == policy = "free_list" /\ Free(b) /\ Free(EndOf(b))

SearchMerge ==
  /\ stage = "search"
  /\ Unmerged(cursor)
  /\ Absorb(cursor)
  /\ UNCHANGED <<policy, stage, cursor, want, live>>

\* Seeded fault: free_list goes on before all that follows is merged.
SearchNextUnmerged ==
  /\ stage = "search"
  /\ ~Suits(cursor)
  /\ EndOf(cursor) \in Starts
  /\ cursor' = EndOf(cursor)
  /\ UNCHANGED <<policy, blk, stage, want, live>>

SearchNext ==
  /\ stage = "search"
  /\ ~Unmerged(cursor)
  /\ ~Suits(cursor)
  /\ EndOf(cursor) \in Starts
  /\ cursor' = EndOf(cursor)
  /\ UNCHANGED <<policy, blk, stage, want, live>>

\* alloc returns nullptr.
SearchFails ==
  /\ stage = "search"
  /\ ~Unmerged(cursor)
  /\ ~Suits(cursor)
  /\ EndOf(cursor) \notin Starts
  /\ Return
  /\ UNCHANGED <<policy, blk, live>>

\* Seeded fault: the rest is as large as the block was without its payload.
CutWithoutHeader(b) ==
  LET rest == b + FullSize IN
  [c \in Starts \cup {rest} |->
     CASE c = b    -> Block(FullSize, TRUE)
       [] c = rest -> Block(blk[b].size - AlignUp(want), FALSE)
       [] OTHER    -> blk[c]]

\* The block is cut in two; the second part is free.
Cut(b) ==
  LET rest == b + FullSize IN
  [c \in Starts \cup {rest} |->
     CASE c = b    -> Block(FullSize, TRUE)
       [] c = rest -> Block(blk[b].size - FullSize, FALSE)
       [] OTHER    -> blk[c]]

WorthCutting(b) == blk[b].size > HeaderSize + FullSize + MinPayload

SearchTake ==
  /\ stage = "search"
  /\ ~Unmerged(cursor)
  /\ Suits(cursor)
  /\ blk' = IF WorthCutting(cursor) THEN Cut(cursor)
            ELSE [blk EXCEPT ![cursor].used = TRUE]
  /\ Obtain(cursor + HeaderSize, want)
  /\ Return
  /\ UNCHANGED policy

-----------------------------------------------------------------------------
(* free                                                                    *)

\* mark_free, if the header says that the block is used.
ListFree(p) ==
  LET b == p - HeaderSize IN
  /\ stage = "idle"
  /\ b \in Starts /\ blk[b].used
  /\ blk' = [blk EXCEPT ![b].used = FALSE]
  /\ stage' = "forward"
  /\ cursor' = b
  /\ GiveUp(p)
  /\ UNCHANGED <<policy, want>>

\* Seeded fault: the block behind is merged whether it is free or not.
ListMergeForwardAny ==
  /\ stage = "forward"
  /\ EndOf(cursor) \in Starts
  /\ Absorb(cursor)
  /\ UNCHANGED <<policy, stage, cursor, want, live>>

ListMergeForward ==
  /\ stage = "forward"
  /\ Free(EndOf(cursor))
  /\ Absorb(cursor)
  /\ UNCHANGED <<policy, stage, cursor, want, live>>

ForwardEnd ==
  /\ stage = "forward"
  /\ ~Free(EndOf(cursor))
  /\ \/ policy = "dlist" /\ stage' = "backward" /\ UNCHANGED <<cursor, want>>
     \/ policy = "free_list" /\ Return
  /\ UNCHANGED <<policy, blk, live>>

Before(a, b) == a \in Starts /\ EndOf(a) = b

ListMergeBackward(a) ==
  /\ stage = "backward"
  /\ Before(a, cursor)
  /\ Free(a)
  /\ Absorb(a)
  /\ cursor' = a
  /\ UNCHANGED <<policy, stage, want, live>>

\* Seeded fault: merge_backward is never entered.
BackwardEndAtOnce ==
  /\ stage = "backward"
  /\ Return
  /\ UNCHANGED <<policy, blk, live>>

BackwardEnd ==
  /\ stage = "backward"
  /\ \A a \in Starts : Before(a, cursor) => ~Free(a)
  /\ Return
  /\ UNCHANGED <<policy, blk, live>>

-----------------------------------------------------------------------------

ListStep ==
  \/ SearchMerge \/ SearchNext \/ SearchFails \/ SearchTake
  \/ ListMergeForward \/ ForwardEnd
  \/ \E a \in Starts : ListMergeBackward(a)
  \/ BackwardEnd

ListNext ==
  \/ \E n \in Requests : ListAlloc(n)
  \/ \E p \in Held : ListFree(p)
  \/ ListStep

ListSpec ==
  ListInit /\ Abstract!HeapInit /\ [][ListNext]_<<listVars, live>>

-----------------------------------------------------------------------------
(* Properties                                                              *)

ListTypeOK ==
  /\ policy \in Policies
  /\ blk \in [Starts -> [size : Nat, used : BOOLEAN]]
  /\ Starts \subseteq Nat
  /\ stage \in Stages
  /\ cursor \in Starts
  /\ want \in Nat
  /\ Held \subseteq Nat
  /\ live \in [Held -> Nat]

\* The blocks tile the heap (allocator_dlist.hpp, alloc and merge_*): each
\* ends where the next begins or at the end of the heap, and none is smaller
\* than its header.
Tiled ==
  /\ 0 \in Starts
  /\ \A b \in Starts :
       /\ blk[b].size >= HeaderSize
       /\ EndOf(b) = ListEnd \/ EndOf(b) \in Starts
       /\ EndOf(b) <= ListEnd
       /\ \A c \in Starts : b < c => EndOf(b) <= c

\* The used blocks are those the clients hold, each with room for what was
\* asked for: nothing leaks and nothing is handed out twice, so a free that
\* finds its header unused never happens.
HeldAreUsed ==
  /\ \A b \in Starts : blk[b].used => b + HeaderSize \in Held
  /\ \A p \in Held :
       LET b == p - HeaderSize IN
       b \in Starts /\ blk[b].used /\ p + live[p] <= EndOf(b)

\* README.md line 65, "bidirectional coalescing": between two calls dlist has
\* no two free neighbours.
DlistCoalesced ==
  stage = "idle" /\ policy = "dlist" =>
    \A b \in Starts : Free(b) => ~Free(EndOf(b))

\* Both allocators refuse a request only when no stretch of free blocks is
\* long enough for it, however many frees have left it in pieces.
FreeStretch(lo, hi) ==
  /\ lo \in Starts
  /\ \A b \in Starts : lo <= b /\ b < hi => Free(b)

RefusesOnlyIfFull ==
  [][stage = "search" /\ stage' = "idle" /\ live' = live =>
       \A lo, hi \in Starts \cup {ListEnd} :
         FreeStretch(lo, hi) => hi - lo < FullSize]_<<listVars, live>>

\* The clients' pieces of memory never overlap.
ImplementsHeap == Abstract!HeapSpec

=============================================================================
