----------------------------- MODULE Allocators -----------------------------
(***************************************************************************)
(* memory::core with the allocator it was initialised with, behind malloc, *)
(* free and realloc.  Each call is one irq_critical_section; the loops of  *)
(* the list allocators are steps of their own, with no other call between. *)
(***************************************************************************)
EXTENDS ListHeap, Tlsf

VARIABLE instance   \* core::instance_: which allocator init<AllocT> was given

vars == <<instance, listVars, tlsfVars, live>>

Init ==
  /\ instance \in {"list", "tlsf"}
  /\ ListInit
  /\ TlsfInit
  /\ Abstract!HeapInit
  /\ instance = "list" => impl = "region"     \* the idle allocator's state
  /\ instance = "tlsf" => policy = "dlist"    \* is of no interest

Malloc(n) ==
  \/ /\ instance = "list"
     /\ ListAlloc(n)
     /\ UNCHANGED <<instance, tlsfVars>>
  \/ /\ instance = "tlsf"
     /\ TlsfAlloc(n) \/ TlsfAllocFails(n)
     /\ UNCHANGED <<instance, listVars>>

FreePointer(p) ==
  \/ instance = "list" /\ ListFree(p) /\ UNCHANGED <<instance, tlsfVars>>
  \/ instance = "tlsf" /\ TlsfFree(p) /\ UNCHANGED <<instance, listVars>>

\* Only the TLSF allocators implement realloc.
Realloc(p, n) ==
  /\ instance = "tlsf"
  /\ ReallocInPlace(p, n) \/ ReallocMoves(p, n) \/ ReallocFails(p, n)
  /\ UNCHANGED <<instance, listVars>>

Loop == instance = "list" /\ ListStep /\ UNCHANGED <<instance, tlsfVars>>

Damaged == instance = "tlsf" /\ DamagedHeap /\ UNCHANGED <<instance, listVars>>

Next ==
  \/ \E n \in Requests : Malloc(n)
  \/ \E p \in Held : FreePointer(p)
  \/ \E p \in Held, n \in Requests : Realloc(p, n)
  \/ Loop
  \/ Damaged

Spec == Init /\ [][Next]_vars

-----------------------------------------------------------------------------
(* Properties.  What is said of TLSF is said of heaps that realloc has not *)
(* damaged; that it can is shown apart (BlocksInUseStay).                  *)

Blocks == DOMAIN heap.hdr
Intact == instance = "tlsf" /\ damage = {}

MemoryTypeOK ==
  /\ instance \in {"list", "tlsf"}
  /\ ListTypeOK
  /\ impl \in {"region", "fixed"}
  /\ heap.hdr \in [Blocks -> [size : Nat, used : BOOLEAN,
                              prev_phys : Blocks \cup {Nil},
                              prev : Blocks \cup {Nil},
                              next : Blocks \cup {Nil}]]
  /\ heap.bucket \in [Classes(levels) -> Blocks \cup {Nil}]

\* The blocks tile the heap and each TLSF block knows the one before it, after
\* every split and merge (tlsf/base.hpp, split_block and merge_*).
BlocksTile ==
  /\ instance = "list" => Tiled
  /\ Intact =>
       /\ begin \in Blocks
       /\ \A b \in Blocks :
            LET e == b + heap.hdr[b].size IN
            /\ e = end \/ (e \in Blocks /\ heap.hdr[e].prev_phys = b)
            /\ \A c \in Blocks : b < c => e <= c

\* Every block in use is held by one client, with room for what was asked.
BlocksInUse ==
  /\ instance = "list" => HeldAreUsed
  /\ Intact =>
       /\ \A b \in Blocks : heap.hdr[b].used <=> b + Header \in Held
       /\ \A p \in Held :
            p + live[p] <= p - Header + heap.hdr[p - Header].size

\* No client's block is in a bucket or in a list, and the links of free blocks
\* of a class agree with each other (insert_to_list, remove_from_list): what
\* find_proper_block returns is free, although it does not look.
FreeListsSound ==
  Intact =>
    /\ \A c \in DOMAIN heap.bucket :
         LET b == heap.bucket[c] IN
         b # Nil => /\ ~heap.hdr[b].used
                    /\ ClassOf(heap, b) = c
                    /\ heap.hdr[b].prev = Nil
    /\ \A b \in Blocks :
         LET n == heap.hdr[b].next IN
         n # Nil => /\ heap.hdr[n].prev = b
                    /\ ~heap.hdr[b].used /\ ~heap.hdr[n].used
                    /\ ClassOf(heap, b) = ClassOf(heap, n)

\* tlsf/base.hpp:7 "bi-directional merging on free", README.md:65
\* "bidirectional coalescing": between two calls no two neighbours are free.
Coalesced ==
  /\ instance = "list" => DlistCoalesced
  /\ Intact => \A b \in Blocks :
                 FreeAt(heap, b) => ~FreeAt(heap, NextPhysical(heap, b))

\* tests/memory_allocator_tlsf_fixed.cpp:9, "full recovery of heap space after
\* complete deallocation", in whatever order the blocks were freed, and
\* although free blocks may drop out of their lists on the way (split_block
\* removes a block from its list twice): the one block left can be found.
FullRecovery ==
  Intact /\ Held = {} =>
    Blocks = {begin} /\ heap.bucket[ClassOf(heap, begin)] = begin

\* tlsf/base.hpp:17, "Coalescing occurs only when physically adjacent blocks
\* are free": a block that a client holds is not made a part of another.
BlocksInUseStay == instance = "tlsf" => \A p \in Held : p - Header \in Blocks

\* tlsf/base.hpp:6, "two-level size class bucketing": no bucket leads to a
\* block that a client holds, for find_proper_block does not look at the mark.
BucketsLeadToFree ==
  \A c \in DOMAIN heap.bucket :
    heap.bucket[c] # Nil => ~heap.hdr[heap.bucket[c]].used

=============================================================================
