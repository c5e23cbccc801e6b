------------------------------ MODULE Storages ------------------------------
(***************************************************************************)
(* The users of the bitset.                                                *)
(*   config     tasks::config, a flagged_storage: set returns a copy, so a *)
(*              chain of calls goes on from copy to copy                   *)
(*   statistic  sch::statistic: one sparse_storage for every element       *)
(*   pool       utils::object_pool over objects of ObjectSize bytes        *)
(* A sparse_storage keeps the values of the positions it has forgotten.    *)
(***************************************************************************)
EXTENDS LightBitset

CONSTANTS
  Settings,          \* the values that are stored
  Zero,              \* of which one is zero
  NoSetting,         \* a null pointer
  StatisticElements, \* maximum_elements of sch::statistic
  ObjectSize

ASSUME SettingsAssumption == Zero \in Settings /\ NoSetting \notin Settings
ASSUME PoolAssumption == ObjectSize \in Nat \ {0} /\ StatisticElements \in Nat \ {0}

VARIABLES
  config,     \* the object set was first called on
  chained,    \* the copy the last set of the chain returned
  statistic,  \* storage_
  allowed,    \* allowed_objects_ of the pool
  asked,      \* what the callers have set and stored, and the slots' owners
  panicked    \* alloc has called PANIC

storageVars == <<config, chained, statistic, allowed, asked, panicked>>

Positions  == 0..(BitsCount - 1)
Statistics == 0..(StatisticElements - 1)

\* sparse_storage ----------------------------------------------------------

EmptyStorage == [set |-> NoBits, cfg |-> [p \in Positions |-> Zero]]

Stored(s, pos, v) ==
  IF pos >= BitsCount THEN s
  ELSE [set |-> SetBit(s.set, pos), cfg |-> [s.cfg EXCEPT ![pos] = v]]

Cleared(s, pos) ==
  IF pos < BitsCount THEN [s EXCEPT !.set = ClearBit(@, pos)] ELSE s

Get(s, pos) == IF TestBit(s.set, pos) THEN s.cfg[pos] ELSE NoSetting

Nothing == [p \in Positions |-> NoSetting]

StorageInit ==
  /\ config = EmptyStorage
  /\ chained = config
  /\ statistic = [e \in Statistics |-> config]
  /\ allowed = NoBits
  /\ asked = [config |-> Nothing, chained |-> Nothing,
              statistic |-> [e \in Statistics |-> Nothing], pool |-> [p \in Positions |-> 0]]
  /\ panicked = FALSE

\* tasks::config -----------------------------------------------------------

\* The flag has one bit, the position of which is the place of the value.
FirstBit(flag) == CHOOSE p \in Positions : 2 ^ p = flag

Flags == {2 ^ p : p \in Positions}

SetConfig(flag, v) ==
  /\ config' = Stored(config, FirstBit(flag), v)
  /\ chained' = config'
  /\ asked' = [asked EXCEPT !.config[FirstBit(flag)] = v,
                            !.chained = [asked.config EXCEPT ![FirstBit(flag)] = v]]
  /\ UNCHANGED <<statistic, allowed, panicked>>

SetChained(flag, v) ==
  /\ chained' = Stored(chained, FirstBit(flag), v)
  /\ asked' = [asked EXCEPT !.chained[FirstBit(flag)] = v]
  /\ UNCHANGED <<config, statistic, allowed, panicked>>

\* clear of the sparse_storage beneath.
ClearConfig(pos) ==
  /\ config' = Cleared(config, pos)
  /\ asked' = [asked EXCEPT !.config = [p \in Positions |->
                                          IF p = pos THEN NoSetting ELSE @[p]]]
  /\ UNCHANGED <<chained, statistic, allowed, panicked>>

\* update_value: a value that was not set keeps the caller's default.
Updated(s, flag, default) ==
  LET stored == Get(s, FirstBit(flag))
  IN  IF stored = NoSetting THEN default ELSE stored

\* sch::statistic ----------------------------------------------------------

AddField(e, field, v) ==
  /\ IF e < StatisticElements /\ field < BitsCount
     THEN /\ statistic' = [statistic EXCEPT ![e] = Stored(@, field, v)]
          /\ asked' = [asked EXCEPT !.statistic[e][field] = v]
     ELSE UNCHANGED <<statistic, asked>>
  /\ UNCHANGED <<config, chained, allowed, panicked>>

\* get_field: zero when nothing is stored there.
StatisticField(e, field) ==
  IF e < StatisticElements /\ field < BitsCount /\ Get(statistic[e], field) # NoSetting
  THEN Get(statistic[e], field) ELSE Zero

\* utils::object_pool ------------------------------------------------------

\* alloc panics when there is no free slot.
AllocObject ==
  LET slot == FindZeroBit(allowed)
  IN  /\ IF slot < BitsCount
         THEN /\ allowed' = SetBit(allowed, slot)
              /\ asked' = [asked EXCEPT !.pool[slot] = @ + 1]
              /\ UNCHANGED panicked
         ELSE /\ panicked' = TRUE
              /\ UNCHANGED <<allowed, asked>>
      /\ UNCHANGED <<config, chained, statistic>>

\* A pointer that is not into the pool, or to a slot that is free, is ignored.
FreeObject(address) ==
  LET slot == address \div ObjectSize
      ours == address >= 0 /\ address < BitsCount * ObjectSize
  IN  /\ IF ours /\ TestBit(allowed, slot)
         THEN /\ allowed' = ClearBit(allowed, slot)
              /\ asked' = [asked EXCEPT !.pool[slot] = @ - 1]
         ELSE UNCHANGED <<allowed, asked>>
      /\ UNCHANGED <<config, chained, statistic, panicked>>

\* The start of every object, and an address on either side of the pool.
Addresses == {p * ObjectSize : p \in -1..BitsCount}

ConfigNext ==
  \/ \E f \in Flags, v \in Settings : SetConfig(f, v) \/ SetChained(f, v)
  \/ \E p \in 0..BitsCount : ClearConfig(p)

StatisticNext ==
  \E e \in 0..StatisticElements, field \in 0..BitsCount, v \in Settings :
    AddField(e, field, v)

PoolNext ==
  /\ ~panicked
  /\ \/ AllocObject
     \/ \E a \in Addresses : FreeObject(a)

\* What a storage holds is what was stored in it last, and the two searches
\* and the count of its bitset agree with the positions that are set.
Remembers(s, reference) ==
  LET ones == {p \in Positions : reference[p] # NoSetting}
  IN  /\ \A p \in Positions : Get(s, p) = reference[p]
      /\ Popcount(s.set) = Cardinality(ones)
      /\ FindSetBit(s.set) = IF ones = {} THEN BitsCount ELSE Min(ones)

\* The copies of a chain keep all that was set on the way and the object they
\* came from only its own; a default is replaced exactly by what was set; a
\* statistic field is what was stored there or zero; a slot of the pool has
\* one owner, and the pool panics only when every slot has one.
StorageRemembers ==
  /\ Remembers(config, asked.config)
  /\ Remembers(chained, asked.chained)
  /\ \A f \in Flags, v \in Settings :
       Updated(chained, f, v) = LET was == asked.chained[FirstBit(f)]
                                IN  IF was = NoSetting THEN v ELSE was
  /\ \A e \in Statistics :
       /\ Remembers(statistic[e], asked.statistic[e])
       /\ \A p \in 0..BitsCount :
            StatisticField(e, p) = IF p \in Positions /\ asked.statistic[e][p] # NoSetting
                          THEN asked.statistic[e][p] ELSE Zero
  /\ \A p \in Positions : asked.pool[p] = IF TestBit(allowed, p) THEN 1 ELSE 0
  /\ panicked => \A p \in Positions : asked.pool[p] > 0

=============================================================================
