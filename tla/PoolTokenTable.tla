--------------------------- MODULE PoolTokenTable ---------------------------
(***************************************************************************)
(* The in-use table of a native pool (native_runtime/tls.c): open          *)
(* addressing with linear probing, 0 for an empty slot and -1 for a        *)
(* tombstone, at a capacity fixed by poolCreate that is never rehashed.    *)
(* It is shown to implement TokenSet.                                      *)
(***************************************************************************)
EXTENDS Integers, FiniteSets

CONSTANTS
  MaxSize,     \* maxSize of the pool: at most this many tokens are in use
  Cap,         \* in_use_hash_cap: first power of two >= 2 * maxSize, at least 4
  LeaseTokens, \* the tokens the pool hands out, from 1 on
  AskedTokens, \* the tokens poolRelease is called with
  Home(_)      \* taida_pool_hash_slot at this capacity

ASSUME TokenTableAssumption ==
  /\ MaxSize \in Nat \ {0}
  /\ Cap \in Nat /\ Cap >= 4 /\ Cap >= 2 * MaxSize
  /\ LeaseTokens \subseteq Nat \ {0}
  /\ AskedTokens \subseteq Int
  /\ \A t \in LeaseTokens \cup AskedTokens : Home(t) \in 0..(Cap - 1)

VARIABLES
  table,  \* in_use_hash
  len,    \* in_use_len as the code compares it, cast to a signed value
  answer  \* what the last call returned

tableVars == <<table, len, answer>>

Empty == 0
NoTombstone == 0
Tombstone == -1
Slots == 0..(Cap - 1)

TableInit ==
  /\ table = [s \in Slots |-> Empty]
  /\ len = 0
  /\ answer = TRUE

\* The slot k probes after a token's home: (home + k) & (cap - 1).
Probe(t, k) == IF Home(t) + k < Cap THEN Home(t) + k ELSE Home(t) + k - Cap

\* The probe at which the search for t stops: the first slot holding one of
\* the values in stop.
StopsAt(t, stop, k) ==
  /\ table[Probe(t, k)] \in stop
  /\ \A j \in 0..(k - 1) : table[Probe(t, j)] \notin stop
NeverStops(t, stop) == \A k \in Slots : table[Probe(t, k)] \notin stop

AddStopsAtEmpty(t) == {Empty, t}
AddStops(t) == {Empty, Tombstone, t}
RemoveStopsEarly(t) == {Empty, Tombstone, t}
RemoveStops(t) == {Empty, t}

\* taida_pool_in_use_add takes the first empty slot or tombstone.
AddPlaces(t, k) ==
  /\ StopsAt(t, AddStops(t), k)
  /\ IF table[Probe(t, k)] = t
     THEN UNCHANGED <<table, len>>
     ELSE /\ table' = [table EXCEPT ![Probe(t, k)] = t]
          /\ len' = len + 1
  /\ answer' = TRUE

AddFindsFull(t) ==
  /\ NeverStops(t, AddStops(t))
  /\ answer' = FALSE
  /\ UNCHANGED <<table, len>>

\* try_take_slot adds a fresh token or an idle one, neither of them in use,
\* and only below maxSize (TokensApart and Capacity of NativePool).
InUse == {table[s] : s \in Slots} \ {Empty, Tombstone}
Add(t) ==
  /\ t \notin InUse
  /\ Cardinality(InUse) < MaxSize
  /\ (\E k \in Slots : AddPlaces(t, k)) \/ AddFindsFull(t)

\* taida_pool_in_use_remove: an empty slot ends the search, before the value
\* in it is compared with the token.
RemoveTakes(t, k) ==
  /\ StopsAt(t, RemoveStops(t), k)
  /\ table[Probe(t, k)] # Empty
  /\ table' = [table EXCEPT ![Probe(t, k)] = Tombstone]
  /\ len' = len - 1
  /\ answer' = TRUE

RemoveMisses(t) ==
  /\ \/ NeverStops(t, RemoveStops(t))
     \/ \E k \in Slots : StopsAt(t, RemoveStops(t), k) /\ table[Probe(t, k)] = Empty
  /\ answer' = FALSE
  /\ UNCHANGED <<table, len>>

Remove(t) == (\E k \in Slots : RemoveTakes(t, k)) \/ RemoveMisses(t)

\* poolClose: in_use_len = 0 and a memset of the table.
ClearKeepsLength ==
  /\ table' = [s \in Slots |-> Empty]
  /\ answer' = TRUE
  /\ UNCHANGED len
Clear ==
  /\ table' = [s \in Slots |-> Empty]
  /\ len' = 0
  /\ answer' = TRUE

TableNext ==
  \/ \E t \in LeaseTokens : Add(t)
  \/ \E t \in AskedTokens : Remove(t)
  \/ Clear

TableSpec == TableInit /\ [][TableNext]_tableVars
-----------------------------------------------------------------------------
\* The length, an unsigned size_t in the code, never passes maxSize and never
\* goes below zero.
TableTypeOK ==
  /\ table \in [Slots -> LeaseTokens \cup {Empty, Tombstone}]
  /\ len \in 0..MaxSize
  /\ answer \in BOOLEAN

\* A token occupies one slot, although tombstones before it are refilled
\* without looking further along its probe sequence.
NoDuplicates ==
  \A r, s \in Slots : table[r] = table[s] /\ table[r] \notin {Empty, Tombstone} => r = s

\* No empty slot lies on the way from a token's home to its slot: poolRelease
\* stops at an empty slot, and would refuse a token that is in use.
Reachable ==
  \A t \in LeaseTokens, k \in Slots : table[Probe(t, k)] = t =>
    \A j \in 0..(k - 1) : table[Probe(t, j)] # Empty

\* The parts above: after any adds and removes a search finds what is there.
TableSound == TableTypeOK /\ NoDuplicates /\ Reachable

\* The length that poolAcquire compares with maxSize and poolHealth reports is
\* the number of tokens in the table.
LengthExact == len = Cardinality(InUse)

\* Adding a token below maxSize finds a slot whatever was added and removed
\* before, so poolAcquire never reports its "out of memory".
AddNeverFails == \A t \in LeaseTokens : Cardinality(InUse) < MaxSize =>
                   ~NeverStops(t, AddStops(t))

\* The table behaves as the set of tokens in use: a release is answered by
\* membership alone, and the length follows.
AsSet == INSTANCE TokenSet WITH tokens <- InUse, size <- len
ImplementsSet == AsSet!Spec
=============================================================================
