------------------------------- MODULE EmbedCache -------------------------------
(* The service's vectors (embed/src/lib.rs, Lru): flat columns of slots, each *)
(* with its key, the tick of its last use and its vector, beside a map from   *)
(* a key to its slot.  A vector is named by the key it was worked out for.    *)
EXTENDS Naturals, Sequences, FiniteSets

CONSTANTS
    Input, Cap,   \* the texts, and how many vectors there is room for
    MaxTick       \* bound of the model

VARIABLES slots, keys, ticks, vectors, tick,
          answer  \* the last get: a key, and the vector it got or NoVector

CONSTANT NoVector

lruVars == <<slots, keys, ticks, vectors, tick, answer>>

LruInit ==
    /\ slots = [k \in {} |-> 0] /\ keys = <<>> /\ ticks = <<>> /\ vectors = <<>> /\ tick = 0
    /\ answer \in [key : Input, vector : {NoVector}]

LruGet(k) ==
    /\ Cap > 0 /\ tick < MaxTick /\ tick' = tick + 1
    /\ IF k \in DOMAIN slots
       THEN /\ ticks' = [ticks EXCEPT ![slots[k]] = tick']
            /\ answer' = [key |-> k, vector |-> vectors[slots[k]]]
       ELSE answer' = [key |-> k, vector |-> NoVector] /\ UNCHANGED ticks
    /\ UNCHANGED <<slots, keys, vectors>>

(* The slot used longest ago.                                              *)
ColdestSlot == CHOOSE slot \in DOMAIN ticks : \A other \in DOMAIN ticks : ticks[slot] <= ticks[other]

Extended(seq, slot, value) == IF slot > Len(seq) THEN Append(seq, value) ELSE [seq EXCEPT ![slot] = value]

(* The map, without the key that gives up its slot.                        *)
Mapped(k, slot) ==
    LET gone == IF k \notin DOMAIN slots /\ slot <= Len(keys) THEN {keys[slot]} ELSE {}
    IN [l \in (DOMAIN slots \ gone) \cup {k} |-> IF l = k THEN slot ELSE slots[l]]

(* A bug: the key that gives up its slot still leads to it.                 *)
PutUnmapped(k) ==
    /\ Cap > 0 /\ tick < MaxTick /\ tick' = tick + 1
    /\ LET slot == IF k \in DOMAIN slots THEN slots[k]
                   ELSE IF Len(keys) < Cap THEN Len(keys) + 1 ELSE ColdestSlot
       IN /\ slots' = [l \in DOMAIN slots \cup {k} |-> IF l = k THEN slot ELSE slots[l]]
          /\ keys' = Extended(keys, slot, k)
          /\ ticks' = Extended(ticks, slot, tick') /\ vectors' = Extended(vectors, slot, k)
    /\ UNCHANGED answer

(* The key's own slot, one more while there is room, else the coldest.      *)
LruPut(k) ==
    /\ Cap > 0 /\ tick < MaxTick /\ tick' = tick + 1
    /\ LET slot == IF k \in DOMAIN slots THEN slots[k]
                   ELSE IF Len(keys) < Cap THEN Len(keys) + 1 ELSE ColdestSlot
       IN /\ slots' = Mapped(k, slot) /\ keys' = Extended(keys, slot, k)
          /\ ticks' = Extended(ticks, slot, tick') /\ vectors' = Extended(vectors, slot, k)
    /\ UNCHANGED answer

LruNext == \E k \in Input : LruGet(k) \/ LruPut(k)

LruSpec == LruInit /\ [][LruNext]_lruVars

-----------------------------------------------------------------------------
(* How many of the slots were used before slot i was.                       *)
Before(used, i) == Cardinality({j \in DOMAIN used : used[j] < used[i]})

(* The slot used n-th.                                                     *)
Nth(used, n) == CHOOSE i \in DOMAIN used : Before(used, i) = n - 1

(* The columns implement a cache that evicts by recency and never answers a  *)
(* text with the vector of another, whatever was evicted in between.        *)
ByRecency == INSTANCE RecencyCache WITH
    Key <- Input, MaxEntries <- Cap, order <- [n \in DOMAIN keys |-> keys[Nth(ticks, n)]]

EvictsByRecency == ByRecency!RecencySpec

-----------------------------------------------------------------------------
(* The inductive invariant behind EvictsByRecency: the columns are as long  *)
(* as each other, no two slots have a key or a tick in common, and a key is *)
(* led to its slot, where its own vector is.                                *)
ColumnsTypeOK ==
    /\ keys \in Seq(Input) /\ vectors = keys /\ Len(keys) <= Cap
    /\ ticks \in Seq(Nat) /\ Len(ticks) = Len(keys) /\ tick \in Nat

SlotsApart ==
    /\ \A i, j \in DOMAIN keys : keys[i] = keys[j] \/ ticks[i] = ticks[j] => i = j
    /\ \A i \in DOMAIN ticks : ticks[i] <= tick

SlotsMapped ==
    /\ \A k \in DOMAIN slots : slots[k] \in DOMAIN keys /\ keys[slots[k]] = k
    /\ \A i \in DOMAIN keys : keys[i] \in DOMAIN slots /\ slots[keys[i]] = i

LruIInv == ColumnsTypeOK /\ SlotsApart /\ SlotsMapped
=============================================================================
