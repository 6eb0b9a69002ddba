---------------------------- MODULE PipelineCache ----------------------------
(***************************************************************************)
(* The cache of graphics pipelines (src/src/translate/pipeline_cache.c): a *)
(* ring of entries that doubles while memory allows it and evicts where it *)
(* stands when it does not.                                                *)
(*                                                                         *)
(* What a pipeline is built from is a key; which keys are equal and what   *)
(* else creating a pipeline needs does not matter here.                    *)
(***************************************************************************)
EXTENDS Integers, Sequences, FiniteSets

CONSTANTS
    Keys,               \* pipeline keys
    Handles,            \* handles of RinGPU pipelines
    InitialCapacity,    \* RINGL_PIPELINE_CACHE_CAPACITY
    MaxCapacity,        \* RINGL_PIPELINE_CACHE_MAX_CAPACITY
    Null                \* the handle 0

ASSUME CapacityAssumption ==
    /\ InitialCapacity \in Nat \ {0}
    /\ MaxCapacity \in Nat /\ InitialCapacity <= MaxCapacity

ASSUME NullAssumption == Null \notin Keys \cup Handles

VARIABLES
    capacity,   \* entries there are; 0: no cache was allocated
    entries,    \* the ring; Empty: not valid
    next,       \* next_evict
    count,      \* entries that were stored
    live        \* what a pipeline of the device was created for; Null: destroyed

vars == <<capacity, entries, next, count, live>>

Slots == 0 .. MaxCapacity - 1
Entries == [key : Keys, pipeline : Handles]
Empty == [key |-> Null, pipeline |-> Null]

(* The entries that were stored are the first ones, and the eviction       *)
(* pointer moves only in a full ring.                                       *)
TypeOK ==
    /\ capacity \in {0} \cup InitialCapacity .. MaxCapacity
    /\ entries \in [Slots -> Entries \cup {Empty}]
    /\ count \in 0 .. capacity
    /\ next \in 0 .. MaxCapacity - 1
    /\ next < capacity \/ next = 0
    /\ count < capacity => next = 0
    /\ \A i \in Slots : entries[i] # Empty <=> i < count
    /\ live \in [Handles -> Keys \cup {Null}]

Init ==
    /\ capacity = 0 /\ count = 0 /\ next = 0
    /\ entries = [i \in Slots |-> Empty]
    /\ live = [h \in Handles |-> Null]

-----------------------------------------------------------------------------
(* cache_for: the first lookup allocates the ring.                          *)
Opened == IF capacity = 0 THEN InitialCapacity ELSE capacity

Hit(key) == \E i \in Slots : i < capacity /\ entries[i].key = key

Larger == IF capacity > MaxCapacity \div 2 THEN MaxCapacity ELSE capacity * 2

\* Fault: the entries are copied as they lie.
CopiedInPlace == [i \in Slots |-> IF i < count THEN entries[i] ELSE Empty]

(* cache_grow: the next entry to evict comes to lie at index 0.             *)
Rotated == [i \in Slots |-> IF i < count THEN entries[(next + i) % capacity] ELSE Empty]

AfterNext == (next + 1) % capacity

\* Fault: the evicted pipeline is not destroyed.
DestroyForgotten(handle, made) == live' = made

(* The pipeline of an evicted entry goes, after the new one was made.       *)
Destroy(handle, made) == live' = [made EXCEPT ![handle] = Null]

(* Allocation of the ring, or creation of the pipeline, fails.              *)
CreateFails(key) ==
    /\ ~Hit(key)
    /\ capacity' \in {capacity, Opened}
    /\ UNCHANGED <<entries, next, count, live>>

Creates(key, handle) == ~Hit(key) /\ live[handle] = Null
Made(key, handle) == [live EXCEPT ![handle] = key]
Entry(key, handle) == [key |-> key, pipeline |-> handle]

Store(key, handle) ==
    /\ Creates(key, handle)
    /\ count < Opened
    /\ capacity' = Opened
    /\ entries' = [entries EXCEPT ![count] = Entry(key, handle)]
    /\ count' = count + 1
    /\ live' = Made(key, handle)
    /\ UNCHANGED next

StoreGrown(key, handle) ==
    /\ Creates(key, handle)
    /\ count = Opened /\ capacity < MaxCapacity
    /\ capacity' = Larger
    /\ entries' = [Rotated EXCEPT ![count] = Entry(key, handle)]
    /\ count' = count + 1
    /\ next' = 0
    /\ live' = Made(key, handle)

(* The ring is at its bound, or memory for a larger one is not to be had.   *)
StoreEvicting(key, handle) ==
    /\ Creates(key, handle)
    /\ count = Opened
    /\ Destroy(entries[next].pipeline, Made(key, handle))
    /\ entries' = [entries EXCEPT ![next] = Entry(key, handle)]
    /\ next' = AfterNext
    /\ UNCHANGED <<capacity, count>>

(* ringl_pipeline_cache_destroy                                             *)
DestroyCache ==
    /\ capacity # 0
    /\ live' = [h \in Handles |->
                   IF \E i \in Slots : i < capacity /\ entries[i].pipeline = h THEN Null ELSE live[h]]
    /\ capacity' = 0 /\ count' = 0 /\ next' = 0
    /\ entries' = [i \in Slots |-> Empty]

Next ==
    \/ \E key \in Keys : CreateFails(key)
    \/ \E key \in Keys, handle \in Handles :
          Store(key, handle) \/ StoreGrown(key, handle) \/ StoreEvicting(key, handle)
    \/ DestroyCache

Spec == Init /\ [][Next]_vars

-----------------------------------------------------------------------------
(* The ring at its place in time: position 1 is the oldest entry.           *)
At(position) == entries[(next + position - 1) % capacity]

Queue == [position \in 1 .. count |-> At(position)]

Fifo == INSTANCE FifoCache WITH queue <- Queue, Pipelines <- Handles

(* The ring, its growth by rotation and its eviction pointer are a bounded  *)
(* FIFO: nothing is lost, kept too long or cached twice.                    *)
ImplementsFifo == Fifo!Spec

(* Every pipeline of the device is in exactly one entry, found by the key   *)
(* it was created for: none leaks at eviction, growth or destruction.       *)
PipelinesOwned ==
    /\ \A h \in Handles : live[h] # Null => \E i \in Slots : i < capacity /\ entries[i].pipeline = h
    /\ \A i \in Slots : entries[i] # Empty => live[entries[i].pipeline] = entries[i].key
    /\ \A i, j \in Slots : entries[i] # Empty /\ entries[i].key = entries[j].key => i = j
=============================================================================
