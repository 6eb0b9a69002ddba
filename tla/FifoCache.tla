------------------------------ MODULE FifoCache ------------------------------
(***************************************************************************)
(* What docs/ringpu-integration.md promises of the pipeline cache: it      *)
(* reuses identical pipelines, is bounded, and evicts in FIFO order.       *)
(***************************************************************************)
EXTENDS Integers, Sequences

CONSTANTS Keys, Pipelines, InitialCapacity, MaxCapacity

VARIABLES
    queue,     \* what is cached, the oldest first
    capacity   \* how much may be cached now; 0: nothing was ever cached

vars == <<queue, capacity>>

Entries == [key : Keys, pipeline : Pipelines]

Init == queue = <<>> /\ capacity = 0

Unknown(key) == \A i \in 1 .. Len(queue) : queue[i].key # key
Unused(pipeline) == \A i \in 1 .. Len(queue) : queue[i].pipeline # pipeline

Limits == InitialCapacity .. MaxCapacity

(* Room is made before the first entry, even if there is none to store then.*)
Open == capacity = 0 /\ capacity' = InitialCapacity /\ UNCHANGED queue

(* A new entry is the youngest.  The oldest goes, and only when there is no *)
(* room; the room grows only when it is full.                               *)
Store(entry) ==
    /\ Unknown(entry.key) /\ Unused(entry.pipeline)
    /\ capacity' \in Limits /\ capacity' >= capacity
    /\ capacity' = capacity \/ Len(queue) = capacity
    /\ queue' = Append(IF Len(queue) < capacity' THEN queue ELSE Tail(queue), entry)

Flush == queue' = <<>> /\ capacity' = 0

Next == Open \/ Flush \/ \E entry \in Entries : Store(entry)

Spec == Init /\ [][Next]_vars
=============================================================================
