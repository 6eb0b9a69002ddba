------------------------------ MODULE TraceRing ------------------------------
(***************************************************************************)
(* The trace runtime (src/src/context/context.c): a ring of events that    *)
(* are found by their sequence number, and readers that resume from the    *)
(* cursor their last read returned.                                        *)
(*                                                                         *)
(* An event is its type and its sequence number; its status and values are *)
(* copied with it and are left out.                                        *)
(***************************************************************************)
EXTENDS Integers, Sequences, Totals

CONSTANTS
    NTypes,         \* RINGL_TRACE_EVENT_TYPE_COUNT
    RingSize,       \* RINGL_TRACE_MAX_EVENTS
    LastSequence,   \* UINT64_MAX: the sequence number no event gets
    Readers,        \* whoever reads with a cursor of its own
    Capacities      \* of the arrays readers pass

ASSUME SizesAssumption ==
    /\ NTypes \in Nat /\ RingSize \in Nat \ {0}
    /\ LastSequence \in Nat \ {0} /\ Capacities \subseteq Nat

VARIABLES
    next,      \* next_sequence
    count,     \* event_count
    dropped,   \* dropped_count
    counts,    \* event_counts
    events,    \* the ring; slots that were never written hold Zero
    cursor,    \* per reader: the cursor its next read passes; 0 at first
    answer,    \* per reader: what its last read returned
    last,      \* history: the newest event a reader was given
    excused    \* history: readers that know of missed events since then

ringVars == <<next, count, dropped, counts, events>>
readerVars == <<cursor, answer, last, excused>>
traceVars == <<ringVars, readerVars>>

Types == 1 .. NTypes
Slots == 0 .. RingSize - 1
Events == [type : Types, sequence : Nat \ {0}]
Zero == [type |-> 0, sequence |-> 0]

(* Sequence numbers never reach past the reserved last one, and every       *)
(* answer is an array of events with one of the results of a read.          *)
TraceTypeOK ==
    /\ next \in 1 .. LastSequence
    /\ count \in 0 .. RingSize
    /\ dropped \in Nat
    /\ counts \in [Types -> Nat]
    /\ events \in [Slots -> Events \cup {Zero}]
    /\ cursor \in [Readers -> 0 .. LastSequence]
    /\ answer \in [Readers -> [status : {"none", "all", "more", "noRoom", "missed"},
                               events : Seq(Events)]]
    /\ last \in [Readers -> Nat]
    /\ excused \in SUBSET Readers

TraceInit ==
    /\ next = 1 /\ count = 0 /\ dropped = 0
    /\ counts = [t \in Types |-> 0]
    /\ events = [i \in Slots |-> Zero]
    /\ cursor = [r \in Readers |-> 0]
    /\ answer = [r \in Readers |-> [status |-> "none", events |-> <<>>]]
    /\ last = [r \in Readers |-> 0]
    /\ excused = Readers

-----------------------------------------------------------------------------
SlotOf(sequence) == (sequence - 1) % RingSize

Counted ==
    IF count = RingSize THEN dropped' = dropped + 1 /\ UNCHANGED count
                        ELSE count' = count + 1 /\ UNCHANGED dropped

(* ringl_trace_runtime_record                                               *)
Record(type) ==
    /\ next # LastSequence
    /\ Counted
    /\ events' = [events EXCEPT ![SlotOf(next)] = [type |-> type, sequence |-> next]]
    /\ next' = next + 1
    /\ counts' = [counts EXCEPT ![type] = @ + 1]
    /\ UNCHANGED readerVars

-----------------------------------------------------------------------------
(***************************************************************************)
(* ringl_trace_runtime_read.  The next read of a reader passes the cursor  *)
(* that this one returns.                                                  *)
(***************************************************************************)
Oldest == next - count

Position(r) == IF cursor[r] = 0 THEN Oldest ELSE cursor[r]

Returns(r, status, delivered, to) ==
    /\ answer' = [answer EXCEPT ![r] = [status |-> status, events |-> delivered]]
    /\ cursor' = [cursor EXCEPT ![r] = to]
    /\ UNCHANGED ringVars

\* Fault: a read that finds its events overwritten keeps its cursor.
ReadMissedStuck(r) ==
    /\ Position(r) < Oldest
    /\ Returns(r, "missed", <<>>, cursor[r])
    /\ excused' = excused \cup {r}
    /\ UNCHANGED last

(* What the reader wants has been overwritten.                              *)
ReadMissed(r) ==
    /\ Position(r) < Oldest \/ Position(r) > next
    /\ Returns(r, "missed", <<>>, Oldest)
    /\ excused' = excused \cup {r}
    /\ UNCHANGED last

ReadNothing(r) ==
    /\ Position(r) = next
    /\ Returns(r, "all", <<>>, Position(r))
    /\ UNCHANGED <<last, excused>>

ReadWithoutRoom(r) ==
    /\ Position(r) \in Oldest .. next - 1
    /\ 0 \in Capacities
    /\ Returns(r, "noRoom", <<>>, cursor[r])
    /\ UNCHANGED <<last, excused>>

\* Fault: a read that does not fit claims to have delivered everything.
AfterReadAll(r, n) == next

AfterRead(r, n) == Position(r) + n

ReadSome(r, capacity) ==
    /\ capacity > 0 /\ Position(r) \in Oldest .. next - 1
    /\ LET available == next - Position(r)
           n == IF available > capacity THEN capacity ELSE available
       IN  /\ Returns(r, IF available > capacity THEN "more" ELSE "all",
                      [i \in 1 .. n |-> events[SlotOf(Position(r) + i - 1)]], AfterRead(r, n))
           /\ last' = [last EXCEPT ![r] = Position(r) + n - 1]
           /\ excused' = excused \ {r}

-----------------------------------------------------------------------------
ReadTrace(r) ==
    \/ ReadMissed(r) \/ ReadNothing(r) \/ ReadWithoutRoom(r)
    \/ \E capacity \in Capacities : ReadSome(r, capacity)

TraceNext ==
    \/ \E type \in Types : Record(type)
    \/ \E r \in Readers : ReadTrace(r)

TraceSpec == TraceInit /\ [][TraceNext]_traceVars

-----------------------------------------------------------------------------
(* The slot of every number that is kept holds the event with that number,  *)
(* however often the ring has wrapped.                                      *)
KeptInPlace == \A s \in Oldest .. next - 1 : events[SlotOf(s)].sequence = s

(* The three ways the runtime counts agree: what is kept and what was       *)
(* dropped is all there was, of whatever type.                              *)
CountersAgree ==
    /\ Oldest = dropped + 1
    /\ Total(counts, NTypes) = next - 1

(* A reader is given every event once and in order ("a reader can resume    *)
(* from the returned cursor after a short read"), unless a read since its   *)
(* last batch told it that it missed some.                                  *)
NoSilentGap ==
    [][\A r \in Readers :
         answer'[r].events # <<>> /\ (answer'[r] # answer[r] \/ cursor'[r] # cursor[r]) =>
           LET batch == answer'[r].events
           IN  /\ batch[1].sequence > last[r]
               /\ batch[1].sequence = last[r] + 1 \/ r \in excused
               /\ \A i \in 2 .. Len(batch) : batch[i].sequence = batch[i - 1].sequence + 1]_traceVars

-----------------------------------------------------------------------------
(* The events that are kept, the oldest first.                              *)
Kept == [p \in 1 .. count |-> events[SlotOf(Oldest + p - 1)]]

Log == INSTANCE EventLog WITH kept <- Kept, Window <- RingSize

(* The ring with its remainders implements the numbered log.                *)
ImplementsLog == Log!Spec
=============================================================================
