------------------------------- MODULE EventLog -------------------------------
(***************************************************************************)
(* What docs/ringl-tracing-v1.md promises of the trace: events are         *)
(* numbered from 1, the newest Window of them are kept, and a reader       *)
(* resumes where its last read ended, or is told that this is gone.        *)
(***************************************************************************)
EXTENDS Integers, Sequences

CONSTANTS Types, Window, LastSequence, Readers, Capacities

VARIABLES
    kept,     \* the newest events, the oldest first
    next,     \* the number the next event gets
    cursor,   \* the number of the event a reader wants next; 0: the oldest
    answer    \* what a reader's last read returned

vars == <<kept, next, cursor, answer>>

Oldest == next - Len(kept)

Init ==
    /\ kept = <<>> /\ next = 1
    /\ cursor = [r \in Readers |-> 0]
    /\ answer = [r \in Readers |-> [status |-> "none", events |-> <<>>]]

Record(type) ==
    /\ next < LastSequence
    /\ kept' = Append(IF Len(kept) = Window THEN Tail(kept) ELSE kept,
                      [type |-> type, sequence |-> next])
    /\ next' = next + 1
    /\ UNCHANGED <<cursor, answer>>

Answers(r, status, events, to) ==
    /\ answer' = [answer EXCEPT ![r] = [status |-> status, events |-> events]]
    /\ cursor' = [cursor EXCEPT ![r] = to]
    /\ UNCHANGED <<kept, next>>

Wanted(r) == IF cursor[r] = 0 THEN Oldest ELSE cursor[r]

(* What a reader wants is gone: it goes on with the oldest event there is.  *)
Miss(r) ==
    /\ Wanted(r) < Oldest
    /\ Answers(r, "missed", <<>>, Oldest)

CatchUp(r) ==
    /\ Wanted(r) = next
    /\ Answers(r, "all", <<>>, next)

Decline(r) ==
    /\ Wanted(r) \in Oldest .. next - 1
    /\ Answers(r, "noRoom", <<>>, cursor[r])

(* A reader gets the n events from the wanted one on.                       *)
Deliver(r, n) ==
    /\ n > 0 /\ Wanted(r) >= Oldest /\ Wanted(r) + n <= next
    /\ Answers(r, IF Wanted(r) + n = next THEN "all" ELSE "more",
               [i \in 1 .. n |-> kept[Wanted(r) - Oldest + i]], Wanted(r) + n)

Next ==
    \/ \E type \in Types : Record(type)
    \/ \E r \in Readers : \/ Miss(r) \/ CatchUp(r) \/ Decline(r)
                          \/ \E n \in 1 .. Window : Deliver(r, n)

Spec == Init /\ [][Next]_vars
=============================================================================
