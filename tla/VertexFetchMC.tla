---------------------------- MODULE VertexFetchMC ----------------------------
(* VertexFetch for TLC: a word of 3 bits for indexes and of 4 for sizes.    *)
EXTENDS VertexFetch

Tight == [size |-> 2, bytes |-> 1, stride |-> 0, offset |-> 1]
Wide == [size |-> 1, bytes |-> 2, stride |-> 7, offset |-> 0]
Far == [size |-> 1, bytes |-> 1, stride |-> 2, offset |-> 9]
MCPointers == {Tight, Wide, Far}
MCDivisors == {0, 2}
MCSizes == {0, 4, 6}
MCRanges == {[first |-> 0, count |-> 3, instances |-> 1], [first |-> 1, count |-> 1, instances |-> 4],
             [first |-> 7, count |-> 2, instances |-> 1]}
MCInputs == {[i \in {1} |-> 2], [i \in {1} |-> 1]}
=============================================================================
