---------------------------- MODULE VertexArrays ----------------------------
(***************************************************************************)
(* What vertex array objects promise (docs and src/src/objects/            *)
(* vertex_array.c): every array keeps a state of its own, commands change  *)
(* the state of the current array only, and the deletion of a buffer takes *)
(* it out of every array.  Array 0 is the default array.                   *)
(***************************************************************************)
EXTENDS Integers

CONSTANTS Slots, Attribs, Buffers, NoBuffer

Arrays == Slots \cup {0}
Descriptor == [enabled : BOOLEAN, buffer : Buffers \cup {NoBuffer}]
State == [element : Buffers \cup {NoBuffer}, attribs : [Attribs -> Descriptor]]
Unset == [enabled |-> FALSE, buffer |-> NoBuffer]
Blank == [element |-> NoBuffer, attribs |-> [i \in Attribs |-> Unset]]

(* The state without any use of buffer b.                                   *)
Without(state, b) ==
    [element |-> IF state.element = b THEN NoBuffer ELSE state.element,
     attribs |-> [i \in Attribs |-> IF state.attribs[i].buffer = b THEN Unset
                                                                ELSE state.attribs[i]]]

VARIABLES current, content

Init ==
    /\ current = 0
    /\ content = [a \in Arrays |-> Blank]

Edit ==
    /\ content' \in [Arrays -> State]
    /\ \A a \in Arrays \ {current} : content'[a] = content[a]
    /\ UNCHANGED current

Bind ==
    /\ current' \in Arrays
    /\ UNCHANGED content

(* New and deleted arrays are blank; deleting the current one selects 0.    *)
Clear(cleared) ==
    /\ 0 \notin cleared
    /\ content' = [a \in Arrays |-> IF a \in cleared THEN Blank ELSE content[a]]
    /\ current' = IF current \in cleared THEN 0 ELSE current

Drop(b) ==
    /\ content' = [a \in Arrays |-> Without(content[a], b)]
    /\ UNCHANGED current

Restart == current' = 0 /\ content' = [a \in Arrays |-> Blank]

Next ==
    \/ Edit
    \/ Bind
    \/ \E cleared \in SUBSET Slots : Clear(cleared)
    \/ \E b \in Buffers : Drop(b)
    \/ Restart

Spec == Init /\ [][Next]_<<current, content>>
=============================================================================
