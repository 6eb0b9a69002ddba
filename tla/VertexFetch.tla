----------------------------- MODULE VertexFetch -----------------------------
(***************************************************************************)
(* Which vertices a draw may fetch: src/src/translate/vertex_layout.c,     *)
(* with the state it reads (src/src/context/vertex_attrib.c, objects of    *)
(* src/src/objects, the current program) and the generation that           *)
(* ringl_context_mark_dirty (src/src/context/context.c) counts up.         *)
(*                                                                         *)
(* RinGPU does not check what a draw fetches, so RinGL does before every   *)
(* draw, and remembers the ranges it has found good until something        *)
(* changes.  Vertex arrays are those of VertexArrays, which Objects        *)
(* implements; the buffer bound to ARRAY_BUFFER is a parameter of a call.  *)
(***************************************************************************)
EXTENDS Integers, FiniteSets

CONSTANTS
    Buffers,        \* names of buffers
    Arrays,         \* vertex arrays
    Default,        \* vertex array 0
    Attribs,        \* generic attributes
    Values,         \* current values of an attribute
    Pointers,       \* size, component bytes, stride and offset applications pass
    Divisors,       \* divisors applications pass
    Sizes,          \* sizes of buffers
    Ranges,         \* what draws ask for: first vertex, vertices, instances
    Inputs,         \* attributes a program reads, with the components of each
    CacheSize,      \* RINGL_VERTEX_VALIDATION_CACHE_CAPACITY
    MaxGeneration,  \* last generation before it starts again (UINT64_MAX)
    MaxStride,      \* 2048
    Max32, Max64,   \* UINT32_MAX, UINT64_MAX
    None

Pointer == [size : 1 .. 4, bytes : {1, 2, 4}, stride : 0 .. MaxStride, offset : 0 .. Max64]
Range == [first : 0 .. Max32, count : 1 .. Max32, instances : 1 .. Max32]
Input == UNION {[used -> 1 .. 4] : used \in SUBSET Attribs}

ASSUME LimitsAssumption ==
    /\ {CacheSize, MaxGeneration} \subseteq Nat \ {0}
    /\ {MaxStride, Max32, Max64} \subseteq Nat
    /\ Max32 + 4 <= Max64

ASSUME InputsAssumption ==
    /\ Default \in Arrays /\ None \notin Buffers
    /\ Pointers \subseteq Pointer /\ \A p \in Pointers : p.offset % p.bytes = 0
    /\ Divisors \subseteq 0 .. Max32 /\ Sizes \subseteq 0 .. Max64
    /\ Ranges \subseteq Range /\ Inputs \subseteq Input

VARIABLES
    size,        \* size_bytes of a buffer; None: there is none of this name
    arrays,      \* the attributes of every vertex array
    bound,       \* vertex_array_binding
    value,       \* current_value of the attributes
    program,     \* of the current program: none, linked, or broken by a failed link
    reads,       \* its attributes
    generation,  \* vertex_validation_generation
    cache,       \* vertex_validation_cache; None: not valid
    next,        \* vertex_validation_cache_next
    issued       \* what the last call had RinGPU draw

stateVars == <<size, arrays, bound, value, program, reads>>
vars == <<size, arrays, bound, value, program, reads, generation, cache, next, issued>>

Slots == 0 .. CacheSize - 1
Attributes == [enabled : BOOLEAN, buffer : Buffers \cup {None}, size : 1 .. 4, bytes : {1, 2, 4},
               stride : 0 .. MaxStride, offset : 0 .. Max64, divisor : 0 .. Max32]
Unset == [enabled |-> FALSE, buffer |-> None, size |-> 4, bytes |-> 4, stride |-> 0,
          offset |-> 0, divisor |-> 0]

Init ==
    /\ size = [b \in Buffers |-> None]
    /\ arrays = [a \in Arrays |-> [i \in Attribs |-> Unset]]
    /\ bound = Default
    /\ value \in [Attribs -> Values]
    /\ program = "none" /\ reads = <<>>
    /\ generation = 1 /\ cache = [i \in Slots |-> None] /\ next = 0
    /\ issued = None

-----------------------------------------------------------------------------
(***************************************************************************)
(* The layout of a draw: for every attribute read, where it is fetched.    *)
(***************************************************************************)
Attrib(i) == arrays[bound][i]

EffectiveStride(a) == IF a.stride = 0 THEN a.size * a.bytes ELSE a.stride

(* ringl_append_vertex_attrib                                               *)
Resolvable(a, width) ==
    a.enabled =>
        /\ width <= a.size /\ a.buffer # None /\ size[a.buffer] # None
        /\ a.offset <= Max32 /\ a.offset + width * a.bytes <= Max32
        /\ EffectiveStride(a) <= MaxStride /\ EffectiveStride(a) >= a.size * a.bytes

Constant(v) == [buffer |-> None, offset |-> 0, bytes |-> 0, width |-> 0, stride |-> 0,
                divisor |-> 0, value |-> v]
Fetched(a, width) == [buffer |-> a.buffer, offset |-> a.offset, bytes |-> a.bytes,
                      width |-> width, stride |-> EffectiveStride(a), divisor |-> a.divisor,
                      value |-> None]

(* Without a program every enabled attribute counts, for diagnostics.       *)
Input0 == [i \in {j \in Attribs : Attrib(j).enabled} |-> Attrib(i).size]
Needed == IF program = "none" THEN Input0 ELSE reads

(* ringl_resolve_vertex_layout                                              *)
Resolves == program # "broken" /\ \A i \in DOMAIN Needed : Resolvable(Attrib(i), Needed[i])
Layout == [i \in DOMAIN Needed |->
              IF Attrib(i).enabled THEN Fetched(Attrib(i), Needed[i]) ELSE Constant(value[i])]

LastVertex(range) == range.first + range.count - 1

\* Fault: the divisor is applied to the number of instances.
LastElementRounded(range, fetch) ==
    IF fetch.divisor = 0 THEN LastVertex(range) ELSE range.instances \div fetch.divisor

(* The last element a draw fetches of an attribute.                         *)
LastElement(range, fetch) ==
    IF fetch.divisor = 0 THEN LastVertex(range) ELSE (range.instances - 1) \div fetch.divisor

\* Fault: the product is not bounded before it is taken.
NoOverflowUnchecked(fetch, component, element) == TRUE

(* 64-bit arithmetic that does not wrap.                                    *)
NoOverflow(fetch, component, element) ==
    element # 0 =>
        fetch.stride <= (Max64 - (fetch.offset + component * fetch.bytes) - fetch.bytes) \div element

End(fetch, component, element) ==
    (fetch.offset + component * fetch.bytes + element * fetch.stride + fetch.bytes) % (Max64 + 1)

(* The checks of ringl_validate_vertex_fetch_instanced for one attribute.   *)
Fits(range, fetch) ==
    /\ size[fetch.buffer] # None /\ size[fetch.buffer] # 0
    /\ \A c \in 0 .. fetch.width - 1 :
          LET element == LastElement(range, fetch)
          IN  /\ NoOverflow(fetch, c, element)
              /\ End(fetch, c, element) <= size[fetch.buffer]

Indexable(range) == LastVertex(range) <= Max32

Validates(range) ==
    /\ Resolves
    /\ Layout = <<>> \/ /\ Indexable(range)
                        /\ \A i \in DOMAIN Layout : Layout[i].buffer # None => Fits(range, Layout[i])

-----------------------------------------------------------------------------
(***************************************************************************)
(* The cache of validated ranges.                                          *)
(***************************************************************************)
Entry(range) == [generation |-> generation, range |-> range, layout |-> Layout]

Hits(range) == {i \in Slots : /\ cache[i] # None
                              /\ cache[i].generation = generation /\ cache[i].range = range}

\* Fault: the cache survives when the generation starts again.
MarkDirtyKept ==
    /\ generation' = IF generation = MaxGeneration THEN 1 ELSE generation + 1
    /\ UNCHANGED <<cache, next>>

(* ringl_context_mark_dirty with PIPELINE or BINDINGS                       *)
MarkDirty ==
    IF generation = MaxGeneration
    THEN generation' = 1 /\ cache' = [i \in Slots |-> None] /\ next' = 0
    ELSE generation' = generation + 1 /\ UNCHANGED <<cache, next>>

Clean == UNCHANGED <<generation, cache, next>>

(* A draw of a range found in the cache.                                    *)
DrawCached(range) ==
    /\ issued' \in {None} \cup
          IF program = "linked"
          THEN {[range |-> range, layout |-> cache[i].layout] : i \in Hits(range)} ELSE {}
    /\ Hits(range) # {}
    /\ UNCHANGED <<stateVars, generation, cache, next>>

(* A draw of a range that is validated now.  RinGPU may refuse the draw for *)
(* other reasons, and without a linked program there is no pipeline.        *)
DrawValidated(range) ==
    /\ Hits(range) = {} /\ Validates(range)
    /\ issued' \in {None} \cup
          IF program = "linked" THEN {[range |-> range, layout |-> Layout]} ELSE {}
    /\ IF Layout = <<>> THEN UNCHANGED <<cache, next>>
       ELSE /\ cache' = [cache EXCEPT ![next % CacheSize] = Entry(range)]
            /\ next' = ((next % CacheSize) + 1) % CacheSize
    /\ UNCHANGED <<stateVars, generation>>

Refused(range) == Hits(range) = {} /\ ~Validates(range)

DrawRejected(range) ==
    /\ Refused(range)
    /\ issued' = None
    /\ UNCHANGED <<stateVars, generation, cache, next>>

-----------------------------------------------------------------------------
(***************************************************************************)
(* The calls that change what a draw reads.                                *)
(***************************************************************************)
Edit(i, attrib) == arrays' = [arrays EXCEPT ![bound][i] = attrib]

EnableVertexAttribArray(i, enabled) ==
    /\ Attrib(i).enabled # enabled
    /\ Edit(i, [Attrib(i) EXCEPT !.enabled = enabled])
    /\ MarkDirty
    /\ UNCHANGED <<size, bound, value, program, reads>>

VertexAttribPointer(i, b, p) ==
    /\ size[b] # None
    /\ Edit(i, [enabled |-> Attrib(i).enabled, buffer |-> b, size |-> p.size, bytes |-> p.bytes,
                stride |-> p.stride, offset |-> p.offset, divisor |-> Attrib(i).divisor])
    /\ MarkDirty
    /\ UNCHANGED <<size, bound, value, program, reads>>

VertexAttribDivisor(i, divisor) ==
    /\ Attrib(i).divisor # divisor
    /\ Edit(i, [Attrib(i) EXCEPT !.divisor = divisor])
    /\ MarkDirty
    /\ UNCHANGED <<size, bound, value, program, reads>>

SetCurrent(i, v) ==
    /\ value' = [value EXCEPT ![i] = v]
    /\ MarkDirty
    /\ UNCHANGED <<size, arrays, bound, program, reads>>

BindVertexArray(a) ==
    /\ bound # a /\ bound' = a
    /\ MarkDirty
    /\ UNCHANGED <<size, arrays, value, program, reads>>

(* Deleting the bound array selects array 0.                                *)
DeleteVertexArray(a) ==
    /\ a # Default
    /\ arrays' = [arrays EXCEPT ![a] = [i \in Attribs |-> Unset]]
    /\ bound' = IF bound = a THEN Default ELSE bound
    /\ MarkDirty
    /\ UNCHANGED <<size, value, program, reads>>

(* A new buffer has no storage, and nobody reads it yet.                    *)
GenBuffer(b) ==
    /\ size[b] = None
    /\ size' = [size EXCEPT ![b] = 0]
    /\ Clean
    /\ UNCHANGED <<arrays, bound, value, program, reads>>

BufferData(b, bytes) ==
    /\ size[b] # None
    /\ size' = [size EXCEPT ![b] = bytes]
    /\ MarkDirty
    /\ UNCHANGED <<arrays, bound, value, program, reads>>

Detached(a, b) ==
    IF a.buffer = b THEN [a EXCEPT !.enabled = FALSE, !.buffer = None, !.stride = 0, !.offset = 0]
                    ELSE a

(* Detaching marks as well, which ChangeElsewhere stands for.               *)
DeleteBuffer(b) ==
    /\ size[b] # None
    /\ size' = [size EXCEPT ![b] = None]
    /\ arrays' = [a \in Arrays |-> [i \in Attribs |-> Detached(arrays[a][i], b)]]
    /\ MarkDirty
    /\ UNCHANGED <<bound, value, program, reads>>

(* Another program, or none, or a new link of the current one.              *)
UseProgram(used) ==
    /\ program' = "linked" /\ reads' = used
    /\ MarkDirty
    /\ UNCHANGED <<size, arrays, bound, value>>

UseNone ==
    /\ program' = "none" /\ reads' = <<>>
    /\ MarkDirty
    /\ UNCHANGED <<size, arrays, bound, value>>

(* Only a program with modules of its own marks when its link fails.        *)
LinkFails ==
    /\ program # "none"
    /\ program' = "broken" /\ reads' = <<>>
    /\ MarkDirty \/ Clean
    /\ UNCHANGED <<size, arrays, bound, value>>

(* Every other call that changes a binding or the pipeline state.           *)
ChangeElsewhere == MarkDirty /\ UNCHANGED stateVars

Change ==
    \/ \E i \in Attribs :
          \/ \E enabled \in BOOLEAN : EnableVertexAttribArray(i, enabled)
          \/ \E b \in Buffers, p \in Pointers : VertexAttribPointer(i, b, p)
          \/ \E divisor \in Divisors : VertexAttribDivisor(i, divisor)
          \/ \E v \in Values : SetCurrent(i, v)
    \/ \E a \in Arrays : BindVertexArray(a) \/ DeleteVertexArray(a)
    \/ \E b \in Buffers : GenBuffer(b) \/ DeleteBuffer(b) \/ \E bytes \in Sizes : BufferData(b, bytes)
    \/ \E used \in Inputs : UseProgram(used)
    \/ UseNone \/ LinkFails \/ ChangeElsewhere

Next ==
    \/ Change /\ issued' = None
    \/ \E range \in Ranges : DrawCached(range) \/ DrawValidated(range) \/ DrawRejected(range)

Spec == Init /\ [][Next]_vars

-----------------------------------------------------------------------------
Layouts == UNION {[used -> [buffer : Buffers \cup {None}, offset : 0 .. Max32, bytes : 0 .. 4,
                            width : 0 .. 4, stride : 0 .. MaxStride, divisor : 0 .. Max32,
                            value : Values \cup {None}]] : used \in SUBSET Attribs}

(* The generation stays within its 64 bits and is never 0, the place of the *)
(* next entry lies inside the cache, and attributes have what calls accept. *)
TypeOK ==
    /\ size \in [Buffers -> 0 .. Max64 \cup {None}]
    /\ arrays \in [Arrays -> [Attribs -> Attributes]]
    /\ bound \in Arrays
    /\ value \in [Attribs -> Values]
    /\ program \in {"none", "linked", "broken"}
    /\ reads \in Input
    /\ generation \in 1 .. MaxGeneration
    /\ next \in Slots
    /\ cache \in [Slots -> {None} \cup
          [generation : 1 .. MaxGeneration, range : Ranges, layout : Layouts]]
    /\ issued \in {None} \cup [range : Ranges, layout : Layouts]

(* A range found in the cache would be validated again, with the same       *)
(* layout: whatever changed it since has also changed the generation, and   *)
(* generations of an earlier round are forgotten (context.c:540).           *)
CacheFresh ==
    \A i \in Slots : cache[i] # None /\ cache[i].generation = generation /\ program # "broken" =>
        cache[i].layout = Layout /\ Validates(cache[i].range)

(* What a fetch of one element touches lies inside its buffer.              *)
Inside(fetch, element) ==
    /\ size[fetch.buffer] # None
    /\ \A c \in 0 .. fetch.width - 1 :
          fetch.offset + c * fetch.bytes + element * fetch.stride + fetch.bytes <= size[fetch.buffer]

(* Every element of every vertex of every instance.                         *)
FetchesInside(range, fetch) ==
    IF fetch.divisor = 0
    THEN \A n \in 0 .. range.count - 1 : Inside(fetch, range.first + n)
    ELSE \A n \in 0 .. range.instances - 1 : Inside(fetch, n \div fetch.divisor)

(* RinGPU is never told to fetch outside of a buffer: of no vertex, of no   *)
(* instance, whether the range was validated for this draw or before.       *)
DrawsInside ==
    issued # None =>
        \A i \in DOMAIN issued.layout :
            issued.layout[i].buffer # None => FetchesInside(issued.range, issued.layout[i])

-----------------------------------------------------------------------------
(***************************************************************************)
(* Why a draw may be refused, by what it would have the device do rather   *)
(* than by the checks: a device counts vertices, and the ends of elements, *)
(* in 32 bits, and takes strides of an element up to MaxStride.            *)
(***************************************************************************)
Unsourced(i) ==
    \/ Attrib(i).buffer = None \/ size[Attrib(i).buffer] = None
    \/ Attrib(i).size < Needed[i]

Unaddressable(i) ==
    LET a == Attrib(i)
    IN  \/ \E c \in 0 .. Needed[i] - 1 : a.offset + c * a.bytes + a.bytes > Max32
        \/ EffectiveStride(a) \notin a.size * a.bytes .. MaxStride

Refusable(range) ==
    \/ program = "broken"
    \/ DOMAIN Needed # {} /\ \E v \in range.first .. LastVertex(range) : v > Max32
    \/ \E i \in DOMAIN Needed :
          /\ Attrib(i).enabled
          /\ \/ Unsourced(i) \/ Unaddressable(i)
             \/ ~FetchesInside(range, Fetched(Attrib(i), Needed[i]))

(* A draw that is validated is refused exactly for one of those reasons, of *)
(* whichever vertex, instance or component: resolving the layout and        *)
(* looking at the last element in 64 bits decides about all of them.        *)
RefusesExactly ==
    \A range \in Ranges : Hits(range) = {} => (Refused(range) <=> Refusable(range))
=============================================================================
