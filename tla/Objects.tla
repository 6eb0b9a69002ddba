------------------------------- MODULE Objects -------------------------------
(***************************************************************************)
(* Object names, buffers and vertex arrays of one context: src/src/objects *)
(* object_table.c, buffer.c and vertex_array.c, with the attribute calls   *)
(* of src/src/context/vertex_attrib.c.                                     *)
(*                                                                         *)
(* A name is <<slot, generation>>, the two halves of the 32-bit name; 0 is *)
(* NoName.  The current vertex array lives in a working copy inside the    *)
(* context, the others in the table.  A buffer keeps its bytes twice: in a *)
(* RinGPU buffer and in a CPU shadow that validation reads.                *)
(***************************************************************************)
EXTENDS Integers, Sequences, SequencesExt, FiniteSets, Totals

CONSTANTS
    NSlots,     \* RINGL_OBJECT_SLOT_COUNT
    MaxGen,     \* last generation before the counter wraps to 1 (65535)
    NAttribs,   \* RINGL_MAX_VERTEX_ATTRIBS
    NHandles,   \* bound: RinGPU buffers that exist at once
    Bytes,      \* values a byte takes; 0 fills a buffer without data
    MaxSize,    \* bound: bytes of a buffer
    MaxShadow   \* RINGL_MAX_CPU_SHADOW_BYTES

ASSUME ObjectsAssumption ==
    /\ {NSlots, MaxGen, NHandles, MaxSize} \subseteq Nat \ {0}
    /\ {NAttribs, MaxShadow} \subseteq Nat
    /\ 0 \in Bytes

Slots == 1 .. NSlots
Attribs == 1 .. NAttribs
Handles == 1 .. NHandles
Generations == 1 .. MaxGen
Names == Slots \X Generations
NoName == <<0, 0>>
Contents == BoundedSeq(Bytes, MaxSize)

VARIABLES
    objects,      \* object table: state, type and generation of a slot
    buffers,      \* RinGPU handle (0: none) and CPU shadow of a slot
    device,       \* bytes of a RinGPU buffer; <<>>: it does not exist
    shadowBytes,  \* cpu_shadow_bytes charged for buffers
    heap,         \* bytes of the shadows that malloc gave and free has not taken back
    arrayBuffer,  \* the ARRAY_BUFFER binding
    working,      \* element_array_buffer and vertex_attribs of the context
    saved,        \* the vertex_arrays of the table
    default,      \* default_vertex_array
    bound,        \* vertex_array_binding
    step,         \* how far the update of a buffer is
    update,       \* its locals, and the storage as the call found it
    raised        \* the error the last call recorded

arrayVars == <<working, saved, default, bound>>
bufferVars == <<buffers, device, shadowBytes, heap>>
updateVars == <<step, update>>
vars == <<objects, buffers, device, shadowBytes, heap, arrayBuffer, working, saved, default,
          bound, step, update, raised>>

Unset == [enabled |-> FALSE, buffer |-> NoName]
Blank == [element |-> NoName, attribs |-> [i \in Attribs |-> Unset]]
NoStorage == [handle |-> 0, shadow |-> <<>>]
NoUpdate == [slot |-> 0, content |-> <<>>, handle |-> 0, before |-> <<>>]

Object == [state : {"FREE", "RESERVED", "LIVE"},
           type : {"NONE", "BUFFER", "VERTEX_ARRAY"}, generation : 0 .. MaxGen]
ArrayState == [element : Names \cup {NoName},
               attribs : [Attribs -> [enabled : BOOLEAN, buffer : Names \cup {NoName}]]]
Storages == [Slots -> [handle : Handles \cup {0}, shadow : Contents]]
Updates == [slot : Slots, content : Contents \ {<<>>}, handle : Handles \cup {0},
            before : Storages \X [Handles -> Contents] \X Nat \X Nat]

(* Generations stay within their 16 bits, 0 only before the first use of a  *)
(* slot, and the charge of the shadows stays within the context's limit.    *)
TypeOK ==
    /\ objects \in [Slots -> Object]
    /\ buffers \in Storages
    /\ device \in [Handles -> Contents]
    /\ shadowBytes \in 0 .. MaxShadow /\ heap \in Nat
    /\ arrayBuffer \in Names \cup {NoName}
    /\ {working, default} \subseteq ArrayState
    /\ saved \in [Slots -> ArrayState]
    /\ bound \in Names \cup {NoName}
    /\ \/ step = "idle" /\ update = NoUpdate
       \/ step \in {"reserved", "allocated"} /\ update \in Updates /\ update.handle = 0
       \/ step = "created" /\ update \in Updates /\ update.handle # 0
    /\ raised \in {"NO_ERROR", "INVALID_OPERATION", "INVALID_VALUE", "OUT_OF_MEMORY"}

Unused == [state |-> "FREE", type |-> "NONE", generation |-> 0]

Init ==
    /\ objects = [s \in Slots |-> Unused]
    /\ buffers = [s \in Slots |-> NoStorage]
    /\ device = [h \in Handles |-> <<>>]
    /\ shadowBytes = 0 /\ heap = 0
    /\ arrayBuffer = NoName
    /\ working = Blank
    /\ saved = [s \in Slots |-> Blank]
    /\ default = Blank
    /\ bound = NoName
    /\ step = "idle" /\ update = NoUpdate
    /\ raised = "NO_ERROR"

-----------------------------------------------------------------------------
(***************************************************************************)
(* The object table.                                                       *)
(***************************************************************************)

Slot(name) == name[1]
NameOf(s) == <<s, objects[s].generation>>

Found(name, type) ==
    /\ name \in Names
    /\ objects[Slot(name)].state # "FREE"
    /\ NameOf(Slot(name)) = name
    /\ objects[Slot(name)].type = type

FreeSlots == {s \in Slots : objects[s].state = "FREE"}

(* The first n free slots: allocation scans from slot 0.                    *)
FirstFree(n) == {s \in FreeSlots : Cardinality({t \in FreeSlots : t <= s}) <= n}

Reserved(s, type) == [state |-> "RESERVED", type |-> type,
                      generation |-> IF objects[s].generation = 0 THEN 1
                                     ELSE objects[s].generation]

Released(object) ==
    [state |-> "FREE", type |-> "NONE",
     generation |-> IF object.generation = MaxGen THEN 1 ELSE object.generation + 1]

Allocated(taken, type) ==
    objects' = [s \in Slots |-> IF s \in taken THEN Reserved(s, type) ELSE objects[s]]

(* All or nothing: when the table runs out, the names taken so far are      *)
(* released again, which retires their generation.                          *)
Rollback(type) ==
    objects' = [s \in Slots |-> IF s \in FreeSlots THEN Released(Reserved(s, type))
                                                   ELSE objects[s]]

Promoted(name) == [objects EXCEPT ![Slot(name)].state = "LIVE"]
Release(name) == objects' = [objects EXCEPT ![Slot(name)] = Released(@)]

Fail(error) ==
    /\ raised' = error
    /\ UNCHANGED <<objects, bufferVars, arrayBuffer, arrayVars>>

-----------------------------------------------------------------------------
(***************************************************************************)
(* Vertex arrays.                                                          *)
(***************************************************************************)

GenVertexArrays(n) ==
    /\ IF n <= Cardinality(FreeSlots)
       THEN /\ Allocated(FirstFree(n), "VERTEX_ARRAY")
            /\ saved' = [s \in Slots |-> IF s \in FirstFree(n) THEN Blank ELSE saved[s]]
            /\ raised' = "NO_ERROR"
       ELSE /\ Rollback("VERTEX_ARRAY")
            /\ saved' = [s \in Slots |-> IF s \in FreeSlots THEN Blank ELSE saved[s]]
            /\ raised' = "OUT_OF_MEMORY"
    /\ UNCHANGED <<bufferVars, arrayBuffer, working, default, bound>>

\* Fault: the array that stops being current is not saved.
SaveWorkingSkipped == UNCHANGED <<saved, default>>

(* The copy of the context goes back to the array it belongs to.            *)
SaveWorking ==
    IF bound = NoName
    THEN default' = working /\ UNCHANGED saved
    ELSE saved' = [saved EXCEPT ![Slot(bound)] = working] /\ UNCHANGED default

Stored(array) == IF array = NoName THEN default ELSE saved[Slot(array)]

BindVertexArray(array) ==
    IF array # NoName /\ ~Found(array, "VERTEX_ARRAY")
    THEN Fail("INVALID_OPERATION")
    ELSE /\ array # bound
         /\ SaveWorking
         /\ objects' = IF array = NoName THEN objects ELSE Promoted(array)
         /\ working' = Stored(array)
         /\ bound' = array
         /\ raised' = "NO_ERROR"
         /\ UNCHANGED <<bufferVars, arrayBuffer>>

(* One name of ringl_delete_vertex_arrays; the names of a call are          *)
(* independent, so a call with several is several of these in a row.        *)
DeleteVertexArray(array) ==
    /\ Found(array, "VERTEX_ARRAY")
    /\ working' = IF bound = array THEN default ELSE working
    /\ bound' = IF bound = array THEN NoName ELSE bound
    /\ saved' = [saved EXCEPT ![Slot(array)] = Blank]
    /\ Release(array)
    /\ raised' = "NO_ERROR"
    /\ UNCHANGED <<bufferVars, arrayBuffer, default>>

EditWorking(state) ==
    /\ working' = state
    /\ raised' = "NO_ERROR"
    /\ UNCHANGED <<objects, bufferVars, arrayBuffer, saved, default, bound>>

SetEnabled(i, enabled) ==
    /\ working.attribs[i].enabled # enabled
    /\ EditWorking([working EXCEPT !.attribs[i].enabled = enabled])

VertexAttribPointer(i) ==
    IF arrayBuffer = NoName
    THEN Fail("INVALID_OPERATION")
    ELSE EditWorking([working EXCEPT !.attribs[i].buffer = arrayBuffer])

-----------------------------------------------------------------------------
(***************************************************************************)
(* Buffers.                                                                *)
(***************************************************************************)

GenBuffers(n) ==
    /\ IF n <= Cardinality(FreeSlots)
       THEN Allocated(FirstFree(n), "BUFFER") /\ raised' = "NO_ERROR"
       ELSE Rollback("BUFFER") /\ raised' = "OUT_OF_MEMORY"
    /\ UNCHANGED <<bufferVars, arrayBuffer, arrayVars>>

BindBuffer(target, name) ==
    IF name # NoName /\ ~Found(name, "BUFFER")
    THEN Fail("INVALID_OPERATION")
    ELSE /\ objects' = IF name = NoName THEN objects ELSE Promoted(name)
         /\ arrayBuffer' = IF target = "ARRAY" THEN name ELSE arrayBuffer
         /\ working' = IF target = "ELEMENT" THEN [working EXCEPT !.element = name] ELSE working
         /\ raised' = "NO_ERROR"
         /\ UNCHANGED <<bufferVars, saved, default, bound>>

Without(state, name) ==
    [element |-> IF state.element = name THEN NoName ELSE state.element,
     attribs |-> [i \in Attribs |-> IF state.attribs[i].buffer = name THEN Unset
                                                                   ELSE state.attribs[i]]]

\* Fault: arrays that are not current keep the deleted buffer.
DetachCurrentOnly(name) ==
    /\ working' = Without(working, name)
    /\ UNCHANGED <<saved, default>>

(* ringl_vertex_array_detach_buffer: the working copy, the table, array 0.  *)
Detach(name) ==
    /\ working' = Without(working, name)
    /\ saved' = [s \in Slots |->
                    IF objects[s].type = "VERTEX_ARRAY" THEN Without(saved[s], name)
                                                        ELSE saved[s]]
    /\ default' = Without(default, name)

Destroyed(handle) == IF handle = 0 THEN device ELSE [device EXCEPT ![handle] = <<>>]

(* One name of ringl_delete_buffers, as for vertex arrays.                  *)
DeleteBuffer(name) ==
    /\ Found(name, "BUFFER")
    /\ arrayBuffer' = IF arrayBuffer = name THEN NoName ELSE arrayBuffer
    /\ Detach(name)
    /\ device' = Destroyed(buffers[Slot(name)].handle)
    /\ shadowBytes' = shadowBytes - Len(buffers[Slot(name)].shadow)
    /\ heap' = heap - Len(buffers[Slot(name)].shadow)
    /\ buffers' = [buffers EXCEPT ![Slot(name)] = NoStorage]
    /\ Release(name)
    /\ raised' = "NO_ERROR"
    /\ UNCHANGED bound

BoundName(target) == IF target = "ARRAY" THEN arrayBuffer ELSE working.element

(* Until the new RinGPU buffer is complete the old one stays in place, so   *)
(* the budget holds both shadows for a moment.                              *)
Admitted(size) == shadowBytes + size <= MaxShadow

FreeHandles == {h \in Handles : device[h] = <<>>}

(* RinGPU may hand out any identifier that is not in use; the order of the  *)
(* identifiers means nothing, so the model takes the smallest.              *)
NewHandle == CHOOSE h \in FreeHandles : \A g \in FreeHandles : h <= g

(***************************************************************************)
(* An update gives a buffer new storage, in steps that may each fail:      *)
(*                                                                         *)
(*    reserve the bytes - malloc - create - upload - publish               *)
(*                                                                         *)
(* ringl_buffer_data_impl and ringl_buffer_sub_data_impl have the steps    *)
(* and the exits of each other.                                            *)
(***************************************************************************)
Continue(at, new) ==
    /\ step' = at /\ update' = new /\ raised' = "NO_ERROR"
    /\ UNCHANGED <<objects, arrayBuffer, arrayVars>>
Done(error) ==
    /\ step' = "idle" /\ update' = NoUpdate /\ raised' = error
    /\ UNCHANGED <<objects, arrayBuffer, arrayVars>>

Refuse(error) == Done(error) /\ UNCHANGED bufferVars

Size == Len(update.content)
Old == buffers[update.slot]
ReleaseShadowBytes == shadowBytes' = shadowBytes - Size

(* ringl_context_reserve_shadow_bytes, which the shared budget may refuse   *)
(* as well.                                                                 *)
Reserve(slot, content) ==
    \/ /\ Admitted(Len(content))
       /\ shadowBytes' = shadowBytes + Len(content)
       /\ Continue("reserved", [slot |-> slot, content |-> content, handle |-> 0,
                                before |-> bufferVars])
       /\ UNCHANGED <<buffers, device, heap>>
    \/ Refuse("OUT_OF_MEMORY")

(* No bytes, no storage: the old storage is given back.                     *)
Clear(slot) ==
    /\ buffers' = [buffers EXCEPT ![slot] = NoStorage]
    /\ device' = Destroyed(buffers[slot].handle)
    /\ shadowBytes' = shadowBytes - Len(buffers[slot].shadow)
    /\ heap' = heap - Len(buffers[slot].shadow)
    /\ Done("NO_ERROR")

Malloc ==
    /\ step = "reserved"
    /\ heap' = heap + Size
    /\ Continue("allocated", update)
    /\ UNCHANGED <<buffers, device, shadowBytes>>

MallocFails ==
    /\ step = "reserved"
    /\ ReleaseShadowBytes
    /\ Done("OUT_OF_MEMORY")
    /\ UNCHANGED <<buffers, device, heap>>

(* Nothing is promised of the bytes of a new RinGPU buffer.                 *)
Create ==
    /\ step = "allocated" /\ FreeHandles # {}
    /\ \E byte \in Bytes : device' = [device EXCEPT ![NewHandle] = [i \in 1 .. Size |-> byte]]
    /\ Continue("created", [update EXCEPT !.handle = NewHandle])
    /\ UNCHANGED <<buffers, shadowBytes, heap>>

\* Fault: a handle that came with the failure is destroyed though it is the buffer's own.
CreateFailsUnchecked(handle) ==
    /\ step = "allocated"
    /\ \/ handle = Old.handle /\ device' = Destroyed(handle)
       \/ handle \in FreeHandles \cup {0} /\ UNCHANGED device
    /\ heap' = heap - Size
    /\ ReleaseShadowBytes
    /\ Done("OUT_OF_MEMORY")
    /\ UNCHANGED buffers

(* ringl_backend_create_buffer fails, and a handle may have been written    *)
(* all the same: of a buffer that is destroyed again, so that there is none *)
(* before and after, or the one the object has, which is left alone.        *)
CreateFails(handle) ==
    /\ step = "allocated"
    /\ handle \in FreeHandles \cup {0, Old.handle}
    /\ LET made == IF handle \in FreeHandles THEN [device EXCEPT ![handle] = update.content]
                                             ELSE device
       IN  device' = IF handle # 0 /\ handle # Old.handle THEN [made EXCEPT ![handle] = <<>>]
                                                          ELSE made
    /\ heap' = heap - Size
    /\ ReleaseShadowBytes
    /\ Done("OUT_OF_MEMORY")
    /\ UNCHANGED buffers

\* Fault: a RinGPU buffer whose upload failed is not destroyed.
UploadFailsLeaking ==
    /\ step = "created"
    /\ heap' = heap - Size
    /\ ReleaseShadowBytes
    /\ Done("OUT_OF_MEMORY")
    /\ UNCHANGED <<buffers, device>>

UploadFails ==
    /\ step = "created"
    /\ device' = Destroyed(update.handle)
    /\ heap' = heap - Size
    /\ ReleaseShadowBytes
    /\ Done("OUT_OF_MEMORY")
    /\ UNCHANGED buffers

(* The upload succeeds; the old storage is given back and the new one       *)
(* published.                                                               *)
Publish ==
    /\ step = "created"
    /\ device' = [Destroyed(Old.handle) EXCEPT ![update.handle] = update.content]
    /\ heap' = heap - Len(Old.shadow)
    /\ shadowBytes' = shadowBytes - Len(Old.shadow)
    /\ buffers' = [buffers EXCEPT
                      ![update.slot] = [handle |-> update.handle, shadow |-> update.content]]
    /\ Done("NO_ERROR")

UpdateStep ==
    \/ Malloc \/ MallocFails
    \/ Create \/ \E handle \in Handles \cup {0} : CreateFails(handle)
    \/ UploadFails \/ Publish

BufferData(target, content) ==
    IF BoundName(target) = NoName
    THEN Refuse("INVALID_OPERATION")
    ELSE LET slot == Slot(BoundName(target))
         IN  IF content = <<>> THEN Clear(slot) ELSE Reserve(slot, content)

Written(content, offset, size, byte) ==
    [i \in 1 .. Len(content) |-> IF i \in offset + 1 .. offset + size THEN byte ELSE content[i]]

SubDataError(buffer, offset, size) ==
    CASE offset + size > Len(buffer.shadow) -> "INVALID_VALUE"
      [] offset + size <= Len(buffer.shadow) /\ size > 0 /\ buffer.handle = 0 -> "INVALID_OPERATION"
      [] OTHER -> "NO_ERROR"

BufferSubData(target, offset, size, byte) ==
    IF BoundName(target) = NoName
    THEN Refuse("INVALID_OPERATION")
    ELSE LET slot == Slot(BoundName(target))
             error == SubDataError(buffers[slot], offset, size)
         IN  IF error # "NO_ERROR"
             THEN Refuse(error)
             ELSE /\ size > 0
                  /\ Reserve(slot, Written(buffers[slot].shadow, offset, size, byte))

(* ringl_context_destroy, and a new context for the same thread.            *)
Recreate ==
    /\ device' = [h \in Handles |->
                    IF \E s \in Slots : objects[s].type = "BUFFER" /\ buffers[s].handle = h
                    THEN <<>> ELSE device[h]]
    /\ objects' = [s \in Slots |-> Unused]
    /\ buffers' = [s \in Slots |-> NoStorage]
    /\ shadowBytes' = 0 /\ heap' = 0
    /\ arrayBuffer' = NoName /\ bound' = NoName
    /\ working' = Blank /\ default' = Blank
    /\ saved' = [s \in Slots |-> Blank]
    /\ raised' = "NO_ERROR"

-----------------------------------------------------------------------------
Filled(n, byte) == [i \in 1 .. n |-> byte]
Uniform == {Filled(n, byte) : n \in 0 .. MaxSize, byte \in Bytes}

Call ==
    \/ \E n \in 1 .. NSlots : GenBuffers(n) \/ GenVertexArrays(n)
    \/ \E name \in Names : DeleteBuffer(name) \/ DeleteVertexArray(name)
    \/ \E name \in Names \cup {NoName} : BindVertexArray(name)
    \/ \E target \in {"ARRAY", "ELEMENT"}, name \in Names \cup {NoName} : BindBuffer(target, name)
    \/ \E i \in Attribs :
          \/ \E enabled \in BOOLEAN : SetEnabled(i, enabled)
          \/ VertexAttribPointer(i)
    \/ Recreate

BeginUpdate ==
    \E target \in {"ARRAY", "ELEMENT"} :
       \/ \E content \in Uniform : BufferData(target, content)
       \/ \E offset, size \in 0 .. MaxSize, byte \in Bytes :
             BufferSubData(target, offset, size, byte)

(* A context has one thread: a call begins after the last one returned.     *)
Next ==
    \/ step = "idle" /\ Call /\ UNCHANGED updateVars
    \/ step = "idle" /\ BeginUpdate
    \/ UpdateStep

Spec == Init /\ [][Next]_vars

-----------------------------------------------------------------------------
(* The buffer names an array state refers to.                               *)
Uses(state) == ({state.element} \cup {state.attribs[i].buffer : i \in Attribs}) \ {NoName}

(* No binding and no array, current, inactive or default, refers to a       *)
(* buffer that was deleted or never bound: ringl_delete_buffers finds every *)
(* reference before the name can be handed out again, and the current array *)
(* exists.                                                                  *)
ReferencesLive ==
    /\ \A name \in ({arrayBuffer} \ {NoName}) \cup Uses(working) \cup Uses(default)
                      \cup UNION {Uses(saved[s]) : s \in Slots} :
          Found(name, "BUFFER") /\ objects[Slot(name)].state = "LIVE"
    /\ bound # NoName =>
          Found(bound, "VERTEX_ARRAY") /\ objects[Slot(bound)].state = "LIVE"

(* RinGPU buffers are neither leaked nor shared: every one that exists      *)
(* belongs to exactly one object, or to the update that just created it;    *)
(* that object is a bound-once buffer, and no object holds the handle of a  *)
(* destroyed one.                                                           *)
Pending(h) == step = "created" /\ update.handle = h
HandlesOwned ==
    /\ \A h \in Handles : device[h] # <<>> =>
          Cardinality({s \in Slots : buffers[s].handle = h}) = IF Pending(h) THEN 0 ELSE 1
    /\ \A s \in Slots : buffers[s].handle # 0 =>
          /\ device[buffers[s].handle] # <<>>
          /\ objects[s].type = "BUFFER" /\ objects[s].state = "LIVE"

(* "Keep GPU storage and the robust CPU shadow identical": what validation  *)
(* reads is what the device draws with, at each step of an update and after *)
(* every failure.                                                           *)
ShadowMatchesDevice ==
    \A s \in Slots : buffers[s].shadow =
        IF buffers[s].handle = 0 THEN <<>> ELSE device[buffers[s].handle]

(* Allocated and charged are the shadows of the objects, and what the       *)
(* update in progress has allocated and reserved, no more and no less.      *)
Shadows == Total([s \in Slots |-> Len(buffers[s].shadow)], NSlots)
ShadowAccounting ==
    /\ heap = Shadows + IF step \in {"allocated", "created"} THEN Size ELSE 0
    /\ shadowBytes = Shadows + IF step # "idle" THEN Size ELSE 0

(* The storage of buffers as a whole: no handle leaks or is shared, the copy  *)
(* the CPU keeps is what the device has, and its bytes are charged once.      *)
StorageConsistent == TypeOK /\ HandlesOwned /\ ShadowMatchesDevice /\ ShadowAccounting

(* A call that records an error, at whatever step it fails, leaves the      *)
(* storage of all buffers, its charge and the heap as the call found them,  *)
(* and objects, bindings and arrays; names taken by a failed gen call are   *)
(* free again.                                                              *)
StorageBefore == IF step = "idle" THEN bufferVars ELSE update.before

FailedCallsChangeNothing ==
    [][raised' # "NO_ERROR" =>
          /\ bufferVars' = StorageBefore /\ step' = "idle"
          /\ UNCHANGED <<arrayBuffer, working, default, bound>>
          /\ \A s \in Slots : objects'[s].state = objects[s].state
                              /\ objects'[s].type = objects[s].type
          /\ \A s \in Slots \ FreeSlots : objects'[s] = objects[s] /\ saved'[s] = saved[s]]_vars

(* Every array seems to keep a state of its own, although only the current  *)
(* one is in the working copy: the refinement of VertexArrays.              *)
ContentOf(s) == IF s = Slot(bound) THEN working ELSE IF s = 0 THEN default ELSE saved[s]

Arrays == INSTANCE VertexArrays WITH
    Buffers <- Names, NoBuffer <- NoName, current <- Slot(bound),
    content <- [s \in Slots \cup {0} |-> ContentOf(s)]

ArraysKeepTheirState == Arrays!Spec
=============================================================================
