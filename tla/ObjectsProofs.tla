---------------------------- MODULE ObjectsProofs ----------------------------
(***************************************************************************)
(* Proofs about Objects: no reference outlives the object it names, the    *)
(* storage of buffers is owned, copied and charged exactly, a call that    *)
(* fails changes nothing, and vertex arrays keep their state.              *)
(***************************************************************************)
EXTENDS Objects, TotalsTheorems, FiniteSetTheorems

-----------------------------------------------------------------------------
(* The inductive invariant.                                                 *)

(* A slot that is taken has a type and a generation that was given out.     *)
SlotsSound ==
    \A s \in Slots :
        /\ objects[s].state = "FREE" <=> objects[s].type = "NONE"
        /\ objects[s].state # "FREE" => objects[s].generation # 0

(* Only the slots of vertex arrays hold a state.                            *)
IdleBlank == \A s \in Slots : objects[s].type # "VERTEX_ARRAY" => saved[s] = Blank

(* The names that may be referred to, and states that refer to no others.   *)
Live(type) == {name \in Names : Found(name, type) /\ objects[Slot(name)].state = "LIVE"}
RefersTo(state, names) ==
    /\ state.element \in names \cup {NoName}
    /\ \A i \in Attribs : state.attribs[i].buffer \in names \cup {NoName}
NamesLive ==
    /\ arrayBuffer \in Live("BUFFER") \cup {NoName}
    /\ bound \in Live("VERTEX_ARRAY") \cup {NoName}
    /\ RefersTo(working, Live("BUFFER")) /\ RefersTo(default, Live("BUFFER"))
    /\ \A s \in Slots : RefersTo(saved[s], Live("BUFFER"))

(* Storage that is settled, for a table of objects: handles have one owner  *)
(* each, a buffer that was bound; shadows are what the device has, and      *)
(* their bytes are charged and allocated.                                   *)
Owned(o, b, d) ==
    /\ \A s \in Slots : b[s].handle # 0 =>
          d[b[s].handle] # <<>> /\ o[s].type = "BUFFER" /\ o[s].state = "LIVE"
    /\ \A s, t \in Slots : b[s].handle # 0 /\ b[s].handle = b[t].handle => s = t
    /\ \A h \in Handles : d[h] # <<>> => \E s \in Slots : b[s].handle = h
Matching(b, d) ==
    \A s \in Slots : b[s].shadow = IF b[s].handle = 0 THEN <<>> ELSE d[b[s].handle]
LengthsOf(b) == [s \in Slots |-> Len(b[s].shadow)]
StorageTyped(b, d, charge, bytes) ==
    /\ b \in Storages /\ d \in [Handles -> Contents]
    /\ charge \in 0 .. MaxShadow /\ bytes \in Nat
Settled(o, b, d, charge, bytes) ==
    /\ StorageTyped(b, d, charge, bytes)
    /\ Owned(o, b, d) /\ Matching(b, d)
    /\ charge = Total(LengthsOf(b), NSlots) /\ bytes = Total(LengthsOf(b), NSlots)

(* What is left of the storage without the update in progress, which is     *)
(* what the call found and what its exits go back to.                       *)
KeptDevice == IF step = "created" THEN [device EXCEPT ![update.handle] = <<>>] ELSE device
KeptCharge == IF step = "idle" THEN shadowBytes ELSE shadowBytes - Size
KeptBytes == IF step \in {"allocated", "created"} THEN heap - Size ELSE heap
UpdateSound ==
    \/ step = "idle" /\ update = NoUpdate
    \/ /\ step \in {"reserved", "allocated", "created"} /\ update \in Updates
       /\ objects[update.slot].type = "BUFFER" /\ objects[update.slot].state = "LIVE"
       /\ update.before = <<buffers, KeptDevice, KeptCharge, KeptBytes>>
       /\ step = "created" <=> update.handle # 0
       /\ step = "created" => device[update.handle] # <<>>

(* The parts of the type invariant.                                         *)
TableType ==
    /\ objects \in [Slots -> Object]
    /\ arrayBuffer \in Names \cup {NoName} /\ bound \in Names \cup {NoName}
    /\ raised \in {"NO_ERROR", "INVALID_OPERATION", "INVALID_VALUE", "OUT_OF_MEMORY"}
StatesType == working \in ArrayState /\ default \in ArrayState /\ saved \in [Slots -> ArrayState]
StorageType == StorageTyped(buffers, device, shadowBytes, heap)

Storage ==
    /\ StorageType /\ UpdateSound
    /\ Settled(objects, buffers, KeptDevice, KeptCharge, KeptBytes)
Table == TableType /\ StatesType /\ SlotsSound /\ IdleBlank /\ NamesLive

Inv == Table /\ Storage

LEMMA Constants ==
    /\ NSlots \in Nat \ {0} /\ MaxGen \in Nat \ {0} /\ NHandles \in Nat \ {0} /\ MaxSize \in Nat \ {0}
    /\ NAttribs \in Nat /\ MaxShadow \in Nat /\ 0 \in Bytes
  BY ObjectsAssumption

LEMMA InvParts == Inv => TypeOK
<1> SUFFICES ASSUME Inv PROVE TypeOK
  OBVIOUS
<1>1. TableType /\ StatesType /\ StorageType /\ UpdateSound
  BY DEF Inv, Table, Storage
<1>2. \/ step = "idle" /\ update = NoUpdate
      \/ step \in {"reserved", "allocated"} /\ update \in Updates /\ update.handle = 0
      \/ step = "created" /\ update \in Updates /\ update.handle # 0
  BY <1>1 DEF UpdateSound
<1> QED
  BY <1>1, <1>2 DEF TableType, StatesType, StorageType, StorageTyped, TypeOK

-----------------------------------------------------------------------------
(* Names.                                                                   *)

(* A name that is found is the name of its slot.                            *)
LEMMA FoundSlot ==
    ASSUME NEW name, NEW type, Found(name, type)
    PROVE  /\ name \in Names /\ name # NoName /\ Slot(name) \in Slots
           /\ name = NameOf(Slot(name)) /\ objects[Slot(name)].type = type
           /\ objects[Slot(name)].state # "FREE"
  BY Constants DEF Found, Names, NoName, Slot, Slots, Generations

LEMMA SameSlot ==
    ASSUME NEW a, NEW b, NEW type, NEW other, Found(a, type), Found(b, other), Slot(a) = Slot(b)
    PROVE  a = b /\ type = other
  BY FoundSlot

(* A name stays live as long as its slot stays as it is.                    *)
LEMMA LiveKept ==
    ASSUME NEW type, NEW name \in Live(type), objects'[Slot(name)] = objects[Slot(name)]
    PROVE  name \in Live(type)'
  BY DEF Live, Found, NameOf

LEMMA LiveSlot ==
    ASSUME NEW type, NEW name \in Live(type)
    PROVE  /\ Found(name, type) /\ name \in Names /\ name # NoName /\ Slot(name) \in Slots
           /\ objects[Slot(name)].type = type /\ objects[Slot(name)].state = "LIVE"
  BY FoundSlot DEF Live

(* A state keeps its references when more names are live.                   *)
LEMMA RefersToMore ==
    ASSUME NEW state, NEW names, NEW more, RefersTo(state, names), names \subseteq more
    PROVE  RefersTo(state, more)
  BY DEF RefersTo

LEMMA BlankRefers == Blank \in ArrayState /\ \A names : RefersTo(Blank, names)
  BY DEF RefersTo, Blank, Unset, ArrayState

(* References survive a step that keeps every live name.                    *)
LEMMA NamesKept ==
    ASSUME NamesLive, Live("BUFFER") \subseteq Live("BUFFER")',
           arrayBuffer' \in Live("BUFFER")' \cup {NoName},
           bound' \in Live("VERTEX_ARRAY")' \cup {NoName},
           working' \in {working, default} \cup {saved[s] : s \in Slots},
           default' \in {working, default},
           \A s \in Slots : saved'[s] \in {saved[s], working, Blank}
    PROVE  NamesLive'
<1>1. \A state : RefersTo(state, Live("BUFFER")) => RefersTo(state, Live("BUFFER")')
  BY RefersToMore
<1>2. /\ RefersTo(working', Live("BUFFER")') /\ RefersTo(default', Live("BUFFER")')
      /\ \A s \in Slots : RefersTo(saved'[s], Live("BUFFER")')
  BY <1>1, BlankRefers DEF NamesLive
<1> QED
  BY <1>2 DEF NamesLive, RefersTo

-----------------------------------------------------------------------------
(* Storage.                                                                 *)

(* A call that is no update begins and ends without one.                    *)
Calling == step = "idle" /\ UNCHANGED updateVars

LEMMA IdleStorage ==
    ASSUME step = "idle"
    PROVE  /\ KeptDevice = device /\ KeptCharge = shadowBytes /\ KeptBytes = heap
           /\ Storage <=> /\ Settled(objects, buffers, device, shadowBytes, heap)
                          /\ update = NoUpdate
<1>1. KeptDevice = device /\ KeptCharge = shadowBytes /\ KeptBytes = heap
  BY DEF KeptDevice, KeptCharge, KeptBytes
<1>2. UpdateSound <=> update = NoUpdate
  BY DEF UpdateSound
<1> QED
  BY <1>1, <1>2 DEF Storage, StorageType, Settled

LEMMA IdleStorageNext ==
    ASSUME step' = "idle", update' = NoUpdate,
           Settled(objects', buffers', device', shadowBytes', heap')
    PROVE  Storage'
<1>1. KeptDevice' = device' /\ KeptCharge' = shadowBytes' /\ KeptBytes' = heap'
  BY DEF KeptDevice, KeptCharge, KeptBytes
<1>2. UpdateSound'
  BY DEF UpdateSound
<1> QED
  BY <1>1, <1>2 DEF Storage, StorageType, Settled

(* Settled storage stays so when no buffer's slot changes.                  *)
LEMMA SettledSame ==
    ASSUME NEW o, NEW o2, NEW b, NEW d, NEW charge, NEW bytes, Settled(o, b, d, charge, bytes),
           \A s \in Slots : o[s].type = "BUFFER" /\ o[s].state = "LIVE" =>
               o2[s].type = "BUFFER" /\ o2[s].state = "LIVE"
    PROVE  Settled(o2, b, d, charge, bytes)
  BY DEF Settled, Owned

LEMMA StorageSame ==
    ASSUME Storage, Calling, UNCHANGED bufferVars,
           \A s \in Slots : objects[s].type = "BUFFER" /\ objects[s].state = "LIVE" =>
               objects'[s].type = "BUFFER" /\ objects'[s].state = "LIVE"
    PROVE  Storage'
<1>1. Settled(objects, buffers, device, shadowBytes, heap) /\ update = NoUpdate
  BY IdleStorage DEF Calling
<1>2. Settled(objects', buffers, device, shadowBytes, heap)
  BY <1>1, SettledSame
<1> QED
  BY <1>1, <1>2, IdleStorageNext DEF Calling, updateVars, bufferVars

(* A call that touches nothing but the storage of buffers.                  *)
LEMMA OnlyStorage ==
    ASSUME Inv, Storage', UNCHANGED <<objects, arrayBuffer, arrayVars>>,
           raised' \in {"NO_ERROR", "INVALID_OPERATION", "INVALID_VALUE", "OUT_OF_MEMORY"}
    PROVE  Inv'
<1>1. UNCHANGED <<working, saved, default, bound>>
  BY DEF arrayVars
<1>2. Table'
  BY <1>1 DEF Inv, Table, TableType, StatesType, SlotsSound, IdleBlank, NamesLive, Live, Found,
              NameOf, RefersTo
<1> QED
  BY <1>2 DEF Inv

LEMMA ContentsLen ==
    ASSUME NEW content \in Contents
    PROVE  Len(content) \in 0 .. MaxSize /\ (Len(content) = 0 <=> content = <<>>)
  BY Constants DEF Contents, BoundedSeq, SeqOf

LEMMA ContentsAre ==
    ASSUME NEW content \in Seq(Bytes), Len(content) <= MaxSize
    PROVE  content \in Contents
<1>1. content \in [1 .. Len(content) -> Bytes] /\ Len(content) \in 0 .. MaxSize
  BY Constants
<1> QED
  BY <1>1 DEF Contents, BoundedSeq, SeqOf

LEMMA EmptyContent == <<>> \in Contents /\ Len(<<>>) = 0
<1> DEFINE empty == <<>>
<1>1. empty \in Seq(Bytes) /\ Len(empty) = 0
  OBVIOUS
<1> HIDE DEF empty
<1>2. Len(empty) <= MaxSize
  BY <1>1, Constants
<1>3. empty \in Contents
  BY <1>1, <1>2, ContentsAre
<1> QED
  BY <1>1, <1>3 DEF empty

LEMMA LengthsTyped ==
    ASSUME NEW b \in Storages
    PROVE  LengthsOf(b) \in [1 .. NSlots -> Nat] /\ LengthsOf(b) \in [1 .. NSlots -> Int]
  BY ContentsLen DEF Storages, LengthsOf, Slots

(* The sum of the shadows follows the one that changes.                     *)
LEMMA Recharge ==
    ASSUME NEW b \in Storages, NEW slot \in Slots,
           NEW entry \in [handle : Handles \cup {0}, shadow : Contents]
    PROVE  /\ Total(LengthsOf([b EXCEPT ![slot] = entry]), NSlots)
              = Total(LengthsOf(b), NSlots) + Len(entry.shadow) - Len(b[slot].shadow)
           /\ Total(LengthsOf(b), NSlots) \in Nat
           /\ Total(LengthsOf([b EXCEPT ![slot] = entry]), NSlots) \in Nat
<1> DEFINE length == Len(entry.shadow)
           f == LengthsOf(b)
           g == LengthsOf([b EXCEPT ![slot] = entry])
<1>1. length \in Nat
  BY ContentsLen
<1>2. NSlots \in Nat /\ slot \in 1 .. NSlots /\ f \in [1 .. NSlots -> Nat] /\ f \in [1 .. NSlots -> Int]
      /\ f[slot] = Len(b[slot].shadow)
  BY LengthsTyped, Constants DEF Slots, LengthsOf
<1>3. g = [f EXCEPT ![slot] = length]
  BY DEF LengthsOf, Storages
<1>4. g \in [1 .. NSlots -> Nat]
  BY <1>1, <1>2, <1>3
<1> HIDE DEF length, f, g
<1>5. \A v \in Int : Total([f EXCEPT ![slot] = v], NSlots) = Total(f, NSlots) - f[slot] + v
  BY <1>2, TotalUpdate
<1>6. Total(g, NSlots) = Total(f, NSlots) - f[slot] + length
  <2>1. length \in Int
    BY <1>1
  <2>2. Total([f EXCEPT ![slot] = length], NSlots) = Total(f, NSlots) - f[slot] + length
    BY <1>5, <2>1, Zenon
  <2> QED
    BY <1>3, <2>2, Zenon
<1>7. Total(f, NSlots) \in Nat /\ Total(g, NSlots) \in Nat
  BY <1>2, <1>4, TotalNat
<1>8. f[slot] \in Nat
  BY <1>2
<1>9. Total(g, NSlots) = Total(f, NSlots) + length - f[slot]
  BY <1>1, <1>6, <1>7, <1>8
<1> QED
  BY <1>2, <1>7, <1>9 DEF f, g, length

-----------------------------------------------------------------------------
(* Calls that take free slots.                                              *)

(* What is done to free slots disturbs nobody.                              *)
FreeSlotsOnly ==
    /\ objects' \in [Slots -> Object] /\ saved' \in [Slots -> ArrayState]
    /\ \A s \in Slots \ FreeSlots : objects'[s] = objects[s] /\ saved'[s] = saved[s]
    /\ \A s \in FreeSlots :
          /\ objects'[s].state = "FREE" <=> objects'[s].type = "NONE"
          /\ objects'[s].state # "FREE" => objects'[s].generation # 0
          /\ saved'[s] = Blank
    /\ raised' \in {"NO_ERROR", "OUT_OF_MEMORY"}
    /\ UNCHANGED <<bufferVars, arrayBuffer, working, default, bound>>

LEMMA FreeSlotsOnlyKeepsInv ==
    ASSUME Inv, Calling, FreeSlotsOnly
    PROVE  Inv'
<1>1. Storage'
  BY StorageSame DEF Inv, FreeSlotsOnly, FreeSlots
<1>2. TableType' /\ StatesType' /\ SlotsSound'
  BY DEF Inv, Table, TableType, StatesType, SlotsSound, FreeSlotsOnly
<1>3. IdleBlank'
  BY DEF Inv, Table, IdleBlank, FreeSlotsOnly
<1>4. \A type : Live(type) \subseteq Live(type)'
  <2> SUFFICES ASSUME NEW type, NEW name \in Live(type) PROVE name \in Live(type)'
    OBVIOUS
  <2>1. Slot(name) \in Slots \ FreeSlots
    BY LiveSlot DEF FreeSlots
  <2> QED
    BY <2>1, LiveKept DEF FreeSlotsOnly
<1>5. NamesLive'
  <2>1. /\ arrayBuffer' \in Live("BUFFER")' \cup {NoName}
        /\ bound' \in Live("VERTEX_ARRAY")' \cup {NoName}
    BY <1>4 DEF Inv, Table, NamesLive, FreeSlotsOnly
  <2>2. /\ working' = working /\ default' = default
        /\ \A s \in Slots : saved'[s] \in {saved[s], working, Blank}
    BY DEF FreeSlotsOnly, FreeSlots
  <2> QED
    BY <1>4, <2>1, <2>2, NamesKept DEF Inv, Table
<1> QED
  BY <1>1, <1>2, <1>3, <1>5 DEF Inv, Table

(* A slot that is taken, and one that is released again.                    *)
LEMMA SlotChanges ==
    ASSUME TableType, SlotsSound, NEW s \in Slots, NEW type \in {"BUFFER", "VERTEX_ARRAY"}
    PROVE  /\ Reserved(s, type) \in Object /\ Reserved(s, type).state = "RESERVED"
           /\ Reserved(s, type).type = type /\ Reserved(s, type).generation \in Generations
           /\ Released(Reserved(s, type)) \in Object
           /\ Released(Reserved(s, type)).state = "FREE"
           /\ Released(Reserved(s, type)).type = "NONE"
<1>1. objects[s].generation \in 0 .. MaxGen
  BY DEF TableType, Object
<1>2. /\ Reserved(s, type).generation \in Generations
      /\ Reserved(s, type) \in Object
  BY <1>1, Constants DEF Reserved, Object, Generations
<1>3. Released(Reserved(s, type)) \in Object
  <2> DEFINE r == Reserved(s, type)
  <2>1. r.generation \in 1 .. MaxGen
    BY <1>2 DEF Generations
  <2> HIDE DEF r
  <2>2. Released(r) \in Object
    BY <2>1, Constants DEF Released, Object
  <2> QED
    BY <2>2 DEF r
<1> QED
  BY <1>2, <1>3 DEF Reserved, Released

LEMMA FirstFreeIsFree ==
    ASSUME NEW n
    PROVE  FirstFree(n) \subseteq FreeSlots /\ FreeSlots \subseteq Slots
  BY DEF FirstFree, FreeSlots

LEMMA GenKeepsInv ==
    ASSUME Inv, Calling, NEW taken \in SUBSET FreeSlots, NEW type \in {"BUFFER", "VERTEX_ARRAY"},
           (Allocated(taken, type) /\ raised' = "NO_ERROR") \/ (Rollback(type) /\ raised' = "OUT_OF_MEMORY"),
           saved' \in [Slots -> ArrayState],
           \A s \in Slots : saved'[s] = saved[s] \/ (s \in FreeSlots /\ saved'[s] = Blank),
           UNCHANGED <<bufferVars, arrayBuffer, working, default, bound>>
    PROVE  FreeSlotsOnly /\ Inv'
<1>1. TableType /\ SlotsSound /\ IdleBlank
  BY DEF Inv, Table
<1>2. \A s \in FreeSlots : objects[s].state = "FREE" /\ objects[s].type = "NONE" /\ saved[s] = Blank
  BY <1>1 DEF FreeSlots, SlotsSound, IdleBlank
<1>3. CASE Allocated(taken, type) /\ raised' = "NO_ERROR"
  <2>1. objects' \in [Slots -> Object]
    BY <1>1, <1>3, SlotChanges DEF Allocated, TableType
  <2>2. \A s \in FreeSlots :
          /\ objects'[s].state = "FREE" <=> objects'[s].type = "NONE"
          /\ objects'[s].state # "FREE" => objects'[s].generation # 0
    BY <1>1, <1>2, <1>3, SlotChanges DEF Allocated, FreeSlots, Generations
  <2>3. \A s \in Slots \ FreeSlots : objects'[s] = objects[s]
    BY <1>3 DEF Allocated
  <2> QED
    BY <1>2, <1>3, <2>1, <2>2, <2>3, FreeSlotsOnlyKeepsInv DEF FreeSlotsOnly, FreeSlots
<1>4. CASE Rollback(type) /\ raised' = "OUT_OF_MEMORY"
  <2>1. objects' \in [Slots -> Object]
    BY <1>1, <1>4, SlotChanges DEF Rollback, TableType
  <2>2. \A s \in FreeSlots : objects'[s].state = "FREE" /\ objects'[s].type = "NONE"
    BY <1>1, <1>4, SlotChanges DEF Rollback, FreeSlots
  <2>3. \A s \in Slots \ FreeSlots : objects'[s] = objects[s]
    BY <1>4 DEF Rollback
  <2> QED
    BY <1>2, <1>4, <2>1, <2>2, <2>3, FreeSlotsOnlyKeepsInv DEF FreeSlotsOnly, FreeSlots
<1> QED
  BY <1>3, <1>4

LEMMA GenVertexArraysKeepsInv ==
    ASSUME Inv, Calling, NEW n \in 1 .. NSlots, GenVertexArrays(n)
    PROVE  FreeSlotsOnly /\ Inv'
<1>1. saved \in [Slots -> ArrayState]
  BY DEF Inv, Table, StatesType
<1>2. /\ saved' \in [Slots -> ArrayState]
      /\ \A s \in Slots : saved'[s] = saved[s] \/ (s \in FreeSlots /\ saved'[s] = Blank)
  BY <1>1, FirstFreeIsFree, BlankRefers DEF GenVertexArrays
<1>3. \/ Allocated(FirstFree(n), "VERTEX_ARRAY") /\ raised' = "NO_ERROR"
      \/ Rollback("VERTEX_ARRAY") /\ raised' = "OUT_OF_MEMORY"
  BY DEF GenVertexArrays
<1>4. UNCHANGED <<bufferVars, arrayBuffer, working, default, bound>>
  BY DEF GenVertexArrays
<1> QED
  BY <1>2, <1>3, <1>4, FirstFreeIsFree, GenKeepsInv

LEMMA GenBuffersKeepsInv ==
    ASSUME Inv, Calling, NEW n \in 1 .. NSlots, GenBuffers(n)
    PROVE  FreeSlotsOnly /\ Inv' /\ UNCHANGED saved
<1>1. saved' = saved /\ saved' \in [Slots -> ArrayState]
  BY DEF Inv, Table, StatesType, GenBuffers, arrayVars
<1>2. \/ Allocated(FirstFree(n), "BUFFER") /\ raised' = "NO_ERROR"
      \/ Rollback("BUFFER") /\ raised' = "OUT_OF_MEMORY"
  BY DEF GenBuffers
<1>3. UNCHANGED <<bufferVars, arrayBuffer, working, default, bound>>
  BY DEF GenBuffers, arrayVars
<1> QED
  BY <1>1, <1>2, <1>3, FirstFreeIsFree, GenKeepsInv

-----------------------------------------------------------------------------
(* Calls on one name of the table.                                          *)

LEMMA Promotes ==
    ASSUME TableType, SlotsSound, NEW type, NEW name, Found(name, type), objects' = Promoted(name)
    PROVE  /\ objects' \in [Slots -> Object] /\ SlotsSound'
           /\ \A s \in Slots : /\ objects'[s].type = objects[s].type
                               /\ objects[s].state = "LIVE" => objects'[s].state = "LIVE"
           /\ \A other : Live(other) \subseteq Live(other)'
           /\ name \in Live(type)'
<1>1. /\ objects \in [Slots -> Object] /\ Slot(name) \in Slots
      /\ objects[Slot(name)].type = type /\ objects[Slot(name)].state # "FREE"
      /\ name \in Names /\ name = NameOf(Slot(name))
  BY FoundSlot DEF TableType
<1>2. objects' = [objects EXCEPT ![Slot(name)].state = "LIVE"]
  BY DEF Promoted
<1>3. /\ objects' \in [Slots -> Object]
      /\ \A s \in Slots : /\ objects'[s].type = objects[s].type
                          /\ objects'[s].generation = objects[s].generation
                          /\ objects[s].state = "LIVE" => objects'[s].state = "LIVE"
                          /\ objects'[s].state = "FREE" <=> objects[s].state = "FREE"
      /\ objects'[Slot(name)].state = "LIVE"
  BY <1>1, <1>2 DEF Object
<1>4. SlotsSound'
  BY <1>3 DEF SlotsSound
<1>5. \A other, n : Found(n, other) => Found(n, other)'
  <2> SUFFICES ASSUME NEW other, NEW n, Found(n, other) PROVE Found(n, other)'
    OBVIOUS
  <2> QED
    BY <1>3, FoundSlot DEF Found, NameOf
<1>6. \A other : Live(other) \subseteq Live(other)'
  BY <1>3, <1>5, FoundSlot DEF Live
<1>7. name \in Live(type)'
  BY <1>1, <1>3, <1>5 DEF Live
<1> QED
  BY <1>3, <1>4, <1>6, <1>7

LEMMA Releases ==
    ASSUME TableType, SlotsSound, NEW type, NEW name, Found(name, type), Release(name)
    PROVE  /\ objects' \in [Slots -> Object] /\ SlotsSound'
           /\ objects'[Slot(name)].state = "FREE" /\ objects'[Slot(name)].type = "NONE"
           /\ \A s \in Slots \ {Slot(name)} : objects'[s] = objects[s]
           /\ \A other : Live(other) \ {name} \subseteq Live(other)'
           /\ \A other : name \in Live(other) => other = type
<1>1. objects \in [Slots -> Object] /\ Slot(name) \in Slots
  BY FoundSlot DEF TableType
<1>2. objects' = [objects EXCEPT ![Slot(name)] = Released(objects[Slot(name)])]
  BY DEF Release
<1>3. /\ Released(objects[Slot(name)]) \in Object
      /\ Released(objects[Slot(name)]).state = "FREE" /\ Released(objects[Slot(name)]).type = "NONE"
  <2> DEFINE r == objects[Slot(name)]
  <2>1. r.generation \in 0 .. MaxGen
    BY <1>1 DEF Object
  <2> HIDE DEF r
  <2>2. Released(r) \in Object /\ Released(r).state = "FREE" /\ Released(r).type = "NONE"
    BY <2>1, Constants DEF Released, Object
  <2> QED
    BY <2>2 DEF r
<1>4. /\ objects' \in [Slots -> Object]
      /\ objects'[Slot(name)].state = "FREE" /\ objects'[Slot(name)].type = "NONE"
      /\ \A s \in Slots \ {Slot(name)} : objects'[s] = objects[s]
  BY <1>1, <1>2, <1>3
<1>5. SlotsSound'
  BY <1>4 DEF SlotsSound
<1>6. \A other : Live(other) \ {name} \subseteq Live(other)'
  <2> SUFFICES ASSUME NEW other, NEW n \in Live(other), n # name PROVE n \in Live(other)'
    OBVIOUS
  <2>1. Slot(n) # Slot(name) /\ Slot(n) \in Slots
    BY LiveSlot, SameSlot
  <2> QED
    BY <1>4, <2>1, LiveKept
<1>7. \A other : name \in Live(other) => other = type
  BY LiveSlot, SameSlot
<1> QED
  BY <1>4, <1>5, <1>6, <1>7

LEMMA FailKeepsInv ==
    ASSUME Inv, Calling, NEW error \in {"INVALID_OPERATION", "INVALID_VALUE"}, Fail(error)
    PROVE  Inv'
<1>1. Storage'
  BY StorageSame DEF Inv, Fail
<1> QED
  BY <1>1, OnlyStorage DEF Fail

LEMMA BindVertexArrayKeepsInv ==
    ASSUME Inv, Calling, NEW array \in Names \cup {NoName}, BindVertexArray(array)
    PROVE  Inv'
<1>1. CASE array # NoName /\ ~Found(array, "VERTEX_ARRAY")
  BY <1>1, FailKeepsInv DEF BindVertexArray
<1>2. CASE array = NoName \/ Found(array, "VERTEX_ARRAY")
  <2> TableType /\ StatesType /\ SlotsSound /\ IdleBlank /\ NamesLive
    BY DEF Inv, Table
  <2>1. /\ SaveWorking /\ working' = Stored(array) /\ bound' = array /\ raised' = "NO_ERROR"
        /\ objects' = IF array = NoName THEN objects ELSE Promoted(array)
        /\ UNCHANGED <<bufferVars, arrayBuffer>>
    BY <1>2 DEF BindVertexArray
  <2>2. /\ objects' \in [Slots -> Object] /\ SlotsSound'
        /\ \A s \in Slots : /\ objects'[s].type = objects[s].type
                            /\ objects[s].state = "LIVE" => objects'[s].state = "LIVE"
        /\ \A other : Live(other) \subseteq Live(other)'
        /\ array \in Live("VERTEX_ARRAY")' \cup {NoName}
    <3>1. CASE array = NoName
      BY <2>1, <3>1 DEF TableType, SlotsSound, Live, Found, NameOf
    <3>2. CASE array # NoName
      BY <1>2, <2>1, <3>2, Promotes
    <3> QED
      BY <3>1, <3>2
  <2>3. Storage'
    BY <2>1, <2>2, StorageSame DEF Inv
  <2>4. array # NoName => Slot(array) \in Slots
    BY <1>2, FoundSlot
  <2>5. bound # NoName => Slot(bound) \in Slots /\ objects[Slot(bound)].type = "VERTEX_ARRAY"
    BY LiveSlot DEF NamesLive
  <2>6. /\ working' \in {working, default} \cup {saved[s] : s \in Slots}
        /\ default' \in {working, default}
        /\ saved' = saved \/ (bound # NoName /\ saved' = [saved EXCEPT ![Slot(bound)] = working])
    BY <2>1, <2>4 DEF Stored, SaveWorking
  <2>7. StatesType'
    BY <2>5, <2>6 DEF StatesType
  <2>8. \A s \in Slots : saved'[s] \in {saved[s], working, Blank}
    BY <2>6 DEF StatesType
  <2>9. NamesLive'
    <3>1. arrayBuffer' \in Live("BUFFER")' \cup {NoName}
      BY <2>1, <2>2 DEF NamesLive
    <3> QED
      BY <2>1, <2>2, <2>6, <2>8, <3>1, NamesKept
  <2>10. IdleBlank'
    BY <2>2, <2>5, <2>6 DEF IdleBlank, StatesType
  <2>11. TableType'
    BY <2>1, <2>2 DEF TableType
  <2> QED
    BY <2>2, <2>3, <2>7, <2>9, <2>10, <2>11 DEF Inv, Table
<1> QED
  BY <1>1, <1>2

LEMMA DeleteVertexArrayKeepsInv ==
    ASSUME Inv, Calling, NEW array \in Names, DeleteVertexArray(array)
    PROVE  Inv'
<1> TableType /\ StatesType /\ SlotsSound /\ IdleBlank /\ NamesLive
  BY DEF Inv, Table
<1>1. /\ Found(array, "VERTEX_ARRAY") /\ Release(array)
      /\ working' = IF bound = array THEN default ELSE working
      /\ bound' = IF bound = array THEN NoName ELSE bound
      /\ saved' = [saved EXCEPT ![Slot(array)] = Blank]
      /\ raised' = "NO_ERROR"
      /\ UNCHANGED <<bufferVars, arrayBuffer, default>>
  BY DEF DeleteVertexArray
<1>2. Slot(array) \in Slots /\ objects[Slot(array)].type = "VERTEX_ARRAY"
  BY <1>1, FoundSlot
<1>3. /\ objects' \in [Slots -> Object] /\ SlotsSound'
      /\ objects'[Slot(array)].state = "FREE" /\ objects'[Slot(array)].type = "NONE"
      /\ \A s \in Slots \ {Slot(array)} : objects'[s] = objects[s]
      /\ \A other : Live(other) \ {array} \subseteq Live(other)'
      /\ \A other : array \in Live(other) => other = "VERTEX_ARRAY"
  BY <1>1, Releases
<1>4. Storage'
  <2>1. \A s \in Slots : objects[s].type = "BUFFER" => objects'[s] = objects[s]
    BY <1>2, <1>3
  <2> QED
    BY <1>1, <2>1, StorageSame DEF Inv
<1>5. StatesType'
  BY <1>1, <1>2, BlankRefers DEF StatesType
<1>6. NamesLive'
  <2>1. Live("BUFFER") \subseteq Live("BUFFER")'
    BY <1>3
  <2>2. bound' \in Live("VERTEX_ARRAY")' \cup {NoName}
    BY <1>1, <1>3 DEF NamesLive
  <2>3. \A s \in Slots : saved'[s] \in {saved[s], working, Blank}
    BY <1>1 DEF StatesType
  <2>4. arrayBuffer' \in Live("BUFFER")' \cup {NoName}
    BY <1>1, <2>1 DEF NamesLive
  <2>5. working' \in {working, default} /\ default' = default
    BY <1>1
  <2> QED
    BY <2>1, <2>2, <2>3, <2>4, <2>5, NamesKept
<1>7. IdleBlank'
  BY <1>1, <1>2, <1>3 DEF IdleBlank, StatesType
<1>8. TableType'
  BY <1>1, <1>3 DEF TableType
<1> QED
  BY <1>3, <1>4, <1>5, <1>6, <1>7, <1>8 DEF Inv, Table

(* A call that only edits the working copy.                                 *)
LEMMA EditKeepsInv ==
    ASSUME Inv, Calling, NEW state \in ArrayState, RefersTo(state, Live("BUFFER")), EditWorking(state)
    PROVE  Inv'
<1>1. /\ working' = state /\ raised' = "NO_ERROR"
      /\ UNCHANGED <<objects, bufferVars, arrayBuffer, saved, default, bound>>
  BY DEF EditWorking
<1>2. Storage'
  BY <1>1, StorageSame DEF Inv
<1>3. Live("BUFFER")' = Live("BUFFER") /\ Live("VERTEX_ARRAY")' = Live("VERTEX_ARRAY")
  BY <1>1 DEF Live, Found, NameOf
<1>4. NamesLive'
  BY <1>1, <1>3 DEF Inv, Table, NamesLive, RefersTo
<1>5. TableType' /\ StatesType' /\ SlotsSound' /\ IdleBlank'
  BY <1>1 DEF Inv, Table, TableType, StatesType, SlotsSound, IdleBlank
<1> QED
  BY <1>2, <1>4, <1>5 DEF Inv, Table

LEMMA SetEnabledKeepsInv ==
    ASSUME Inv, Calling, NEW i \in Attribs, NEW enabled \in BOOLEAN, SetEnabled(i, enabled)
    PROVE  Inv'
<1> DEFINE state == [working EXCEPT !.attribs[i].enabled = enabled]
<1>1. working \in ArrayState /\ RefersTo(working, Live("BUFFER"))
  BY DEF Inv, Table, StatesType, NamesLive
<1>2. state \in ArrayState /\ RefersTo(state, Live("BUFFER"))
  BY <1>1 DEF ArrayState, RefersTo
<1> QED
  BY <1>2, EditKeepsInv DEF SetEnabled

LEMMA VertexAttribPointerKeepsInv ==
    ASSUME Inv, Calling, NEW i \in Attribs, VertexAttribPointer(i)
    PROVE  Inv'
<1> DEFINE state == [working EXCEPT !.attribs[i].buffer = arrayBuffer]
<1>1. /\ working \in ArrayState /\ RefersTo(working, Live("BUFFER"))
      /\ arrayBuffer \in Live("BUFFER") \cup {NoName} /\ arrayBuffer \in Names \cup {NoName}
  BY DEF Inv, Table, TableType, StatesType, NamesLive
<1>2. state \in ArrayState /\ RefersTo(state, Live("BUFFER"))
  BY <1>1 DEF ArrayState, RefersTo
<1>3. CASE arrayBuffer = NoName
  BY <1>3, FailKeepsInv DEF VertexAttribPointer
<1>4. CASE arrayBuffer # NoName
  BY <1>2, <1>4, EditKeepsInv DEF VertexAttribPointer
<1> QED
  BY <1>3, <1>4

LEMMA BindBufferKeepsInv ==
    ASSUME Inv, Calling, NEW target \in {"ARRAY", "ELEMENT"}, NEW name \in Names \cup {NoName},
           BindBuffer(target, name)
    PROVE  Inv'
<1>1. CASE name # NoName /\ ~Found(name, "BUFFER")
  BY <1>1, FailKeepsInv DEF BindBuffer
<1>2. CASE name = NoName \/ Found(name, "BUFFER")
  <2> TableType /\ StatesType /\ SlotsSound /\ IdleBlank /\ NamesLive
    BY DEF Inv, Table
  <2>1. /\ objects' = IF name = NoName THEN objects ELSE Promoted(name)
        /\ arrayBuffer' = IF target = "ARRAY" THEN name ELSE arrayBuffer
        /\ working' = IF target = "ELEMENT" THEN [working EXCEPT !.element = name] ELSE working
        /\ raised' = "NO_ERROR"
        /\ UNCHANGED <<bufferVars, saved, default, bound>>
    BY <1>2 DEF BindBuffer
  <2>2. /\ objects' \in [Slots -> Object] /\ SlotsSound'
        /\ \A s \in Slots : /\ objects'[s].type = objects[s].type
                            /\ objects[s].state = "LIVE" => objects'[s].state = "LIVE"
        /\ \A other : Live(other) \subseteq Live(other)'
        /\ name \in Live("BUFFER")' \cup {NoName}
    <3>1. CASE name = NoName
      BY <2>1, <3>1 DEF TableType, SlotsSound, Live, Found, NameOf
    <3>2. CASE name # NoName
      BY <1>2, <2>1, <3>2, Promotes
    <3> QED
      BY <3>1, <3>2
  <2>3. Storage'
    BY <2>1, <2>2, StorageSame DEF Inv
  <2>4. TableType' /\ StatesType' /\ IdleBlank'
    BY <2>1, <2>2 DEF TableType, StatesType, IdleBlank, ArrayState
  <2>5. /\ RefersTo(working', Live("BUFFER")')
        /\ RefersTo(default', Live("BUFFER")')
        /\ \A s \in Slots : RefersTo(saved'[s], Live("BUFFER")')
    <3>1. \A state : RefersTo(state, Live("BUFFER")) => RefersTo(state, Live("BUFFER")')
      BY <2>2, RefersToMore
    <3>2. RefersTo(working, Live("BUFFER")')
      BY <3>1 DEF NamesLive
    <3>3. RefersTo(working', Live("BUFFER")')
      BY <2>1, <2>2, <3>2 DEF RefersTo, StatesType, ArrayState
    <3> QED
      BY <2>1, <3>1, <3>3 DEF NamesLive
  <2>6. /\ arrayBuffer' \in Live("BUFFER")' \cup {NoName}
        /\ bound' \in Live("VERTEX_ARRAY")' \cup {NoName}
    BY <2>1, <2>2 DEF NamesLive
  <2>7. NamesLive'
    BY <2>5, <2>6 DEF NamesLive, RefersTo
  <2> QED
    BY <2>2, <2>3, <2>4, <2>7 DEF Inv, Table
<1> QED
  BY <1>1, <1>2

-----------------------------------------------------------------------------
(* Calls that give the storage of a buffer back or replace it.              *)

(* One slot gets new storage, or none, and its old handle is destroyed.     *)
Refilled(o, b, d, charge, bytes, slot, entry, o2, d2, charge2, bytes2) ==
    /\ entry \in [handle : Handles \cup {0}, shadow : Contents] /\ d2 \in [Handles -> Contents]
    /\ charge2 = charge + Len(entry.shadow) - Len(b[slot].shadow) /\ charge2 <= MaxShadow
    /\ bytes2 = bytes + Len(entry.shadow) - Len(b[slot].shadow)
    /\ entry.handle = 0 => entry.shadow = <<>>
    /\ entry.handle # 0 => /\ d[entry.handle] = <<>>
                           /\ d2[entry.handle] = entry.shadow /\ entry.shadow # <<>>
                           /\ o2[slot].type = "BUFFER" /\ o2[slot].state = "LIVE"
    /\ b[slot].handle # 0 => d2[b[slot].handle] = <<>>
    /\ \A h \in Handles : h # b[slot].handle /\ h # entry.handle => d2[h] = d[h]
    /\ \A s \in Slots \ {slot} : o[s].type = "BUFFER" /\ o[s].state = "LIVE" =>
          o2[s].type = "BUFFER" /\ o2[s].state = "LIVE"

LEMMA RefilledSettled ==
    ASSUME NEW o, NEW b, NEW d, NEW charge, NEW bytes, NEW slot \in Slots, NEW entry,
           NEW o2, NEW d2, NEW charge2, NEW bytes2, Settled(o, b, d, charge, bytes),
           Refilled(o, b, d, charge, bytes, slot, entry, o2, d2, charge2, bytes2)
    PROVE  Settled(o2, [b EXCEPT ![slot] = entry], d2, charge2, bytes2)
<1> USE DEF Refilled
<1> DEFINE old == b[slot]
           b2 == [b EXCEPT ![slot] = entry]
<1>1. /\ b \in Storages /\ d \in [Handles -> Contents] /\ 0 \notin Handles
      /\ charge = Total(LengthsOf(b), NSlots) /\ bytes = Total(LengthsOf(b), NSlots)
      /\ Owned(o, b, d) /\ Matching(b, d)
  BY DEF Settled, StorageTyped, Handles
<1>2. b2 \in Storages /\ b2[slot] = entry /\ \A s \in Slots \ {slot} : b2[s] = b[s]
  BY <1>1 DEF Storages
<1>3. \A s \in Slots : b[s].handle \in Handles \cup {0}
  BY <1>1 DEF Storages
<1>4. \A s \in Slots \ {slot} : b[s].handle # 0 =>
          /\ b[s].handle # old.handle /\ b[s].handle # entry.handle
          /\ d2[b[s].handle] = d[b[s].handle]
  BY <1>1, <1>3 DEF Owned
<1>5. /\ charge2 = Total(LengthsOf(b2), NSlots) /\ bytes2 = Total(LengthsOf(b2), NSlots)
      /\ charge2 \in Nat /\ bytes2 \in Nat
  <2>1. entry \in [handle : Handles \cup {0}, shadow : Contents]
    OBVIOUS
  <2>2. Total(LengthsOf(b2), NSlots) = Total(LengthsOf(b), NSlots) + Len(entry.shadow) - Len(b[slot].shadow)
        /\ Total(LengthsOf(b2), NSlots) \in Nat
    BY <1>1, <2>1, Recharge
  <2> QED
    BY <1>1, <2>2
<1>6. StorageTyped(b2, d2, charge2, bytes2)
  BY <1>2, <1>5, Constants DEF StorageTyped
<1> HIDE DEF b2
<1>7. Matching(b2, d2)
  <2> SUFFICES ASSUME NEW s \in Slots
               PROVE  b2[s].shadow = IF b2[s].handle = 0 THEN <<>> ELSE d2[b2[s].handle]
    BY DEF Matching
  <2>1. CASE s = slot
    BY <1>2, <2>1
  <2>2. CASE s # slot
    BY <1>1, <1>2, <1>4, <2>2 DEF Matching
  <2> QED
    BY <2>1, <2>2
<1>8. Owned(o2, b2, d2)
  <2>1. \A s \in Slots : b2[s].handle # 0 =>
            d2[b2[s].handle] # <<>> /\ o2[s].type = "BUFFER" /\ o2[s].state = "LIVE"
    BY <1>1, <1>2, <1>4 DEF Owned
  <2>2. \A s, t \in Slots : b2[s].handle # 0 /\ b2[s].handle = b2[t].handle => s = t
    BY <1>1, <1>2, <1>4 DEF Owned
  <2>3. ASSUME NEW h \in Handles, d2[h] # <<>> PROVE \E s \in Slots : b2[s].handle = h
    <3>1. CASE h = entry.handle
      BY <1>2, <3>1
    <3>2. CASE h # entry.handle
      <4>1. h # old.handle
        BY <1>1, <2>3
      <4>2. d[h] # <<>>
        BY <2>3, <3>2, <4>1
      <4>3. PICK s \in Slots : b[s].handle = h
        BY <1>1, <4>2 DEF Owned
      <4> QED
        BY <1>2, <4>1, <4>3
    <3> QED
      BY <3>1, <3>2
  <2> QED
    BY <2>1, <2>2, <2>3 DEF Owned
<1> QED
  BY <1>5, <1>6, <1>7, <1>8 DEF Settled, b2

(* A destroyed RinGPU buffer, if there was one.                             *)
LEMMA DestroyedIs ==
    ASSUME device \in [Handles -> Contents], NEW old \in Handles \cup {0}
    PROVE  /\ Destroyed(old) \in [Handles -> Contents]
           /\ old # 0 => Destroyed(old)[old] = <<>>
           /\ \A h \in Handles : h # old => Destroyed(old)[h] = device[h]
  BY EmptyContent DEF Destroyed

(* A state without a name refers to the other names.                        *)
LEMMA WithoutRefers ==
    ASSUME NEW state \in ArrayState, NEW names, RefersTo(state, names), NEW name \in Names
    PROVE  /\ Without(state, name) \in ArrayState
           /\ RefersTo(Without(state, name), names \ {name})
  BY Constants DEF Without, ArrayState, RefersTo, Unset, Names, NoName

(* The storage of one object is given back.                                 *)
LEMMA ClearedStorage ==
    ASSUME Storage, step = "idle", step' = "idle", update' = NoUpdate \/ UNCHANGED update,
           NEW slot \in Slots,
           buffers' = [buffers EXCEPT ![slot] = NoStorage],
           device' = Destroyed(buffers[slot].handle),
           shadowBytes' = shadowBytes - Len(buffers[slot].shadow),
           heap' = heap - Len(buffers[slot].shadow),
           \A s \in Slots \ {slot} : objects'[s] = objects[s]
    PROVE  Storage'
<1> DEFINE old == buffers[slot]
<1>1. Settled(objects, buffers, device, shadowBytes, heap) /\ update = NoUpdate
  BY IdleStorage
<1>2. /\ NoStorage \in [handle : Handles \cup {0}, shadow : Contents] /\ NoStorage.handle = 0
      /\ NoStorage.shadow = <<>> /\ Len(NoStorage.shadow) = 0
  BY EmptyContent DEF NoStorage
<1>3. /\ Len(old.shadow) \in Nat /\ shadowBytes \in 0 .. MaxShadow /\ heap \in Nat
      /\ old.handle \in Handles \cup {0} /\ device \in [Handles -> Contents]
  BY <1>1, ContentsLen DEF Settled, StorageTyped, Storages
<1>4. /\ shadowBytes' = shadowBytes + Len(NoStorage.shadow) - Len(old.shadow)
      /\ heap' = heap + Len(NoStorage.shadow) - Len(old.shadow)
      /\ shadowBytes' <= MaxShadow
  BY <1>2, <1>3, Constants
<1>5. /\ device' \in [Handles -> Contents]
      /\ old.handle # 0 => device'[old.handle] = <<>>
      /\ \A h \in Handles : h # old.handle => device'[h] = device[h]
  BY <1>3, DestroyedIs
<1> HIDE DEF old
<1>6. Refilled(objects, buffers, device, shadowBytes, heap, slot, NoStorage,
               objects', device', shadowBytes', heap')
  BY <1>1, <1>2, <1>4, <1>5 DEF old, Refilled
<1>7. Settled(objects', [buffers EXCEPT ![slot] = NoStorage], device', shadowBytes', heap')
  BY <1>1, <1>6, RefilledSettled
<1> QED
  BY <1>1, <1>7, IdleStorageNext

LEMMA DeleteBufferKeepsInv ==
    ASSUME Inv, Calling, NEW name \in Names, DeleteBuffer(name)
    PROVE  Inv'
<1> TableType /\ StatesType /\ SlotsSound /\ IdleBlank /\ NamesLive /\ Storage
  BY DEF Inv, Table
<1> DEFINE slot == Slot(name)
<1>1. /\ Found(name, "BUFFER") /\ Release(name)
      /\ arrayBuffer' = IF arrayBuffer = name THEN NoName ELSE arrayBuffer
      /\ working' = Without(working, name) /\ default' = Without(default, name)
      /\ saved' = [s \in Slots |-> IF objects[s].type = "VERTEX_ARRAY" THEN Without(saved[s], name)
                                                                      ELSE saved[s]]
      /\ device' = Destroyed(buffers[slot].handle)
      /\ shadowBytes' = shadowBytes - Len(buffers[slot].shadow)
      /\ heap' = heap - Len(buffers[slot].shadow)
      /\ buffers' = [buffers EXCEPT ![slot] = NoStorage]
      /\ raised' = "NO_ERROR" /\ bound' = bound
  BY DEF DeleteBuffer, Detach
<1>2. slot \in Slots /\ objects[slot].type = "BUFFER" /\ name # NoName
  BY <1>1, FoundSlot
<1>3. /\ objects' \in [Slots -> Object] /\ SlotsSound'
      /\ objects'[slot].state = "FREE" /\ objects'[slot].type = "NONE"
      /\ \A s \in Slots \ {slot} : objects'[s] = objects[s]
      /\ \A other : Live(other) \ {name} \subseteq Live(other)'
      /\ \A other : name \in Live(other) => other = "BUFFER"
  BY <1>1, Releases
<1>4. Storage'
  BY <1>1, <1>2, <1>3, ClearedStorage DEF Calling, updateVars
<1>5. StatesType'
  <2>1. /\ RefersTo(working, Live("BUFFER")) /\ RefersTo(default, Live("BUFFER"))
        /\ \A s \in Slots : RefersTo(saved[s], Live("BUFFER"))
    BY DEF NamesLive
  <2> QED
    BY <1>1, <2>1, WithoutRefers DEF StatesType
<1>6. NamesLive'
  <2> DEFINE others == Live("BUFFER") \ {name}
  <2>1. others \subseteq Live("BUFFER")'
    BY <1>3
  <2>2. RefersTo(working', others) /\ RefersTo(default', others)
    BY <1>1, WithoutRefers DEF StatesType, NamesLive
  <2>3. ASSUME NEW s \in Slots PROVE RefersTo(saved'[s], others)
    <3>1. CASE objects[s].type = "VERTEX_ARRAY"
      BY <1>1, <3>1, WithoutRefers DEF StatesType, NamesLive
    <3>2. CASE objects[s].type # "VERTEX_ARRAY"
      BY <1>1, <3>2, BlankRefers DEF IdleBlank
    <3> QED
      BY <3>1, <3>2
  <2> HIDE DEF others
  <2>4. /\ RefersTo(working', Live("BUFFER")') /\ RefersTo(default', Live("BUFFER")')
        /\ \A s \in Slots : RefersTo(saved'[s], Live("BUFFER")')
    BY <2>1, <2>2, <2>3, RefersToMore
  <2>5. /\ arrayBuffer' \in Live("BUFFER")' \cup {NoName}
        /\ bound' \in Live("VERTEX_ARRAY")' \cup {NoName}
    BY <1>1, <1>3 DEF NamesLive
  <2> QED
    BY <2>4, <2>5 DEF NamesLive, RefersTo
<1>7. IdleBlank'
  <2>1. \A s \in Slots : objects'[s].type # "VERTEX_ARRAY" => objects[s].type # "VERTEX_ARRAY"
    BY <1>2, <1>3
  <2> QED
    BY <1>1, <2>1 DEF IdleBlank
<1>8. TableType'
  BY <1>1, <1>3 DEF TableType
<1> QED
  BY <1>3, <1>4, <1>5, <1>6, <1>7, <1>8 DEF Inv, Table

LEMMA NewHandleIsFree ==
    ASSUME FreeHandles # {}
    PROVE  NewHandle \in Handles /\ device[NewHandle] = <<>>
<1>1. FreeHandles \subseteq Nat
  BY Constants DEF FreeHandles, Handles
<1>2. \E h \in FreeHandles : \A g \in FreeHandles : h <= g
  BY <1>1, MinElement
<1>3. NewHandle \in FreeHandles
  BY <1>2 DEF NewHandle
<1> QED
  BY <1>3 DEF FreeHandles

LEMMA RefuseKeepsInv ==
    ASSUME Inv, step = "idle", NEW error \in {"INVALID_OPERATION", "INVALID_VALUE", "OUT_OF_MEMORY"},
           Refuse(error)
    PROVE  Inv'
<1>1. /\ step' = "idle" /\ update' = NoUpdate /\ UNCHANGED <<buffers, device, shadowBytes, heap>>
      /\ raised' = error
      /\ UNCHANGED <<objects, arrayBuffer, arrayVars>>
  BY DEF Refuse, Done, bufferVars
<1>2. Storage'
  <2>1. Settled(objects, buffers, device, shadowBytes, heap)
    BY IdleStorage DEF Inv
  <2> QED
    BY <1>1, <2>1, IdleStorageNext
<1> QED
  BY <1>1, <1>2, OnlyStorage

LEMMA ReserveKeepsInv ==
    ASSUME Inv, step = "idle", NEW name \in Live("BUFFER"), NEW content \in Contents,
           content # <<>>, Reserve(Slot(name), content)
    PROVE  Inv'
<1> DEFINE slot == Slot(name)
<1>1. CASE Refuse("OUT_OF_MEMORY")
  BY <1>1, RefuseKeepsInv
<1>2. CASE ~Refuse("OUT_OF_MEMORY")
  <2> DEFINE new == [slot |-> slot, content |-> content, handle |-> 0, before |-> bufferVars]
  <2>1. /\ Admitted(Len(content)) /\ shadowBytes' = shadowBytes + Len(content)
        /\ step' = "reserved" /\ update' = new /\ raised' = "NO_ERROR"
        /\ UNCHANGED <<objects, arrayBuffer, arrayVars>> /\ UNCHANGED <<buffers, device, heap>>
    BY <1>2 DEF Reserve, Continue
  <2>2. /\ Settled(objects, buffers, device, shadowBytes, heap)
        /\ StorageTyped(buffers, device, shadowBytes, heap)
    BY IdleStorage DEF Inv, Settled
  <2>3. /\ slot \in Slots /\ objects[slot].type = "BUFFER" /\ objects[slot].state = "LIVE"
        /\ Len(content) \in Nat
    BY LiveSlot, ContentsLen
  <2>4. shadowBytes' \in 0 .. MaxShadow /\ shadowBytes' - Len(content) = shadowBytes
    BY <2>1, <2>2, <2>3, Constants DEF Admitted, StorageTyped
  <2>5. KeptDevice' = device /\ KeptCharge' = shadowBytes /\ KeptBytes' = heap
    BY <2>1, <2>4 DEF KeptDevice, KeptCharge, KeptBytes, Size
  <2>6. /\ update'.slot = slot /\ update'.handle = 0 /\ update'.content = content
        /\ update'.before = <<buffers, device, shadowBytes, heap>>
    BY <2>1 DEF bufferVars
  <2>7. update' \in Updates
    <3>1. bufferVars \in Storages \X [Handles -> Contents] \X Nat \X Nat
      BY <2>2, Constants DEF bufferVars, StorageTyped
    <3> QED
      BY <2>1, <2>3, <3>1 DEF Updates
  <2> HIDE DEF new
  <2>8. UpdateSound'
    BY <2>1, <2>3, <2>5, <2>6, <2>7 DEF UpdateSound
  <2>9. StorageType'
    BY <2>1, <2>2, <2>4 DEF StorageType, StorageTyped
  <2>10. Storage'
    BY <2>1, <2>2, <2>5, <2>8, <2>9 DEF Storage
  <2> QED
    BY <2>1, <2>10, OnlyStorage
<1> QED
  BY <1>1, <1>2

(* What the invariant says during an update.                                *)
LEMMA DuringUpdate ==
    ASSUME Inv, step # "idle"
    PROVE  /\ step \in {"reserved", "allocated", "created"} /\ update \in Updates
           /\ objects[update.slot].type = "BUFFER" /\ objects[update.slot].state = "LIVE"
           /\ update.before = <<buffers, KeptDevice, KeptCharge, KeptBytes>>
           /\ step = "created" <=> update.handle # 0
           /\ step = "created" => device[update.handle] # <<>>
           /\ StorageTyped(buffers, device, shadowBytes, heap)
           /\ Settled(objects, buffers, KeptDevice, KeptCharge, KeptBytes)
           /\ update.slot \in Slots /\ update.content \in Contents /\ update.content # <<>>
           /\ update.handle \in Handles \cup {0} /\ 0 \notin Handles
           /\ Size \in Nat \ {0}
<1>1. UpdateSound /\ StorageType /\ Settled(objects, buffers, KeptDevice, KeptCharge, KeptBytes)
  BY DEF Inv, Storage
<1>2. update \in Updates
  BY <1>1 DEF UpdateSound
<1>3. /\ update.slot \in Slots /\ update.content \in Contents /\ update.content # <<>>
      /\ update.handle \in Handles \cup {0}
  BY <1>2 DEF Updates
<1>4. Size \in Nat \ {0}
  BY <1>3, ContentsLen DEF Size
<1> QED
  BY <1>1, <1>3, <1>4 DEF UpdateSound, StorageType, Handles

(* An exit that gives back what the update took restores the storage.       *)
LEMMA ExitRestores ==
    ASSUME Inv, step # "idle", Done("OUT_OF_MEMORY"), UNCHANGED buffers,
           device' = KeptDevice, shadowBytes' = KeptCharge, heap' = KeptBytes
    PROVE  Inv' /\ bufferVars' = StorageBefore
<1>1. /\ step' = "idle" /\ update' = NoUpdate /\ raised' = "OUT_OF_MEMORY"
      /\ UNCHANGED <<objects, arrayBuffer, arrayVars>>
  BY DEF Done
<1>2. Storage'
  BY <1>1, DuringUpdate, IdleStorageNext
<1>3. bufferVars' = StorageBefore
  BY DuringUpdate DEF StorageBefore, bufferVars
<1> QED
  BY <1>1, <1>2, <1>3, OnlyStorage

LEMMA MallocFailsRestores ==
    ASSUME Inv, MallocFails
    PROVE  Inv' /\ bufferVars' = StorageBefore
<1>1. device' = KeptDevice /\ shadowBytes' = KeptCharge /\ heap' = KeptBytes
  BY DEF MallocFails, ReleaseShadowBytes, KeptDevice, KeptCharge, KeptBytes
<1> QED
  BY <1>1, ExitRestores DEF MallocFails

LEMMA CreateFailsRestores ==
    ASSUME Inv, NEW handle, CreateFails(handle)
    PROVE  Inv' /\ bufferVars' = StorageBefore
<1> DEFINE made == IF handle \in FreeHandles THEN [device EXCEPT ![handle] = update.content]
                                              ELSE device
<1>1. /\ step = "allocated" /\ handle \in FreeHandles \cup {0, Old.handle}
      /\ device' = IF handle # 0 /\ handle # Old.handle THEN [made EXCEPT ![handle] = <<>>]
                                                        ELSE made
      /\ heap' = heap - Size /\ shadowBytes' = shadowBytes - Size
      /\ Done("OUT_OF_MEMORY") /\ UNCHANGED buffers
  BY DEF CreateFails, ReleaseShadowBytes
<1>2. KeptDevice = device /\ KeptCharge = shadowBytes - Size /\ KeptBytes = heap - Size
  BY <1>1 DEF KeptDevice, KeptCharge, KeptBytes
<1>3. device \in [Handles -> Contents] /\ 0 \notin Handles /\ update.slot \in Slots
  BY <1>1, DuringUpdate DEF StorageTyped
<1>4. 0 \notin FreeHandles /\ Old.handle \notin FreeHandles
  <2>1. Old.handle # 0 => device[Old.handle] # <<>>
    BY <1>1, <1>2, <1>3, DuringUpdate DEF Settled, Owned, Old
  <2> QED
    BY <1>3, <2>1 DEF FreeHandles
<1>5. device' = device
  <2>1. CASE handle \in FreeHandles
    <3>1. handle \in Handles /\ device[handle] = <<>>
      BY <2>1 DEF FreeHandles
    <3>2. device' = [[device EXCEPT ![handle] = update.content] EXCEPT ![handle] = <<>>]
      BY <1>1, <1>4, <2>1
    <3> QED
      BY <1>3, <3>1, <3>2
  <2>2. CASE handle \notin FreeHandles
    BY <1>1, <2>2
  <2> QED
    BY <2>1, <2>2
<1> QED
  BY <1>1, <1>2, <1>5, ExitRestores

LEMMA UploadFailsRestores ==
    ASSUME Inv, UploadFails
    PROVE  Inv' /\ bufferVars' = StorageBefore
<1>1. step = "created" /\ update.handle # 0
  BY DuringUpdate DEF UploadFails
<1>2. device' = KeptDevice /\ shadowBytes' = KeptCharge /\ heap' = KeptBytes
  BY <1>1 DEF UploadFails, ReleaseShadowBytes, KeptDevice, KeptCharge, KeptBytes, Destroyed
<1> QED
  BY <1>1, <1>2, ExitRestores DEF UploadFails

(* Steps that go on keep what the exits restore.                            *)
LEMMA GoesOnKeepsInv ==
    ASSUME Inv, step # "idle", NEW at \in {"allocated", "created"}, NEW new \in Updates,
           Continue(at, new), UNCHANGED <<buffers, shadowBytes>>,
           new.slot = update.slot, new.content = update.content, new.before = update.before,
           at = "created" <=> new.handle # 0,
           at = "created" => device'[new.handle] # <<>>,
           device' \in [Handles -> Contents], heap' \in Nat,
           KeptDevice' = KeptDevice, KeptBytes' = KeptBytes
    PROVE  Inv'
<1>1. /\ step' = at /\ update' = new /\ raised' = "NO_ERROR"
      /\ UNCHANGED <<objects, arrayBuffer, arrayVars>>
  BY DEF Continue
<1>2. KeptCharge' = KeptCharge
  BY <1>1 DEF KeptCharge, Size
<1>3. UpdateSound'
  BY <1>1, <1>2, DuringUpdate DEF UpdateSound
<1>4. StorageType'
  BY DuringUpdate DEF StorageType, StorageTyped
<1>5. Storage'
  BY <1>1, <1>2, <1>3, <1>4, DuringUpdate DEF Storage
<1> QED
  BY <1>1, <1>5, OnlyStorage

LEMMA MallocKeepsInv ==
    ASSUME Inv, Malloc
    PROVE  Inv'
<1>1. /\ step = "reserved" /\ heap' = heap + Size /\ Continue("allocated", update)
      /\ UNCHANGED <<buffers, device, shadowBytes>>
      /\ step' = "allocated" /\ update' = update
  BY DEF Malloc, Continue
<1>2. /\ Size \in Nat /\ heap \in Nat /\ update \in Updates /\ update.handle = 0
      /\ device \in [Handles -> Contents]
  BY <1>1, DuringUpdate DEF StorageTyped
<1>3. KeptDevice' = KeptDevice /\ KeptBytes' = KeptBytes /\ heap' \in Nat
  BY <1>1, <1>2 DEF KeptDevice, KeptBytes, Size
<1> QED
  BY <1>1, <1>2, <1>3, GoesOnKeepsInv

LEMMA CreateKeepsInv ==
    ASSUME Inv, Create
    PROVE  Inv'
<1> DEFINE new == [update EXCEPT !.handle = NewHandle]
<1>1. /\ step = "allocated" /\ FreeHandles # {} /\ Continue("created", new)
      /\ UNCHANGED <<buffers, shadowBytes, heap>> /\ step' = "created" /\ update' = new
  BY DEF Create, Continue
<1>2. PICK byte \in Bytes : device' = [device EXCEPT ![NewHandle] = [i \in 1 .. Size |-> byte]]
  BY DEF Create
<1>3. /\ Size \in Nat \ {0} /\ Size <= MaxSize /\ heap \in Nat /\ update \in Updates
      /\ device \in [Handles -> Contents] /\ 0 \notin Handles
  BY <1>1, DuringUpdate, ContentsLen DEF StorageTyped, Size
<1>4. NewHandle \in Handles /\ device[NewHandle] = <<>>
  BY <1>1, NewHandleIsFree
<1> DEFINE fresh == [i \in 1 .. Size |-> byte]
<1>5. fresh \in Contents /\ fresh # <<>>
  <2>1. fresh \in Seq(Bytes) /\ Len(fresh) = Size
    BY <1>3
  <2> QED
    BY <1>3, <2>1, ContentsAre, EmptyContent
<1> HIDE DEF fresh
<1>6. /\ new \in Updates /\ new.handle = NewHandle /\ new.slot = update.slot
      /\ new.content = update.content /\ new.before = update.before
  BY <1>3, <1>4 DEF Updates
<1>7. device' = [device EXCEPT ![NewHandle] = fresh]
  BY <1>2 DEF fresh
<1> HIDE DEF new
<1>8. /\ device' \in [Handles -> Contents] /\ device'[NewHandle] = fresh
      /\ [device' EXCEPT ![NewHandle] = <<>>] = device
  <2>1. device' \in [Handles -> Contents] /\ device'[NewHandle] = fresh
    BY <1>3, <1>4, <1>5, <1>7
  <2>2. \A h \in Handles : [device' EXCEPT ![NewHandle] = <<>>][h] = device[h]
    BY <1>3, <1>4, <1>7, <2>1
  <2> QED
    BY <1>3, <2>1, <2>2
<1>9. KeptDevice' = KeptDevice /\ KeptBytes' = KeptBytes
  BY <1>1, <1>6, <1>8 DEF KeptDevice, KeptBytes, Size
<1> QED
  BY <1>1, <1>3, <1>4, <1>5, <1>6, <1>8, <1>9, GoesOnKeepsInv

LEMMA PublishKeepsInv ==
    ASSUME Inv, Publish
    PROVE  Inv'
<1> DEFINE entry == [handle |-> update.handle, shadow |-> update.content]
           slot == update.slot
<1>1. /\ step = "created" /\ Done("NO_ERROR")
      /\ device' = [Destroyed(Old.handle) EXCEPT ![update.handle] = update.content]
      /\ heap' = heap - Len(Old.shadow) /\ shadowBytes' = shadowBytes - Len(Old.shadow)
      /\ buffers' = [buffers EXCEPT ![slot] = entry]
  BY DEF Publish
<1>2. /\ step' = "idle" /\ update' = NoUpdate /\ raised' = "NO_ERROR"
      /\ UNCHANGED <<objects, arrayBuffer, arrayVars>>
  BY <1>1 DEF Done
<1>3. /\ slot \in Slots /\ update.content \in Contents /\ update.content # <<>>
      /\ update.handle \in Handles /\ update.handle # 0
      /\ objects[slot].type = "BUFFER" /\ objects[slot].state = "LIVE"
      /\ Settled(objects, buffers, KeptDevice, KeptCharge, KeptBytes)
      /\ StorageTyped(buffers, device, shadowBytes, heap)
      /\ Size \in Nat
  BY <1>1, DuringUpdate
<1>4. /\ device \in [Handles -> Contents] /\ KeptDevice = [device EXCEPT ![update.handle] = <<>>]
      /\ KeptDevice[update.handle] = <<>>
      /\ \A h \in Handles \ {update.handle} : KeptDevice[h] = device[h]
      /\ KeptCharge = shadowBytes - Size /\ KeptBytes = heap - Size
      /\ shadowBytes \in 0 .. MaxShadow /\ heap \in Nat
  BY <1>1, <1>3 DEF KeptDevice, KeptCharge, KeptBytes, StorageTyped
<1>5. /\ Old = buffers[slot] /\ Old.handle \in Handles \cup {0} /\ Len(Old.shadow) \in Nat
      /\ Old.handle # 0 => Old.handle # update.handle
  <2>1. Old = buffers[slot] /\ Old.handle \in Handles \cup {0} /\ Len(Old.shadow) \in Nat
    BY <1>3, ContentsLen DEF Old, StorageTyped, Storages
  <2>2. Old.handle # 0 => KeptDevice[Old.handle] # <<>>
    BY <1>3, <2>1 DEF Settled, Owned
  <2> QED
    BY <1>4, <2>1, <2>2
<1>6. /\ Destroyed(Old.handle) \in [Handles -> Contents]
      /\ Old.handle # 0 => Destroyed(Old.handle)[Old.handle] = <<>>
      /\ \A h \in Handles : h # Old.handle => Destroyed(Old.handle)[h] = device[h]
  BY <1>4, <1>5, DestroyedIs
<1>7. /\ device' \in [Handles -> Contents] /\ device'[update.handle] = update.content
      /\ Old.handle # 0 => device'[Old.handle] = <<>>
      /\ \A h \in Handles : h # Old.handle /\ h # update.handle => device'[h] = KeptDevice[h]
  BY <1>1, <1>3, <1>4, <1>5, <1>6
<1>8. /\ shadowBytes' = KeptCharge + Len(update.content) - Len(Old.shadow)
      /\ heap' = KeptBytes + Len(update.content) - Len(Old.shadow)
      /\ shadowBytes' <= MaxShadow
  BY <1>1, <1>3, <1>4, <1>5, Constants DEF Size
<1>9. /\ entry \in [handle : Handles \cup {0}, shadow : Contents]
      /\ entry.handle = update.handle /\ entry.shadow = update.content
  BY <1>3
<1> HIDE DEF entry
<1>10. \A s \in Slots \ {slot} : objects[s].type = "BUFFER" /\ objects[s].state = "LIVE" =>
          objects'[s].type = "BUFFER" /\ objects'[s].state = "LIVE"
  BY <1>2
<1>11. Refilled(objects, buffers, KeptDevice, KeptCharge, KeptBytes, slot, entry,
                objects', device', shadowBytes', heap')
  BY <1>2, <1>3, <1>4, <1>5, <1>7, <1>8, <1>9, <1>10 DEF Refilled
<1>12. Settled(objects', [buffers EXCEPT ![slot] = entry], device', shadowBytes', heap')
  BY <1>3, <1>11, RefilledSettled
<1>13. Storage'
  BY <1>1, <1>2, <1>12, IdleStorageNext
<1> QED
  BY <1>2, <1>13, OnlyStorage

LEMMA UpdateStepKeepsInv ==
    ASSUME Inv, UpdateStep
    PROVE  Inv'
  BY MallocKeepsInv, MallocFailsRestores, CreateKeepsInv, CreateFailsRestores, UploadFailsRestores,
     PublishKeepsInv DEF UpdateStep

LEMMA BoundNameIsLive ==
    ASSUME Inv, NEW target, BoundName(target) # NoName
    PROVE  BoundName(target) \in Live("BUFFER")
  BY DEF Inv, Table, NamesLive, RefersTo, BoundName

LEMMA BufferDataKeepsInv ==
    ASSUME Inv, step = "idle", NEW target, NEW content \in Contents, BufferData(target, content)
    PROVE  Inv'
<1> DEFINE name == BoundName(target)
<1>1. CASE name = NoName
  BY <1>1, RefuseKeepsInv DEF BufferData
<1>2. CASE name # NoName
  <2>1. name \in Live("BUFFER") /\ Slot(name) \in Slots
    BY <1>2, BoundNameIsLive, LiveSlot
  <2>2. CASE content = <<>>
    <3>1. Clear(Slot(name))
      BY <1>2, <2>2 DEF BufferData
    <3>2. Storage'
      BY <2>1, <3>1, ClearedStorage DEF Clear, Done, Inv
    <3> QED
      BY <3>1, <3>2, OnlyStorage DEF Clear, Done, arrayVars
  <2>3. CASE content # <<>>
    BY <1>2, <2>1, <2>3, ReserveKeepsInv DEF BufferData
  <2> QED
    BY <2>2, <2>3
<1> QED
  BY <1>1, <1>2

LEMMA UniformContents == Uniform \subseteq Contents
<1>1. SUFFICES ASSUME NEW content \in Uniform PROVE content \in Contents
  OBVIOUS
<1>2. PICK n \in 0 .. MaxSize, byte \in Bytes : content = Filled(n, byte)
  BY <1>1 DEF Uniform
<1>3. content \in Seq(Bytes) /\ Len(content) = n
  BY <1>2, Constants DEF Filled
<1> QED
  BY <1>3, Constants, ContentsAre

LEMMA WrittenContents ==
    ASSUME NEW content \in Contents, NEW offset \in Nat, NEW size \in Nat, NEW byte \in Bytes
    PROVE  Written(content, offset, size, byte) \in Contents
<1> DEFINE written == Written(content, offset, size, byte)
<1>1. content \in Seq(Bytes) /\ Len(content) \in 0 .. MaxSize
  <2>1. \E n \in 0 .. MaxSize : content \in [1 .. n -> Bytes]
    BY Constants DEF Contents, BoundedSeq, SeqOf
  <2> QED
    BY <2>1, Constants
<1>2. written \in Seq(Bytes) /\ Len(written) = Len(content)
  BY <1>1, Constants DEF Written
<1> HIDE DEF written
<1>3. written \in Contents
  BY <1>1, <1>2, ContentsAre
<1> QED
  BY <1>3 DEF written

LEMMA BufferSubDataKeepsInv ==
    ASSUME Inv, step = "idle", NEW target, NEW offset \in 0 .. MaxSize, NEW size \in 0 .. MaxSize,
           NEW byte \in Bytes, BufferSubData(target, offset, size, byte)
    PROVE  Inv'
<1> DEFINE name == BoundName(target)
           shadow == buffers[Slot(name)].shadow
           error == SubDataError(buffers[Slot(name)], offset, size)
           written == Written(shadow, offset, size, byte)
<1>1. error \in {"NO_ERROR", "INVALID_OPERATION", "INVALID_VALUE"}
  BY DEF SubDataError
<1>2. CASE name = NoName \/ error # "NO_ERROR"
  <2>1. \E e \in {"INVALID_OPERATION", "INVALID_VALUE"} : Refuse(e)
    BY <1>1, <1>2 DEF BufferSubData
  <2> QED
    BY <2>1, RefuseKeepsInv
<1>3. CASE name # NoName /\ error = "NO_ERROR"
  <2>1. /\ name \in Live("BUFFER") /\ Slot(name) \in Slots /\ shadow \in Contents
        /\ offset \in Nat /\ size \in Nat
    BY <1>3, BoundNameIsLive, LiveSlot, Constants DEF Inv, Storage, StorageType, StorageTyped, Storages
  <2>2. size > 0 /\ Reserve(Slot(name), written)
    BY <1>3 DEF BufferSubData
  <2>3. offset + size <= Len(shadow) /\ Len(shadow) \in Nat
    BY <1>3, <2>1, ContentsLen DEF SubDataError
  <2>4. written \in Contents /\ written # <<>>
    <3>1. Len(written) = Len(shadow)
      BY <2>3 DEF Written
    <3>2. Len(written) # 0
      BY <2>1, <2>2, <2>3, <3>1
    <3> QED
      BY <2>1, <3>2, WrittenContents, EmptyContent
  <2> HIDE DEF written
  <2> QED
    BY <2>1, <2>2, <2>4, ReserveKeepsInv
<1> QED
  BY <1>2, <1>3

-----------------------------------------------------------------------------
(* A new context.                                                           *)

LEMMA InitInv == Init => Inv
<1> SUFFICES ASSUME Init PROVE Inv
  OBVIOUS
<1>1. Unused \in Object /\ 0 \in 0 .. MaxShadow
  BY Constants DEF Unused, Object
<1>2. NoStorage \in [handle : Handles \cup {0}, shadow : Contents] /\ <<>> \in Contents
  BY EmptyContent DEF NoStorage
<1>3. TableType /\ StatesType /\ StorageTyped(buffers, device, shadowBytes, heap)
  BY <1>1, <1>2, BlankRefers, Constants DEF Init, TableType, StatesType, StorageTyped, Storages
<1>4. SlotsSound /\ IdleBlank
  BY DEF Init, SlotsSound, IdleBlank, Unused
<1>5. NamesLive
  BY BlankRefers DEF Init, NamesLive
<1>6. Owned(objects, buffers, device) /\ Matching(buffers, device)
  BY DEF Init, Owned, Matching, NoStorage
<1>7. shadowBytes = Total(LengthsOf(buffers), NSlots) /\ heap = Total(LengthsOf(buffers), NSlots)
  <2>1. LengthsOf(buffers) = [s \in 1 .. NSlots |-> 0]
    BY EmptyContent DEF Init, LengthsOf, NoStorage, Slots
  <2>2. Total([s \in 1 .. NSlots |-> 0], NSlots) = 0
    BY TotalZero, Constants
  <2> QED
    BY <2>1, <2>2 DEF Init
<1>8. Settled(objects, buffers, device, shadowBytes, heap)
  BY <1>3, <1>6, <1>7 DEF Settled
<1> QED
  BY <1>3, <1>4, <1>5, <1>8, IdleStorage DEF Init, Inv, Table

(* Every RinGPU buffer belongs to an object, so destroying the context      *)
(* destroys them all.                                                       *)
LEMMA RecreateIsInit ==
    ASSUME Inv, Calling, Recreate
    PROVE  Init'
<1>1. /\ \A h \in Handles : device[h] # <<>> => \E s \in Slots : buffers[s].handle = h
      /\ \A s \in Slots : buffers[s].handle # 0 => objects[s].type = "BUFFER"
  BY IdleStorage DEF Calling, Inv, Settled, Owned
<1>2. \A h \in Handles : h # 0
  BY DEF Handles
<1>3. device' = [h \in Handles |->
                    IF \E s \in Slots : objects[s].type = "BUFFER" /\ buffers[s].handle = h
                    THEN <<>> ELSE device[h]]
  BY DEF Recreate
<1>4. \A h \in Handles : device'[h] = <<>>
  BY <1>1, <1>2, <1>3
<1>5. device' = [h \in Handles |-> <<>>]
  BY <1>3, <1>4
<1>6. step' = "idle" /\ update' = NoUpdate
  BY IdleStorage DEF Calling, updateVars, Inv
<1> QED
  BY <1>5, <1>6 DEF Recreate, Init

LEMMA RecreateKeepsInv ==
    ASSUME Inv, Calling, Recreate
    PROVE  Inv'
<1>1. Init'
  BY RecreateIsInit
<1>2. (Init => Inv)'
  BY InitInv, PTL
<1> QED
  BY <1>1, <1>2

-----------------------------------------------------------------------------
(* The invariant and what follows from it.                                  *)

LEMMA CallKeepsInv ==
    ASSUME Inv, Calling, Call
    PROVE  Inv'
<1>1. CASE \E n \in 1 .. NSlots : GenBuffers(n) \/ GenVertexArrays(n)
  BY <1>1, GenBuffersKeepsInv, GenVertexArraysKeepsInv
<1>2. CASE \E name \in Names : DeleteBuffer(name) \/ DeleteVertexArray(name)
  BY <1>2, DeleteBufferKeepsInv, DeleteVertexArrayKeepsInv
<1>3. CASE \E name \in Names \cup {NoName} : BindVertexArray(name)
  BY <1>3, BindVertexArrayKeepsInv
<1>4. CASE \E target \in {"ARRAY", "ELEMENT"}, name \in Names \cup {NoName} : BindBuffer(target, name)
  BY <1>4, BindBufferKeepsInv
<1>5. CASE \E i \in Attribs : \/ \E enabled \in BOOLEAN : SetEnabled(i, enabled)
                              \/ VertexAttribPointer(i)
  BY <1>5, SetEnabledKeepsInv, VertexAttribPointerKeepsInv
<1>6. CASE Recreate
  BY <1>6, RecreateKeepsInv
<1> QED
  BY <1>1, <1>2, <1>3, <1>4, <1>5, <1>6 DEF Call

LEMMA BeginUpdateKeepsInv ==
    ASSUME Inv, step = "idle", BeginUpdate
    PROVE  Inv'
<1>1. CASE \E target \in {"ARRAY", "ELEMENT"}, content \in Uniform : BufferData(target, content)
  BY <1>1, UniformContents, BufferDataKeepsInv
<1>2. CASE \E target \in {"ARRAY", "ELEMENT"}, offset, size \in 0 .. MaxSize, byte \in Bytes :
              BufferSubData(target, offset, size, byte)
  BY <1>2, BufferSubDataKeepsInv
<1> QED
  BY <1>1, <1>2 DEF BeginUpdate

LEMMA StutterKeepsInv ==
    ASSUME Inv, UNCHANGED vars
    PROVE  Inv'
<1>1. /\ UNCHANGED <<objects, arrayBuffer, bound, raised>> /\ UNCHANGED <<working, saved, default>>
      /\ UNCHANGED <<buffers, device, shadowBytes, heap>> /\ UNCHANGED <<step, update>>
  BY DEF vars
<1>2. Storage'
  BY <1>1 DEF Inv, Storage, StorageType, UpdateSound, KeptDevice, KeptCharge, KeptBytes, Size
<1> QED
  BY <1>1, <1>2, OnlyStorage DEF arrayVars, Inv, Table, TableType

LEMMA NextKeepsInv == Inv /\ [Next]_vars => Inv'
<1> SUFFICES ASSUME Inv, [Next]_vars PROVE Inv'
  OBVIOUS
<1>1. CASE step = "idle" /\ Call /\ UNCHANGED updateVars
  BY <1>1, CallKeepsInv DEF Calling
<1>2. CASE step = "idle" /\ BeginUpdate
  BY <1>2, BeginUpdateKeepsInv
<1>3. CASE UpdateStep
  BY <1>3, UpdateStepKeepsInv
<1>4. CASE UNCHANGED vars
  BY <1>4, StutterKeepsInv
<1> QED
  BY <1>1, <1>2, <1>3, <1>4 DEF Next

(* The inductive invariant holds in every state of a context.               *)
THEOREM InvariantHolds == Spec => []Inv
<1> QED
  BY InitInv, NextKeepsInv, PTL DEF Spec

LEMMA InvReferencesLive == Inv => ReferencesLive
<1> SUFFICES ASSUME Inv PROVE ReferencesLive
  OBVIOUS
<1>1. /\ arrayBuffer \in Live("BUFFER") \cup {NoName} /\ bound \in Live("VERTEX_ARRAY") \cup {NoName}
      /\ RefersTo(working, Live("BUFFER")) /\ RefersTo(default, Live("BUFFER"))
      /\ \A s \in Slots : RefersTo(saved[s], Live("BUFFER"))
  BY DEF Inv, Table, NamesLive
<1>2. \A state : RefersTo(state, Live("BUFFER")) => Uses(state) \subseteq Live("BUFFER")
  BY DEF RefersTo, Uses
<1>3. ({arrayBuffer} \ {NoName}) \cup Uses(working) \cup Uses(default)
          \cup UNION {Uses(saved[s]) : s \in Slots} \subseteq Live("BUFFER")
  BY <1>1, <1>2
<1> QED
  BY <1>1, <1>3 DEF ReferencesLive, Live

(* No binding and no vertex array refers to a deleted or unbound buffer.    *)
THEOREM ReferencesLiveHolds == Spec => []ReferencesLive
<1> QED
  BY InvariantHolds, InvReferencesLive, PTL

(* The handle that an update created is nobody's yet.                       *)
LEMMA HandleOwners ==
    ASSUME Inv, NEW h \in Handles, device[h] # <<>>
    PROVE  Cardinality({s \in Slots : buffers[s].handle = h}) = IF Pending(h) THEN 0 ELSE 1
<1> DEFINE owners == {s \in Slots : buffers[s].handle = h}
<1>1. Owned(objects, buffers, KeptDevice) /\ device \in [Handles -> Contents] /\ h # 0
  BY DEF Inv, Storage, StorageType, StorageTyped, Settled, Handles
<1>2. CASE Pending(h)
  <2>1. KeptDevice[h] = <<>>
    BY <1>1, <1>2 DEF Pending, KeptDevice
  <2>2. owners = {}
    BY <1>1, <2>1 DEF Owned
  <2> QED
    BY <1>2, <2>2, FS_EmptySet
<1>3. CASE ~Pending(h)
  <2>1. KeptDevice[h] # <<>>
    BY <1>1, <1>3 DEF Pending, KeptDevice
  <2>2. PICK s \in Slots : buffers[s].handle = h
    BY <1>1, <2>1 DEF Owned
  <2>3. owners = {s}
    BY <1>1, <2>2 DEF Owned
  <2> QED
    BY <1>3, <2>3, FS_Singleton
<1> QED
  BY <1>2, <1>3

LEMMA InvStorageConsistent == Inv => StorageConsistent
<1> SUFFICES ASSUME Inv PROVE StorageConsistent
  OBVIOUS
<1>1. /\ Settled(objects, buffers, KeptDevice, KeptCharge, KeptBytes)
      /\ StorageTyped(buffers, device, shadowBytes, heap) /\ UpdateSound
  BY DEF Inv, Storage, StorageType
<1>2. ASSUME NEW s \in Slots, buffers[s].handle # 0
      PROVE  /\ buffers[s].handle \in Handles
             /\ KeptDevice[buffers[s].handle] # <<>>
             /\ device[buffers[s].handle] = KeptDevice[buffers[s].handle]
  <2>1. buffers[s].handle \in Handles /\ KeptDevice[buffers[s].handle] # <<>>
    BY <1>1, <1>2 DEF Settled, Owned, StorageTyped, Storages
  <2> QED
    BY <1>1, <2>1 DEF KeptDevice, StorageTyped
<1>3. HandlesOwned
  <2>1. \A s \in Slots : buffers[s].handle # 0 =>
          /\ device[buffers[s].handle] # <<>>
          /\ objects[s].type = "BUFFER" /\ objects[s].state = "LIVE"
    BY <1>1, <1>2 DEF Settled, Owned
  <2> QED
    BY <2>1, HandleOwners DEF HandlesOwned
<1>4. ShadowMatchesDevice
  BY <1>1, <1>2 DEF ShadowMatchesDevice, Settled, Matching
<1>5. ShadowAccounting
  <2>1. Shadows = Total(LengthsOf(buffers), NSlots)
    BY DEF Shadows, LengthsOf
  <2>2. KeptCharge = Shadows /\ KeptBytes = Shadows /\ shadowBytes \in Int /\ heap \in Int
    BY <1>1, <2>1 DEF Settled, StorageTyped
  <2>3. step # "idle" => Size \in Nat
    BY DuringUpdate
  <2>4. step \in {"idle", "reserved", "allocated", "created"}
    BY <1>1 DEF UpdateSound
  <2> QED
    BY <2>2, <2>3, <2>4 DEF ShadowAccounting, KeptCharge, KeptBytes
<1> QED
  BY <1>3, <1>4, <1>5, InvParts DEF StorageConsistent

(* RinGPU buffers are neither leaked nor shared, the shadow is what the     *)
(* device has, and the context is charged for exactly the shadows it holds. *)
THEOREM StorageConsistentHolds == Spec => []StorageConsistent
<1> QED
  BY InvariantHolds, InvStorageConsistent, PTL

-----------------------------------------------------------------------------
(* Failed calls.                                                            *)

Unharmed ==
    /\ bufferVars' = StorageBefore /\ step' = "idle"
    /\ UNCHANGED <<arrayBuffer, working, default, bound>>
    /\ \A s \in Slots : objects'[s].state = objects[s].state
                        /\ objects'[s].type = objects[s].type
    /\ \A s \in Slots \ FreeSlots : objects'[s] = objects[s] /\ saved'[s] = saved[s]

LEMMA RollbackUnharmed ==
    ASSUME Inv, Calling, FreeSlotsOnly, NEW type \in {"BUFFER", "VERTEX_ARRAY"}, Rollback(type)
    PROVE  Unharmed
<1>1. TableType /\ SlotsSound
  BY DEF Inv, Table
<1>2. \A s \in FreeSlots : /\ objects'[s].state = "FREE" /\ objects'[s].type = "NONE"
                           /\ objects[s].state = "FREE" /\ objects[s].type = "NONE"
  BY <1>1, SlotChanges DEF Rollback, FreeSlots, SlotsSound
<1>3. bufferVars' = StorageBefore /\ step' = "idle"
  BY DEF FreeSlotsOnly, StorageBefore, Calling, updateVars
<1> QED
  BY <1>2, <1>3 DEF FreeSlotsOnly, Unharmed

(* A call that is refused changes no object, and the storage of buffers is  *)
(* as before it.                                                            *)
LEMMA RefusedUnharmed ==
    ASSUME UNCHANGED <<objects, arrayBuffer, arrayVars>>, step' = "idle",
           bufferVars' = StorageBefore
    PROVE  Unharmed
  BY DEF Unharmed, arrayVars

LEMMA FailedCallUnharmed ==
    ASSUME Inv, Calling, Call, raised' # "NO_ERROR"
    PROVE  Unharmed
<1>1. ASSUME NEW error, Fail(error) PROVE Unharmed
  BY <1>1, RefusedUnharmed DEF Fail, StorageBefore, Calling, updateVars
<1>2. CASE \E n \in 1 .. NSlots : GenBuffers(n) \/ GenVertexArrays(n)
  <2>1. ASSUME NEW n \in 1 .. NSlots, GenBuffers(n) PROVE Unharmed
    <3>1. Rollback("BUFFER")
      BY <2>1 DEF GenBuffers
    <3> QED
      BY <2>1, <3>1, GenBuffersKeepsInv, RollbackUnharmed
  <2>2. ASSUME NEW n \in 1 .. NSlots, GenVertexArrays(n) PROVE Unharmed
    <3>1. Rollback("VERTEX_ARRAY")
      BY <2>2 DEF GenVertexArrays
    <3> QED
      BY <2>2, <3>1, GenVertexArraysKeepsInv, RollbackUnharmed
  <2> QED
    BY <1>2, <2>1, <2>2
<1>3. CASE \E name \in Names : DeleteBuffer(name) \/ DeleteVertexArray(name)
  BY <1>3 DEF DeleteBuffer, DeleteVertexArray
<1>4. CASE \E name \in Names \cup {NoName} : BindVertexArray(name)
  BY <1>1, <1>4 DEF BindVertexArray
<1>5. CASE \E target \in {"ARRAY", "ELEMENT"}, name \in Names \cup {NoName} : BindBuffer(target, name)
  BY <1>1, <1>5 DEF BindBuffer
<1>6. CASE \E i \in Attribs : \/ \E enabled \in BOOLEAN : SetEnabled(i, enabled)
                              \/ VertexAttribPointer(i)
  BY <1>1, <1>6 DEF SetEnabled, VertexAttribPointer, EditWorking
<1>7. CASE Recreate
  BY <1>7 DEF Recreate
<1> QED
  BY <1>2, <1>3, <1>4, <1>5, <1>6, <1>7 DEF Call

LEMMA FailedBeginUnharmed ==
    ASSUME step = "idle", BeginUpdate, raised' # "NO_ERROR"
    PROVE  Unharmed
<1>1. ASSUME NEW error, Refuse(error) PROVE Unharmed
  BY <1>1, RefusedUnharmed DEF Refuse, Done, StorageBefore
<1>2. ASSUME NEW slot, NEW content, Reserve(slot, content) PROVE Unharmed
  BY <1>1, <1>2 DEF Reserve, Continue
<1>3. ASSUME NEW slot, Clear(slot) PROVE FALSE
  BY <1>3 DEF Clear, Done
<1>4. CASE \E target \in {"ARRAY", "ELEMENT"}, content \in Uniform : BufferData(target, content)
  BY <1>1, <1>2, <1>3, <1>4 DEF BufferData
<1>5. CASE \E target \in {"ARRAY", "ELEMENT"}, offset, size \in 0 .. MaxSize, byte \in Bytes :
              BufferSubData(target, offset, size, byte)
  BY <1>1, <1>2, <1>5 DEF BufferSubData
<1> QED
  BY <1>4, <1>5 DEF BeginUpdate

LEMMA FailedUpdateUnharmed ==
    ASSUME Inv, UpdateStep, raised' # "NO_ERROR"
    PROVE  Unharmed
<1>1. ASSUME bufferVars' = StorageBefore, NEW error, Done(error) PROVE Unharmed
  BY <1>1, RefusedUnharmed DEF Done
<1>2. CASE MallocFails
  BY <1>1, <1>2, MallocFailsRestores DEF MallocFails
<1>3. ASSUME NEW handle, CreateFails(handle) PROVE Unharmed
  BY <1>1, <1>3, CreateFailsRestores DEF CreateFails
<1>4. CASE UploadFails
  BY <1>1, <1>4, UploadFailsRestores DEF UploadFails
<1>5. ~Malloc /\ ~Create /\ ~Publish
  BY DEF Malloc, Create, Publish, Continue, Done
<1> QED
  BY <1>2, <1>3, <1>4, <1>5 DEF UpdateStep

LEMMA FailedCall ==
    ASSUME Inv, Next, raised' # "NO_ERROR"
    PROVE  Unharmed
  BY FailedCallUnharmed, FailedBeginUnharmed, FailedUpdateUnharmed DEF Next, Calling

(* A call that records an error leaves objects, bindings and arrays as they *)
(* were, gives the names it took back, and takes the storage back to what   *)
(* it was when the call began, whichever step of an update failed.          *)
THEOREM FailedCallsChangeNothingHolds == Spec => FailedCallsChangeNothing
<1>1. Inv /\ [Next]_vars => [raised' # "NO_ERROR" => Unharmed]_vars
  BY FailedCall
<1>2. Spec => [][raised' # "NO_ERROR" => Unharmed]_vars
  BY <1>1, InvariantHolds, PTL DEF Spec
<1> QED
  BY <1>2 DEF FailedCallsChangeNothing, Unharmed

-----------------------------------------------------------------------------
(* Vertex arrays keep their state.                                          *)

View == [s \in Slots \cup {0} |-> ContentOf(s)]

(* The current array is 0 exactly when no array is bound.                   *)
LEMMA CurrentSlot ==
    ASSUME Inv
    PROVE  /\ Slot(bound) \in Slots \cup {0} /\ (Slot(bound) = 0 <=> bound = NoName)
           /\ Slot(NoName) = 0 /\ 0 \notin Slots
           /\ bound # NoName => /\ Slot(bound) \in Slots
                                /\ objects[Slot(bound)].type = "VERTEX_ARRAY"
                                /\ objects[Slot(bound)].state = "LIVE"
<1>1. bound \in Live("VERTEX_ARRAY") \cup {NoName}
  BY DEF Inv, Table, NamesLive
<1>2. Slot(NoName) = 0 /\ 0 \notin Slots
  BY Constants DEF Slot, NoName, Slots
<1> QED
  BY <1>1, <1>2, LiveSlot

LEMMA ViewTyped ==
    ASSUME Inv
    PROVE  View \in [Slots \cup {0} -> ArrayState]
  BY CurrentSlot DEF Inv, Table, StatesType, View, ContentOf

(* A step that leaves the current array, and what the arrays contain, or    *)
(* changes the state of the current one.                                    *)
LEMMA EditRefines ==
    ASSUME Inv, Inv', UNCHANGED <<saved, default, bound>>
    PROVE  Arrays!Edit
<1>1. View' \in [Slots \cup {0} -> ArrayState] /\ 0 \notin Slots
  <2>1. (Inv => View \in [Slots \cup {0} -> ArrayState])'
    BY ViewTyped, PTL
  <2> QED
    BY <2>1, CurrentSlot
<1>2. \A a \in (Slots \cup {0}) \ {Slot(bound)} : View'[a] = View[a]
  BY CurrentSlot DEF View, ContentOf
<1> QED
  BY <1>1, <1>2 DEF Arrays!Edit, Arrays!Arrays, Arrays!State, Arrays!Descriptor, ArrayState, View

LEMMA BindRefines ==
    ASSUME Inv, Inv', NEW array \in Names \cup {NoName},
           array = NoName \/ Found(array, "VERTEX_ARRAY"), BindVertexArray(array)
    PROVE  Arrays!Bind
<1>1. /\ array # bound /\ SaveWorking /\ working' = Stored(array) /\ bound' = array
  BY DEF BindVertexArray
<1>2. /\ array # NoName => Slot(array) \in Slots /\ Found(array, "VERTEX_ARRAY")
      /\ bound # NoName => Found(bound, "VERTEX_ARRAY")
  BY FoundSlot, LiveSlot DEF Inv, Table, NamesLive
<1>3. Slot(array) \in Slots \cup {0} /\ (Slot(array) = 0 <=> array = NoName) /\ Slot(array) # Slot(bound)
  BY <1>1, <1>2, CurrentSlot, SameSlot
<1>4. saved \in [Slots -> ArrayState]
  BY DEF Inv, Table, StatesType
<1>5. \A a \in Slots \cup {0} : ContentOf(a)' = ContentOf(a)
  <2> SUFFICES ASSUME NEW a \in Slots \cup {0} PROVE ContentOf(a)' = ContentOf(a)
    OBVIOUS
  <2>1. CASE a = Slot(array)
    BY <1>1, <1>3, <2>1, CurrentSlot DEF ContentOf, Stored
  <2>2. CASE a = Slot(bound)
    BY <1>1, <1>3, <1>4, <2>2, CurrentSlot DEF ContentOf, SaveWorking
  <2>3. CASE a # Slot(array) /\ a # Slot(bound)
    BY <1>1, <1>3, <1>4, <2>3, CurrentSlot DEF ContentOf, SaveWorking
  <2> QED
    BY <2>1, <2>2, <2>3
<1> QED
  BY <1>1, <1>3, <1>5 DEF Arrays!Bind, Arrays!Arrays

(* New names, taken or given back.                                          *)
LEMMA GenRefines ==
    ASSUME Inv, FreeSlotsOnly, NEW cleared \in SUBSET FreeSlots,
           \A s \in Slots : saved'[s] = IF s \in cleared THEN Blank ELSE saved[s]
    PROVE  Arrays!Clear(cleared)
<1>1. working' = working /\ default' = default /\ bound' = bound
  BY DEF FreeSlotsOnly
<1>2. Slot(bound) \notin cleared /\ 0 \notin cleared /\ cleared \subseteq Slots
  BY CurrentSlot DEF FreeSlots
<1>3. \A a \in Slots \cup {0} : ContentOf(a)' = IF a \in cleared THEN Blank ELSE ContentOf(a)
  BY <1>1, <1>2 DEF ContentOf
<1> QED
  BY <1>1, <1>2, <1>3 DEF Arrays!Clear, Arrays!Arrays, Arrays!Blank, Arrays!Unset, Blank, Unset

LEMMA DeleteVertexArrayRefines ==
    ASSUME Inv, NEW array \in Names, DeleteVertexArray(array)
    PROVE  Arrays!Clear({Slot(array)})
<1>1. /\ Found(array, "VERTEX_ARRAY")
      /\ working' = IF bound = array THEN default ELSE working
      /\ bound' = IF bound = array THEN NoName ELSE bound
      /\ saved' = [saved EXCEPT ![Slot(array)] = Blank]
      /\ default' = default
  BY DEF DeleteVertexArray
<1>2. /\ Slot(array) \in Slots /\ 0 \notin Slots /\ Slot(NoName) = 0
      /\ Slot(bound) \in Slots \cup {0} /\ (Slot(bound) = 0 <=> bound = NoName)
      /\ Slot(bound) = Slot(array) <=> bound = array
  <2>1. bound # NoName => Found(bound, "VERTEX_ARRAY")
    BY LiveSlot DEF Inv, Table, NamesLive
  <2> QED
    BY <1>1, <2>1, FoundSlot, SameSlot, CurrentSlot
<1>3. saved \in [Slots -> ArrayState]
  BY DEF Inv, Table, StatesType
<1>4. \A a \in Slots \cup {0} : ContentOf(a)' = IF a = Slot(array) THEN Blank ELSE ContentOf(a)
  <2>1. CASE bound = array
    BY <1>1, <1>2, <1>3, <2>1 DEF ContentOf
  <2>2. CASE bound # array
    BY <1>1, <1>2, <1>3, <2>2 DEF ContentOf
  <2> QED
    BY <2>1, <2>2
<1>5. Slot(bound)' = IF Slot(bound) = Slot(array) THEN 0 ELSE Slot(bound)
  BY <1>1, <1>2
<1> QED
  BY <1>2, <1>4, <1>5 DEF Arrays!Clear, Arrays!Arrays, Arrays!Blank, Arrays!Unset, Blank, Unset

LEMMA DeleteBufferRefines ==
    ASSUME Inv, NEW name \in Names, DeleteBuffer(name)
    PROVE  Arrays!Drop(name)
<1>1. /\ working' = Without(working, name) /\ default' = Without(default, name)
      /\ saved' = [s \in Slots |-> IF objects[s].type = "VERTEX_ARRAY" THEN Without(saved[s], name)
                                                                      ELSE saved[s]]
      /\ bound' = bound
  BY DEF DeleteBuffer, Detach
<1>2. Without(Blank, name) = Blank
  BY Constants DEF Without, Blank, Unset, Names, NoName
<1>3. \A s \in Slots : saved'[s] = Without(saved[s], name)
  BY <1>1, <1>2 DEF Inv, Table, IdleBlank
<1>4. \A a \in Slots \cup {0} : ContentOf(a)' = Without(ContentOf(a), name)
  BY <1>1, <1>3 DEF ContentOf
<1>5. \A state : Arrays!Without(state, name) = Without(state, name)
  BY DEF Arrays!Without, Arrays!Unset, Without, Unset
<1> QED
  BY <1>1, <1>4, <1>5 DEF Arrays!Drop, Arrays!Arrays

LEMMA InitRefines == Init => Slot(bound) = 0 /\ View = [s \in Slots \cup {0} |-> Blank]
  BY DEF Init, View, ContentOf, Slot, NoName, Slots

LEMMA BlankIs == Arrays!Blank = Blank /\ Arrays!Arrays = Slots \cup {0}
  BY DEF Arrays!Blank, Arrays!Unset, Arrays!Arrays, Blank, Unset

(* Every call is a step of the arrays or leaves them alone.                 *)
LEMMA CallRefines ==
    ASSUME Inv, Inv', Calling, Call
    PROVE  [Arrays!Next]_<<Slot(bound), View>>
<1> DEFINE Abstract == [Arrays!Next]_<<Slot(bound), View>>
<1>1. UNCHANGED arrayVars => Abstract
  BY DEF arrayVars, View, ContentOf
<1>2. /\ Arrays!Edit => Abstract
      /\ Arrays!Bind => Abstract
      /\ \A cleared \in SUBSET Slots : Arrays!Clear(cleared) => Abstract
      /\ \A name \in Names : Arrays!Drop(name) => Abstract
      /\ Arrays!Restart => Abstract
  BY DEF Arrays!Next
<1> SUFFICES Abstract
  OBVIOUS
<1> HIDE DEF Abstract
<1>3. ASSUME NEW error, Fail(error) PROVE Abstract
  BY <1>1, <1>3 DEF Fail, arrayVars
<1>4. CASE \E n \in 1 .. NSlots : GenBuffers(n) \/ GenVertexArrays(n)
  <2>1. ASSUME NEW n \in 1 .. NSlots, GenBuffers(n) PROVE Abstract
    BY <1>1, <2>1 DEF GenBuffers
  <2>2. ASSUME NEW n \in 1 .. NSlots, GenVertexArrays(n) PROVE Abstract
    <3>1. PICK cleared \in {FirstFree(n), FreeSlots} :
              saved' = [s \in Slots |-> IF s \in cleared THEN Blank ELSE saved[s]]
      BY <2>2 DEF GenVertexArrays
    <3>2. cleared \in SUBSET FreeSlots /\ cleared \in SUBSET Slots
      BY FirstFreeIsFree
    <3>3. Arrays!Clear(cleared)
      BY <2>2, <3>1, <3>2, GenVertexArraysKeepsInv, GenRefines
    <3> QED
      BY <1>2, <3>2, <3>3
  <2> QED
    BY <1>4, <2>1, <2>2
<1>5. CASE \E name \in Names : DeleteBuffer(name) \/ DeleteVertexArray(name)
  <2>1. ASSUME NEW name \in Names, DeleteBuffer(name) PROVE Abstract
    BY <1>2, <2>1, DeleteBufferRefines
  <2>2. ASSUME NEW name \in Names, DeleteVertexArray(name) PROVE Abstract
    <3>1. {Slot(name)} \in SUBSET Slots
      BY <2>2, FoundSlot DEF DeleteVertexArray
    <3> QED
      BY <1>2, <2>2, <3>1, DeleteVertexArrayRefines
  <2> QED
    BY <1>5, <2>1, <2>2
<1>6. CASE \E name \in Names \cup {NoName} : BindVertexArray(name)
  <2> SUFFICES ASSUME NEW name \in Names \cup {NoName}, BindVertexArray(name) PROVE Abstract
    BY <1>6
  <2>1. CASE name # NoName /\ ~Found(name, "VERTEX_ARRAY")
    BY <1>3, <2>1 DEF BindVertexArray
  <2>2. CASE name = NoName \/ Found(name, "VERTEX_ARRAY")
    BY <1>2, <2>2, BindRefines
  <2> QED
    BY <2>1, <2>2
<1>7. CASE \E target \in {"ARRAY", "ELEMENT"}, name \in Names \cup {NoName} : BindBuffer(target, name)
  <2> SUFFICES ASSUME NEW target \in {"ARRAY", "ELEMENT"}, NEW name \in Names \cup {NoName},
                      BindBuffer(target, name)
               PROVE  Abstract
    BY <1>7
  <2>1. CASE name # NoName /\ ~Found(name, "BUFFER")
    BY <1>3, <2>1 DEF BindBuffer
  <2>2. CASE name = NoName \/ Found(name, "BUFFER")
    <3>1. UNCHANGED <<saved, default, bound>>
      BY <2>2 DEF BindBuffer
    <3> QED
      BY <1>2, <3>1, EditRefines
  <2> QED
    BY <2>1, <2>2
<1>8. CASE \E i \in Attribs : \/ \E enabled \in BOOLEAN : SetEnabled(i, enabled)
                               \/ VertexAttribPointer(i)
  <2>1. ASSUME NEW state, EditWorking(state) PROVE Abstract
    BY <1>2, <2>1, EditRefines DEF EditWorking
  <2> QED
    BY <1>3, <1>8, <2>1 DEF SetEnabled, VertexAttribPointer
<1>9. CASE Recreate
  <2>1. Slot(bound)' = 0 /\ View' = [s \in Slots \cup {0} |-> Blank]
    <3>1. Init'
      BY <1>9, RecreateIsInit
    <3>2. (Init => Slot(bound) = 0 /\ View = [s \in Slots \cup {0} |-> Blank])'
      BY InitRefines, PTL
    <3> QED
      BY <3>1, <3>2
  <2>2. Arrays!Restart
    BY <2>1, BlankIs DEF Arrays!Restart, View
  <2> QED
    BY <1>2, <2>2
<1> QED
  BY <1>4, <1>5, <1>6, <1>7, <1>8, <1>9 DEF Call

(* An update of a buffer is none of their business.                         *)
LEMMA UpdateRefines ==
    ASSUME UpdateStep \/ BeginUpdate
    PROVE  UNCHANGED arrayVars
<1>1. ASSUME NEW slot, NEW content, Reserve(slot, content) PROVE UNCHANGED arrayVars
  BY <1>1 DEF Reserve, Refuse, Continue, Done
<1>2. CASE \E target \in {"ARRAY", "ELEMENT"}, content \in Uniform : BufferData(target, content)
  BY <1>1, <1>2 DEF BufferData, Clear, Refuse, Done
<1>3. CASE \E target \in {"ARRAY", "ELEMENT"}, offset, size \in 0 .. MaxSize, byte \in Bytes :
              BufferSubData(target, offset, size, byte)
  BY <1>1, <1>3 DEF BufferSubData, Refuse, Done
<1>4. CASE UpdateStep
  BY <1>4 DEF UpdateStep, Malloc, MallocFails, Create, CreateFails, UploadFails, Publish,
              Continue, Done
<1> QED
  BY <1>2, <1>3, <1>4 DEF BeginUpdate

LEMMA NextRefines ==
    ASSUME Inv, Inv', [Next]_vars
    PROVE  [Arrays!Next]_<<Slot(bound), View>>
<1>1. UNCHANGED arrayVars => [Arrays!Next]_<<Slot(bound), View>>
  BY DEF arrayVars, View, ContentOf
<1>2. CASE step = "idle" /\ Call /\ UNCHANGED updateVars
  BY <1>2, CallRefines DEF Calling
<1>3. CASE (step = "idle" /\ BeginUpdate) \/ UpdateStep
  BY <1>1, <1>3, UpdateRefines
<1>4. CASE UNCHANGED vars
  BY <1>1, <1>4 DEF vars, arrayVars
<1> QED
  BY <1>2, <1>3, <1>4 DEF Next

(* Vertex arrays implement their specification: every array keeps a state   *)
(* of its own, although only the current one is in the working copy.        *)
THEOREM ArraysKeepTheirStateHolds == Spec => ArraysKeepTheirState
<1>1. Init => Arrays!Init
  BY InitRefines, BlankIs DEF Arrays!Init, View
<1>2. Inv /\ Inv' /\ [Next]_vars => [Arrays!Next]_<<Slot(bound), View>>
  BY NextRefines
<1> QED
  BY <1>1, <1>2, InvariantHolds, PTL DEF Spec, ArraysKeepTheirState, Arrays!Spec, View

=============================================================================
