------------------------------ MODULE CpuBudget ------------------------------
(***************************************************************************)
(* The CPU memory budgets of RinGL (src/src/context/context.c).            *)
(*                                                                         *)
(* Every context has a local account: cpu_shadow_bytes (storage in use)    *)
(* and staging_cached_bytes (idle readback blocks).  All contexts of the   *)
(* library instance share ringl_global_cpu_allocation_bytes, updated under *)
(* a test-and-set spin lock.  A context is driven by one thread at a time, *)
(* so the identifier of a context stands for its thread as well.           *)
(*                                                                         *)
(* Taking the lock, reading the counter and writing it are separate        *)
(* actions; the thread-private steps between two calls are one action.     *)
(***************************************************************************)
EXTENDS Integers, FiniteSetsExt, Totals

CONSTANTS
    NContexts,      \* contexts (and threads) are 1 .. NContexts
    NBlocks,        \* RINGL_STAGING_CACHE_BLOCK_COUNT
    NStores,        \* bound: storages a context holds outside the block table
    Sizes,          \* the byte counts callers ask for
    ContextBytes,   \* sizeof(RinGLContext)
    MaxShadow,      \* RINGL_MAX_CPU_SHADOW_BYTES
    MaxGlobal,      \* RINGL_MAX_GLOBAL_CPU_ALLOCATION_BYTES
    MaxBlock,       \* RINGL_STAGING_CACHE_MAX_BLOCK_BYTES
    MaxCache        \* RINGL_STAGING_CACHE_MAX_BYTES

ASSUME CountsAssumption == {NContexts, NBlocks, NStores} \subseteq Nat

ASSUME BytesAssumption ==
    /\ Sizes \subseteq Nat \ {0}
    /\ ContextBytes \in Nat \ {0}
    /\ {MaxShadow, MaxGlobal, MaxBlock, MaxCache} \subseteq Nat

Contexts == 1 .. NContexts
Blocks == 1 .. NBlocks
Stores == 1 .. NStores
NoOwner == 0

VARIABLES
    lock,        \* ringl_global_cpu_allocation_lock_state, with its owner
    globalBytes, \* ringl_global_cpu_allocation_bytes
    seen,        \* what a thread read from globalBytes inside the lock
    phase,       \* progress of the reserve or release call of a thread
    amount,      \* its argument
    pc,          \* where the thread is, or goes on when the call returns
    op,          \* locals of the allocation or free under way
    record,      \* bytes of the context record
    shadow,      \* cpu_shadow_bytes
    cached,      \* staging_cached_bytes
    capacity,    \* staging_blocks[].capacity; 0: no memory
    inUse,       \* staging_blocks[].in_use
    stores,      \* the other storages of the context; 0: none
    stranded,    \* bytes of the cube-map faces of deleted textures
    leaked       \* the same, of contexts that are destroyed

callVars == <<lock, globalBytes, seen, phase, amount>>
blockVars == <<capacity, inUse>>
storeVars == <<stores, stranded, leaked>>
contextVars == <<op, record, shadow, cached, capacity, inUse, stores, stranded, leaked>>
vars == <<lock, globalBytes, seen, phase, amount, pc, op, record, shadow,
          cached, capacity, inUse, stores, stranded, leaked>>

(* staging: the storage may live in the block table; retry: the second      *)
(* attempt of a reservation; block: the block whose free waits for a trim.  *)
NoOp == [staging |-> FALSE, size |-> 0, retry |-> FALSE, block |-> 0]

(* The lock has at most one owner, the counters are byte counts that never  *)
(* go below zero, and every thread is at a place of its call.               *)
TypeOK ==
    /\ lock \in Contexts \cup {NoOwner}
    /\ globalBytes \in Nat
    /\ seen \in [Contexts -> Nat]
    /\ phase \in [Contexts -> {"none", "reserve", "reserveRead", "reserveWrite", "reserveExit",
                               "admitted", "refused",
                               "release", "releaseRead", "releaseWrite", "releaseExit"}]
    /\ amount \in [Contexts -> Nat]
    /\ pc \in [Contexts -> {"absent", "create", "idle", "attempt", "reserve", "malloc",
                            "trim", "free", "destroy"}]
    /\ op \in [Contexts -> [staging : BOOLEAN, size : Nat, retry : BOOLEAN,
                            block : 0 .. NBlocks]]
    /\ record \in [Contexts -> Nat]
    /\ shadow \in [Contexts -> Nat]
    /\ cached \in [Contexts -> Nat]
    /\ capacity \in [Contexts -> [Blocks -> Nat]]
    /\ inUse \in [Contexts -> [Blocks -> BOOLEAN]]
    /\ stores \in [Contexts -> [Stores -> Nat]]
    /\ stranded \in [Contexts -> Nat]
    /\ leaked \in Nat

Init ==
    /\ lock = NoOwner
    /\ globalBytes = 0
    /\ seen = [c \in Contexts |-> 0]
    /\ phase = [c \in Contexts |-> "none"]
    /\ amount = [c \in Contexts |-> 0]
    /\ pc = [c \in Contexts |-> "absent"]
    /\ op = [c \in Contexts |-> NoOp]
    /\ record = [c \in Contexts |-> 0]
    /\ shadow = [c \in Contexts |-> 0]
    /\ cached = [c \in Contexts |-> 0]
    /\ capacity = [c \in Contexts |-> [b \in Blocks |-> 0]]
    /\ inUse = [c \in Contexts |-> [b \in Blocks |-> FALSE]]
    /\ stores = [c \in Contexts |-> [i \in Stores |-> 0]]
    /\ stranded = [c \in Contexts |-> 0]
    /\ leaked = 0

-----------------------------------------------------------------------------
(***************************************************************************)
(* The shared counter.                                                     *)
(***************************************************************************)

(* The call of ringl_global_cpu_allocation_reserve; one for nothing or for  *)
(* more than the limit returns at once.                                     *)
CallReserve(c, bytes) ==
    /\ phase' = [phase EXCEPT ![c] = IF bytes = 0 \/ bytes > MaxGlobal
                                     THEN "refused" ELSE "reserve"]
    /\ amount' = [amount EXCEPT ![c] = bytes]
    /\ UNCHANGED <<lock, globalBytes, seen>>

(* The call of ringl_global_cpu_allocation_release.                         *)
CallRelease(c, bytes) ==
    /\ phase' = [phase EXCEPT ![c] = IF bytes = 0 THEN "none" ELSE "release"]
    /\ amount' = [amount EXCEPT ![c] = bytes]
    /\ UNCHANGED <<lock, globalBytes, seen>>

(* The caller of a reserve has looked at its result.                        *)
ReturnReserve(c) ==
    /\ phase' = [phase EXCEPT ![c] = "none"]
    /\ UNCHANGED <<lock, globalBytes, seen, amount>>

(* Fault: the spin loop forgets to test the old value of the lock.          *)
GlobalLockUntested(c) ==
    /\ phase[c] \in {"reserve", "release"}
    /\ lock' = c
    /\ phase' = [phase EXCEPT ![c] = IF @ = "reserve" THEN "reserveRead" ELSE "releaseRead"]
    /\ UNCHANGED <<globalBytes, seen, amount, pc, contextVars>>

(* __sync_lock_test_and_set succeeds; failed rounds of the spin stutter.    *)
GlobalLock(c) ==
    /\ phase[c] \in {"reserve", "release"}
    /\ lock = NoOwner
    /\ lock' = c
    /\ phase' = [phase EXCEPT ![c] = IF @ = "reserve" THEN "reserveRead" ELSE "releaseRead"]
    /\ UNCHANGED <<globalBytes, seen, amount, pc, contextVars>>

(* The comparison under the lock.  A release the counter does not cover is  *)
(* an accounting mismatch and keeps the charge.                             *)
GlobalRead(c) ==
    /\ \/ /\ phase[c] = "reserveRead"
          /\ phase' = [phase EXCEPT ![c] = IF globalBytes <= MaxGlobal - amount[c]
                                           THEN "reserveWrite" ELSE "reserveExit"]
       \/ /\ phase[c] = "releaseRead"
          /\ phase' = [phase EXCEPT ![c] = IF amount[c] <= globalBytes
                                           THEN "releaseWrite" ELSE "releaseExit"]
    /\ seen' = [seen EXCEPT ![c] = globalBytes]
    /\ UNCHANGED <<lock, globalBytes, amount, pc, contextVars>>

(* The update of the counter and the release of the lock.                   *)
GlobalWrite(c) ==
    /\ \/ /\ phase[c] = "reserveWrite"
          /\ globalBytes' = seen[c] + amount[c]
          /\ phase' = [phase EXCEPT ![c] = "admitted"]
       \/ /\ phase[c] = "releaseWrite"
          /\ globalBytes' = seen[c] - amount[c]
          /\ phase' = [phase EXCEPT ![c] = "none"]
    /\ lock' = NoOwner
    /\ seen' = [seen EXCEPT ![c] = 0]
    /\ UNCHANGED <<amount, pc, contextVars>>

(* Fault: the refusing path returns with the lock held.                     *)
GlobalExitLocked(c) ==
    /\ phase[c] \in {"reserveExit", "releaseExit"}
    /\ phase' = [phase EXCEPT ![c] = IF @ = "reserveExit" THEN "refused" ELSE "none"]
    /\ seen' = [seen EXCEPT ![c] = 0]
    /\ UNCHANGED <<lock, globalBytes, amount, pc, contextVars>>

(* The lock is released and the counter left as it is.                      *)
GlobalExit(c) ==
    /\ phase[c] \in {"reserveExit", "releaseExit"}
    /\ phase' = [phase EXCEPT ![c] = IF @ = "reserveExit" THEN "refused" ELSE "none"]
    /\ lock' = NoOwner
    /\ seen' = [seen EXCEPT ![c] = 0]
    /\ UNCHANGED <<globalBytes, amount, pc, contextVars>>

-----------------------------------------------------------------------------
(***************************************************************************)
(* ringl_context_create.                                                   *)
(***************************************************************************)
At(c, label) == pc[c] = label /\ phase[c] = "none"
Goto(c, label) == pc' = [pc EXCEPT ![c] = label]

ContextCreate(c) ==
    /\ At(c, "absent")
    /\ CallReserve(c, ContextBytes)
    /\ Goto(c, "create")
    /\ UNCHANGED contextVars

ContextRefused(c) ==
    /\ pc[c] = "create" /\ phase[c] = "refused"
    /\ ReturnReserve(c)
    /\ Goto(c, "absent")
    /\ UNCHANGED contextVars

ContextCreated(c) ==
    /\ pc[c] = "create" /\ phase[c] = "admitted"
    /\ ReturnReserve(c)
    /\ record' = [record EXCEPT ![c] = ContextBytes]
    /\ Goto(c, "idle")
    /\ UNCHANGED <<op, shadow, cached, blockVars, storeVars>>

ContextCallocFails(c) ==
    /\ pc[c] = "create" /\ phase[c] = "admitted"
    /\ CallRelease(c, ContextBytes)
    /\ Goto(c, "absent")
    /\ UNCHANGED contextVars

-----------------------------------------------------------------------------
(***************************************************************************)
(* ringl_context_reserve_shadow_bytes: two attempts, with the idle staging  *)
(* blocks given back in between.                                           *)
(***************************************************************************)

LocalRoom(c, bytes) ==
    /\ shadow[c] <= MaxShadow
    /\ cached[c] <= MaxShadow - shadow[c]
    /\ bytes <= MaxShadow - shadow[c] - cached[c]

IdleBlocks(c) == {b \in Blocks : capacity[c][b] > 0 /\ ~ inUse[c][b]}
EmptyBlocks(c) == {b \in Blocks : capacity[c][b] = 0}

ReserveCall(c) ==
    /\ At(c, "attempt") /\ LocalRoom(c, op[c].size)
    /\ CallReserve(c, op[c].size)
    /\ Goto(c, "reserve")
    /\ UNCHANGED contextVars

ReserveAdmitted(c) ==
    /\ pc[c] = "reserve" /\ phase[c] = "admitted"
    /\ ReturnReserve(c)
    /\ shadow' = [shadow EXCEPT ![c] = @ + op[c].size]
    /\ Goto(c, "malloc")
    /\ UNCHANGED <<op, record, cached, blockVars, storeVars>>

(* An attempt finds no room in the local or in the shared budget.           *)
AttemptFails(c) ==
    \/ At(c, "attempt") /\ ~ LocalRoom(c, op[c].size) /\ UNCHANGED callVars
    \/ pc[c] = "reserve" /\ phase[c] = "refused" /\ ReturnReserve(c)

ReserveRetry(c) ==
    /\ AttemptFails(c) /\ ~ op[c].retry
    /\ op' = [op EXCEPT ![c].retry = TRUE]
    /\ Goto(c, "trim")
    /\ UNCHANGED <<record, shadow, cached, blockVars, storeVars>>

ReserveRejected(c) ==
    /\ AttemptFails(c) /\ op[c].retry
    /\ op' = [op EXCEPT ![c] = NoOp]
    /\ Goto(c, "idle")
    /\ UNCHANGED <<record, shadow, cached, blockVars, storeVars>>

(* The memory of the first idle block is freed, then its charge released.   *)
FreeIdleBlock(c) ==
    LET b == Min(IdleBlocks(c))
        released == Lesser(capacity[c][b], cached[c])
    IN  /\ capacity' = [capacity EXCEPT ![c][b] = 0]
        /\ cached' = [cached EXCEPT ![c] = @ - released]
        /\ CallRelease(c, released)

(* The loop of ringl_context_trim_staging_cache ...                         *)
TrimBlock(c) ==
    /\ At(c, "trim") /\ IdleBlocks(c) # {}
    /\ FreeIdleBlock(c)
    /\ UNCHANGED <<pc, op, record, shadow, inUse, storeVars>>

(* ... and its return to the reservation or to the free of a block.         *)
TrimDone(c) ==
    /\ At(c, "trim") /\ IdleBlocks(c) = {}
    /\ Goto(c, IF op[c].retry THEN "attempt" ELSE "free")
    /\ UNCHANGED <<callVars, contextVars>>

-----------------------------------------------------------------------------
(***************************************************************************)
(* Allocation.  A storage outside the block table is a shadow of a buffer,  *)
(* texture, shader or program, a temporary, a table of the pipeline cache   *)
(* or a staging buffer the table has no place for: all follow the protocol  *)
(* of ringl_context_alloc_temporary.                                        *)
(***************************************************************************)
FittingBlocks(c, bytes) == {b \in IdleBlocks(c) : capacity[c][b] >= bytes}

(* A request above the context limit is refused before the first attempt.   *)
Alloc(c) ==
    /\ At(c, "idle")
    /\ \E i \in Stores : stores[c][i] = 0
    /\ \E bytes \in Sizes, staging \in BOOLEAN :
        /\ bytes <= MaxShadow
        /\ staging => FittingBlocks(c, bytes) = {}
        /\ op' = [op EXCEPT ![c] = [NoOp EXCEPT !.staging = staging, !.size = bytes]]
    /\ Goto(c, "attempt")
    /\ UNCHANGED <<callVars, record, shadow, cached, blockVars, storeVars>>

(* ringl_context_alloc_staging finds an idle block that is large enough:    *)
(* its charge moves from the cache to the storage in use.                   *)
AllocCached(c) ==
    /\ At(c, "idle")
    /\ \E bytes \in Sizes :
        /\ FittingBlocks(c, bytes) # {}
        /\ LET b == Min(FittingBlocks(c, bytes))
           IN  /\ inUse' = [inUse EXCEPT ![c][b] = TRUE]
               /\ cached' = [cached EXCEPT ![c] = @ - capacity[c][b]]
               /\ shadow' = [shadow EXCEPT ![c] = @ + capacity[c][b]]
    /\ UNCHANGED <<callVars, pc, op, record, capacity, storeVars>>

(* The new memory is a block of the table.                                  *)
InTable(c) == op[c].staging /\ op[c].size <= MaxBlock /\ EmptyBlocks(c) # {}

Malloc(c) ==
    /\ At(c, "malloc")
    /\ \/ /\ InTable(c)
          /\ LET b == Min(EmptyBlocks(c))
             IN  /\ capacity' = [capacity EXCEPT ![c][b] = op[c].size]
                 /\ inUse' = [inUse EXCEPT ![c][b] = TRUE]
          /\ UNCHANGED storeVars
       \/ /\ ~ InTable(c)
          /\ \E i \in Stores : /\ stores[c][i] = 0
                               /\ stores' = [stores EXCEPT ![c][i] = op[c].size]
          /\ UNCHANGED <<blockVars, stranded, leaked>>
    /\ op' = [op EXCEPT ![c] = NoOp]
    /\ Goto(c, "idle")
    /\ UNCHANGED <<callVars, record, shadow, cached>>

(* ringl_context_release_shadow_bytes, called once the memory is freed.     *)
ReleaseShadow(c, bytes) ==
    LET released == Lesser(bytes, shadow[c])
    IN  /\ shadow' = [shadow EXCEPT ![c] = @ - released]
        /\ CallRelease(c, released)

MallocFails(c) ==
    /\ At(c, "malloc")
    /\ ReleaseShadow(c, op[c].size)
    /\ op' = [op EXCEPT ![c] = NoOp]
    /\ Goto(c, "idle")
    /\ UNCHANGED <<record, cached, blockVars, storeVars>>

-----------------------------------------------------------------------------
(***************************************************************************)
(* Release.                                                                *)
(***************************************************************************)
HeldStores(c) == {i \in Stores : stores[c][i] > 0}

GiveBack(c, i) ==
    /\ stores' = [stores EXCEPT ![c][i] = 0]
    /\ ReleaseShadow(c, stores[c][i])
    /\ UNCHANGED <<stranded, leaked>>

(* Deleting a texture frees what its summary owns.  The faces of a cube map *)
(* are not part of it: their memory stays allocated and charged, and no     *)
(* object refers to it any more.                                            *)
Strand(c, i) ==
    /\ stores' = [stores EXCEPT ![c][i] = 0]
    /\ stranded' = [stranded EXCEPT ![c] = @ + stores[c][i]]
    /\ UNCHANGED <<callVars, shadow, leaked>>

FreeStore(c) ==
    /\ At(c, "idle")
    /\ \E i \in HeldStores(c) : GiveBack(c, i)
    /\ UNCHANGED <<pc, op, record, cached, blockVars>>

(* Whether a storage is the face of a cube map matters only for its end, so *)
(* the model leaves it open until then.                                     *)
DeleteCubeMap(c) ==
    /\ At(c, "idle")
    /\ \E i \in HeldStores(c) : Strand(c, i)
    /\ UNCHANGED <<pc, op, record, cached, blockVars>>

CacheRoom(c, b) == cached[c] <= MaxCache /\ capacity[c][b] <= MaxCache - cached[c]

(* ringl_context_free_staging of a block: a full cache is trimmed first.    *)
FreeBlock(c) ==
    /\ At(c, "idle")
    /\ \E b \in Blocks :
        /\ inUse[c][b]
        /\ op' = [op EXCEPT ![c] = [NoOp EXCEPT !.block = b]]
        /\ Goto(c, IF capacity[c][b] <= MaxBlock /\ ~ CacheRoom(c, b) THEN "trim" ELSE "free")
    /\ UNCHANGED <<callVars, record, shadow, cached, blockVars, storeVars>>

(* Fault: a cached block gives its charge back to the other contexts.       *)
CacheBlockReleased(c) ==
    /\ At(c, "free")
    /\ LET b == op[c].block
       IN  /\ capacity[c][b] <= MaxBlock /\ CacheRoom(c, b)
           /\ ReleaseShadow(c, capacity[c][b])
           /\ inUse' = [inUse EXCEPT ![c][b] = FALSE]
    /\ op' = [op EXCEPT ![c] = NoOp]
    /\ Goto(c, "idle")
    /\ UNCHANGED <<record, cached, capacity, storeVars>>

(* The block is kept: its charge moves from in use to cached ...           *)
CacheBlock(c) ==
    /\ At(c, "free")
    /\ LET b == op[c].block
       IN  /\ capacity[c][b] <= MaxBlock /\ CacheRoom(c, b)
           /\ shadow' = [shadow EXCEPT ![c] = @ - Lesser(capacity[c][b], @)]
           /\ cached' = [cached EXCEPT ![c] = @ + capacity[c][b]]
           /\ inUse' = [inUse EXCEPT ![c][b] = FALSE]
    /\ op' = [op EXCEPT ![c] = NoOp]
    /\ Goto(c, "idle")
    /\ UNCHANGED <<callVars, record, capacity, storeVars>>

(* ... or, when even an empty cache has no room for it, freed.             *)
DropBlock(c) ==
    /\ At(c, "free")
    /\ LET b == op[c].block
       IN  /\ ~ (capacity[c][b] <= MaxBlock /\ CacheRoom(c, b))
           /\ capacity' = [capacity EXCEPT ![c][b] = 0]
           /\ inUse' = [inUse EXCEPT ![c][b] = FALSE]
           /\ ReleaseShadow(c, capacity[c][b])
    /\ op' = [op EXCEPT ![c] = NoOp]
    /\ Goto(c, "idle")
    /\ UNCHANGED <<record, cached, storeVars>>

(* ringl_context_destroy: the storages, the staging blocks and last the     *)
(* context record.  Calls that use staging blocks are synchronous, so none  *)
(* is in use when a context is destroyed.                                   *)
ContextDestroy(c) ==
    /\ At(c, "idle") /\ \A b \in Blocks : ~ inUse[c][b]
    /\ Goto(c, "destroy")
    /\ UNCHANGED <<callVars, contextVars>>

DestroyStore(c) ==
    /\ At(c, "destroy") /\ HeldStores(c) # {}
    /\ LET i == Min(HeldStores(c)) IN GiveBack(c, i) \/ Strand(c, i)
    /\ UNCHANGED <<pc, op, record, cached, blockVars>>

DestroyBlock(c) ==
    /\ At(c, "destroy") /\ HeldStores(c) = {} /\ IdleBlocks(c) # {}
    /\ FreeIdleBlock(c)
    /\ UNCHANGED <<pc, op, record, shadow, inUse, storeVars>>

(* The account goes with the record, the charge of the stranded faces does  *)
(* not: nothing takes it back out of the shared counter.                    *)
DestroyRecord(c) ==
    /\ At(c, "destroy") /\ HeldStores(c) = {} /\ IdleBlocks(c) = {}
    /\ record' = [record EXCEPT ![c] = 0]
    /\ shadow' = [shadow EXCEPT ![c] = 0]
    /\ cached' = [cached EXCEPT ![c] = 0]
    /\ stranded' = [stranded EXCEPT ![c] = 0]
    /\ leaked' = leaked + stranded[c]
    /\ CallRelease(c, record[c])
    /\ Goto(c, "absent")
    /\ UNCHANGED <<op, blockVars, stores>>

-----------------------------------------------------------------------------
(* A call the application makes.                                            *)
Request(c) ==
    \/ ContextCreate(c) \/ Alloc(c) \/ AllocCached(c) \/ FreeStore(c) \/ DeleteCubeMap(c)
    \/ FreeBlock(c) \/ ContextDestroy(c)

(* The steps by which a call under way proceeds, but for the lock.          *)
Progress(c) ==
    \/ GlobalRead(c) \/ GlobalWrite(c) \/ GlobalExit(c)
    \/ ContextRefused(c) \/ ContextCreated(c) \/ ContextCallocFails(c)
    \/ ReserveCall(c) \/ ReserveAdmitted(c) \/ ReserveRetry(c) \/ ReserveRejected(c)
    \/ TrimBlock(c) \/ TrimDone(c) \/ Malloc(c) \/ MallocFails(c)
    \/ CacheBlock(c) \/ DropBlock(c)
    \/ DestroyStore(c) \/ DestroyBlock(c) \/ DestroyRecord(c)

Next == \E c \in Contexts : GlobalLock(c) \/ Request(c) \/ Progress(c)

Spec == Init /\ [][Next]_vars

(* A thread inside a call keeps running, and a thread that spins on the     *)
(* lock gets it if the lock is free again and again: the scheduler is       *)
(* assumed fair, the lock itself gives no order.                            *)
FairSpec ==
    /\ Spec
    /\ \A c \in Contexts : WF_vars(Progress(c)) /\ SF_vars(GlobalLock(c))

-----------------------------------------------------------------------------
(***************************************************************************)
(* Properties.                                                             *)
(***************************************************************************)

(* Bytes that are in the shared counter but in neither account of c: a      *)
(* reservation whose caller has not resumed, a release not yet written.     *)
Transit(c) ==
    IF phase[c] \in {"admitted", "release", "releaseRead", "releaseWrite", "releaseExit"}
    THEN amount[c] ELSE 0

Charge(c) == record[c] + shadow[c] + cached[c] + Transit(c)

(* The shared counter is exactly the sum of what the contexts are charged,  *)
(* transfers under way included, and of the cube-map faces that destroyed   *)
(* contexts left behind: no interleaving of the threads loses or doubles a  *)
(* reservation, so that a full budget means full memory.                    *)
GlobalAccounting == globalBytes = leaked + Total([c \in Contexts |-> Charge(c)], NContexts)

(* Memory context c really holds from the C allocator.                      *)
Held(c) == record[c] + Total(stores[c], NStores) + stranded[c] + Total(capacity[c], NBlocks)

(* What all contexts hold and have left behind never exceeds the shared     *)
(* counter, and that never exceeds the limit: memory is charged before it   *)
(* is allocated and freed before its charge is returned, so no context can  *)
(* be given headroom that is still occupied.                                *)
StorageWithinBudget ==
    /\ leaked + Total([c \in Contexts |-> Held(c)], NContexts) <= globalBytes
    /\ globalBytes <= MaxGlobal

InUseCapacity(c) == [b \in Blocks |-> IF inUse[c][b] THEN capacity[c][b] ELSE 0]
IdleCapacity(c) == [b \in Blocks |-> IF inUse[c][b] THEN 0 ELSE capacity[c][b]]

(* The two local counters of a context match the storage behind them, the   *)
(* faces of deleted cube maps included: the clamps in the releases never    *)
(* hide a mismatch, and a block that moves between the cache and its user   *)
(* takes its charge along.                                                  *)
LocalAccounting ==
    \A c \in Contexts :
        /\ shadow[c] = Total(stores[c], NStores) + stranded[c] + Total(InUseCapacity(c), NBlocks)
                       + (IF pc[c] = "malloc" THEN op[c].size ELSE 0)
        /\ cached[c] = Total(IdleCapacity(c), NBlocks)

(* Both accounts: however threads interleave at the lock, nothing is charged  *)
(* twice, handed back twice or forgotten, in a context or in the process; but *)
(* for the faces of cube maps that were deleted, all charges have an owner.   *)
Accounting == GlobalAccounting /\ LocalAccounting

(* Storage in use and cached storage share the context's limit, and the     *)
(* cache stays within its own.                                              *)
ContextLimits ==
    \A c \in Contexts : shadow[c] + cached[c] <= MaxShadow /\ cached[c] <= MaxCache

(* A reservation is rejected only by a context that has no idle staging     *)
(* block left ("Release it before rejecting a real allocation").            *)
RejectsOnlyWhenTrimmed ==
    [][\A c \in Contexts :
         pc[c] \in {"attempt", "reserve"} /\ pc'[c] = "idle" => IdleBlocks(c) = {}]_vars

(* Every call ends: the two attempts, the trim and the waits for the lock   *)
(* are finite, also when the other threads keep using the budget.           *)
CallsReturn ==
    \A c \in Contexts :
        ~ (At(c, "idle") \/ At(c, "absent")) ~> (At(c, "idle") \/ At(c, "absent"))
=============================================================================
