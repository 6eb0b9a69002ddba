--------------------------- MODULE CpuBudgetProofs ---------------------------
(***************************************************************************)
(* The accounting of CpuBudget is correct for every number of contexts,    *)
(* blocks and storages and for every choice of the limits.  The shadows of *)
(* textures, which are charged to it, are consistent with one another and  *)
(* with the objects of the device, for any number of textures, units,      *)
(* faces and levels and for images of any size.                            *)
(***************************************************************************)
EXTENDS CpuBudget, Textures, TotalsTheorems, FiniteSetTheorems

Reserving == {"reserve", "reserveRead", "reserveWrite", "reserveExit", "admitted", "refused"}
Releasing == {"release", "releaseRead", "releaseWrite"}
InsideLock == {"reserveRead", "reserveWrite", "reserveExit", "releaseRead", "releaseWrite"}

(* The lock belongs to the one thread between its acquisition and its       *)
(* release, and what that thread read is still the value of the counter.    *)
LockInv ==
    \A c \in Contexts :
        /\ phase[c] \in InsideLock <=> lock = c
        /\ phase[c] # "releaseExit"
        /\ phase[c] = "reserveWrite" => /\ seen[c] = globalBytes
                                        /\ seen[c] <= MaxGlobal - amount[c]
        /\ phase[c] = "releaseWrite" => /\ seen[c] = globalBytes
                                        /\ amount[c] <= seen[c]

(* A thread inside a reservation is at one of the two places that wait for  *)
(* its result, with the bytes it asked for; in the second attempt nothing   *)
(* is left to trim; the block of a free under way is in use, and none of a  *)
(* context that is destroyed.                                               *)
PlaceOK(c) ==
    /\ phase[c] \in Reserving <=> pc[c] \in {"create", "reserve"}
    /\ pc[c] = "create" => amount[c] = ContextBytes
    /\ pc[c] = "reserve" => amount[c] = op[c].size /\ LocalRoom(c, op[c].size)
    /\ pc[c] \in {"attempt", "reserve"} /\ op[c].retry => IdleBlocks(c) = {}
    /\ pc[c] \in {"absent", "create"} => record[c] = 0
    /\ pc[c] = "free" => op[c].block \in Blocks /\ inUse[c][op[c].block]
    /\ pc[c] = "trim" /\ ~ op[c].retry => op[c].block \in Blocks /\ inUse[c][op[c].block]
    /\ pc[c] = "destroy" => \A b \in Blocks : ~ inUse[c][b]

IInv ==
    /\ TypeOK
    /\ LockInv
    /\ \A c \in Contexts : PlaceOK(c)
    /\ LocalAccounting
    /\ ContextLimits
    /\ GlobalAccounting
    /\ globalBytes <= MaxGlobal
(***************************************************************************)
(* Facts about one context.                                                *)
(***************************************************************************)

(* The charges are numbers.                                                *)
LEMMA ChargeType ==
  ASSUME TypeOK
  PROVE  [c \in Contexts |-> Charge(c)] \in [Contexts -> Nat]
BY DEF TypeOK, Charge, Transit, Contexts

(* A step that changes the shared counter by what it changes the charge of  *)
(* one context and what is left behind preserves the accounting.            *)
LEMMA ChargeStep ==
  ASSUME TypeOK, TypeOK', GlobalAccounting, NEW c \in Contexts,
         \A d \in Contexts \ {c} : Charge(d)' = Charge(d),
         globalBytes' - leaked' = globalBytes - leaked - Charge(c) + Charge(c)'
  PROVE  GlobalAccounting'
<1> DEFINE f == [d \in Contexts |-> Charge(d)]
<1> DEFINE g == [d \in Contexts |-> Charge(d)']
<1>1. f \in [1 .. NContexts -> Nat] BY ChargeType DEF Contexts
<1>2. Charge(c)' \in Int
  <2>1. /\ record'[c] \in Nat /\ shadow'[c] \in Nat
        /\ cached'[c] \in Nat /\ amount'[c] \in Nat
    BY DEF TypeOK
  <2> QED BY <2>1 DEF Charge, Transit
<1>3. g = [f EXCEPT ![c] = Charge(c)'] OBVIOUS
<1>4. f[c] = Charge(c) OBVIOUS
<1>5. c \in 1 .. NContexts /\ NContexts \in Nat BY CountsAssumption DEF Contexts
<1>6. f \in [1 .. NContexts -> Int] BY <1>1
<1> HIDE DEF f, g
<1>7. Total(g, NContexts) = Total(f, NContexts) - f[c] + Charge(c)'
  <2>1. \A v \in Int : Total([f EXCEPT ![c] = v], NContexts) = Total(f, NContexts) - f[c] + v
    BY <1>5, <1>6, TotalUpdate
  <2> QED BY <1>2, <1>3, <2>1
<1>8. globalBytes = leaked + Total(f, NContexts) BY DEF GlobalAccounting, f
<1>9. globalBytes' = leaked' + Total(g, NContexts)
  <2>1. /\ globalBytes \in Nat /\ leaked \in Nat /\ globalBytes' \in Nat /\ leaked' \in Nat
        /\ f[c] \in Nat
    BY <1>1, <1>5 DEF TypeOK
  <2>2. Total(f, NContexts) \in Nat BY <1>1, <1>5, TotalNat
  <2> QED BY <1>2, <1>4, <1>7, <1>8, <2>1, <2>2
<1> QED BY <1>9 DEF GlobalAccounting, g

(* A context is never charged more than the counter holds.                  *)
LEMMA ChargeBound ==
  ASSUME TypeOK, GlobalAccounting, NEW c \in Contexts
  PROVE  Charge(c) <= globalBytes
<1> DEFINE f == [d \in Contexts |-> Charge(d)]
<1>1. f \in [1 .. NContexts -> Nat] BY ChargeType DEF Contexts
<1>2. c \in 1 .. NContexts /\ NContexts \in Nat BY CountsAssumption DEF Contexts
<1>3. f[c] = Charge(c) OBVIOUS
<1>4. globalBytes = leaked + Total(f, NContexts) BY DEF GlobalAccounting
<1> HIDE DEF f
<1>5. f[c] <= Total(f, NContexts) /\ Total(f, NContexts) \in Nat /\ f[c] \in Nat
  BY <1>1, <1>2, TotalBound, TotalNat
<1>6. leaked \in Nat BY DEF TypeOK
<1> QED BY <1>3, <1>4, <1>5, <1>6

(***************************************************************************)
(* The steps on the shared counter.                                        *)
(***************************************************************************)
LEMMA LockStep ==
  ASSUME IInv, NEW c \in Contexts, GlobalLock(c)
  PROVE  IInv'
<1> USE DEF IInv
<1>1. TypeOK' BY DEF TypeOK, GlobalLock, contextVars
<1>2. LockInv' BY DEF TypeOK, LockInv, GlobalLock, InsideLock, Contexts, NoOwner
<1>3. (\A d \in Contexts : PlaceOK(d))' BY DEF TypeOK, PlaceOK, GlobalLock, contextVars, Reserving, LocalRoom, IdleBlocks
<1>4. LocalAccounting' BY DEF LocalAccounting, GlobalLock, contextVars, InUseCapacity, IdleCapacity
<1>5. ContextLimits' BY DEF ContextLimits, GlobalLock, contextVars
<1>6. \A d \in Contexts : Charge(d)' = Charge(d)
  BY DEF TypeOK, Charge, Transit, GlobalLock, contextVars
<1>7. GlobalAccounting' BY <1>6 DEF GlobalLock, GlobalAccounting, contextVars
<1>8. (globalBytes <= MaxGlobal)' BY DEF GlobalLock
<1> QED BY <1>1, <1>2, <1>3, <1>4, <1>5, <1>7, <1>8

LEMMA ReadStep ==
  ASSUME IInv, NEW c \in Contexts, GlobalRead(c)
  PROVE  IInv'
<1> USE DEF IInv
<1>1. TypeOK' BY DEF TypeOK, GlobalRead, contextVars
<1>2. phase[c] = "releaseRead" => amount[c] <= globalBytes
  <2>1. {record[c], shadow[c], cached[c], amount[c], globalBytes} \subseteq Nat
    BY DEF TypeOK
  <2>2. Charge(c) \in Nat /\ (phase[c] = "releaseRead" => amount[c] <= Charge(c))
    BY <2>1 DEF Charge, Transit
  <2>3. Charge(c) <= globalBytes BY ChargeBound
  <2> QED BY <2>1, <2>2, <2>3
<1>3. LockInv' BY <1>2 DEF TypeOK, LockInv, GlobalRead, InsideLock, contextVars
<1>4. (\A d \in Contexts : PlaceOK(d))' BY DEF TypeOK, PlaceOK, GlobalRead, contextVars, Reserving, LocalRoom, IdleBlocks
<1>5. LocalAccounting' BY DEF LocalAccounting, GlobalRead, contextVars, InUseCapacity, IdleCapacity
<1>6. ContextLimits' BY DEF ContextLimits, GlobalRead, contextVars
<1>7. \A d \in Contexts : Charge(d)' = Charge(d)
  BY <1>2 DEF TypeOK, Charge, Transit, GlobalRead, contextVars
<1>8. GlobalAccounting' BY <1>7 DEF GlobalRead, GlobalAccounting, contextVars
<1>9. (globalBytes <= MaxGlobal)' BY DEF GlobalRead
<1> QED BY <1>1, <1>3, <1>4, <1>5, <1>6, <1>8, <1>9

LEMMA WriteStep ==
  ASSUME IInv, NEW c \in Contexts, GlobalWrite(c)
  PROVE  IInv'
<1> USE DEF IInv
<1>0. globalBytes' \in Nat /\ globalBytes' <= MaxGlobal
  <2>1. {seen[c], amount[c], MaxGlobal} \subseteq Nat BY BytesAssumption DEF TypeOK
  <2> QED BY <2>1 DEF LockInv, GlobalWrite
<1>1. TypeOK' BY <1>0 DEF TypeOK, GlobalWrite, contextVars
<1>2. lock = c BY DEF GlobalWrite, LockInv, InsideLock
<1>3. LockInv'
  <2>1. \A d \in Contexts \ {c} : phase[d] \notin InsideLock BY <1>2 DEF LockInv
  <2>2. phase'[c] \in {"admitted", "none"} /\ lock' = 0
        /\ \A d \in Contexts \ {c} : phase'[d] = phase[d]
    BY DEF TypeOK, GlobalWrite, NoOwner
  <2>3. \A d \in Contexts : phase'[d] \notin InsideLock BY <2>1, <2>2 DEF InsideLock
  <2>4. \A d \in Contexts : lock' # d BY <2>2 DEF Contexts
  <2>5. \A d \in Contexts : phase'[d] # "releaseExit" BY <2>2 DEF LockInv
  <2> QED BY <2>3, <2>4, <2>5 DEF LockInv, InsideLock
<1>4. (\A d \in Contexts : PlaceOK(d))' BY DEF TypeOK, PlaceOK, GlobalWrite, contextVars, Reserving, LocalRoom, IdleBlocks
<1>5. LocalAccounting' BY DEF LocalAccounting, GlobalWrite, contextVars, InUseCapacity, IdleCapacity
<1>6. ContextLimits' BY DEF ContextLimits, GlobalWrite, contextVars
<1>7. \A d \in Contexts \ {c} : Charge(d)' = Charge(d)
  BY DEF TypeOK, Charge, Transit, GlobalWrite, contextVars
<1>8. globalBytes' - leaked' = globalBytes - leaked - Charge(c) + Charge(c)'
  <2>1. {record[c], shadow[c], cached[c], amount[c], globalBytes, leaked} \subseteq Nat
    BY DEF TypeOK
  <2>2. /\ record'[c] = record[c] /\ shadow'[c] = shadow[c]
        /\ cached'[c] = cached[c] /\ amount'[c] = amount[c] /\ leaked' = leaked
    BY DEF GlobalWrite, contextVars
  <2>3. CASE phase[c] = "reserveWrite"
    <3>1. phase'[c] = "admitted" /\ globalBytes' = globalBytes + amount[c]
      BY <2>3 DEF TypeOK, LockInv, GlobalWrite
    <3> QED BY <2>1, <2>2, <2>3, <3>1 DEF Charge, Transit
  <2>4. CASE phase[c] = "releaseWrite"
    <3>1. phase'[c] = "none" /\ globalBytes' = globalBytes - amount[c]
      BY <2>4 DEF TypeOK, LockInv, GlobalWrite
    <3> QED BY <2>1, <2>2, <2>4, <3>1 DEF Charge, Transit
  <2> QED BY <2>3, <2>4 DEF GlobalWrite
<1>9. GlobalAccounting' BY <1>1, <1>7, <1>8, ChargeStep
<1> QED BY <1>0, <1>1, <1>3, <1>4, <1>5, <1>6, <1>9

LEMMA ExitStep ==
  ASSUME IInv, NEW c \in Contexts, GlobalExit(c)
  PROVE  IInv'
<1> USE DEF IInv
<1>1. TypeOK' BY DEF TypeOK, GlobalExit, contextVars
<1>2. lock = c /\ phase[c] = "reserveExit" BY DEF GlobalExit, LockInv, InsideLock
<1>3. LockInv' BY <1>2 DEF TypeOK, LockInv, GlobalExit, InsideLock, contextVars, Contexts, NoOwner
<1>4. (\A d \in Contexts : PlaceOK(d))' BY <1>2 DEF TypeOK, PlaceOK, GlobalExit, contextVars, Reserving, LocalRoom, IdleBlocks
<1>5. LocalAccounting' BY DEF LocalAccounting, GlobalExit, contextVars, InUseCapacity, IdleCapacity
<1>6. ContextLimits' BY DEF ContextLimits, GlobalExit, contextVars
<1>7. \A d \in Contexts : Charge(d)' = Charge(d)
  BY <1>2 DEF TypeOK, Charge, Transit, GlobalExit, contextVars
<1>8. GlobalAccounting' BY <1>7 DEF GlobalExit, GlobalAccounting, contextVars
<1>9. (globalBytes <= MaxGlobal)' BY DEF GlobalExit
<1> QED BY <1>1, <1>3, <1>4, <1>5, <1>6, <1>8, <1>9
(***************************************************************************)
(* The steps outside the lock.                                             *)
(***************************************************************************)

(* What such a step may do to the variables of the calls.                   *)
Apart(c) ==
    /\ phase[c] \notin InsideLock
    /\ UNCHANGED <<lock, globalBytes, seen>>
    /\ phase'[c] \in {"none", "reserve", "refused", "release"}
    /\ \A d \in Contexts \ {c} :
          /\ phase'[d] = phase[d] /\ amount'[d] = amount[d] /\ pc'[d] = pc[d]
          /\ op'[d] = op[d] /\ record'[d] = record[d] /\ shadow'[d] = shadow[d]
          /\ cached'[d] = cached[d] /\ capacity'[d] = capacity[d]
          /\ inUse'[d] = inUse[d] /\ stores'[d] = stores[d] /\ stranded'[d] = stranded[d]

Outside(c) == Apart(c) /\ leaked' = leaked

(* The accounting and the limits of one context.                            *)
LocalOK(c) ==
    /\ shadow[c] = Total(stores[c], NStores) + stranded[c] + Total(InUseCapacity(c), NBlocks)
                   + (IF pc[c] = "malloc" THEN op[c].size ELSE 0)
    /\ cached[c] = Total(IdleCapacity(c), NBlocks)

LimitsOK(c) == shadow[c] + cached[c] <= MaxShadow /\ cached[c] <= MaxCache

(* It is enough to look at the context that takes the step.                 *)
LEMMA ApartStep ==
  ASSUME IInv, TypeOK', NEW c \in Contexts, Apart(c), leaked' + Charge(c)' = leaked + Charge(c),
         PlaceOK(c)', LocalOK(c)', LimitsOK(c)'
  PROVE  IInv'
<1> USE DEF IInv
<1>1. LockInv'
  <2>1. \A d \in Contexts \ {c} : phase'[d] = phase[d] /\ amount'[d] = amount[d]
    BY DEF Apart
  <2>2. seen' = seen /\ lock' = lock /\ globalBytes' = globalBytes BY DEF Apart
  <2>3. phase'[c] \in {"none", "reserve", "refused", "release"} /\ lock # c
    BY DEF Apart, LockInv
  <2> QED BY <2>1, <2>2, <2>3 DEF LockInv, InsideLock
<1>2. \A d \in Contexts : PlaceOK(d)'
  BY DEF Apart, PlaceOK, LocalRoom, IdleBlocks
<1>3. \A d \in Contexts : LocalOK(d)'
  BY DEF Apart, LocalAccounting, LocalOK, InUseCapacity, IdleCapacity
<1>4. \A d \in Contexts : LimitsOK(d)'
  BY DEF Apart, ContextLimits, LimitsOK
<1>5. \A d \in Contexts \ {c} : Charge(d)' = Charge(d)
  BY DEF Apart, Charge, Transit
<1>6. GlobalAccounting'
  <2>1. globalBytes' = globalBytes BY DEF Apart
  <2>2. {globalBytes, leaked, leaked', Charge(c), Charge(c)'} \subseteq Nat
    BY DEF TypeOK, Charge, Transit
  <2>3. globalBytes' - leaked' = globalBytes - leaked - Charge(c) + Charge(c)'
    BY <2>1, <2>2
  <2> QED BY <1>5, <2>3, ChargeStep
<1>7. (globalBytes <= MaxGlobal)' BY DEF Apart
<1>8. LocalAccounting' BY <1>3 DEF LocalAccounting, LocalOK
<1>9. ContextLimits' BY <1>4 DEF ContextLimits, LimitsOK
<1> QED BY <1>1, <1>2, <1>6, <1>7, <1>8, <1>9

LEMMA OutsideStep ==
  ASSUME IInv, TypeOK', NEW c \in Contexts, Outside(c), Charge(c)' = Charge(c),
         PlaceOK(c)', LocalOK(c)', LimitsOK(c)'
  PROVE  IInv'
BY ApartStep DEF Outside

(* The invariant of one context, with the types of its numbers.             *)
LEMMA OneContext ==
  ASSUME IInv, NEW c \in Contexts
  PROVE  /\ PlaceOK(c) /\ LocalOK(c) /\ LimitsOK(c)
         /\ {record[c], shadow[c], cached[c], amount[c], op[c].size} \subseteq Nat
         /\ capacity[c] \in [Blocks -> Nat]
         /\ inUse[c] \in [Blocks -> BOOLEAN]
         /\ stores[c] \in [Stores -> Nat] /\ stranded[c] \in Nat /\ leaked \in Nat
         /\ {ContextBytes, MaxShadow, MaxGlobal, MaxBlock, MaxCache} \subseteq Nat
         /\ ContextBytes # 0
BY BytesAssumption DEF IInv, TypeOK, PlaceOK, LocalAccounting, LocalOK, ContextLimits, LimitsOK

(* Steps that call or return and leave the context as it is.                *)
LEMMA PassingStep ==
  ASSUME IInv, NEW c \in Contexts,
         \/ ContextCreate(c) \/ ContextRefused(c) \/ ContextCallocFails(c)
         \/ ReserveCall(c) \/ TrimDone(c) \/ ContextDestroy(c)
  PROVE  IInv'
<1> USE OneContext
<1>1. /\ UNCHANGED contextVars /\ phase[c] \notin InsideLock
      /\ phase'[c] \in {"none", "reserve", "refused", "release"}
      /\ UNCHANGED <<lock, globalBytes, seen>>
  BY DEF ContextCreate, ContextRefused, ContextCallocFails, ReserveCall, TrimDone, ContextDestroy,
         At, CallReserve, CallRelease, ReturnReserve, callVars, InsideLock, IInv, TypeOK
<1>2. TypeOK'
  <2>1. pc' \in [Contexts -> {"absent", "create", "idle", "attempt", "reserve", "malloc",
                               "trim", "free", "destroy"}]
    BY DEF ContextCreate, ContextRefused, ContextCallocFails, ReserveCall, TrimDone,
         ContextDestroy, At, Goto, CallReserve, CallRelease, ReturnReserve, callVars,
         IInv, TypeOK
  <2>2. amount' \in [Contexts -> Nat]
    BY DEF ContextCreate, ContextRefused, ContextCallocFails, ReserveCall, TrimDone,
         ContextDestroy, At, Goto, CallReserve, CallRelease, ReturnReserve, callVars,
         IInv, TypeOK
  <2>3. phase' \in [Contexts -> {"none", "reserve", "reserveRead", "reserveWrite",
                                  "reserveExit", "admitted", "refused", "release",
                                  "releaseRead", "releaseWrite", "releaseExit"}]
    <3>1. \/ phase' = phase
          \/ phase' = [phase EXCEPT ![c] = "none"]
          \/ phase' = [phase EXCEPT ![c] = "reserve"]
          \/ phase' = [phase EXCEPT ![c] = "refused"]
          \/ phase' = [phase EXCEPT ![c] = "release"]
      <4>1. CASE ContextCreate(c) BY <4>1 DEF ContextCreate, CallReserve
      <4>2. CASE ContextRefused(c) BY <4>2 DEF ContextRefused, ReturnReserve
      <4>3. CASE ContextCallocFails(c) BY <4>3 DEF ContextCallocFails, CallRelease
      <4>4. CASE ReserveCall(c) BY <4>4 DEF ReserveCall, CallReserve
      <4>5. CASE TrimDone(c) BY <4>5 DEF TrimDone, callVars
      <4>6. CASE ContextDestroy(c) BY <4>6 DEF ContextDestroy, callVars
      <4> QED BY <4>1, <4>2, <4>3, <4>4, <4>5, <4>6
    <3> QED BY ONLY <3>1, IInv, c \in Contexts DEF IInv, TypeOK
  <2> QED BY <1>1, <2>1, <2>2, <2>3 DEF contextVars, IInv, TypeOK
<1>3. Outside(c)
  BY <1>1 DEF ContextCreate, ContextRefused, ContextCallocFails, ReserveCall, TrimDone,
         ContextDestroy, At, Goto, CallReserve, CallRelease, ReturnReserve, callVars,
         contextVars, IInv, TypeOK, Outside, Apart, InsideLock
<1>4. Charge(c)' = Charge(c)
  BY <1>1 DEF ContextCreate, ContextRefused, ContextCallocFails, ReserveCall, TrimDone,
         ContextDestroy, At, CallReserve, CallRelease, ReturnReserve, callVars,
         contextVars, IInv, TypeOK, Charge, Transit, PlaceOK
<1>5. PlaceOK(c)'
  BY <1>1 DEF ContextCreate, ContextRefused, ContextCallocFails, ReserveCall, TrimDone,
         ContextDestroy, At, Goto, CallReserve, CallRelease, ReturnReserve, callVars,
         contextVars, IInv, TypeOK, PlaceOK, Reserving, LocalRoom, IdleBlocks
<1>6. pc[c] # "malloc" /\ pc'[c] # "malloc"
  BY DEF ContextCreate, ContextRefused, ContextCallocFails, ReserveCall, TrimDone,
         ContextDestroy, At, Goto, IInv, TypeOK
<1>7. LocalOK(c)' BY <1>1, <1>6 DEF LocalOK, contextVars, InUseCapacity, IdleCapacity
<1>8. LimitsOK(c)' BY <1>1 DEF LimitsOK, contextVars
<1> QED BY <1>2, <1>3, <1>4, <1>5, <1>7, <1>8, OutsideStep
(* The two views of the block table.                                       *)
LEMMA CapacityType ==
  ASSUME IInv, NEW c \in Contexts
  PROVE  /\ InUseCapacity(c) \in [1 .. NBlocks -> Nat]
         /\ IdleCapacity(c) \in [1 .. NBlocks -> Nat]
BY OneContext DEF Blocks, InUseCapacity, IdleCapacity

(* The totals of a context are numbers and bound what they sum.             *)
LEMMA StorageTotals ==
  ASSUME IInv, NEW c \in Contexts
  PROVE  /\ Total(stores[c], NStores) \in Nat /\ stranded[c] \in Nat
         /\ Total(InUseCapacity(c), NBlocks) \in Nat
         /\ Total(IdleCapacity(c), NBlocks) \in Nat
         /\ \A i \in Stores : stores[c][i] <= Total(stores[c], NStores)
         /\ \A b \in Blocks : InUseCapacity(c)[b] <= Total(InUseCapacity(c), NBlocks)
         /\ \A b \in Blocks : IdleCapacity(c)[b] <= Total(IdleCapacity(c), NBlocks)
<1>1. stores[c] \in [1 .. NStores -> Nat] BY OneContext DEF Stores
<1>2. InUseCapacity(c) \in [1 .. NBlocks -> Nat] BY CapacityType
<1>3. IdleCapacity(c) \in [1 .. NBlocks -> Nat] BY CapacityType
<1>4. NStores \in Nat /\ NBlocks \in Nat BY CountsAssumption
<1>5. stranded[c] \in Nat BY OneContext
<1> QED BY <1>1, <1>2, <1>3, <1>4, <1>5, TotalNat, TotalBound DEF Stores, Blocks

(* The result of a reservation, and the choice of its continuation.         *)
LEMMA ReservationStep ==
  ASSUME IInv, NEW c \in Contexts,
         ContextCreated(c) \/ ReserveAdmitted(c) \/ ReserveRetry(c) \/ ReserveRejected(c)
  PROVE  IInv'
<1> USE OneContext
<1> USE DEF IInv, TypeOK
<1>1. CASE ContextCreated(c)
  <2> USE <1>1 DEF ContextCreated, ReturnReserve, Goto, blockVars, storeVars
  <2>1. TypeOK' OBVIOUS
  <2>2. Outside(c) BY DEF Outside, Apart, InsideLock
  <2>3. Charge(c)' = Charge(c) BY DEF Charge, Transit, PlaceOK
  <2>4. PlaceOK(c)' BY DEF PlaceOK, Reserving
  <2>5. LocalOK(c)' BY DEF LocalOK, InUseCapacity, IdleCapacity
  <2>6. LimitsOK(c)' BY DEF LimitsOK
  <2> QED BY <2>1, <2>2, <2>3, <2>4, <2>5, <2>6, OutsideStep
<1>2. CASE ReserveAdmitted(c)
  <2> USE <1>2 DEF ReserveAdmitted, ReturnReserve, Goto, blockVars, storeVars
  <2>1. TypeOK' OBVIOUS
  <2>2. Outside(c) BY DEF Outside, Apart, InsideLock
  <2>3. Charge(c)' = Charge(c) BY DEF Charge, Transit, PlaceOK
  <2>4. PlaceOK(c)' BY DEF PlaceOK, Reserving
  <2>5. LocalOK(c)'
    <3>1. shadow'[c] = shadow[c] + op[c].size /\ pc[c] # "malloc" /\ pc'[c] = "malloc"
          /\ op' = op /\ cached' = cached /\ stores' = stores /\ stranded' = stranded
          /\ InUseCapacity(c)' = InUseCapacity(c) /\ IdleCapacity(c)' = IdleCapacity(c)
      BY DEF InUseCapacity, IdleCapacity
    <3>2. {op[c].size, Total(stores[c], NStores), stranded[c], Total(InUseCapacity(c), NBlocks)} \subseteq Nat
      BY StorageTotals
    <3>3. shadow[c] = Total(stores[c], NStores) + stranded[c] + Total(InUseCapacity(c), NBlocks)
          /\ cached[c] = Total(IdleCapacity(c), NBlocks)
      <4>1. LocalOK(c) BY OneContext
      <4> QED BY ONLY <4>1, <3>1, <3>2 DEF LocalOK
    <3> HIDE <1>2 DEF ReserveAdmitted, TypeOK, IInv
    <3> QED BY ONLY <3>1, <3>2, <3>3 DEF LocalOK
  <2>6. LimitsOK(c)' BY DEF LimitsOK, PlaceOK, LocalRoom, IdleBlocks
  <2> QED BY <2>1, <2>2, <2>3, <2>4, <2>5, <2>6, OutsideStep
<1>3. CASE ReserveRetry(c)
  <2> USE <1>3 DEF ReserveRetry, AttemptFails, At, ReturnReserve, Goto, callVars, blockVars, storeVars
  <2>1. TypeOK'
    <3>1. op' \in [Contexts -> [staging : BOOLEAN, size : Nat, retry : BOOLEAN,
                                block : 0 .. NBlocks]]
      <4>1. NoOp \in [staging : BOOLEAN, size : Nat, retry : BOOLEAN, block : 0 .. NBlocks]
        BY CountsAssumption DEF NoOp
      <4>2. op[c] \in [staging : BOOLEAN, size : Nat, retry : BOOLEAN, block : 0 .. NBlocks]
        OBVIOUS
      <4>3. [op[c] EXCEPT !.retry = TRUE]
              \in [staging : BOOLEAN, size : Nat, retry : BOOLEAN, block : 0 .. NBlocks]
        BY ONLY <4>2
      <4> QED BY <4>1, <4>3
    <3>2. phase' \in [Contexts -> {"none", "reserve", "reserveRead", "reserveWrite",
                                    "reserveExit", "admitted", "refused", "release",
                                    "releaseRead", "releaseWrite", "releaseExit"}]
      OBVIOUS
    <3> QED BY <3>1, <3>2
  <2>2. Outside(c) BY DEF Outside, Apart, InsideLock
  <2>3. Charge(c)' = Charge(c) BY DEF Charge, Transit
  <2>4. PlaceOK(c)' BY DEF PlaceOK, Reserving
  <2>5. LocalOK(c)'
    <3>1. shadow' = shadow /\ cached' = cached /\ stores' = stores /\ stranded' = stranded
          /\ InUseCapacity(c)' = InUseCapacity(c) /\ IdleCapacity(c)' = IdleCapacity(c)
      BY DEF InUseCapacity, IdleCapacity
    <3>2. pc[c] # "malloc" /\ pc'[c] # "malloc" OBVIOUS
    <3> QED BY <3>1, <3>2 DEF LocalOK
  <2>6. LimitsOK(c)' BY DEF LimitsOK
  <2> QED BY <2>1, <2>2, <2>3, <2>4, <2>5, <2>6, OutsideStep
<1>4. CASE ReserveRejected(c)
  <2> USE <1>4 DEF ReserveRejected, AttemptFails, At, ReturnReserve, Goto, callVars, blockVars, storeVars, NoOp
  <2>1. TypeOK'
    <3>1. op' \in [Contexts -> [staging : BOOLEAN, size : Nat, retry : BOOLEAN,
                                block : 0 .. NBlocks]]
      BY CountsAssumption DEF NoOp
    <3>2. phase' \in [Contexts -> {"none", "reserve", "reserveRead", "reserveWrite",
                                    "reserveExit", "admitted", "refused", "release",
                                    "releaseRead", "releaseWrite", "releaseExit"}]
      OBVIOUS
    <3> QED BY <3>1, <3>2
  <2>2. Outside(c) BY DEF Outside, Apart, InsideLock
  <2>3. Charge(c)' = Charge(c) BY DEF Charge, Transit
  <2>4. PlaceOK(c)' BY DEF PlaceOK, Reserving
  <2>5. LocalOK(c)'
    <3>1. shadow' = shadow /\ cached' = cached /\ stores' = stores /\ stranded' = stranded
          /\ InUseCapacity(c)' = InUseCapacity(c) /\ IdleCapacity(c)' = IdleCapacity(c)
      BY DEF InUseCapacity, IdleCapacity
    <3>2. pc[c] # "malloc" /\ pc'[c] # "malloc" OBVIOUS
    <3> QED BY <3>1, <3>2 DEF LocalOK
  <2>6. LimitsOK(c)' BY DEF LimitsOK
  <2> QED BY <2>1, <2>2, <2>3, <2>4, <2>5, <2>6, OutsideStep
<1> QED BY <1>1, <1>2, <1>3, <1>4

(***************************************************************************)
(* Changes of the storage of one context.                                  *)
(***************************************************************************)
(* A storage of another size, 0 for none.                                  *)
LEMMA StoreStep ==
  ASSUME IInv, NEW c \in Contexts, NEW i \in Stores, NEW v \in Nat,
         stores' = [stores EXCEPT ![c][i] = v]
  PROVE  Total(stores'[c], NStores) = Total(stores[c], NStores) - stores[c][i] + v
<1>1. stores[c] \in [1 .. NStores -> Int] BY OneContext DEF Stores
<1>2. stores'[c] = [stores[c] EXCEPT ![i] = v] BY DEF IInv, TypeOK
<1>3. i \in 1 .. NStores /\ NStores \in Nat BY CountsAssumption DEF Stores
<1> QED BY <1>1, <1>2, <1>3, TotalUpdate

(* A block of another capacity or use.                                     *)
LEMMA BlockStep ==
  ASSUME IInv, NEW c \in Contexts, NEW b \in Blocks, NEW v \in Nat, NEW u \in BOOLEAN,
         capacity'[c] = [capacity[c] EXCEPT ![b] = v],
         inUse'[c] = [inUse[c] EXCEPT ![b] = u]
  PROVE  /\ Total(InUseCapacity(c)', NBlocks)
              = Total(InUseCapacity(c), NBlocks)
                - (IF inUse[c][b] THEN capacity[c][b] ELSE 0) + (IF u THEN v ELSE 0)
         /\ Total(IdleCapacity(c)', NBlocks)
              = Total(IdleCapacity(c), NBlocks)
                - (IF inUse[c][b] THEN 0 ELSE capacity[c][b]) + (IF u THEN 0 ELSE v)
<1> DEFINE f == InUseCapacity(c)
<1> DEFINE g == IdleCapacity(c)
<1>1. f \in [1 .. NBlocks -> Int] BY CapacityType
<1>2. g \in [1 .. NBlocks -> Int] BY CapacityType
<1>3. InUseCapacity(c)' = [InUseCapacity(c) EXCEPT ![b] = IF u THEN v ELSE 0]
  BY OneContext DEF InUseCapacity
<1>4. IdleCapacity(c)' = [IdleCapacity(c) EXCEPT ![b] = IF u THEN 0 ELSE v]
  BY OneContext DEF IdleCapacity
<1>5. b \in 1 .. NBlocks /\ NBlocks \in Nat BY CountsAssumption DEF Blocks
<1>6. InUseCapacity(c)[b] = IF inUse[c][b] THEN capacity[c][b] ELSE 0 BY DEF InUseCapacity
<1>7. IdleCapacity(c)[b] = IF inUse[c][b] THEN 0 ELSE capacity[c][b] BY DEF IdleCapacity
<1>8. Total(InUseCapacity(c)', NBlocks)
        = Total(InUseCapacity(c), NBlocks) - InUseCapacity(c)[b] + (IF u THEN v ELSE 0)
  <2> HIDE DEF f
  <2>1. \A w \in Int : Total([f EXCEPT ![b] = w], NBlocks) = Total(f, NBlocks) - f[b] + w
    BY ONLY <1>1, <1>5, TotalUpdate
  <2> USE DEF f
  <2>2. (IF u THEN v ELSE 0) \in Int OBVIOUS
  <2> QED BY <1>3, <2>1, <2>2
<1>9. Total(IdleCapacity(c)', NBlocks)
        = Total(IdleCapacity(c), NBlocks) - IdleCapacity(c)[b] + (IF u THEN 0 ELSE v)
  <2> HIDE DEF g
  <2>1. \A w \in Int : Total([g EXCEPT ![b] = w], NBlocks) = Total(g, NBlocks) - g[b] + w
    BY ONLY <1>2, <1>5, TotalUpdate
  <2> USE DEF g
  <2>2. (IF u THEN 0 ELSE v) \in Int OBVIOUS
  <2> QED BY <1>4, <2>1, <2>2
<1> QED BY <1>6, <1>7, <1>8, <1>9
(* Freed storage hands its charge over to the release under way.            *)
LEMMA ReleaseCharge ==
  ASSUME IInv, NEW c \in Contexts, NEW bytes \in Nat, bytes <= shadow[c],
         phase[c] = "none", ReleaseShadow(c, bytes), record' = record, cached' = cached
  PROVE  /\ shadow' = [shadow EXCEPT ![c] = @ - bytes]
         /\ shadow'[c] = shadow[c] - bytes /\ shadow' \in [Contexts -> Nat]
         /\ Charge(c)' = Charge(c)
         /\ phase' = [phase EXCEPT ![c] = phase'[c]] /\ phase'[c] \in {"none", "release"}
         /\ amount' = [amount EXCEPT ![c] = bytes]
         /\ UNCHANGED <<lock, globalBytes, seen>>
<1>1. bytes = Lesser(bytes, shadow[c]) BY DEF Lesser
<1>2. shadow' = [shadow EXCEPT ![c] = @ - bytes] /\ CallRelease(c, bytes)
  BY <1>1 DEF ReleaseShadow
<1>3. shadow \in [Contexts -> Nat] /\ phase = [d \in Contexts |-> phase[d]]
      /\ amount \in [Contexts -> Nat]
  BY DEF IInv, TypeOK
<1>4. shadow'[c] = shadow[c] - bytes /\ shadow' \in [Contexts -> Nat] BY <1>2, <1>3
<1>5. phase' = [phase EXCEPT ![c] = phase'[c]] /\ phase'[c] \in {"none", "release"}
      /\ (phase'[c] = "none" => bytes = 0)
      /\ amount' = [amount EXCEPT ![c] = bytes] /\ amount'[c] = bytes
      /\ UNCHANGED <<lock, globalBytes, seen>>
  BY <1>2, <1>3 DEF CallRelease
<1>6. Charge(c)' = Charge(c)
  <2>1. {record[c], shadow[c], cached[c]} \subseteq Nat BY OneContext
  <2>2. Transit(c) = 0 BY DEF Transit
  <2>3. Transit(c)' = bytes BY <1>5 DEF Transit
  <2> QED BY <2>1, <2>2, <2>3, <1>4 DEF Charge
<1> QED BY <1>2, <1>4, <1>5, <1>6

(* The same for an idle block.                                             *)
LEMMA IdleRelease ==
  ASSUME IInv, NEW c \in Contexts, IdleBlocks(c) # {},
         phase[c] = "none", FreeIdleBlock(c), record' = record, shadow' = shadow, inUse' = inUse
  PROVE  /\ Charge(c)' = Charge(c)
         /\ phase' = [phase EXCEPT ![c] = phase'[c]] /\ phase'[c] \in {"none", "release"}
         /\ amount' \in [Contexts -> Nat] /\ cached' \in [Contexts -> Nat]
         /\ capacity' \in [Contexts -> [Blocks -> Nat]]
         /\ \A d \in Contexts \ {c} : amount'[d] = amount[d] /\ cached'[d] = cached[d]
                                      /\ capacity'[d] = capacity[d]
         /\ UNCHANGED <<lock, globalBytes, seen>>
         /\ Total(InUseCapacity(c)', NBlocks) = Total(InUseCapacity(c), NBlocks)
         /\ cached'[c] = Total(IdleCapacity(c)', NBlocks)
         /\ cached'[c] <= cached[c]
<1> DEFINE b == Min(IdleBlocks(c))
<1> DEFINE w == capacity[c][b]
<1>1. b \in IdleBlocks(c)
  <2>1. IdleBlocks(c) \subseteq Nat BY DEF IdleBlocks, Blocks
  <2>2. PICK m \in IdleBlocks(c) : \A k \in IdleBlocks(c) : m <= k
    BY <2>1, MinElement
  <2> QED BY <2>1, <2>2 DEF Min
<1>2. b \in Blocks /\ w \in Nat /\ ~ inUse[c][b] BY <1>1, OneContext DEF IdleBlocks
<1> HIDE DEF b
<1>3. IdleCapacity(c)[b] = w BY <1>2 DEF IdleCapacity
<1>4. w <= cached[c] /\ cached[c] \in Nat
  <2>1. LocalOK(c) BY OneContext
  <2> QED BY <1>2, <1>3, <2>1, StorageTotals, OneContext DEF LocalOK
<1> HIDE DEF w
<1>5. /\ capacity' = [capacity EXCEPT ![c][b] = 0]
      /\ cached' = [cached EXCEPT ![c] = @ - w]
      /\ CallRelease(c, w)
  <2>1. Lesser(w, cached[c]) = w BY <1>4 DEF Lesser
  <2> QED BY <2>1 DEF FreeIdleBlock, b, w
<1>6. cached \in [Contexts -> Nat] /\ phase = [d \in Contexts |-> phase[d]]
      /\ amount \in [Contexts -> Nat] /\ capacity \in [Contexts -> [Blocks -> Nat]]
  BY DEF IInv, TypeOK
<1>7. cached'[c] = cached[c] - w /\ cached' \in [Contexts -> Nat]
  BY <1>2, <1>4, <1>5, <1>6
<1>8. phase' = [phase EXCEPT ![c] = phase'[c]] /\ phase'[c] \in {"none", "release"}
      /\ (phase'[c] = "none" => w = 0)
      /\ amount' = [amount EXCEPT ![c] = w] /\ amount'[c] = w
      /\ UNCHANGED <<lock, globalBytes, seen>>
  BY <1>5, <1>6 DEF CallRelease
<1>9. Charge(c)' = Charge(c)
  <2>1. {record[c], shadow[c], cached[c]} \subseteq Nat BY OneContext
  <2>2. Transit(c) = 0 BY DEF Transit
  <2>3. Transit(c)' = w BY <1>8 DEF Transit
  <2> QED BY <2>1, <2>2, <2>3, <1>2, <1>7 DEF Charge
<1>10. capacity'[c] = [capacity[c] EXCEPT ![b] = 0] /\ inUse'[c] = [inUse[c] EXCEPT ![b] = FALSE]
  <2>1. capacity'[c] = [capacity[c] EXCEPT ![b] = 0]
    BY ONLY <1>5, <1>6, c \in Contexts
  <2>2. inUse'[c] = [inUse[c] EXCEPT ![b] = FALSE]
    <3>1. inUse' = inUse /\ inUse[c] \in [Blocks -> BOOLEAN] /\ inUse[c][b] = FALSE
      BY <1>2, <1>5, OneContext
    <3> QED BY ONLY <1>2, <3>1
  <2> QED BY <2>1, <2>2
<1>11. Total(InUseCapacity(c)', NBlocks) = Total(InUseCapacity(c), NBlocks)
       /\ Total(IdleCapacity(c)', NBlocks) = Total(IdleCapacity(c), NBlocks) - w
  <2>1. /\ Total(InUseCapacity(c)', NBlocks)
              = Total(InUseCapacity(c), NBlocks)
                - (IF inUse[c][b] THEN capacity[c][b] ELSE 0) + (IF FALSE THEN 0 ELSE 0)
        /\ Total(IdleCapacity(c)', NBlocks)
              = Total(IdleCapacity(c), NBlocks)
                - (IF inUse[c][b] THEN 0 ELSE capacity[c][b]) + (IF FALSE THEN 0 ELSE 0)
    <3>1. 0 \in Nat /\ FALSE \in BOOLEAN OBVIOUS
    <3> QED BY ONLY <3>1, <1>2, <1>10, BlockStep, IInv, c \in Contexts
  <2>2. {Total(InUseCapacity(c), NBlocks), Total(IdleCapacity(c), NBlocks)} \subseteq Nat
    BY StorageTotals
  <2>3. capacity[c][b] = w BY DEF w
  <2> QED BY <2>1, <2>2, <2>3, <1>2
<1>12. cached'[c] = Total(IdleCapacity(c)', NBlocks)
  <2>1. LocalOK(c) BY OneContext
  <2> QED BY <2>1, <1>7, <1>11 DEF LocalOK
<1>13. capacity' \in [Contexts -> [Blocks -> Nat]] BY <1>5, <1>6
<1> QED BY <1>2, <1>4, <1>5, <1>6, <1>7, <1>8, <1>9, <1>11, <1>12, <1>13
(***************************************************************************)
(* The steps that allocate, free and move storage.                         *)
(***************************************************************************)

(* No local of a finished call is left.                                    *)
LEMMA NoOpType ==
  NoOp \in [staging : BOOLEAN, size : Nat, retry : BOOLEAN, block : 0 .. NBlocks]
BY CountsAssumption DEF NoOp

LEMMA TrimStep ==
  ASSUME IInv, NEW c \in Contexts, TrimBlock(c) \/ DestroyBlock(c)
  PROVE  IInv'
<1>1. /\ FreeIdleBlock(c) /\ IdleBlocks(c) # {} /\ phase[c] = "none"
      /\ UNCHANGED <<pc, op, record, shadow, inUse, stores, stranded, leaked>> /\ pc[c] \in {"trim", "destroy"}
  BY DEF TrimBlock, DestroyBlock, At, storeVars
<1>2. /\ Charge(c)' = Charge(c)
      /\ phase' = [phase EXCEPT ![c] = phase'[c]] /\ phase'[c] \in {"none", "release"}
      /\ amount' \in [Contexts -> Nat] /\ cached' \in [Contexts -> Nat]
      /\ capacity' \in [Contexts -> [Blocks -> Nat]]
      /\ \A d \in Contexts \ {c} : amount'[d] = amount[d] /\ cached'[d] = cached[d]
                                   /\ capacity'[d] = capacity[d]
      /\ UNCHANGED <<lock, globalBytes, seen>>
      /\ Total(InUseCapacity(c)', NBlocks) = Total(InUseCapacity(c), NBlocks)
      /\ cached'[c] = Total(IdleCapacity(c)', NBlocks)
      /\ cached'[c] <= cached[c]
  BY <1>1, IdleRelease
<1>3. TypeOK'
  <2>1. phase' \in [Contexts -> {"none", "reserve", "reserveRead", "reserveWrite",
                                  "reserveExit", "admitted", "refused", "release",
                                  "releaseRead", "releaseWrite", "releaseExit"}]
    BY <1>2 DEF IInv, TypeOK
  <2> QED BY <1>1, <1>2, <2>1 DEF IInv, TypeOK
<1>4. Outside(c) BY <1>1, <1>2 DEF IInv, TypeOK, Outside, Apart, InsideLock
<1>5. PlaceOK(c)'
  <2>1. PlaceOK(c) BY OneContext
  <2> QED BY <1>1, <1>2, <2>1 DEF PlaceOK, Reserving
<1>6. LocalOK(c)'
  <2>1. LocalOK(c) BY OneContext
  <2> QED BY <1>1, <1>2, <2>1 DEF LocalOK
<1>7. LimitsOK(c)'
  <2>1. LimitsOK(c) /\ {shadow[c], cached[c], MaxShadow, MaxCache} \subseteq Nat BY OneContext
  <2>2. cached'[c] \in Nat BY <1>2
  <2> QED BY <1>1, <1>2, <2>1, <2>2 DEF LimitsOK
<1> QED BY <1>2, <1>3, <1>4, <1>5, <1>6, <1>7, OutsideStep

LEMMA AllocStep ==
  ASSUME IInv, NEW c \in Contexts, Alloc(c) \/ FreeBlock(c)
  PROVE  IInv'
<1>1. /\ pc[c] = "idle" /\ phase[c] = "none"
      /\ UNCHANGED <<callVars, record, shadow, cached, capacity, inUse, stores, stranded, leaked>>
  BY DEF Alloc, FreeBlock, At, blockVars, storeVars
<1>2. PICK o \in [staging : BOOLEAN, size : Nat, retry : BOOLEAN, block : 0 .. NBlocks],
           p \in {"attempt", "trim", "free"} :
        /\ op' = [op EXCEPT ![c] = o] /\ pc' = [pc EXCEPT ![c] = p]
        /\ p # "attempt" => o.block \in Blocks /\ inUse[c][o.block]
        /\ ~ o.retry
  <2>1. CASE Alloc(c)
    <3>1. PICK bytes \in Sizes, staging \in BOOLEAN :
            op' = [op EXCEPT ![c] = [NoOp EXCEPT !.staging = staging, !.size = bytes]]
      BY <2>1 DEF Alloc
    <3>2. bytes \in Nat BY BytesAssumption
    <3>3. [NoOp EXCEPT !.staging = staging, !.size = bytes]
            \in [staging : BOOLEAN, size : Nat, retry : BOOLEAN, block : 0 .. NBlocks]
      BY <3>2, NoOpType
    <3>4. pc' = [pc EXCEPT ![c] = "attempt"] BY <2>1 DEF Alloc, Goto
    <3>5. ~ [NoOp EXCEPT !.staging = staging, !.size = bytes].retry BY DEF NoOp
    <3> QED BY <3>1, <3>3, <3>4, <3>5
  <2>2. CASE FreeBlock(c)
    <3>1. PICK b \in Blocks :
            /\ inUse[c][b]
            /\ op' = [op EXCEPT ![c] = [NoOp EXCEPT !.block = b]]
            /\ Goto(c, IF capacity[c][b] <= MaxBlock /\ ~ CacheRoom(c, b) THEN "trim" ELSE "free")
      BY <2>2 DEF FreeBlock
    <3>2. [NoOp EXCEPT !.block = b]
            \in [staging : BOOLEAN, size : Nat, retry : BOOLEAN, block : 0 .. NBlocks]
      BY NoOpType, CountsAssumption DEF Blocks
    <3>3. [NoOp EXCEPT !.block = b].block = b /\ ~ [NoOp EXCEPT !.block = b].retry
      BY DEF NoOp
    <3>4. \/ pc' = [pc EXCEPT ![c] = "trim"]
          \/ pc' = [pc EXCEPT ![c] = "free"]
      BY <3>1 DEF Goto
    <3> QED BY <3>1, <3>2, <3>3, <3>4
  <2> QED BY <2>1, <2>2
<1>3. pc'[c] = p /\ op'[c] = o /\ p # "malloc" BY <1>2 DEF IInv, TypeOK
<1>4. TypeOK' BY <1>1, <1>2 DEF IInv, TypeOK, callVars
<1>5. Outside(c) BY <1>1, <1>2 DEF IInv, TypeOK, Outside, Apart, InsideLock, callVars
<1>6. Charge(c)' = Charge(c) BY <1>1 DEF Charge, Transit, callVars
<1>7. PlaceOK(c)'
  <2>1. PlaceOK(c) BY OneContext
  <2> QED BY <1>1, <1>2, <1>3, <2>1 DEF PlaceOK, Reserving, callVars
<1>8. LocalOK(c)'
  <2>1. LocalOK(c) BY OneContext
  <2> QED BY <1>1, <1>3, <2>1 DEF LocalOK, InUseCapacity, IdleCapacity
<1>9. LimitsOK(c)'
  <2>1. LimitsOK(c) BY OneContext
  <2> QED BY <1>1, <2>1 DEF LimitsOK
<1> QED BY <1>4, <1>5, <1>6, <1>7, <1>8, <1>9, OutsideStep

(* A storage that is no longer held is freed, or left behind.               *)
LEMMA StoreEnds ==
  ASSUME NEW c \in Contexts, FreeStore(c) \/ DestroyStore(c) \/ DeleteCubeMap(c)
  PROVE  /\ \E i \in Stores : GiveBack(c, i) \/ Strand(c, i)
         /\ phase[c] = "none" /\ pc[c] \in {"idle", "destroy"}
         /\ UNCHANGED <<pc, op, record, cached, capacity, inUse>>
<1>1. CASE FreeStore(c) BY <1>1 DEF FreeStore, HeldStores, At, blockVars
<1>2. CASE DeleteCubeMap(c) BY <1>2 DEF DeleteCubeMap, HeldStores, At, blockVars
<1>3. CASE DestroyStore(c)
  <2>1. HeldStores(c) # {} /\ HeldStores(c) \subseteq Nat /\ HeldStores(c) \subseteq Stores
    BY <1>3 DEF DestroyStore, HeldStores, Stores
  <2>2. PICK m \in HeldStores(c) : \A k \in HeldStores(c) : m <= k
    BY <2>1, MinElement
  <2>3. Min(HeldStores(c)) \in Stores BY <2>1, <2>2 DEF Min
  <2> QED BY <1>3, <2>3 DEF DestroyStore, At, blockVars
<1> QED BY <1>1, <1>2, <1>3

LEMMA GiveBackStep ==
  ASSUME IInv, NEW c \in Contexts, NEW i \in Stores, GiveBack(c, i),
         phase[c] = "none", pc[c] \in {"idle", "destroy"},
         UNCHANGED <<pc, op, record, cached, capacity, inUse>>
  PROVE  IInv'
<1>1. /\ stores' = [stores EXCEPT ![c][i] = 0] /\ ReleaseShadow(c, stores[c][i])
      /\ phase[c] = "none" /\ pc[c] \in {"idle", "destroy"}
      /\ UNCHANGED <<pc, op, record, cached, capacity, inUse, stranded, leaked>>
  BY DEF GiveBack
<1>2. stores[c][i] \in Nat /\ stores[c][i] <= Total(stores[c], NStores)
      /\ Total(stores[c], NStores) \in Nat /\ stranded[c] \in Nat /\ Total(InUseCapacity(c), NBlocks) \in Nat
  BY OneContext, StorageTotals
<1>3. LocalOK(c) /\ LimitsOK(c) /\ PlaceOK(c) BY OneContext
<1>4. shadow[c] = Total(stores[c], NStores) + stranded[c] + Total(InUseCapacity(c), NBlocks)
  BY <1>1, <1>2, <1>3 DEF LocalOK
<1>5. stores[c][i] <= shadow[c] BY <1>2, <1>4
<1>6. /\ shadow'[c] = shadow[c] - stores[c][i] /\ shadow' \in [Contexts -> Nat]
      /\ shadow' = [shadow EXCEPT ![c] = @ - stores[c][i]]
      /\ Charge(c)' = Charge(c)
      /\ phase' = [phase EXCEPT ![c] = phase'[c]] /\ phase'[c] \in {"none", "release"}
      /\ amount' = [amount EXCEPT ![c] = stores[c][i]]
      /\ UNCHANGED <<lock, globalBytes, seen>>
  BY <1>1, <1>2, <1>5, ReleaseCharge
<1>7. TypeOK' BY <1>1, <1>2, <1>6 DEF IInv, TypeOK
<1>8. Outside(c) BY <1>1, <1>6 DEF IInv, TypeOK, Outside, Apart, InsideLock
<1>9. PlaceOK(c)' BY <1>1, <1>3, <1>6 DEF PlaceOK, Reserving
<1>10. LocalOK(c)'
  <2>1. Total(stores'[c], NStores) = Total(stores[c], NStores) - stores[c][i] + 0
    BY <1>1, StoreStep
  <2>2. InUseCapacity(c)' = InUseCapacity(c) /\ IdleCapacity(c)' = IdleCapacity(c)
    BY <1>1 DEF InUseCapacity, IdleCapacity
  <2> QED BY <1>1, <1>2, <1>3, <1>4, <1>6, <2>1, <2>2 DEF LocalOK
<1>11. LimitsOK(c)'
  <2>1. {shadow[c], cached[c], MaxShadow, MaxCache} \subseteq Nat BY OneContext
  <2> QED BY <1>1, <1>2, <1>3, <1>6, <2>1 DEF LimitsOK
<1> QED BY <1>6, <1>7, <1>8, <1>9, <1>10, <1>11, OutsideStep

(* What is stranded stays charged to the context.                           *)
LEMMA StrandStep ==
  ASSUME IInv, NEW c \in Contexts, NEW i \in Stores, Strand(c, i),
         phase[c] = "none", pc[c] \in {"idle", "destroy"},
         UNCHANGED <<pc, op, record, cached, capacity, inUse>>
  PROVE  IInv'
<1>1. /\ stores' = [stores EXCEPT ![c][i] = 0]
      /\ stranded' = [stranded EXCEPT ![c] = @ + stores[c][i]]
      /\ UNCHANGED <<lock, globalBytes, seen, phase, amount, shadow, leaked>>
  BY DEF Strand, callVars
<1>2. stores[c][i] \in Nat /\ stranded[c] \in Nat
      /\ Total(stores[c], NStores) \in Nat /\ Total(InUseCapacity(c), NBlocks) \in Nat
  BY OneContext, StorageTotals
<1>3. LocalOK(c) /\ LimitsOK(c) /\ PlaceOK(c) BY OneContext
<1>4. stranded'[c] = stranded[c] + stores[c][i] BY <1>1 DEF IInv, TypeOK
<1>5. TypeOK' BY <1>1, <1>2 DEF IInv, TypeOK
<1>6. Outside(c) BY <1>1 DEF IInv, TypeOK, Outside, Apart, InsideLock
<1>7. Charge(c)' = Charge(c) BY <1>1 DEF Charge, Transit
<1>8. PlaceOK(c)' BY <1>1, <1>3 DEF PlaceOK, Reserving
<1>9. LocalOK(c)'
  <2>1. Total(stores'[c], NStores) = Total(stores[c], NStores) - stores[c][i] + 0
    BY <1>1, StoreStep
  <2>2. InUseCapacity(c)' = InUseCapacity(c) /\ IdleCapacity(c)' = IdleCapacity(c)
    BY DEF InUseCapacity, IdleCapacity
  <2>3. shadow[c] = Total(stores[c], NStores) + stranded[c] + Total(InUseCapacity(c), NBlocks)
        /\ cached[c] = Total(IdleCapacity(c), NBlocks)
    BY <1>2, <1>3 DEF LocalOK
  <2> QED BY <1>1, <1>2, <1>4, <2>1, <2>2, <2>3 DEF LocalOK
<1>10. LimitsOK(c)' BY <1>1, <1>3 DEF LimitsOK
<1> QED BY <1>5, <1>6, <1>7, <1>8, <1>9, <1>10, OutsideStep

LEMMA StoreEndsStep ==
  ASSUME IInv, NEW c \in Contexts, FreeStore(c) \/ DestroyStore(c) \/ DeleteCubeMap(c)
  PROVE  IInv'
BY StoreEnds, GiveBackStep, StrandStep

LEMMA MallocFailsStep ==
  ASSUME IInv, NEW c \in Contexts, MallocFails(c)
  PROVE  IInv'
<1>1. /\ ReleaseShadow(c, op[c].size) /\ phase[c] = "none" /\ pc[c] = "malloc"
      /\ op' = [op EXCEPT ![c] = NoOp] /\ pc' = [pc EXCEPT ![c] = "idle"]
      /\ UNCHANGED <<record, cached, capacity, inUse, stores, stranded, leaked>>
  BY DEF MallocFails, At, Goto, blockVars, storeVars
<1>2. op[c].size \in Nat
      /\ Total(stores[c], NStores) \in Nat /\ stranded[c] \in Nat /\ Total(InUseCapacity(c), NBlocks) \in Nat
  BY OneContext, StorageTotals
<1>3. LocalOK(c) /\ LimitsOK(c) /\ PlaceOK(c) BY OneContext
<1>4. shadow[c] = Total(stores[c], NStores) + stranded[c] + Total(InUseCapacity(c), NBlocks) + op[c].size
  BY <1>1, <1>3 DEF LocalOK
<1>5. op[c].size <= shadow[c] BY <1>2, <1>4
<1>6. /\ shadow'[c] = shadow[c] - op[c].size /\ shadow' \in [Contexts -> Nat]
      /\ shadow' = [shadow EXCEPT ![c] = @ - op[c].size]
      /\ Charge(c)' = Charge(c)
      /\ phase' = [phase EXCEPT ![c] = phase'[c]] /\ phase'[c] \in {"none", "release"}
      /\ amount' = [amount EXCEPT ![c] = op[c].size]
      /\ UNCHANGED <<lock, globalBytes, seen>>
  BY <1>1, <1>2, <1>5, ReleaseCharge
<1>7. TypeOK' BY <1>1, <1>2, <1>6, NoOpType DEF IInv, TypeOK
<1>8. Outside(c) BY <1>1, <1>6 DEF IInv, TypeOK, Outside, Apart, InsideLock
<1>9. pc'[c] = "idle" BY <1>1 DEF IInv, TypeOK
<1>10. PlaceOK(c)' BY <1>6, <1>9 DEF PlaceOK, Reserving
<1>11. LocalOK(c)'
  <2>1. InUseCapacity(c)' = InUseCapacity(c) /\ IdleCapacity(c)' = IdleCapacity(c)
    BY <1>1 DEF InUseCapacity, IdleCapacity
  <2> QED BY <1>1, <1>2, <1>3, <1>4, <1>6, <1>9, <2>1 DEF LocalOK
<1>12. LimitsOK(c)'
  <2>1. {shadow[c], cached[c], MaxShadow, MaxCache} \subseteq Nat BY OneContext
  <2> QED BY <1>1, <1>2, <1>3, <1>6, <2>1 DEF LimitsOK
<1> QED BY <1>6, <1>7, <1>8, <1>10, <1>11, <1>12, OutsideStep
(* Every block the code picks by position is one of the table.              *)
LEMMA FirstBlock ==
  ASSUME NEW S, S \subseteq Blocks, S # {}
  PROVE  Min(S) \in S
<1>1. S \subseteq Nat BY DEF Blocks
<1>2. PICK m \in S : \A k \in S : m <= k BY <1>1, MinElement
<1> QED BY <1>1, <1>2 DEF Min

LEMMA AllocCachedStep ==
  ASSUME IInv, NEW c \in Contexts, AllocCached(c)
  PROVE  IInv'
<1>1. PICK bytes \in Sizes : FittingBlocks(c, bytes) # {} /\
        LET b == Min(FittingBlocks(c, bytes))
        IN  /\ inUse' = [inUse EXCEPT ![c][b] = TRUE]
            /\ cached' = [cached EXCEPT ![c] = @ - capacity[c][b]]
            /\ shadow' = [shadow EXCEPT ![c] = @ + capacity[c][b]]
  BY DEF AllocCached
<1> DEFINE b == Min(FittingBlocks(c, bytes))
<1>2. b \in Blocks /\ ~ inUse[c][b]
  <2>1. FittingBlocks(c, bytes) \subseteq Blocks BY DEF FittingBlocks, IdleBlocks
  <2> QED BY <1>1, <2>1, FirstBlock DEF FittingBlocks, IdleBlocks
<1> HIDE DEF b
<1> DEFINE w == capacity[c][b]
<1>3. /\ inUse' = [inUse EXCEPT ![c][b] = TRUE]
      /\ cached' = [cached EXCEPT ![c] = @ - w]
      /\ shadow' = [shadow EXCEPT ![c] = @ + w]
      /\ UNCHANGED <<callVars, pc, op, record, capacity, stores, stranded, leaked>>
      /\ pc[c] = "idle" /\ phase[c] = "none"
  BY <1>1 DEF AllocCached, At, b, storeVars
<1>4. w \in Nat /\ {record[c], shadow[c], cached[c], MaxShadow, MaxCache} \subseteq Nat
      /\ w <= cached[c]
  <2>1. LocalOK(c) /\ capacity[c] \in [Blocks -> Nat] BY OneContext
  <2>2. IdleCapacity(c)[b] = w BY <1>2 DEF IdleCapacity
  <2> QED BY <1>2, <2>1, <2>2, StorageTotals, OneContext DEF LocalOK
<1>5. capacity'[c] = [capacity[c] EXCEPT ![b] = w] /\ inUse'[c] = [inUse[c] EXCEPT ![b] = TRUE]
  BY <1>2, <1>3, OneContext DEF IInv, TypeOK
<1>6. /\ Total(InUseCapacity(c)', NBlocks) = Total(InUseCapacity(c), NBlocks) + w
      /\ Total(IdleCapacity(c)', NBlocks) = Total(IdleCapacity(c), NBlocks) - w
  <2>1. /\ Total(InUseCapacity(c)', NBlocks)
              = Total(InUseCapacity(c), NBlocks)
                - (IF inUse[c][b] THEN capacity[c][b] ELSE 0) + (IF TRUE THEN w ELSE 0)
        /\ Total(IdleCapacity(c)', NBlocks)
              = Total(IdleCapacity(c), NBlocks)
                - (IF inUse[c][b] THEN 0 ELSE capacity[c][b]) + (IF TRUE THEN 0 ELSE w)
    <3>1. TRUE \in BOOLEAN /\ w \in Nat /\ b \in Blocks BY <1>2, <1>4
    <3> HIDE DEF w
    <3> QED BY ONLY <3>1, <1>5, BlockStep, IInv, c \in Contexts
  <2> QED BY <1>2, <1>4, <2>1, StorageTotals
<1> HIDE DEF w
<1>7. shadow \in [Contexts -> Nat] /\ cached \in [Contexts -> Nat] BY DEF IInv, TypeOK
<1>8. /\ shadow'[c] = shadow[c] + w /\ cached'[c] = cached[c] - w
      /\ shadow' \in [Contexts -> Nat] /\ cached' \in [Contexts -> Nat]
  BY <1>3, <1>4, <1>7
<1>9. TypeOK' BY <1>2, <1>3, <1>8 DEF IInv, TypeOK, callVars
<1>10. Outside(c) BY <1>3 DEF IInv, TypeOK, Outside, Apart, InsideLock, callVars
<1>11. Charge(c)' = Charge(c) BY <1>3, <1>4, <1>8 DEF Charge, Transit, callVars
<1>12. LocalOK(c) /\ LimitsOK(c) /\ PlaceOK(c) BY OneContext
<1>13. PlaceOK(c)' BY <1>3, <1>12 DEF PlaceOK, Reserving, callVars
<1>14. LocalOK(c)'
  <2>1. {Total(stores[c], NStores), Total(InUseCapacity(c), NBlocks), stranded[c]} \subseteq Nat
    BY StorageTotals, OneContext
  <2> QED BY <1>3, <1>4, <1>6, <1>8, <1>12, <2>1 DEF LocalOK
<1>15. LimitsOK(c)' BY <1>4, <1>8, <1>12 DEF LimitsOK
<1> QED BY <1>9, <1>10, <1>11, <1>13, <1>14, <1>15, OutsideStep

LEMMA MallocStep ==
  ASSUME IInv, NEW c \in Contexts, Malloc(c)
  PROVE  IInv'
<1>1. /\ phase[c] = "none" /\ pc[c] = "malloc"
      /\ op' = [op EXCEPT ![c] = NoOp] /\ pc' = [pc EXCEPT ![c] = "idle"]
      /\ UNCHANGED <<callVars, record, shadow, cached, stranded, leaked>>
  BY DEF Malloc, At, Goto, storeVars
<1>2. op[c].size \in Nat
      /\ Total(stores[c], NStores) \in Nat /\ stranded[c] \in Nat /\ Total(InUseCapacity(c), NBlocks) \in Nat
      /\ Total(IdleCapacity(c), NBlocks) \in Nat
  BY OneContext, StorageTotals
<1>3. LocalOK(c) /\ LimitsOK(c) /\ PlaceOK(c) BY OneContext
<1>4. pc'[c] = "idle" BY <1>1 DEF IInv, TypeOK
<1>5. /\ capacity' \in [Contexts -> [Blocks -> Nat]]
      /\ inUse' \in [Contexts -> [Blocks -> BOOLEAN]]
      /\ stores' \in [Contexts -> [Stores -> Nat]]
      /\ \A d \in Contexts \ {c} : capacity'[d] = capacity[d] /\ inUse'[d] = inUse[d]
                                   /\ stores'[d] = stores[d]
      /\ Total(stores'[c], NStores) + stranded'[c] + Total(InUseCapacity(c)', NBlocks)
           = Total(stores[c], NStores) + stranded[c] + Total(InUseCapacity(c), NBlocks) + op[c].size
      /\ Total(IdleCapacity(c)', NBlocks) = Total(IdleCapacity(c), NBlocks)
  <2>1. CASE InTable(c)
    <3> DEFINE b == Min(EmptyBlocks(c))
    <3>1. b \in Blocks /\ capacity[c][b] = 0
      <4>1. EmptyBlocks(c) \subseteq Blocks BY DEF EmptyBlocks
      <4> QED BY <2>1, <4>1, FirstBlock DEF InTable, EmptyBlocks
    <3>2. /\ capacity' = [capacity EXCEPT ![c][b] = op[c].size]
          /\ inUse' = [inUse EXCEPT ![c][b] = TRUE] /\ stores' = stores
      BY <2>1 DEF Malloc, storeVars
    <3> HIDE DEF b
    <3>3. /\ capacity'[c] = [capacity[c] EXCEPT ![b] = op[c].size]
          /\ inUse'[c] = [inUse[c] EXCEPT ![b] = TRUE]
      BY <3>1, <3>2 DEF IInv, TypeOK
    <3>4. /\ Total(InUseCapacity(c)', NBlocks)
              = Total(InUseCapacity(c), NBlocks)
                - (IF inUse[c][b] THEN capacity[c][b] ELSE 0) + (IF TRUE THEN op[c].size ELSE 0)
          /\ Total(IdleCapacity(c)', NBlocks)
              = Total(IdleCapacity(c), NBlocks)
                - (IF inUse[c][b] THEN 0 ELSE capacity[c][b]) + (IF TRUE THEN 0 ELSE op[c].size)
      <4>1. TRUE \in BOOLEAN OBVIOUS
      <4> QED BY ONLY <4>1, <1>2, <3>1, <3>3, BlockStep, IInv, c \in Contexts
    <3>5. Total(InUseCapacity(c)', NBlocks) = Total(InUseCapacity(c), NBlocks) + op[c].size
          /\ Total(IdleCapacity(c)', NBlocks) = Total(IdleCapacity(c), NBlocks)
      BY <1>2, <3>1, <3>4
    <3> QED BY <1>1, <1>2, <3>1, <3>2, <3>5 DEF IInv, TypeOK
  <2>2. CASE ~ InTable(c)
    <3>1. PICK i \in Stores : /\ stores[c][i] = 0
                              /\ stores' = [stores EXCEPT ![c][i] = op[c].size]
                              /\ UNCHANGED <<capacity, inUse>>
      BY <2>2 DEF Malloc, blockVars, storeVars
    <3>2. Total(stores'[c], NStores) = Total(stores[c], NStores) - stores[c][i] + op[c].size
      BY <1>2, <3>1, StoreStep
    <3>3. InUseCapacity(c)' = InUseCapacity(c) /\ IdleCapacity(c)' = IdleCapacity(c)
      BY <3>1 DEF InUseCapacity, IdleCapacity
    <3>4. Total(stores'[c], NStores) = Total(stores[c], NStores) + op[c].size
      BY <1>2, <3>1, <3>2
    <3>5. Total(stores'[c], NStores) + stranded'[c] + Total(InUseCapacity(c)', NBlocks)
           = Total(stores[c], NStores) + stranded[c] + Total(InUseCapacity(c), NBlocks) + op[c].size
      BY <1>1, <1>2, <3>3, <3>4
    <3> QED BY <1>2, <3>1, <3>3, <3>5 DEF IInv, TypeOK
  <2> QED BY <2>1, <2>2
<1>6. TypeOK' BY <1>1, <1>5, NoOpType DEF IInv, TypeOK, callVars
<1>7. Outside(c) BY <1>1, <1>5 DEF IInv, TypeOK, Outside, Apart, InsideLock, callVars
<1>8. Charge(c)' = Charge(c) BY <1>1 DEF Charge, Transit, callVars
<1>9. PlaceOK(c)' BY <1>1, <1>4 DEF PlaceOK, Reserving, callVars
<1>10. LocalOK(c)'
  <2>1. shadow[c] = Total(stores[c], NStores) + stranded[c] + Total(InUseCapacity(c), NBlocks) + op[c].size
        /\ cached[c] = Total(IdleCapacity(c), NBlocks)
    BY <1>1, <1>3 DEF LocalOK
  <2>2. shadow'[c] = Total(stores'[c], NStores) + stranded'[c] + Total(InUseCapacity(c)', NBlocks)
        /\ cached'[c] = Total(IdleCapacity(c)', NBlocks)
    BY <1>1, <1>5, <2>1
  <2>3. shadow'[c] \in Nat BY <1>6 DEF TypeOK
  <2> QED BY <1>4, <2>2, <2>3 DEF LocalOK
<1>11. LimitsOK(c)' BY <1>1, <1>3 DEF LimitsOK
<1> QED BY <1>6, <1>7, <1>8, <1>9, <1>10, <1>11, OutsideStep

LEMMA CacheBlockStep ==
  ASSUME IInv, NEW c \in Contexts, CacheBlock(c) \/ DropBlock(c)
  PROVE  IInv'
<1> DEFINE b == op[c].block
<1> DEFINE w == capacity[c][b]
<1>1. /\ pc[c] = "free" /\ phase[c] = "none"
      /\ op' = [op EXCEPT ![c] = NoOp] /\ pc' = [pc EXCEPT ![c] = "idle"]
      /\ inUse' = [inUse EXCEPT ![c][b] = FALSE]
      /\ UNCHANGED <<record, stores, stranded, leaked>>
  BY DEF CacheBlock, DropBlock, At, Goto, storeVars
<1>2. LocalOK(c) /\ LimitsOK(c) /\ PlaceOK(c) BY OneContext
<1>3. b \in Blocks /\ inUse[c][b] BY <1>1, <1>2 DEF PlaceOK
<1>4. /\ {w, record[c], shadow[c], cached[c], MaxShadow, MaxCache} \subseteq Nat
      /\ Total(stores[c], NStores) \in Nat /\ stranded[c] \in Nat /\ Total(InUseCapacity(c), NBlocks) \in Nat
      /\ Total(IdleCapacity(c), NBlocks) \in Nat
  BY <1>3, OneContext, StorageTotals
<1>5. shadow[c] = Total(stores[c], NStores) + stranded[c] + Total(InUseCapacity(c), NBlocks)
      /\ cached[c] = Total(IdleCapacity(c), NBlocks)
  BY <1>1, <1>2, <1>4 DEF LocalOK
<1>6. w <= shadow[c]
  <2>1. InUseCapacity(c)[b] = w BY <1>3 DEF InUseCapacity
  <2>2. w <= Total(InUseCapacity(c), NBlocks) BY <1>3, <2>1, StorageTotals
  <2> QED BY <1>4, <1>5, <2>2
<1>7. pc'[c] = "idle" /\ inUse'[c] = [inUse[c] EXCEPT ![b] = FALSE]
      /\ inUse' \in [Contexts -> [Blocks -> BOOLEAN]]
  BY <1>1, <1>3 DEF IInv, TypeOK
<1>8. CASE CacheBlock(c)
  <2>1. /\ shadow' = [shadow EXCEPT ![c] = @ - w] /\ cached' = [cached EXCEPT ![c] = @ + w]
        /\ UNCHANGED <<callVars, capacity>> /\ CacheRoom(c, b)
    <3>1. Lesser(w, shadow[c]) = w BY <1>6 DEF Lesser
    <3> QED BY <1>8, <3>1 DEF CacheBlock
  <2>2. capacity'[c] = [capacity[c] EXCEPT ![b] = w] BY <1>3, <2>1, OneContext
  <2>3. /\ Total(InUseCapacity(c)', NBlocks)
              = Total(InUseCapacity(c), NBlocks)
                - (IF inUse[c][b] THEN capacity[c][b] ELSE 0) + (IF FALSE THEN w ELSE 0)
        /\ Total(IdleCapacity(c)', NBlocks)
              = Total(IdleCapacity(c), NBlocks)
                - (IF inUse[c][b] THEN 0 ELSE capacity[c][b]) + (IF FALSE THEN 0 ELSE w)
    <3>1. FALSE \in BOOLEAN /\ w \in Nat BY <1>4
    <3> QED BY ONLY <3>1, <1>3, <1>7, <2>2, BlockStep, IInv, c \in Contexts
  <2>4. /\ Total(InUseCapacity(c)', NBlocks) = Total(InUseCapacity(c), NBlocks) - w
        /\ Total(IdleCapacity(c)', NBlocks) = Total(IdleCapacity(c), NBlocks) + w
    BY <1>3, <1>4, <2>3
  <2> HIDE DEF w
  <2>5. shadow \in [Contexts -> Nat] /\ cached \in [Contexts -> Nat] BY DEF IInv, TypeOK
  <2>6. /\ shadow'[c] = shadow[c] - w /\ cached'[c] = cached[c] + w
        /\ shadow' \in [Contexts -> Nat] /\ cached' \in [Contexts -> Nat]
    BY <1>4, <1>6, <2>1, <2>5
  <2>7. TypeOK' BY <1>1, <1>7, <2>1, <2>6, NoOpType DEF IInv, TypeOK, callVars
  <2>8. Outside(c) BY <1>1, <2>1 DEF IInv, TypeOK, Outside, Apart, InsideLock, callVars
  <2>9. Charge(c)' = Charge(c) BY <1>1, <1>4, <2>1, <2>6 DEF Charge, Transit, callVars
  <2>10. PlaceOK(c)' BY <1>1, <1>7, <2>1 DEF PlaceOK, Reserving, callVars
  <2>11. LocalOK(c)' BY <1>1, <1>4, <1>5, <1>7, <2>4, <2>6 DEF LocalOK
  <2>12. LimitsOK(c)'
    <3>1. w <= MaxCache - cached[c] BY <2>1 DEF CacheRoom, w
    <3> QED BY <1>2, <1>4, <1>6, <2>6, <3>1 DEF LimitsOK
  <2> QED BY <2>7, <2>8, <2>9, <2>10, <2>11, <2>12, OutsideStep
<1>9. CASE DropBlock(c)
  <2>1. /\ capacity' = [capacity EXCEPT ![c][b] = 0] /\ ReleaseShadow(c, w)
        /\ UNCHANGED cached
    BY <1>9 DEF DropBlock
  <2>2. capacity'[c] = [capacity[c] EXCEPT ![b] = 0] /\ capacity' \in [Contexts -> [Blocks -> Nat]]
    BY <1>3, <2>1 DEF IInv, TypeOK
  <2>3. /\ Total(InUseCapacity(c)', NBlocks)
              = Total(InUseCapacity(c), NBlocks)
                - (IF inUse[c][b] THEN capacity[c][b] ELSE 0) + (IF FALSE THEN 0 ELSE 0)
        /\ Total(IdleCapacity(c)', NBlocks)
              = Total(IdleCapacity(c), NBlocks)
                - (IF inUse[c][b] THEN 0 ELSE capacity[c][b]) + (IF FALSE THEN 0 ELSE 0)
    <3>1. FALSE \in BOOLEAN /\ 0 \in Nat OBVIOUS
    <3> QED BY ONLY <3>1, <1>3, <1>7, <2>2, BlockStep, IInv, c \in Contexts
  <2>4. /\ Total(InUseCapacity(c)', NBlocks) = Total(InUseCapacity(c), NBlocks) - w
        /\ Total(IdleCapacity(c)', NBlocks) = Total(IdleCapacity(c), NBlocks)
    BY <1>3, <1>4, <2>3
  <2> HIDE DEF w
  <2>5. w \in Nat BY <1>4
  <2>6. /\ shadow'[c] = shadow[c] - w /\ shadow' \in [Contexts -> Nat]
        /\ shadow' = [shadow EXCEPT ![c] = @ - w]
        /\ Charge(c)' = Charge(c)
        /\ phase' = [phase EXCEPT ![c] = phase'[c]] /\ phase'[c] \in {"none", "release"}
        /\ amount' = [amount EXCEPT ![c] = w]
        /\ UNCHANGED <<lock, globalBytes, seen>>
    BY <1>1, <1>6, <2>1, <2>5, ReleaseCharge
  <2>7. TypeOK'
    <3>1. /\ phase' \in [Contexts -> {"none", "reserve", "reserveRead", "reserveWrite",
                                      "reserveExit", "admitted", "refused", "release",
                                      "releaseRead", "releaseWrite", "releaseExit"}]
          /\ amount' \in [Contexts -> Nat]
      BY <2>5, <2>6 DEF IInv, TypeOK
    <3>2. lock' \in Contexts \cup {NoOwner} /\ globalBytes' \in Nat /\ seen' \in [Contexts -> Nat]
      BY <2>6 DEF IInv, TypeOK
    <3>3. record' \in [Contexts -> Nat] /\ cached' \in [Contexts -> Nat]
          /\ stores' \in [Contexts -> [Stores -> Nat]]
          /\ stranded' \in [Contexts -> Nat] /\ leaked' \in Nat
      BY <1>1, <2>1 DEF IInv, TypeOK
    <3>4. op' \in [Contexts -> [staging : BOOLEAN, size : Nat, retry : BOOLEAN,
                               block : 0 .. NBlocks]]
      BY <1>1, NoOpType DEF IInv, TypeOK
    <3>5. pc' \in [Contexts -> {"absent", "create", "idle", "attempt", "reserve", "malloc",
                                "trim", "free", "destroy"}]
      BY <1>1 DEF IInv, TypeOK
    <3>6. shadow' \in [Contexts -> Nat] /\ capacity' \in [Contexts -> [Blocks -> Nat]]
          /\ inUse' \in [Contexts -> [Blocks -> BOOLEAN]]
      BY <1>7, <2>2, <2>6
    <3> QED BY ONLY <3>1, <3>2, <3>3, <3>4, <3>5, <3>6 DEF TypeOK
  <2>8. Outside(c) BY <1>1, <2>1, <2>6 DEF IInv, TypeOK, Outside, Apart, InsideLock
  <2>9. PlaceOK(c)' BY <1>7, <2>6 DEF PlaceOK, Reserving
  <2>10. LocalOK(c)' BY <1>1, <1>4, <1>5, <1>7, <2>1, <2>4, <2>6 DEF LocalOK
  <2>11. LimitsOK(c)' BY <1>2, <1>4, <2>1, <2>6 DEF LimitsOK
  <2> QED BY <2>6, <2>7, <2>8, <2>9, <2>10, <2>11, OutsideStep
<1> QED BY <1>8, <1>9

(* All that is left on the account is what was stranded.                    *)
LEMMA EmptyAccount ==
  ASSUME IInv, NEW c \in Contexts, pc[c] = "destroy", HeldStores(c) = {}, IdleBlocks(c) = {}
  PROVE  /\ shadow[c] = stranded[c] /\ cached[c] = 0
         /\ Total(stores[c], NStores) = 0
         /\ Total(InUseCapacity(c), NBlocks) = 0 /\ Total(IdleCapacity(c), NBlocks) = 0
<1>1. stores[c] = [i \in 1 .. NStores |-> 0]
  <2>1. stores[c] \in [Stores -> Nat] BY OneContext
  <2>2. \A i \in Stores : stores[c][i] = 0 BY <2>1 DEF HeldStores
  <2> QED BY <2>1, <2>2 DEF Stores
<1>2. \A b \in Blocks : ~ inUse[c][b] /\ capacity[c][b] = 0
  <2>1. \A b \in Blocks : ~ inUse[c][b] BY DEF IInv, PlaceOK
  <2>2. capacity[c] \in [Blocks -> Nat] BY OneContext
  <2> QED BY <2>1, <2>2 DEF IdleBlocks
<1>3. InUseCapacity(c) = [b \in 1 .. NBlocks |-> 0] /\ IdleCapacity(c) = [b \in 1 .. NBlocks |-> 0]
  BY <1>2 DEF InUseCapacity, IdleCapacity, Blocks
<1>4. /\ Total(stores[c], NStores) = 0 /\ Total(InUseCapacity(c), NBlocks) = 0
      /\ Total(IdleCapacity(c), NBlocks) = 0
  BY <1>1, <1>3, TotalZero, CountsAssumption
<1>5. LocalOK(c) /\ stranded[c] \in Nat BY OneContext
<1> QED BY <1>4, <1>5 DEF LocalOK

LEMMA DestroyRecordStep ==
  ASSUME IInv, NEW c \in Contexts, DestroyRecord(c)
  PROVE  IInv'
<1>1. /\ phase[c] = "none" /\ pc[c] = "destroy" /\ HeldStores(c) = {} /\ IdleBlocks(c) = {}
      /\ record' = [record EXCEPT ![c] = 0] /\ pc' = [pc EXCEPT ![c] = "absent"]
      /\ shadow' = [shadow EXCEPT ![c] = 0] /\ cached' = [cached EXCEPT ![c] = 0]
      /\ stranded' = [stranded EXCEPT ![c] = 0] /\ leaked' = leaked + stranded[c]
      /\ CallRelease(c, record[c])
      /\ UNCHANGED <<op, capacity, inUse, stores>>
  BY DEF DestroyRecord, At, Goto, blockVars
<1>2. PlaceOK(c) /\ {record[c], shadow[c], cached[c], stranded[c], leaked} \subseteq Nat
  BY OneContext
<1>3. phase = [d \in Contexts |-> phase[d]] /\ amount \in [Contexts -> Nat]
      /\ record \in [Contexts -> Nat]
  BY DEF IInv, TypeOK
<1>4. /\ phase' = [phase EXCEPT ![c] = phase'[c]] /\ phase'[c] \in {"none", "release"}
      /\ (phase'[c] = "none" => record[c] = 0)
      /\ amount' = [amount EXCEPT ![c] = record[c]] /\ amount'[c] = record[c]
      /\ UNCHANGED <<lock, globalBytes, seen>>
  BY <1>1, <1>3 DEF CallRelease
<1>5. /\ record'[c] = 0 /\ shadow'[c] = 0 /\ cached'[c] = 0 /\ stranded'[c] = 0
      /\ pc'[c] = "absent"
  BY <1>1 DEF IInv, TypeOK
<1>6. TypeOK'
  <2>1. leaked' \in Nat BY <1>1, <1>2
  <2>2. stranded' \in [Contexts -> Nat] BY <1>1 DEF IInv, TypeOK
  <2>3. /\ record' \in [Contexts -> Nat] /\ shadow' \in [Contexts -> Nat]
        /\ cached' \in [Contexts -> Nat] /\ amount' \in [Contexts -> Nat]
    BY <1>1, <1>2, <1>4 DEF IInv, TypeOK
  <2>4. /\ phase' \in [Contexts -> {"none", "reserve", "reserveRead", "reserveWrite",
                                    "reserveExit", "admitted", "refused", "release",
                                    "releaseRead", "releaseWrite", "releaseExit"}]
        /\ pc' \in [Contexts -> {"absent", "create", "idle", "attempt", "reserve", "malloc",
                                 "trim", "free", "destroy"}]
    BY <1>1, <1>4 DEF IInv, TypeOK
  <2>5. /\ lock' \in Contexts \cup {NoOwner} /\ globalBytes' \in Nat
        /\ seen' \in [Contexts -> Nat]
    BY <1>4 DEF IInv, TypeOK
  <2> QED BY <1>1, <2>1, <2>2, <2>3, <2>4, <2>5 DEF IInv, TypeOK
<1>7. Apart(c) BY <1>1, <1>4 DEF IInv, TypeOK, Apart, InsideLock
<1>8. /\ shadow[c] = stranded[c] /\ cached[c] = 0
      /\ Total(stores[c], NStores) = 0
      /\ Total(InUseCapacity(c), NBlocks) = 0 /\ Total(IdleCapacity(c), NBlocks) = 0
  BY <1>1, EmptyAccount
<1>9. leaked' + Charge(c)' = leaked + Charge(c)
  <2>1. Transit(c) = 0 BY <1>1 DEF Transit
  <2>2. Transit(c)' = record[c] BY <1>4 DEF Transit
  <2> QED BY <1>1, <1>2, <1>5, <1>8, <2>1, <2>2 DEF Charge
<1>10. PlaceOK(c)' BY <1>4, <1>5 DEF PlaceOK, Reserving
<1>11. LocalOK(c)'
  <2>1. InUseCapacity(c)' = InUseCapacity(c) /\ IdleCapacity(c)' = IdleCapacity(c)
        /\ stores'[c] = stores[c]
    BY <1>1 DEF InUseCapacity, IdleCapacity
  <2> QED BY <1>5, <1>8, <2>1 DEF LocalOK
<1>12. LimitsOK(c)' BY <1>5, BytesAssumption DEF LimitsOK
<1> QED BY <1>6, <1>7, <1>9, <1>10, <1>11, <1>12, ApartStep
(***************************************************************************)
(* The theorems.                                                           *)
(***************************************************************************)

(* All counters start at zero and nothing is held.                          *)
LEMMA InitInvariant == Init => IInv
<1> SUFFICES ASSUME Init PROVE IInv
  OBVIOUS
<1>1. TypeOK BY CountsAssumption DEF Init, TypeOK, NoOp
<1>2. LockInv BY DEF Init, LockInv, InsideLock, Contexts, NoOwner
<1>3. \A c \in Contexts : PlaceOK(c) BY DEF Init, PlaceOK, Reserving
<1>4. NContexts \in Nat /\ NBlocks \in Nat /\ NStores \in Nat BY CountsAssumption
<1>5. LocalAccounting
  <2> SUFFICES ASSUME NEW c \in Contexts
               PROVE  /\ shadow[c] = Total(stores[c], NStores) + stranded[c] + Total(InUseCapacity(c), NBlocks)
                                     + (IF pc[c] = "malloc" THEN op[c].size ELSE 0)
                      /\ cached[c] = Total(IdleCapacity(c), NBlocks)
    BY DEF LocalAccounting
  <2>1. /\ stores[c] = [i \in 1 .. NStores |-> 0]
        /\ InUseCapacity(c) = [b \in 1 .. NBlocks |-> 0]
        /\ IdleCapacity(c) = [b \in 1 .. NBlocks |-> 0]
    BY DEF Init, Stores, Blocks, InUseCapacity, IdleCapacity
  <2>2. /\ Total(stores[c], NStores) = 0 /\ Total(InUseCapacity(c), NBlocks) = 0
        /\ Total(IdleCapacity(c), NBlocks) = 0
    BY <1>4, <2>1, TotalZero
  <2> QED BY <2>2 DEF Init
<1>6. ContextLimits BY BytesAssumption DEF Init, ContextLimits
<1>7. GlobalAccounting
  <2>1. [c \in Contexts |-> Charge(c)] = [c \in 1 .. NContexts |-> 0]
    BY DEF Init, Charge, Transit, Contexts
  <2>2. Total([c \in 1 .. NContexts |-> 0], NContexts) = 0
    BY CountsAssumption, TotalZero
  <2>3. globalBytes = 0 /\ leaked = 0 BY DEF Init
  <2>4. Total([c \in Contexts |-> Charge(c)], NContexts) = 0 BY ONLY <2>1, <2>2
  <2> QED BY ONLY <2>3, <2>4 DEF GlobalAccounting
<1>8. globalBytes <= MaxGlobal BY BytesAssumption DEF Init
<1> QED BY <1>1, <1>2, <1>3, <1>5, <1>6, <1>7, <1>8 DEF IInv

(* Every action preserves the invariant.                                   *)
LEMMA NextInvariant == IInv /\ [Next]_vars => IInv'
<1> SUFFICES ASSUME IInv, [Next]_vars PROVE IInv'
  OBVIOUS
<1>1. CASE UNCHANGED vars
  <2>1. TypeOK' BY <1>1 DEF vars, IInv, TypeOK
  <2>2. LockInv' BY <1>1 DEF vars, IInv, LockInv
  <2>3. (\A c \in Contexts : PlaceOK(c))' BY <1>1 DEF vars, IInv, PlaceOK, LocalRoom, IdleBlocks
  <2>4. LocalAccounting' BY <1>1 DEF vars, IInv, LocalAccounting, InUseCapacity, IdleCapacity
  <2>5. ContextLimits' BY <1>1 DEF vars, IInv, ContextLimits
  <2>6. GlobalAccounting' BY <1>1 DEF vars, IInv, GlobalAccounting, Charge, Transit
  <2>7. (globalBytes <= MaxGlobal)' BY <1>1 DEF vars, IInv
  <2> QED BY <2>1, <2>2, <2>3, <2>4, <2>5, <2>6, <2>7 DEF IInv
<1>2. CASE Next
  <2> SUFFICES ASSUME NEW c \in Contexts, GlobalLock(c) \/ Request(c) \/ Progress(c)
               PROVE  IInv'
    BY <1>2 DEF Next
  <2>1. CASE GlobalLock(c) BY <2>1, LockStep
  <2>2. CASE Request(c)
    BY <2>2, PassingStep, AllocStep, AllocCachedStep, StoreEndsStep DEF Request
  <2>3. CASE Progress(c)
    BY <2>3, ReadStep, WriteStep, ExitStep, PassingStep, ReservationStep, TrimStep, MallocStep,
       MallocFailsStep, CacheBlockStep, StoreEndsStep, DestroyRecordStep DEF Progress
  <2> QED BY <2>1, <2>2, <2>3
<1> QED BY <1>1, <1>2

THEOREM InvariantHolds == Spec => []IInv
<1> QED BY InitInvariant, NextInvariant, PTL DEF Spec

(* The model is type correct; in particular no unsigned counter of the code *)
(* ever wraps below zero.                                                   *)
THEOREM TypeCorrect == Spec => []TypeOK
<1>1. IInv => TypeOK BY DEF IInv
<1> QED BY <1>1, InvariantHolds, PTL

(* The shared counter is the sum of the charges of all contexts and of the  *)
(* cube-map faces left behind, whatever the threads do at the same time.    *)
THEOREM GlobalAccountingHolds == Spec => []GlobalAccounting
<1>1. IInv => GlobalAccounting BY DEF IInv
<1> QED BY <1>1, InvariantHolds, PTL

(* The two counters of a context are the bytes of the storage behind them,  *)
(* which includes the faces of the cube maps it deleted.                    *)
THEOREM LocalAccountingHolds == Spec => []LocalAccounting
<1>1. IInv => LocalAccounting BY DEF IInv
<1> QED BY <1>1, InvariantHolds, PTL

(* Both accounts at once: no charge is lost or doubled, and none is kept but *)
(* those of the faces of deleted cube maps, for any number of threads at the *)
(* lock and any storage they hold.                                          *)
THEOREM AccountingHolds == Spec => []Accounting
<1>1. IInv => Accounting BY DEF IInv, Accounting
<1> QED BY <1>1, InvariantHolds, PTL

(* No context exceeds its limit, no cache its own.                          *)
THEOREM ContextLimitsHold == Spec => []ContextLimits
<1>1. IInv => ContextLimits BY DEF IInv
<1> QED BY <1>1, InvariantHolds, PTL

(* What a context holds is at most what it is charged.                      *)
LEMMA HeldCharged ==
  ASSUME IInv, NEW c \in Contexts
  PROVE  Held(c) \in Nat /\ Held(c) <= Charge(c)
<1> DEFINE f == InUseCapacity(c)
<1> DEFINE g == IdleCapacity(c)
<1>1. f \in [1 .. NBlocks -> Nat] /\ g \in [1 .. NBlocks -> Nat] BY CapacityType
<1>2. capacity[c] = [b \in 1 .. NBlocks |-> f[b] + g[b]]
  <2>1. capacity[c] \in [1 .. NBlocks -> Nat] BY OneContext DEF Blocks
  <2>2. ASSUME NEW b \in 1 .. NBlocks PROVE capacity[c][b] = f[b] + g[b]
    <3>1. capacity[c][b] \in Nat BY <2>1
    <3>2. CASE inUse[c][b]
      <4>1. f[b] = capacity[c][b] /\ g[b] = 0
        BY <3>2 DEF InUseCapacity, IdleCapacity, Blocks
      <4> QED BY ONLY <3>1, <4>1
    <3>3. CASE ~ inUse[c][b]
      <4>1. f[b] = 0 /\ g[b] = capacity[c][b]
        BY <3>3 DEF InUseCapacity, IdleCapacity, Blocks
      <4> QED BY ONLY <3>1, <4>1
    <3> QED BY <3>2, <3>3
  <2> QED BY <2>1, <2>2
<1> HIDE DEF f, g
<1>3. f \in [1 .. NBlocks -> Int] /\ g \in [1 .. NBlocks -> Int] /\ NBlocks \in Nat
  BY <1>1, CountsAssumption
<1>4. Total(capacity[c], NBlocks) = Total(f, NBlocks) + Total(g, NBlocks)
  BY <1>2, <1>3, TotalSum
<1>5. LocalOK(c) /\ {record[c], shadow[c], cached[c], amount[c], op[c].size} \subseteq Nat
  BY OneContext
<1>6. Total(stores[c], NStores) \in Nat /\ stranded[c] \in Nat
      /\ Total(f, NBlocks) \in Nat /\ Total(g, NBlocks) \in Nat
  BY StorageTotals DEF f, g
<1>7. Total(stores[c], NStores) + stranded[c] + Total(f, NBlocks) <= shadow[c]
      /\ cached[c] = Total(g, NBlocks)
  BY <1>5, <1>6 DEF LocalOK, f, g
<1>8. Transit(c) \in Nat BY <1>5 DEF Transit
<1> QED BY <1>4, <1>5, <1>6, <1>7, <1>8 DEF Held, Charge

(* What all contexts together hold and have left behind is covered by the   *)
(* shared counter at every moment, and the counter respects the limit.      *)
THEOREM StorageWithinBudgetHolds == Spec => []StorageWithinBudget
<1>1. ASSUME IInv PROVE StorageWithinBudget
  <2> DEFINE f == [c \in Contexts |-> Held(c)]
  <2> DEFINE g == [c \in Contexts |-> Charge(c)]
  <2>1. TypeOK BY <1>1 DEF IInv
  <2>2. g \in [1 .. NContexts -> Nat] BY <2>1, ChargeType DEF Contexts
  <2>3. f \in [1 .. NContexts -> Nat] BY <1>1, HeldCharged DEF Contexts
  <2>4. \A c \in 1 .. NContexts : f[c] <= g[c] BY <1>1, HeldCharged DEF Contexts
  <2>5. globalBytes = leaked + Total(g, NContexts) /\ leaked \in Nat
    BY <1>1 DEF IInv, GlobalAccounting, TypeOK
  <2>6. NContexts \in Nat BY CountsAssumption
  <2> HIDE DEF f, g
  <2>7. f \in [1 .. NContexts -> Int] /\ g \in [1 .. NContexts -> Int] BY <2>2, <2>3
  <2>8. Total(f, NContexts) <= Total(g, NContexts) BY <2>4, <2>6, <2>7, TotalMonotone
  <2>9. leaked + Total(f, NContexts) <= globalBytes
    <3>1. Total(f, NContexts) \in Nat /\ Total(g, NContexts) \in Nat BY <2>2, <2>3, <2>6, TotalNat
    <3> QED BY <2>5, <2>8, <3>1
  <2> QED BY <1>1, <2>9 DEF IInv, StorageWithinBudget, f
<1>2. IInv => StorageWithinBudget BY <1>1
<1> QED BY <1>2, InvariantHolds, PTL

(* A reservation is given up only by a context without idle blocks.         *)
THEOREM RejectsOnlyWhenTrimmedHolds == Spec => RejectsOnlyWhenTrimmed
<1>1. ASSUME IInv, [Next]_vars,
             NEW c \in Contexts, pc[c] \in {"attempt", "reserve"}, pc'[c] = "idle"
      PROVE  IdleBlocks(c) = {}
  <2>1. PlaceOK(c) BY <1>1 DEF IInv
  <2>2. pc'[c] # pc[c] BY <1>1
  <2>3. PICK d \in Contexts : GlobalLock(d) \/ Request(d) \/ Progress(d)
    BY <1>1, <2>2 DEF vars, Next
  <2>4. ReserveRejected(c)
    BY <1>1, <2>2, <2>3 DEF IInv, TypeOK, GlobalLock, Request, Progress, GlobalRead,
       GlobalWrite, GlobalExit, ContextCreate, Alloc, AllocCached, FreeStore, DeleteCubeMap, FreeBlock,
       ContextDestroy, ContextRefused, ContextCreated, ContextCallocFails, ReserveCall,
       ReserveAdmitted, ReserveRetry, ReserveRejected, TrimBlock, TrimDone, Malloc, MallocFails,
       CacheBlock, DropBlock, DestroyStore, DestroyBlock, DestroyRecord, At, Goto
  <2> QED BY <1>1, <2>1, <2>4 DEF PlaceOK, ReserveRejected
<1>2. IInv /\ [Next]_vars =>
        [\A c \in Contexts :
           pc[c] \in {"attempt", "reserve"} /\ pc'[c] = "idle" => IdleBlocks(c) = {}]_vars
  BY <1>1
<1> QED BY <1>2, InvariantHolds, PTL DEF Spec, RejectsOnlyWhenTrimmed

-----------------------------------------------------------------------------
(***************************************************************************)
(* Textures: what is charged, and what is built from it.                   *)
(***************************************************************************)
(* The numbers and names there are.                                         *)
LEMMA TextureFacts ==
    /\ TextureCount \in Nat /\ MaxLevels \in Nat \ {0} /\ MaxSize \in Nat \ {0} /\ Budget \in Nat
    /\ None \notin Textures /\ First \in Faces /\ "2D" \notin Faces /\ 0 \in Levels
    /\ Levels \subseteq Nat
<1>1. FaceNames \in Seq(STRING) /\ Len(FaceNames) \in Nat /\ Len(FaceNames) >= 1
      /\ DOMAIN FaceNames = 1..Len(FaceNames)
  BY TextureAssumption
<1>2. First \in Faces
  BY <1>1 DEF First, Faces
<1>3. "2D" \notin Faces
  BY TextureAssumption DEF Faces
<1> QED
  BY <1>2, <1>3, TextureAssumption DEF Textures, Levels

(* A chain has its base and no more than MaxLevels levels.                  *)
LEMMA CountOfLevels ==
    ASSUME NEW size
    PROVE  LevelCount(size) \in 1..MaxLevels
<1> DEFINE L == {l \in Levels \ {0} : Larger(size[1], size[2]) >= 2^l}
<1>1. Levels \ {0} = 1..(MaxLevels - 1)
  BY TextureFacts DEF Levels
<1>2. IsFiniteSet(1..(MaxLevels - 1)) /\ Cardinality(1..(MaxLevels - 1)) = MaxLevels - 1
  BY TextureFacts, FS_Interval
<1>3. L \in SUBSET (1..(MaxLevels - 1))
  BY <1>1
<1>4. IsFiniteSet(L) /\ Cardinality(L) <= MaxLevels - 1
  BY <1>2, <1>3, FS_Subset
<1>5. Cardinality(L) \in Nat
  BY <1>4, FS_CardinalityType
<1>6. LevelCount(size) = 1 + Cardinality(L)
  BY DEF LevelCount
<1> HIDE DEF L
<1> QED
  BY <1>4, <1>5, <1>6, TextureFacts

LEMMA ChainLevels ==
    ASSUME NEW face
    PROVE  Chain(face) \subseteq Levels /\ 0 \in Chain(face)
  BY CountOfLevels, TextureFacts DEF Chain, Levels

(* The greatest of some numbers up to a bound.                              *)
LEMMA Greatest ==
    ASSUME NEW n \in Nat, NEW S, S \subseteq 0..n, S # {}
    PROVE  Max(S) \in S /\ \A k \in S : Max(S) >= k
<1> DEFINE T == {n - k : k \in S}
<1>1. T \subseteq Nat /\ T # {}
  <2>1. PICK k \in S : TRUE
    OBVIOUS
  <2>2. n - k \in T
    BY <2>1
  <2>3. \A j \in S : n - j \in Nat
    OBVIOUS
  <2> QED
    BY <2>2, <2>3
<1> HIDE DEF T
<1>2. PICK m \in T : \A k \in T : m <= k
  BY <1>1, MinElement
<1>3. PICK g \in S : m = n - g
  BY <1>2 DEF T
<1>4. \A k \in S : n - k \in T
  BY DEF T
<1>5. \A k \in S : g >= k
  BY <1>2, <1>3, <1>4
<1> QED
  BY <1>3, <1>5 DEF Max

-----------------------------------------------------------------------------
(* What an image is made of, beside what the device can do: the faces of    *)
(* the texture, its target and whether it is a color target.                *)
SummaryOf(target, faces) ==
    IF target # "CUBE" THEN faces[First]
    ELSE IF \E i \in DOMAIN FaceNames : faces[FaceNames[i]].defined
         THEN faces[FaceNames[Min({i \in DOMAIN FaceNames : faces[FaceNames[i]].defined})]]
         ELSE NoFace
SampledOf(faces, used) ==
    Max({n \in 1..LevelCount(BaseSize(faces[First])) :
            \A f \in used, l \in 1..(n - 1) : Sized(faces[f], l)})
HighestOf(faces, used) ==
    Max({0} \cup {l + 1 : l \in {k \in Levels : \E f \in used :
            /\ Stored(faces[f], 0) /\ k \in Chain(faces[f]) /\ Sized(faces[f], k)}})
UsedFaces(target) == IF target = "CUBE" THEN Faces ELSE {First}
CountOf(target, faces, renderable) ==
    IF target = "CUBE"
    THEN IF renderable THEN HighestOf(faces, Faces)
         ELSE LevelCount(BaseSize(SummaryOf(target, faces)))
    ELSE IF renderable \/ faces[First].format.base \in DepthFormats THEN HighestOf(faces, {First})
         ELSE SampledOf(faces, {First})
ImageOf(summary, faces, renderable, used, count) ==
    [size |-> BaseSize(summary), format |-> RinGpuFormat(summary.format),
     target |-> renderable, levels |-> count,
     texels |-> [f \in Faces |-> [l \in Levels |->
                   IF f \in used /\ l < count /\ Stored(faces[f], l)
                   THEN faces[f].levels[l].texel ELSE None]],
     drawn |-> {}]
ImageFor(target, faces, renderable) ==
    ImageOf(SummaryOf(target, faces), faces, renderable, UsedFaces(target),
            CountOf(target, faces, renderable))
WouldBe(x) == ImageFor(x.target, x.faces, x.renderable)

LEMMA SummaryIs == ASSUME NEW x PROVE Summary(x) = SummaryOf(x.target, x.faces)
  BY DEF Summary, SummaryOf
LEMMA SampledIs == ASSUME NEW x, NEW used PROVE SampledMipCount(x, used) = SampledOf(x.faces, used)
  BY DEF SampledMipCount, SampledOf
LEMMA HighestIs == ASSUME NEW x, NEW used PROVE HighestDefinedMipCount(x, used) = HighestOf(x.faces, used)
  BY DEF HighestDefinedMipCount, HighestOf
LEMMA ImageIs ==
    ASSUME NEW x, NEW used, NEW count
    PROVE  Image(x, used, count) = ImageOf(SummaryOf(x.target, x.faces), x.faces, x.renderable, used, count)
  BY SummaryIs DEF Image, ImageOf

(* What is built is this image, or none.                                    *)
LEMMA RealizedIs ==
    ASSUME NEW x, x.image = NoImage
    PROVE  RealizedImage(x) \in {NoImage, WouldBe(x)}
<1>1. CASE x.target = "CUBE"
  <2>1. RealizedImage(x) = RealizedCube(x)
    BY <1>1 DEF RealizedImage
  <2>2. RealizedCube(x) \in {NoImage, Image(x, Faces, CountOf(x.target, x.faces, x.renderable))}
    BY <1>1, SummaryIs, HighestIs DEF RealizedCube, CountOf
  <2> QED
    BY <1>1, <2>1, <2>2, ImageIs DEF WouldBe, ImageFor, UsedFaces
<1>2. CASE x.target # "CUBE"
  <2>1. RealizedImage(x) = RealizedFlat(x)
    BY <1>2 DEF RealizedImage
  <2>2. RealizedFlat(x) \in {NoImage, Image(x, {First}, CountOf(x.target, x.faces, x.renderable))}
    BY <1>2, SampledIs, HighestIs DEF RealizedFlat, CountOf
  <2> QED
    BY <1>2, <2>1, <2>2, ImageIs DEF WouldBe, ImageFor, UsedFaces
<1> QED
  BY <1>1, <1>2

LEMMA ImageUndrawn ==
    ASSUME NEW target, NEW faces, NEW renderable
    PROVE  LET image == ImageFor(target, faces, renderable)
           IN image # NoImage => [image EXCEPT !.drawn = {}] = image
<1> DEFINE summary == SummaryOf(target, faces)
           count == CountOf(target, faces, renderable)
           used == UsedFaces(target)
           size == BaseSize(summary)
           format == RinGpuFormat(summary.format)
           texels == [f \in Faces |-> [l \in Levels |->
                        IF f \in used /\ l < count /\ Stored(faces[f], l)
                        THEN faces[f].levels[l].texel ELSE None]]
<1>1. ImageFor(target, faces, renderable) =
        [size |-> size, format |-> format, target |-> renderable, levels |-> count,
         texels |-> texels, drawn |-> {}]
  BY DEF ImageFor, ImageOf
<1> HIDE DEF size, format, texels, count
<1> QED
  BY <1>1

(***************************************************************************)
(* One texture.  It has its fields; its image and its sampler are what     *)
(* would be built now; only a live one has any.                            *)
(***************************************************************************)
TextureFields == {"name", "target", "faces", "parameters", "renderable", "image", "sampler"}
TextureShaped(x) == DOMAIN x = TextureFields /\ DOMAIN x.faces = Faces
ImageCurrent(x) == x.image # NoImage => [x.image EXCEPT !.drawn = {}] = WouldBe(x)
SamplerCurrent(x) == x.sampler # None => x.sampler = Sampler(x.parameters)
LiveOnly(x) == x.name # "live" => x.image = NoImage /\ x.sampler = None
Current(x) == TextureShaped(x) /\ ImageCurrent(x) /\ SamplerCurrent(x) /\ LiveOnly(x)

(* A rebuilt image is the one there is.                                     *)
LEMMA CurrentImplied ==
    ASSUME NEW x, Current(x)
    PROVE  LET rebuilt == RealizedImage([x EXCEPT !.image = NoImage])
           IN /\ x.image # NoImage /\ rebuilt # NoImage => [x.image EXCEPT !.drawn = {}] = rebuilt
              /\ x.sampler # None => x.sampler = Sampler(x.parameters)
<1> DEFINE y == [x EXCEPT !.image = NoImage]
<1>1. y.image = NoImage /\ y.faces = x.faces /\ y.target = x.target /\ y.renderable = x.renderable
  BY DEF Current, TextureShaped, TextureFields
<1> HIDE DEF y
<1>2. WouldBe(y) = WouldBe(x)
  BY <1>1 DEF WouldBe
<1>3. RealizedImage(y) \in {NoImage, WouldBe(y)}
  BY <1>1, RealizedIs
<1>4. /\ x.image # NoImage /\ RealizedImage(y) # NoImage => [x.image EXCEPT !.drawn = {}] = RealizedImage(y)
      /\ x.sampler # None => x.sampler = Sampler(x.parameters)
  BY <1>2, <1>3 DEF Current, ImageCurrent, SamplerCurrent
<1> QED
  BY <1>4 DEF y

(* What a change of a texture leaves alone.                                 *)
SameBuild(y, x) == y.faces = x.faces /\ y.target = x.target /\ y.renderable = x.renderable
SameImage(y, x) == SameBuild(y, x) /\ y.image = x.image
SameSampler(y, x) == y.sampler = x.sampler /\ y.parameters = x.parameters

LEMMA BuildKept ==
    ASSUME NEW x, NEW y, SameBuild(y, x)
    PROVE  WouldBe(y) = WouldBe(x)
  BY DEF SameBuild, WouldBe

LEMMA NewCurrent == Current(NoTexture)
  BY DEF NoTexture, Current, TextureShaped, TextureFields, ImageCurrent, SamplerCurrent, LiveOnly

(* No image is a current one, and so are an image and a sampler of the same *)
(* faces and parameters.                                                    *)
LEMMA DroppedCurrent ==
    ASSUME NEW x, Current(x), NEW y, TextureShaped(y), y.image = NoImage, SameSampler(y, x),
           y.name = x.name
    PROVE  Current(y)
  BY DEF Current, ImageCurrent, SamplerCurrent, LiveOnly, SameSampler

LEMMA ParameterEdited ==
    ASSUME NEW x, TextureShaped(x), NEW name, NEW value
    PROVE  LET y == WithParameter(x, name, value)
           IN TextureShaped(y) /\ SameImage(y, x) /\ y.sampler = None /\ y.name = x.name
  BY DEF WithParameter, TextureShaped, TextureFields, SameImage, SameBuild

LEMMA ParameterCurrent ==
    ASSUME NEW x, Current(x), NEW name, NEW value
    PROVE  Current(WithParameter(x, name, value))
<1> DEFINE y == WithParameter(x, name, value)
<1>1. TextureShaped(y) /\ SameImage(y, x) /\ y.sampler = None /\ y.name = x.name
  BY ParameterEdited DEF Current
<1> HIDE DEF y
<1>2. WouldBe(y) = WouldBe(x)
  BY <1>1, BuildKept DEF SameImage
<1>3. Current(y)
  BY <1>1, <1>2 DEF Current, ImageCurrent, SamplerCurrent, LiveOnly, SameImage
<1> QED
  BY <1>3 DEF y

LEMMA PromotedEdited ==
    ASSUME NEW x, TextureShaped(x), NEW binding
    PROVE  LET y == Promoted(x, binding)
           IN /\ TextureShaped(y) /\ y.faces = x.faces /\ y.renderable = x.renderable
              /\ y.image = x.image /\ y.sampler = x.sampler /\ y.name = "live"
              /\ y.target = binding
              /\ x.name # "reserved" => y.parameters = x.parameters
  BY DEF Promoted, TextureShaped, TextureFields

LEMMA PromotedCurrent ==
    ASSUME NEW x, Current(x), NEW binding, x.name = "live" => x.target = binding
    PROVE  Current(Promoted(x, binding))
<1> DEFINE y == Promoted(x, binding)
<1>1. /\ TextureShaped(y) /\ y.faces = x.faces /\ y.renderable = x.renderable
      /\ y.image = x.image /\ y.sampler = x.sampler /\ y.name = "live" /\ y.target = binding
      /\ x.name # "reserved" => y.parameters = x.parameters
  BY PromotedEdited DEF Current
<1> HIDE DEF y
<1>2. Current(y)
  <2>1. CASE x.name = "live"
    <3>1. SameBuild(y, x) /\ y.parameters = x.parameters
      BY <1>1, <2>1 DEF SameBuild
    <3>2. WouldBe(y) = WouldBe(x)
      BY <3>1, BuildKept
    <3> QED
      BY <1>1, <3>1, <3>2 DEF Current, ImageCurrent, SamplerCurrent, LiveOnly
  <2>2. CASE x.name # "live"
    BY <1>1, <2>2 DEF Current, ImageCurrent, SamplerCurrent, LiveOnly
  <2> QED
    BY <2>1, <2>2
<1> QED
  BY <1>2 DEF y

(* An image that has just been built is the present one.                    *)
LEMMA BuiltCurrent ==
    ASSUME NEW x, Current(x), RealizedImage(x) # NoImage
    PROVE  [RealizedImage(x) EXCEPT !.drawn = {}] = WouldBe(x)
<1>1. CASE x.image # NoImage
  BY <1>1 DEF RealizedImage, Current, ImageCurrent
<1>2. CASE x.image = NoImage
  <2>1. RealizedImage(x) = WouldBe(x)
    BY <1>2, RealizedIs
  <2> QED
    BY <2>1, ImageUndrawn DEF WouldBe
<1> QED
  BY <1>1, <1>2

LEMMA ImageEdited ==
    ASSUME NEW x, TextureShaped(x), NEW image
    PROVE  LET y == [x EXCEPT !.image = image]
           IN /\ TextureShaped(y) /\ SameBuild(y, x) /\ SameSampler(y, x) /\ y.name = x.name
              /\ y.image = image
  BY DEF TextureShaped, TextureFields, SameBuild, SameSampler

LEMMA ImageGiven ==
    ASSUME NEW x, Current(x), x.name = "live", NEW image,
           image # NoImage => [image EXCEPT !.drawn = {}] = WouldBe(x)
    PROVE  Current([x EXCEPT !.image = image])
<1> DEFINE y == [x EXCEPT !.image = image]
<1>1. /\ TextureShaped(y) /\ SameBuild(y, x) /\ SameSampler(y, x) /\ y.name = x.name
      /\ y.image = image
  BY ImageEdited DEF Current
<1> HIDE DEF y
<1>2. WouldBe(y) = WouldBe(x)
  BY <1>1, BuildKept
<1>3. Current(y)
  BY <1>1, <1>2 DEF Current, ImageCurrent, SamplerCurrent, LiveOnly, SameSampler
<1> QED
  BY <1>3 DEF y

(* Sampling gives an image, and a sampler of the present parameters.        *)
ImageMade(x, made) == IF x.image = NoImage /\ "image" \notin made THEN NoImage ELSE RealizedImage(x)
LEMMA Realizing ==
    ASSUME NEW x, Current(x), x.name = "live", NEW made
    PROVE  LET y == Realized(x, made)
           IN /\ Current(y) /\ SameBuild(y, x) /\ y.name = x.name /\ y.parameters = x.parameters
              /\ y.image = ImageMade(x, made)
<1> DEFINE image == ImageMade(x, made)
           y == [x EXCEPT !.image = image]
           z == Sampling(y, made)
<1>1. /\ TextureShaped(y) /\ SameBuild(y, x) /\ SameSampler(y, x) /\ y.name = x.name
      /\ y.image = image
  BY ImageEdited DEF Current
<1>2. image # NoImage => [image EXCEPT !.drawn = {}] = WouldBe(x)
  BY BuiltCurrent DEF ImageMade
<1>3. Current(y)
  BY <1>2, ImageGiven
<1>4. Realized(x, made) = z
  BY DEF Realized, ImageMade
<1> HIDE DEF image, y
<1>5. CASE y.image = NoImage \/ "sampler" \notin made \/ y.sampler # None
  <2>1. z = y
    BY <1>5 DEF Sampling, WithSampler
  <2> QED
    BY <1>1, <1>3, <1>4, <2>1 DEF SameSampler, image
<1>6. CASE ~(y.image = NoImage \/ "sampler" \notin made \/ y.sampler # None)
  <2> DEFINE s == Sampler(y.parameters)
             w == [y EXCEPT !.sampler = s]
  <2>1. z = w
    BY <1>6 DEF Sampling, WithSampler
  <2> HIDE DEF s
  <2>2. /\ TextureShaped(w) /\ SameImage(w, y) /\ w.sampler = s /\ w.name = y.name
        /\ w.parameters = y.parameters
    BY <1>1 DEF TextureShaped, TextureFields, SameImage, SameBuild
  <2> HIDE DEF w
  <2>3. WouldBe(w) = WouldBe(y)
    BY <2>2, BuildKept DEF SameImage
  <2>4. Current(w)
    BY <1>3, <1>1, <2>2, <2>3 DEF Current, ImageCurrent, SamplerCurrent, LiveOnly, SameImage, s
  <2>5. SameBuild(w, x) /\ w.name = x.name /\ w.parameters = x.parameters /\ w.image = image
    BY <1>1, <2>2 DEF SameImage, SameBuild, SameSampler
  <2> QED
    BY <1>4, <2>1, <2>4, <2>5 DEF image
<1> QED
  BY <1>5, <1>6

LEMMA RequiredEdited ==
    ASSUME NEW x, TextureShaped(x), ~x.renderable
    PROVE  LET y == Required(x)
           IN /\ TextureShaped(y) /\ y.image = NoImage /\ SameSampler(y, x) /\ y.name = x.name
              /\ y.faces = x.faces /\ y.target = x.target
  BY DEF Required, TextureShaped, TextureFields, SameSampler

LEMMA RequiredCurrent ==
    ASSUME NEW x, Current(x)
    PROVE  /\ Current(Required(x)) /\ Required(x).faces = x.faces /\ Required(x).target = x.target
           /\ Required(x).name = x.name
<1>1. CASE x.renderable
  BY <1>1 DEF Required
<1>2. CASE ~x.renderable
  <2> DEFINE y == Required(x)
  <2>1. /\ TextureShaped(y) /\ y.image = NoImage /\ SameSampler(y, x) /\ y.name = x.name
        /\ y.faces = x.faces /\ y.target = x.target
    BY <1>2, RequiredEdited DEF Current
  <2> HIDE DEF y
  <2>2. Current(y)
    BY <2>1, DroppedCurrent
  <2> QED
    BY <2>1, <2>2 DEF y
<1> QED
  BY <1>1, <1>2

LEMMA DrawnCurrent ==
    ASSUME NEW x, Current(x), x.name = "live", NEW face, NEW level
    PROVE  LET y == Drawn(x, face, level)
           IN Current(y) /\ y.faces = x.faces /\ y.target = x.target /\ y.name = x.name
<1> DEFINE r == Required(x)
           image == IF Stored(x.faces[face], level) THEN RealizedImage(r) ELSE NoImage
           touched == [image EXCEPT !.drawn = @ \cup {<<face, level>>}]
           y == [r EXCEPT !.image = touched]
<1>1. Current(r) /\ r.name = "live" /\ r.faces = x.faces /\ r.target = x.target
  BY RequiredCurrent
<1>2. CASE image = NoImage
  BY <1>1, <1>2 DEF Drawn
<1>3. CASE image # NoImage
  <2>1. Drawn(x, face, level) = y
    BY <1>3 DEF Drawn
  <2> HIDE DEF r
  <2>2. [image EXCEPT !.drawn = {}] = WouldBe(r)
    BY <1>1, <1>3, BuiltCurrent
  <2> HIDE DEF image
  <2>3. [touched EXCEPT !.drawn = {}] = [image EXCEPT !.drawn = {}]
    OBVIOUS
  <2> HIDE DEF touched
  <2>4. Current(y)
    BY <1>1, <2>2, <2>3, ImageGiven
  <2>5. SameBuild(y, r) /\ y.name = r.name
    BY <1>1, ImageEdited DEF Current
  <2> HIDE DEF y
  <2> QED
    BY <1>1, <2>1, <2>4, <2>5 DEF SameBuild
<1> QED
  BY <1>2, <1>3

-----------------------------------------------------------------------------
(***************************************************************************)
(* One face.                                                               *)
(***************************************************************************)
LEMMA PowerPositive ==
    ASSUME NEW l \in Nat
    PROVE  2^l \in Nat /\ 2^l >= 1
<1>1. IsFiniteSet(1..l) /\ Cardinality(1..l) = l
  BY FS_Interval
<1>2. IsFiniteSet(SUBSET (1..l)) /\ Cardinality(SUBSET (1..l)) = 2^l
  BY <1>1, FS_SUBSET
<1>3. Cardinality(SUBSET (1..l)) \in Nat
  BY <1>2, FS_CardinalityType
<1>4. Cardinality(SUBSET (1..l)) # 0
  BY <1>2, FS_EmptySet
<1> QED
  BY <1>2, <1>3, <1>4

IsSize(size) == size \in Nat \X Nat

LEMMA AreaNat ==
    ASSUME NEW size, IsSize(size)
    PROVE  Area(size) \in Nat /\ (Area(size) # 0 <=> size[1] > 0 /\ size[2] > 0)
  BY DEF IsSize, Area

LEMMA LevelSizes ==
    ASSUME NEW size, IsSize(size), NEW l \in Nat
    PROVE  IsSize(LevelSize(size, l)) /\ Area(LevelSize(size, l)) # 0
<1>1. 2^l \in Nat /\ 2^l >= 1
  BY PowerPositive
<1> DEFINE w == size[1] \div 2^l
           h == size[2] \div 2^l
<1>2. size[1] \in Nat /\ size[2] \in Nat
  BY DEF IsSize
<1>3. w \in Nat /\ h \in Nat
  BY <1>1, <1>2
<1>4. LevelSize(size, l) = <<Larger(1, w), Larger(1, h)>>
  BY DEF LevelSize
<1> HIDE DEF w, h
<1>5. Larger(1, w) \in Nat \ {0} /\ Larger(1, h) \in Nat \ {0}
  BY <1>3 DEF Larger
<1>6. Area(LevelSize(size, l)) = Larger(1, w) * Larger(1, h)
  BY <1>4 DEF Area
<1>7. \A a, b \in Nat \ {0} : a * b # 0
  OBVIOUS
<1> QED
  BY <1>4, <1>5, <1>6, <1>7 DEF IsSize

LEMMA StorageNat == \A f : StorageTexelBytes(f) \in Nat
  BY DEF StorageTexelBytes

(* A face has its fields and levels of some size; its levels halve from its *)
(* base; a level that counts as generated is what reducing the base gives;  *)
(* what is stored was defined.                                              *)
FaceFields == {"defined", "format", "levels"}
LevelFields == {"size", "texel", "rest", "generated"}
FaceShaped(face) ==
    /\ DOMAIN face = FaceFields /\ DOMAIN face.levels = Levels
    /\ \A l \in Levels : DOMAIN face.levels[l] = LevelFields /\ IsSize(face.levels[l].size)
LevelsHalve(face) ==
    \A l \in Levels \ {0} : Stored(face, l) => Sized(face, l) /\ l \in Chain(face)
LevelsGenerated(face) ==
    \A l \in Levels : face.levels[l].generated =>
        l # 0 /\ face.levels[l] = GeneratedLevel(face, l)
FaceNamed(face) ==
    /\ Stored(face, 0) => face.defined
    /\ face.format.compressed # None => ~face.format.srgb
FaceGood(face) ==
    FaceShaped(face) /\ LevelsHalve(face) /\ LevelsGenerated(face) /\ FaceNamed(face)

SameBase(y, x) ==
    /\ y.defined = x.defined /\ y.format = x.format /\ BaseSize(y) = BaseSize(x)
    /\ DOMAIN y = DOMAIN x

LEMMA BytesOfLevels ==
    ASSUME NEW face, FaceShaped(face)
    PROVE  /\ \A l \in Levels : LevelBytes(face, l) \in Nat
           /\ [n \in 1..MaxLevels |-> LevelBytes(face, n - 1)] \in [1..MaxLevels -> Nat]
           /\ FaceBytes(face) \in Nat
<1>1. \A l \in Levels : LevelBytes(face, l) \in Nat
  BY AreaNat, StorageNat DEF LevelBytes, FaceShaped
<1>2. \A n \in 1..MaxLevels : n - 1 \in Levels
  BY TextureFacts DEF Levels
<1>3. [n \in 1..MaxLevels |-> LevelBytes(face, n - 1)] \in [1..MaxLevels -> Nat]
  BY <1>1, <1>2
<1> QED
  BY <1>1, <1>3, TotalNat, TextureFacts DEF FaceBytes

LEMMA EmptyFace ==
    FaceGood(NoFace) /\ NoFace.defined = FALSE /\ FaceBytes(NoFace) = 0
<1>1. FaceShaped(NoFace)
  BY DEF FaceShaped, NoFace, NoLevel, FaceFields, LevelFields, IsSize
<1>2. \A l \in Levels : ~Stored(NoFace, l) /\ ~NoFace.levels[l].generated
  BY DEF NoFace, NoLevel, Stored, Area
<1>3. NoFace.format.compressed = None /\ NoFace.defined = FALSE
  BY DEF NoFace, NoFormat, Format
<1>4. \A l \in Levels : LevelBytes(NoFace, l) = 0
  <2>1. \A l \in Levels : Area(NoFace.levels[l].size) = 0
    BY DEF NoFace, NoLevel, Area
  <2> QED
    BY <2>1, StorageNat DEF LevelBytes
<1>5. \A n \in 1..MaxLevels : n - 1 \in Levels
  BY TextureFacts DEF Levels
<1>6. FaceBytes(NoFace) = 0
  BY <1>4, <1>5, TotalZero, TextureFacts DEF FaceBytes
<1> QED
  BY <1>1, <1>2, <1>3, <1>6, TextureFacts DEF FaceGood, LevelsHalve, LevelsGenerated, FaceNamed

(* The bytes of a face of which one level has another size.                 *)
LEMMA BytesChanged ==
    ASSUME NEW x, FaceShaped(x), NEW y, FaceShaped(y), y.format = x.format, NEW k \in Levels,
           \A l \in Levels \ {k} : y.levels[l].size = x.levels[l].size
    PROVE  FaceBytes(y) = FaceBytes(x) - LevelBytes(x, k) + LevelBytes(y, k)
<1> DEFINE f == [n \in 1..MaxLevels |-> LevelBytes(x, n - 1)]
           g == [n \in 1..MaxLevels |-> LevelBytes(y, n - 1)]
<1>1. k + 1 \in 1..MaxLevels /\ \A n \in 1..MaxLevels : n - 1 \in Levels
  BY TextureFacts DEF Levels
<1>2. f \in [1..MaxLevels -> Int] /\ LevelBytes(y, k) \in Int
  <2>1. f \in [1..MaxLevels -> Nat] /\ LevelBytes(y, k) \in Nat
    BY BytesOfLevels
  <2> QED
    BY <2>1
<1>3. \A l \in Levels \ {k} : LevelBytes(y, l) = LevelBytes(x, l)
  BY DEF LevelBytes
<1>4. g = [f EXCEPT ![k + 1] = LevelBytes(y, k)]
  <2>1. \A n \in 1..MaxLevels : n # k + 1 => n - 1 \in Levels \ {k}
    BY <1>1, TextureFacts
  <2>2. \A n \in 1..MaxLevels : g[n] = IF n = k + 1 THEN LevelBytes(y, k) ELSE f[n]
    BY <1>1, <1>3, <2>1, TextureFacts
  <2> QED
    BY <2>2
<1>5. f[k + 1] = LevelBytes(x, k)
  BY <1>1, TextureFacts
<1>6. FaceBytes(x) = Total(f, MaxLevels) /\ FaceBytes(y) = Total(g, MaxLevels)
  BY DEF FaceBytes
<1> HIDE DEF f, g
<1>7. Total(g, MaxLevels) = Total(f, MaxLevels) - f[k + 1] + LevelBytes(y, k)
  BY <1>1, <1>2, <1>4, TotalUpdate, TextureFacts
<1> QED
  BY <1>5, <1>6, <1>7

(* A base image.                                                            *)
LEMMA Based ==
    ASSUME NEW face, NEW size, IsSize(size), NEW format, NEW texel,
           format.compressed # None => ~format.srgb
    PROVE  LET y == WithLevel(face, 0, size, format, texel)
           IN /\ FaceGood(y) /\ y.format = format /\ BaseSize(y) = size
              /\ FaceBytes(y) = Area(size) * StorageTexelBytes(format)
<1> DEFINE y == WithLevel(face, 0, size, format, texel)
           made == Made(size, texel)
<1>1. y = [defined |-> TRUE, format |-> format, levels |-> [NoFace.levels EXCEPT ![0] = made]]
  BY DEF WithLevel
<1>2. DOMAIN NoFace.levels = Levels /\ \A l \in Levels : NoFace.levels[l] = NoLevel
  BY DEF NoFace
<1>3. made.size = size /\ made.generated = FALSE /\ DOMAIN made = LevelFields
  BY DEF Made, LevelFields
<1> HIDE DEF made
<1>4. /\ y.defined = TRUE /\ y.format = format /\ DOMAIN y = FaceFields
      /\ DOMAIN y.levels = Levels /\ y.levels[0] = made
      /\ \A l \in Levels \ {0} : y.levels[l] = NoLevel
  BY <1>1, <1>2, TextureFacts DEF FaceFields
<1> HIDE DEF y
<1>5. /\ NoLevel.size = <<0, 0>> /\ NoLevel.generated = FALSE /\ DOMAIN NoLevel = LevelFields
      /\ IsSize(<<0, 0>>) /\ Area(<<0, 0>>) = 0
  BY DEF NoLevel, LevelFields, IsSize, Area
<1>6. FaceShaped(y)
  BY <1>3, <1>4, <1>5 DEF FaceShaped
<1>7. FaceGood(y)
  BY <1>3, <1>4, <1>5, <1>6
     DEF FaceGood, LevelsHalve, LevelsGenerated, FaceNamed, Stored
<1>8. BaseSize(y) = size
  BY <1>3, <1>4 DEF BaseSize
<1>9. FaceBytes(y) = Area(size) * StorageTexelBytes(format)
  <2> DEFINE b == Area(size) * StorageTexelBytes(format)
             z == [NoFace EXCEPT !.format = format]
  <2>1. z.format = format /\ z.levels = NoFace.levels /\ DOMAIN z = FaceFields
    BY DEF NoFace, FaceFields
  <2> HIDE DEF z
  <2>2. FaceShaped(z) /\ \A l \in Levels : z.levels[l].size = <<0, 0>>
    BY <1>2, <1>5, <2>1 DEF FaceShaped
  <2>3. \A l \in Levels : LevelBytes(z, l) = 0
    BY <1>5, <2>2, StorageNat DEF LevelBytes
  <2>4. FaceBytes(z) = 0
    <3>1. \A n \in 1..MaxLevels : n - 1 \in Levels
      BY TextureFacts DEF Levels
    <3> QED
      BY <2>3, <3>1, TotalZero, TextureFacts DEF FaceBytes
  <2>5. FaceBytes(y) = FaceBytes(z) - LevelBytes(z, 0) + LevelBytes(y, 0)
    BY <1>4, <1>5, <1>6, <2>1, <2>2, BytesChanged, TextureFacts
  <2>6. LevelBytes(y, 0) = b /\ LevelBytes(y, 0) \in Nat
    BY <1>3, <1>4, <1>6, BytesOfLevels, TextureFacts DEF LevelBytes
  <2> QED
    BY <2>3, <2>4, <2>5, <2>6, TextureFacts
<1> QED
  BY <1>4, <1>7, <1>8, <1>9 DEF y

(* Another level of a chain.                                                *)
LEMMA Extended ==
    ASSUME NEW face, FaceGood(face), NEW level \in Levels \ {0}, level \in Chain(face),
           NEW texel, NEW format, NEW size, size = LevelSize(BaseSize(face), level)
    PROVE  LET y == WithLevel(face, level, size, format, texel)
           IN /\ FaceGood(y) /\ SameBase(y, face)
              /\ FaceBytes(y) = FaceBytes(face) - LevelBytes(face, level)
                                  + Area(size) * StorageTexelBytes(face.format)
<1> DEFINE y == WithLevel(face, level, size, format, texel)
           made == Made(size, texel)
<1>1. y = [face EXCEPT !.levels[level] = made]
  BY DEF WithLevel
<1>2. made.size = size /\ made.generated = FALSE /\ DOMAIN made = LevelFields
  BY DEF Made, LevelFields
<1> HIDE DEF made
<1>3. /\ y.defined = face.defined /\ y.format = face.format /\ DOMAIN y = FaceFields
      /\ DOMAIN y.levels = Levels /\ y.levels[level] = made
      /\ \A l \in Levels \ {level} : y.levels[l] = face.levels[l]
  BY <1>1 DEF FaceGood, FaceShaped, FaceFields
<1> HIDE DEF y
<1>4. IsSize(BaseSize(face)) /\ BaseSize(y) = BaseSize(face) /\ y.levels[0] = face.levels[0]
  BY <1>3, TextureFacts DEF FaceGood, FaceShaped, BaseSize
<1>5. IsSize(size) /\ Area(size) # 0
  BY <1>4, LevelSizes, TextureFacts
<1>6. FaceShaped(y) /\ SameBase(y, face)
  BY <1>2, <1>3, <1>4, <1>5 DEF FaceShaped, FaceGood, SameBase
<1>7. Chain(y) = Chain(face)
  BY <1>4 DEF Chain
<1>8. LevelsHalve(y)
  <2> SUFFICES ASSUME NEW l \in Levels \ {0}, Stored(y, l)
               PROVE  Sized(y, l) /\ l \in Chain(y)
    BY DEF LevelsHalve
  <2>1. CASE l = level
    BY <1>2, <1>3, <1>4, <1>7, <2>1 DEF Sized, BaseSize
  <2>2. CASE l # level
    <3>1. Stored(face, l)
      BY <1>3, <2>2 DEF Stored
    <3>2. Sized(face, l) /\ l \in Chain(face)
      BY <3>1 DEF FaceGood, LevelsHalve
    <3> QED
      BY <1>3, <1>4, <1>7, <2>2, <3>2 DEF Sized
  <2> QED
    BY <2>1, <2>2
<1>9. LevelsGenerated(y)
  <2> SUFFICES ASSUME NEW l \in Levels, y.levels[l].generated
               PROVE  l # 0 /\ y.levels[l] = GeneratedLevel(y, l)
    BY DEF LevelsGenerated
  <2>1. l # level
    BY <1>2, <1>3
  <2>2. l # 0 /\ y.levels[l] = GeneratedLevel(face, l)
    BY <1>3, <2>1 DEF FaceGood, LevelsGenerated
  <2>3. GeneratedLevel(y, l) = GeneratedLevel(face, l)
    BY <1>3, <1>4 DEF GeneratedLevel
  <2> QED
    BY <2>2, <2>3
<1>10. FaceGood(y)
  BY <1>3, <1>4, <1>6, <1>8, <1>9 DEF FaceGood, FaceNamed, Stored
<1>11. FaceBytes(y) = FaceBytes(face) - LevelBytes(face, level) + LevelBytes(y, level)
  BY <1>3, <1>6, BytesChanged DEF FaceGood
<1>12. LevelBytes(y, level) = Area(size) * StorageTexelBytes(face.format)
  BY <1>2, <1>3 DEF LevelBytes
<1> QED
  BY <1>6, <1>10, <1>11, <1>12 DEF y

(* Less storage on every level is less storage.                             *)
LEMMA BytesMonotone ==
    ASSUME NEW x, FaceShaped(x), NEW y, FaceShaped(y),
           \A l \in Levels : LevelBytes(y, l) <= LevelBytes(x, l)
    PROVE  FaceBytes(y) <= FaceBytes(x)
<1> DEFINE f == [n \in 1..MaxLevels |-> LevelBytes(x, n - 1)]
           g == [n \in 1..MaxLevels |-> LevelBytes(y, n - 1)]
<1>1. f \in [1..MaxLevels -> Nat] /\ g \in [1..MaxLevels -> Nat]
  BY BytesOfLevels
<1>2. \A n \in 1..MaxLevels : g[n] <= f[n]
  <2>1. \A n \in 1..MaxLevels : n - 1 \in Levels
    BY TextureFacts DEF Levels
  <2> QED
    BY <2>1
<1>3. FaceBytes(x) = Total(f, MaxLevels) /\ FaceBytes(y) = Total(g, MaxLevels)
  BY DEF FaceBytes
<1> HIDE DEF f, g
<1>4. f \in [1..MaxLevels -> Int] /\ g \in [1..MaxLevels -> Int]
  BY <1>1
<1> QED
  BY <1>2, <1>3, <1>4, TotalMonotone, TextureFacts

(* An update of part of a stored level.                                     *)
LEMMA UpdatedFace ==
    ASSUME NEW face, FaceGood(face), NEW level \in Levels, Stored(face, level), NEW region,
           NEW texel
    PROVE  LET y == Updated(face, level, region, texel)
           IN FaceGood(y) /\ SameBase(y, face) /\ FaceBytes(y) <= FaceBytes(face)
<1> DEFINE y == Updated(face, level, region, texel)
           old == face.levels[level]
           rest == IF region.size = old.size THEN texel ELSE old.rest
           new == [old EXCEPT !.texel = texel, !.generated = FALSE, !.rest = rest]
           levels == [l \in Levels |-> IF l = level THEN new
                            ELSE IF level = 0 /\ face.levels[l].generated THEN NoLevel
                            ELSE face.levels[l]]
<1>1. y = [face EXCEPT !.levels = levels]
  BY DEF Updated
<1>2. new.size = old.size /\ new.generated = FALSE /\ DOMAIN new = LevelFields
  BY DEF FaceGood, FaceShaped, LevelFields
<1> HIDE DEF new
<1>3. /\ levels[level] = new /\ DOMAIN levels = Levels
      /\ \A l \in Levels \ {level} :
            levels[l] = IF level = 0 /\ face.levels[l].generated THEN NoLevel ELSE face.levels[l]
  OBVIOUS
<1> HIDE DEF levels
<1>4. y.defined = face.defined /\ y.format = face.format /\ DOMAIN y = FaceFields /\ y.levels = levels
  BY <1>1 DEF FaceGood, FaceShaped, FaceFields
<1> HIDE DEF y
<1>5. /\ NoLevel.size = <<0, 0>> /\ NoLevel.generated = FALSE /\ DOMAIN NoLevel = LevelFields
      /\ IsSize(<<0, 0>>) /\ Area(<<0, 0>>) = 0
  BY DEF NoLevel, LevelFields, IsSize, Area
<1>6. FaceShaped(y)
  BY <1>2, <1>3, <1>4, <1>5 DEF FaceShaped, FaceGood
<1>7. \A l \in Levels : Stored(y, l) => y.levels[l].size = face.levels[l].size
  BY <1>2, <1>3, <1>4, <1>5 DEF Stored
<1>8. y.levels[0].size = face.levels[0].size
  <2>1. CASE level = 0
    BY <1>2, <1>3, <1>4, <2>1
  <2>2. CASE level # 0
    BY <1>3, <1>4, <2>2, TextureFacts
  <2> QED
    BY <2>1, <2>2
<1>9. BaseSize(y) = BaseSize(face) /\ Chain(y) = Chain(face) /\ SameBase(y, face)
  BY <1>4, <1>8 DEF BaseSize, Chain, SameBase, FaceGood, FaceShaped
<1>10. LevelsHalve(y)
  <2> SUFFICES ASSUME NEW l \in Levels \ {0}, Stored(y, l)
               PROVE  Sized(y, l) /\ l \in Chain(y)
    BY DEF LevelsHalve
  <2>1. Stored(face, l)
    BY <1>7 DEF Stored
  <2>2. Sized(face, l) /\ l \in Chain(face)
    BY <2>1 DEF FaceGood, LevelsHalve
  <2> QED
    BY <1>7, <1>8, <1>9, <2>2 DEF Sized
<1>11. LevelsGenerated(y)
  <2> SUFFICES ASSUME NEW l \in Levels, y.levels[l].generated
               PROVE  l # 0 /\ y.levels[l] = GeneratedLevel(y, l)
    BY DEF LevelsGenerated
  <2>1. l # level /\ y.levels[l] = face.levels[l] /\ level # 0
    BY <1>2, <1>3, <1>4, <1>5
  <2>2. l # 0 /\ y.levels[l] = GeneratedLevel(face, l)
    BY <2>1 DEF FaceGood, LevelsGenerated
  <2>3. y.levels[0] = face.levels[0]
    BY <1>3, <1>4, <2>1, TextureFacts
  <2>4. GeneratedLevel(y, l) = GeneratedLevel(face, l)
    BY <1>4, <2>3 DEF GeneratedLevel, BaseSize
  <2> QED
    BY <2>2, <2>4
<1>12. FaceGood(y)
  BY <1>4, <1>6, <1>8, <1>10, <1>11 DEF FaceGood, FaceNamed, Stored
<1>13. \A l \in Levels : LevelBytes(y, l) <= LevelBytes(face, l)
  <2> SUFFICES ASSUME NEW l \in Levels PROVE LevelBytes(y, l) <= LevelBytes(face, l)
    OBVIOUS
  <2>1. LevelBytes(face, l) \in Nat /\ LevelBytes(y, l) \in Nat
    BY <1>6, BytesOfLevels DEF FaceGood
  <2>2. CASE Stored(y, l)
    BY <1>4, <1>7, <2>1, <2>2 DEF LevelBytes
  <2>3. CASE ~Stored(y, l)
    <3>1. LevelBytes(y, l) = 0
      BY <2>3, StorageNat DEF LevelBytes, Stored
    <3> QED
      BY <2>1, <3>1
  <2> QED
    BY <2>2, <2>3
<1>14. FaceBytes(y) <= FaceBytes(face)
  BY <1>6, <1>13, BytesMonotone DEF FaceGood
<1> QED
  BY <1>9, <1>12, <1>14 DEF y

(* A reduced base.                                                          *)
LEMMA GeneratedFace ==
    ASSUME NEW face, FaceGood(face)
    PROVE  LET y == WithGenerated(face)
           IN /\ FaceGood(y) /\ SameBase(y, face)
              /\ GeneratedBytes(face) \in Nat
              /\ FaceBytes(y) <= FaceBytes(face) + GeneratedBytes(face)
<1> DEFINE y == WithGenerated(face)
           levels == [l \in Levels |-> IF l = 0 THEN face.levels[0]
                                       ELSE IF l \in Chain(face) THEN GeneratedLevel(face, l)
                                       ELSE NoLevel]
<1>1. y = [face EXCEPT !.levels = levels]
  BY DEF WithGenerated
<1>2. /\ levels[0] = face.levels[0] /\ DOMAIN levels = Levels
      /\ \A l \in Levels \ {0} :
            levels[l] = IF l \in Chain(face) THEN GeneratedLevel(face, l) ELSE NoLevel
  BY TextureFacts
<1> HIDE DEF levels
<1>3. y.defined = face.defined /\ y.format = face.format /\ DOMAIN y = FaceFields /\ y.levels = levels
  BY <1>1 DEF FaceGood, FaceShaped, FaceFields
<1> HIDE DEF y
<1>4. /\ NoLevel.size = <<0, 0>> /\ NoLevel.generated = FALSE /\ DOMAIN NoLevel = LevelFields
      /\ IsSize(<<0, 0>>) /\ Area(<<0, 0>>) = 0
  BY DEF NoLevel, LevelFields, IsSize, Area
<1>5. IsSize(BaseSize(face)) /\ BaseSize(y) = BaseSize(face) /\ Chain(y) = Chain(face)
      /\ SameBase(y, face)
  BY <1>2, <1>3, TextureFacts DEF FaceGood, FaceShaped, BaseSize, Chain, SameBase
<1>6. \A l \in Levels \ {0} :
         /\ GeneratedLevel(face, l).size = LevelSize(BaseSize(face), l)
         /\ DOMAIN GeneratedLevel(face, l) = LevelFields
         /\ IsSize(LevelSize(BaseSize(face), l)) /\ Area(LevelSize(BaseSize(face), l)) # 0
  BY <1>5, LevelSizes, TextureFacts DEF GeneratedLevel, LevelFields
<1>7. FaceShaped(y)
  <2> SUFFICES ASSUME NEW l \in Levels
               PROVE  DOMAIN y.levels[l] = LevelFields /\ IsSize(y.levels[l].size)
    BY <1>2, <1>3 DEF FaceShaped
  <2>1. CASE l = 0
    BY <1>2, <1>3, <2>1 DEF FaceGood, FaceShaped
  <2>2. CASE l # 0
    BY <1>2, <1>3, <1>4, <1>6, <2>2
  <2> QED
    BY <2>1, <2>2
<1>8. LevelsHalve(y)
  <2> SUFFICES ASSUME NEW l \in Levels \ {0}, Stored(y, l)
               PROVE  Sized(y, l) /\ l \in Chain(y)
    BY DEF LevelsHalve
  <2>1. l \in Chain(face)
    BY <1>2, <1>3, <1>4 DEF Stored
  <2>2. y.levels[l].size = LevelSize(BaseSize(y), l)
    BY <1>2, <1>3, <1>5, <1>6, <2>1
  <2> QED
    BY <1>5, <2>1, <2>2 DEF Sized, BaseSize
<1>9. LevelsGenerated(y)
  <2> SUFFICES ASSUME NEW l \in Levels, y.levels[l].generated
               PROVE  l # 0 /\ y.levels[l] = GeneratedLevel(y, l)
    BY DEF LevelsGenerated
  <2>1. GeneratedLevel(y, l) = GeneratedLevel(face, l)
    BY <1>2, <1>3, <1>5 DEF GeneratedLevel
  <2>2. CASE l = 0
    <3>1. face.levels[0].generated
      BY <1>2, <1>3, <2>2
    <3> QED
      BY <3>1, TextureFacts DEF FaceGood, LevelsGenerated
  <2>3. CASE l # 0
    BY <1>2, <1>3, <1>4, <2>1, <2>3
  <2> QED
    BY <2>2, <2>3
<1>10. FaceGood(y)
  BY <1>2, <1>3, <1>7, <1>8, <1>9 DEF FaceGood, FaceNamed, Stored
<1> DEFINE f == [n \in 1..MaxLevels |-> LevelBytes(face, n - 1)]
           g == [n \in 1..MaxLevels |->
                   IF n - 1 \in Chain(face) \ {0}
                   THEN Area(LevelSize(BaseSize(face), n - 1)) * StorageTexelBytes(face.format)
                   ELSE 0]
           h == [n \in 1..MaxLevels |-> LevelBytes(y, n - 1)]
           s == [n \in 1..MaxLevels |-> f[n] + g[n]]
<1>11. \A n \in 1..MaxLevels : n - 1 \in Levels
  BY TextureFacts DEF Levels
<1>12. f \in [1..MaxLevels -> Nat] /\ h \in [1..MaxLevels -> Nat]
  BY <1>7, BytesOfLevels DEF FaceGood
<1>13. \A n \in 1..MaxLevels :
         LET size == LevelSize(BaseSize(face), n - 1)
         IN n - 1 \in Chain(face) \ {0} => Area(size) * StorageTexelBytes(face.format) \in Nat
  BY <1>6, <1>11, AreaNat, StorageNat
<1>14. g \in [1..MaxLevels -> Nat]
  BY <1>13
<1>15. \A n \in 1..MaxLevels : h[n] <= s[n]
  <2> SUFFICES ASSUME NEW n \in 1..MaxLevels PROVE h[n] <= s[n]
    OBVIOUS
  <2>1. f[n] \in Nat /\ g[n] \in Nat /\ h[n] \in Nat /\ n - 1 \in Levels
    BY <1>11, <1>12, <1>14
  <2>2. CASE n - 1 = 0
    <3>1. LevelBytes(y, n - 1) = LevelBytes(face, n - 1)
      BY <1>2, <1>3, <2>2 DEF LevelBytes
    <3> QED
      BY <2>1, <3>1
  <2>3. CASE n - 1 # 0 /\ n - 1 \in Chain(face)
    <3>1. LevelBytes(y, n - 1) = Area(LevelSize(BaseSize(face), n - 1)) * StorageTexelBytes(face.format)
      BY <1>2, <1>3, <1>6, <2>1, <2>3 DEF LevelBytes
    <3> QED
      BY <2>1, <2>3, <3>1
  <2>4. CASE n - 1 # 0 /\ n - 1 \notin Chain(face)
    <3>1. y.levels[n - 1].size = <<0, 0>>
      BY <1>2, <1>3, <1>4, <2>1, <2>4
    <3>2. LevelBytes(y, n - 1) = 0
      BY <1>4, <3>1, StorageNat DEF LevelBytes
    <3> QED
      BY <2>1, <3>2
  <2> QED
    BY <2>2, <2>3, <2>4
<1>16. /\ FaceBytes(face) = Total(f, MaxLevels) /\ FaceBytes(y) = Total(h, MaxLevels)
       /\ GeneratedBytes(face) = Total(g, MaxLevels)
  BY DEF FaceBytes, GeneratedBytes
<1> HIDE DEF f, g, h
<1>17. Total(h, MaxLevels) <= Total(f, MaxLevels) + Total(g, MaxLevels)
  <2>1. /\ f \in [1..MaxLevels -> Int] /\ g \in [1..MaxLevels -> Int]
        /\ h \in [1..MaxLevels -> Int] /\ s \in [1..MaxLevels -> Int]
    BY <1>12, <1>14
  <2>2. Total(s, MaxLevels) = Total(f, MaxLevels) + Total(g, MaxLevels)
    BY <2>1, TotalSum, TextureFacts
  <2> HIDE DEF s
  <2>3. Total(h, MaxLevels) <= Total(s, MaxLevels)
    BY <1>15, <2>1, TotalMonotone, TextureFacts
  <2> QED
    BY <2>2, <2>3
<1>18. Total(g, MaxLevels) \in Nat
  BY <1>14, TotalNat, TextureFacts
<1> QED
  BY <1>5, <1>10, <1>16, <1>17, <1>18 DEF y

-----------------------------------------------------------------------------
(***************************************************************************)
(* One texture, with its faces.                                            *)
(***************************************************************************)
LEMMA FaceFacts ==
    /\ Len(FaceNames) \in Nat /\ DOMAIN FaceNames = 1..Len(FaceNames) /\ 1 \in 1..Len(FaceNames)
    /\ \A i \in 1..Len(FaceNames) : FaceNames[i] \in Faces
    /\ \A f \in Faces : \E i \in 1..Len(FaceNames) : f = FaceNames[i]
    /\ \A i, j \in 1..Len(FaceNames) : FaceNames[i] = FaceNames[j] => i = j
<1>1. FaceNames \in Seq(STRING) /\ Len(FaceNames) \in Nat /\ Len(FaceNames) >= 1
      /\ DOMAIN FaceNames = 1..Len(FaceNames)
  BY TextureAssumption
<1> QED
  BY <1>1, TextureAssumption DEF Faces

(* The sum over the faces, and what one face contributes to it.             *)
LEMMA OfFacesFacts ==
    ASSUME NEW b, \A f \in Faces : b[f] \in Nat
    PROVE  /\ OfFaces(b) \in Nat
           /\ \A f \in Faces : b[f] <= OfFaces(b)
           /\ \A f \in Faces : \A v \in Nat : \A c :
                 c[f] = v /\ (\A g \in Faces \ {f} : c[g] = b[g]) =>
                 OfFaces(c) = OfFaces(b) - b[f] + v
<1> DEFINE n == Len(FaceNames)
           s == [i \in 1..n |-> b[FaceNames[i]]]
<1>1. n \in Nat /\ s \in [1..n -> Nat]
  BY FaceFacts
<1>2. OfFaces(b) = Total(s, n)
  BY DEF OfFaces
<1>3. s \in [1..n -> Int]
  BY <1>1
<1>4. OfFaces(b) \in Nat
  BY <1>1, <1>2, TotalNat
<1>5. ASSUME NEW f \in Faces PROVE b[f] <= OfFaces(b)
  <2>1. PICK i \in 1..n : f = FaceNames[i]
    BY FaceFacts
  <2>2. s[i] = b[f]
    BY <2>1
  <2> HIDE DEF s
  <2> QED
    BY <1>1, <1>2, <2>2, TotalBound
<1>6. ASSUME NEW f \in Faces, NEW v \in Nat, NEW c, c[f] = v, \A g \in Faces \ {f} : c[g] = b[g]
      PROVE  OfFaces(c) = OfFaces(b) - b[f] + v
  <2> DEFINE r == [i \in 1..n |-> c[FaceNames[i]]]
  <2>1. PICK i \in 1..n : f = FaceNames[i]
    BY FaceFacts
  <2>2. \A j \in 1..n : r[j] = IF j = i THEN v ELSE s[j]
    BY <1>6, <2>1, FaceFacts
  <2>3. r = [s EXCEPT ![i] = v]
    BY <2>2
  <2>4. s[i] = b[f] /\ OfFaces(c) = Total(r, n)
    BY <2>1 DEF OfFaces
  <2> HIDE DEF s, r
  <2>5. Total(r, n) = Total(s, n) - s[i] + v
    <3>1. v \in Int
      OBVIOUS
    <3> QED
      BY <1>1, <1>3, <2>3, <3>1, TotalUpdate
  <2> QED
    BY <1>2, <2>4, <2>5
<1> QED
  BY <1>4, <1>5, <1>6

(* A texture is current, has good faces that agree, keeps a 2D image on its *)
(* first face alone, and nothing before it is bound.                        *)
FacesAgree(x) ==
    \A f, g \in Faces : x.faces[f].defined /\ x.faces[g].defined => Agree(x.faces[f], x.faces[g])
FlatOnFirst(x) == x.target # "CUBE" => \A f \in Faces \ {First} : ~x.faces[f].defined
EmptyUntilLive(x) == x.name # "live" => \A f \in Faces : ~x.faces[f].defined
FacesGood(x) ==
    (\A f \in Faces : FaceGood(x.faces[f])) /\ FacesAgree(x) /\ FlatOnFirst(x) /\ EmptyUntilLive(x)
TextureGood(x) == Current(x) /\ FacesGood(x)

LEMMA ShadowFacts ==
    ASSUME NEW x, FacesGood(x)
    PROVE  /\ ShadowBytes(x) \in Nat
           /\ \A f \in Faces : FaceBytes(x.faces[f]) \in Nat
                                 /\ FaceBytes(x.faces[f]) <= ShadowBytes(x)
<1> DEFINE b == [f \in Faces |-> FaceBytes(x.faces[f])]
<1>1. \A f \in Faces : FaceBytes(x.faces[f]) \in Nat
  BY BytesOfLevels DEF FacesGood, FaceGood
<1>2. \A f \in Faces : b[f] = FaceBytes(x.faces[f])
  OBVIOUS
<1>3. ShadowBytes(x) = OfFaces(b)
  BY DEF ShadowBytes
<1> HIDE DEF b
<1> QED
  BY <1>1, <1>2, <1>3, OfFacesFacts

LEMMA NewTexture ==
    TextureGood(NoTexture) /\ ShadowBytes(NoTexture) = 0
<1>1. \A f \in Faces : NoTexture.faces[f] = NoFace
  BY DEF NoTexture
<1>2. NoFace.defined = FALSE
  BY EmptyFace
<1>5. FacesGood(NoTexture)
  BY <1>1, <1>2, EmptyFace DEF FacesGood, FacesAgree, FlatOnFirst, EmptyUntilLive
<1>6. ShadowBytes(NoTexture) = 0
  <2> DEFINE b == [f \in Faces |-> FaceBytes(NoTexture.faces[f])]
             s == [i \in 1..Len(FaceNames) |-> b[FaceNames[i]]]
  <2>1. \A f \in Faces : b[f] = 0
    BY <1>1, EmptyFace
  <2> HIDE DEF b
  <2>2. s = [i \in 1..Len(FaceNames) |-> 0]
    BY <2>1, FaceFacts
  <2>3. ShadowBytes(NoTexture) = Total(s, Len(FaceNames))
    BY DEF ShadowBytes, OfFaces, b
  <2> QED
    BY <2>2, <2>3, TotalZero, FaceFacts
<1> QED
  BY <1>5, <1>6, NewCurrent DEF TextureGood

(* The faces, the target and whether it is live are all that counts.        *)
LEMMA SameFaces ==
    ASSUME NEW x, TextureGood(x), NEW y, Current(y), y.faces = x.faces, y.target = x.target,
           y.name = x.name
    PROVE  TextureGood(y) /\ ShadowBytes(y) = ShadowBytes(x)
  BY DEF TextureGood, FacesGood, FacesAgree, FlatOnFirst, EmptyUntilLive, ShadowBytes

(* One face is replaced and the image dropped.                              *)
WithFace(x, f, new) == [[x EXCEPT !.image = NoImage] EXCEPT !.faces[f] = new]

LEMMA FaceReplaced ==
    ASSUME NEW x, TextureGood(x), x.name = "live", NEW f \in Faces, NEW new,
           FaceGood(new), x.target # "CUBE" => f = First,
           \A g \in Faces \ {f} : x.faces[g].defined /\ new.defined => Agree(new, x.faces[g])
    PROVE  LET y == WithFace(x, f, new)
           IN /\ TextureGood(y) /\ y.name = x.name /\ y.target = x.target
              /\ ShadowBytes(y) = ShadowBytes(x) - FaceBytes(x.faces[f]) + FaceBytes(new)
<1> DEFINE y == WithFace(x, f, new)
<1>1. /\ TextureShaped(y) /\ y.image = NoImage /\ SameSampler(y, x) /\ y.name = x.name
      /\ y.target = x.target
      /\ y.faces[f] = new /\ \A g \in Faces \ {f} : y.faces[g] = x.faces[g]
  BY DEF WithFace, TextureGood, Current, TextureShaped, TextureFields, SameSampler
<1> HIDE DEF y
<1>2. Current(y)
  BY <1>1, DroppedCurrent DEF TextureGood
<1>3. FacesAgree(y)
  BY <1>1 DEF FacesAgree, Agree, TextureGood, FacesGood
<1>4. FacesGood(y)
  BY <1>1, <1>3 DEF TextureGood, FacesGood, FlatOnFirst, EmptyUntilLive
<1>5. ShadowBytes(y) = ShadowBytes(x) - FaceBytes(x.faces[f]) + FaceBytes(new)
  <2> DEFINE b == [g \in Faces |-> FaceBytes(x.faces[g])]
             c == [g \in Faces |-> FaceBytes(y.faces[g])]
  <2>1. /\ \A g \in Faces : b[g] \in Nat
        /\ b[f] = FaceBytes(x.faces[f]) /\ c[f] = FaceBytes(new)
        /\ FaceBytes(new) \in Nat
        /\ \A g \in Faces \ {f} : c[g] = b[g]
    BY <1>1, ShadowFacts, BytesOfLevels DEF TextureGood, FaceGood
  <2>2. ShadowBytes(x) = OfFaces(b) /\ ShadowBytes(y) = OfFaces(c)
    BY DEF ShadowBytes
  <2> HIDE DEF b, c
  <2> QED
    BY <2>1, <2>2, OfFacesFacts
<1> QED
  BY <1>1, <1>2, <1>4, <1>5 DEF TextureGood, y

LEMMA OfFacesMonotone ==
    ASSUME NEW b, NEW c, NEW d, \A f \in Faces : b[f] \in Nat /\ c[f] \in Nat /\ d[f] \in Nat,
           \A f \in Faces : c[f] <= b[f] + d[f]
    PROVE  OfFaces(c) <= OfFaces(b) + OfFaces(d)
<1> DEFINE n == Len(FaceNames)
           p == [i \in 1..n |-> b[FaceNames[i]]]
           q == [i \in 1..n |-> c[FaceNames[i]]]
           r == [i \in 1..n |-> d[FaceNames[i]]]
           s == [i \in 1..n |-> p[i] + r[i]]
<1>1. /\ n \in Nat /\ p \in [1..n -> Int] /\ q \in [1..n -> Int] /\ r \in [1..n -> Int]
      /\ \A i \in 1..n : q[i] <= s[i]
  BY FaceFacts
<1>2. OfFaces(b) = Total(p, n) /\ OfFaces(c) = Total(q, n) /\ OfFaces(d) = Total(r, n)
  BY DEF OfFaces
<1> HIDE DEF p, q, r
<1>3. s \in [1..n -> Int] /\ Total(s, n) = Total(p, n) + Total(r, n)
  <2>1. s \in [1..n -> Int]
    BY <1>1
  <2> QED
    BY <1>1, <2>1, TotalSum
<1> HIDE DEF s
<1>4. Total(q, n) <= Total(s, n)
  BY <1>1, <1>3, TotalMonotone
<1> QED
  BY <1>2, <1>3, <1>4

(* Some faces are reduced and the image dropped.                            *)
WithChains(x, faces) ==
    [x EXCEPT !.image = NoImage,
              !.faces = [f \in Faces |-> IF f \in faces THEN WithGenerated(@[f]) ELSE @[f]]]
ChainBytes(x, faces) ==
    OfFaces([f \in Faces |-> IF f \in faces THEN GeneratedBytes(x.faces[f]) ELSE 0])

LEMMA ChainsGenerated ==
    ASSUME NEW x, TextureGood(x), NEW faces
    PROVE  LET y == WithChains(x, faces)
           IN /\ TextureGood(y) /\ y.name = x.name /\ y.target = x.target
              /\ ChainBytes(x, faces) \in Nat
              /\ ShadowBytes(y) <= ShadowBytes(x) + ChainBytes(x, faces)
<1> DEFINE y == WithChains(x, faces)
<1>1. /\ TextureShaped(y) /\ y.image = NoImage /\ SameSampler(y, x) /\ y.name = x.name
      /\ y.target = x.target
      /\ \A f \in Faces : y.faces[f] = IF f \in faces THEN WithGenerated(x.faces[f]) ELSE x.faces[f]
  BY DEF WithChains, TextureGood, Current, TextureShaped, TextureFields, SameSampler
<1> HIDE DEF y
<1>2. Current(y)
  BY <1>1, DroppedCurrent DEF TextureGood
<1>3. \A f \in Faces : FaceGood(x.faces[f])
  BY DEF TextureGood, FacesGood
<1>4. \A f \in Faces :
         /\ FaceGood(y.faces[f]) /\ SameBase(y.faces[f], x.faces[f])
         /\ FaceBytes(x.faces[f]) \in Nat /\ FaceBytes(y.faces[f]) \in Nat
         /\ GeneratedBytes(x.faces[f]) \in Nat
         /\ FaceBytes(y.faces[f]) <= FaceBytes(x.faces[f])
                + (IF f \in faces THEN GeneratedBytes(x.faces[f]) ELSE 0)
  <2> SUFFICES ASSUME NEW f \in Faces
               PROVE  /\ FaceGood(y.faces[f]) /\ SameBase(y.faces[f], x.faces[f])
                      /\ FaceBytes(x.faces[f]) \in Nat /\ FaceBytes(y.faces[f]) \in Nat
                      /\ GeneratedBytes(x.faces[f]) \in Nat
                      /\ FaceBytes(y.faces[f]) <= FaceBytes(x.faces[f])
                             + (IF f \in faces THEN GeneratedBytes(x.faces[f]) ELSE 0)
    OBVIOUS
  <2> DEFINE z == WithGenerated(x.faces[f])
  <2>1. /\ FaceGood(z) /\ SameBase(z, x.faces[f]) /\ GeneratedBytes(x.faces[f]) \in Nat
        /\ FaceBytes(z) <= FaceBytes(x.faces[f]) + GeneratedBytes(x.faces[f])
    BY <1>3, GeneratedFace
  <2>2. FaceBytes(z) \in Nat /\ FaceBytes(x.faces[f]) \in Nat
    BY <1>3, <2>1, BytesOfLevels DEF FaceGood
  <2>3. SameBase(x.faces[f], x.faces[f])
    BY DEF SameBase
  <2>4. CASE f \in faces
    BY <1>1, <2>1, <2>2, <2>4
  <2>5. CASE f \notin faces
    BY <1>1, <1>3, <2>1, <2>2, <2>3, <2>5
  <2> QED
    BY <2>4, <2>5
<1>5. FacesGood(y)
  BY <1>1, <1>4
     DEF TextureGood, FacesGood, FacesAgree, Agree, FlatOnFirst, EmptyUntilLive, SameBase
<1> DEFINE b == [f \in Faces |-> FaceBytes(x.faces[f])]
           c == [f \in Faces |-> FaceBytes(y.faces[f])]
           d == [f \in Faces |-> IF f \in faces THEN GeneratedBytes(x.faces[f]) ELSE 0]
<1>6. \A f \in Faces : b[f] \in Nat /\ c[f] \in Nat /\ d[f] \in Nat /\ c[f] <= b[f] + d[f]
  BY <1>4
<1>7. /\ ShadowBytes(x) = OfFaces(b) /\ ShadowBytes(y) = OfFaces(c)
      /\ ChainBytes(x, faces) = OfFaces(d)
  BY DEF ShadowBytes, ChainBytes
<1> HIDE DEF b, c, d
<1>8. OfFaces(c) <= OfFaces(b) + OfFaces(d) /\ OfFaces(d) \in Nat
  BY <1>6, OfFacesMonotone, OfFacesFacts
<1> QED
  BY <1>1, <1>2, <1>5, <1>7, <1>8 DEF TextureGood, y

-----------------------------------------------------------------------------
(***************************************************************************)
(* What is sampled.                                                        *)
(***************************************************************************)
LEMMA SampledCount ==
    ASSUME NEW faces, NEW used
    PROVE  LET chain == LevelCount(BaseSize(faces[First]))
           IN /\ SampledOf(faces, used) >= 1 /\ SampledOf(faces, used) \in Nat
              /\ (\A f \in used : \A l \in 0..(chain - 1) : Sized(faces[f], l)) =>
                    SampledOf(faces, used) >= chain
<1> DEFINE chain == LevelCount(BaseSize(faces[First]))
           S == {n \in 1..chain : \A f \in used, l \in 1..(n - 1) : Sized(faces[f], l)}
<1>1. chain \in 1..MaxLevels /\ chain \in Nat
  <2>1. chain \in 1..MaxLevels
    BY CountOfLevels
  <2> QED
    BY <2>1, TextureFacts
<1>2. SampledOf(faces, used) = Max(S)
  BY DEF SampledOf
<1>3. 1 \in S
  <2>1. 1..(1 - 1) = {}
    OBVIOUS
  <2>2. 1 \in 1..chain
    BY <1>1
  <2> QED
    BY <2>1, <2>2
<1>4. S \subseteq 0..chain
  BY <1>1
<1>5. (\A f \in used : \A l \in 0..(chain - 1) : Sized(faces[f], l)) => chain \in S
  <2>1. \A l \in 1..(chain - 1) : l \in 0..(chain - 1)
    BY <1>1
  <2>2. chain \in 1..chain
    BY <1>1
  <2> QED
    BY <2>1, <2>2
<1> HIDE DEF S, chain
<1>6. Max(S) \in S /\ \A k \in S : Max(S) >= k
  BY <1>1, <1>3, <1>4, Greatest
<1>7. Max(S) \in Nat
  <2>1. Max(S) \in 0..chain
    BY <1>4, <1>6
  <2> QED
    BY <1>1, <2>1
<1>8. /\ SampledOf(faces, used) >= 1 /\ SampledOf(faces, used) \in Nat
      /\ (\A f \in used : \A l \in 0..(chain - 1) : Sized(faces[f], l)) =>
            SampledOf(faces, used) >= chain
  BY <1>2, <1>3, <1>5, <1>6, <1>7
<1> QED
  BY <1>8 DEF chain

LEMMA HighestCount ==
    ASSUME NEW faces, NEW used
    PROVE  /\ HighestOf(faces, used) \in Nat
           /\ \A f \in used : Stored(faces[f], 0) =>
                 \A k \in Chain(faces[f]) : Sized(faces[f], k) => k < HighestOf(faces, used)
<1> DEFINE K == {k \in Levels : \E f \in used :
                    Stored(faces[f], 0) /\ k \in Chain(faces[f]) /\ Sized(faces[f], k)}
           S == {0} \cup {l + 1 : l \in K}
<1>1. HighestOf(faces, used) = Max(S)
  BY DEF HighestOf
<1>2. S \subseteq 0..MaxLevels /\ S # {}
  <2>1. \A l \in K : l + 1 \in 0..MaxLevels
    BY TextureFacts DEF Levels
  <2> QED
    BY <2>1, TextureFacts
<1>3. ASSUME NEW f \in used, Stored(faces[f], 0), NEW k \in Chain(faces[f]), Sized(faces[f], k)
      PROVE  k + 1 \in S /\ k \in Nat
  BY <1>3, ChainLevels, TextureFacts
<1> HIDE DEF S
<1>4. Max(S) \in S /\ \A k \in S : Max(S) >= k
  BY <1>2, Greatest, TextureFacts
<1>5. Max(S) \in Nat
  <2>1. Max(S) \in 0..MaxLevels
    BY <1>2, <1>4
  <2> QED
    BY <2>1, TextureFacts
<1> QED
  BY <1>1, <1>3, <1>4, <1>5

(* A cube map is summed up by one of the faces that are defined.            *)
LEMMA SummaryFace ==
    ASSUME NEW faces, \E f \in Faces : faces[f].defined
    PROVE  \E g \in Faces : SummaryOf("CUBE", faces) = faces[g] /\ faces[g].defined
<1> DEFINE S == {i \in DOMAIN FaceNames : faces[FaceNames[i]].defined}
<1>1. PICK f \in Faces : faces[f].defined
  OBVIOUS
<1>2. PICK i \in 1..Len(FaceNames) : f = FaceNames[i]
  BY FaceFacts
<1>3. S # {} /\ S \subseteq Nat
  BY <1>1, <1>2, FaceFacts
<1>4. Min(S) \in S
  <2>1. PICK m \in S : \A k \in S : m <= k
    BY <1>3, MinElement
  <2> QED
    BY <2>1 DEF Min
<1>5. SummaryOf("CUBE", faces) = faces[FaceNames[Min(S)]]
  BY <1>1, <1>2, FaceFacts DEF SummaryOf
<1> QED
  BY <1>4, <1>5, FaceFacts

(* A texture that may be sampled, and an image that is its current one.     *)
LastRead(x, size) == IF Sampler(x.parameters).mip = "NONE" THEN 0 ELSE LevelCount(size) - 1
LEMMA ImageSampled ==
    ASSUME NEW x, TextureGood(x), x.target \in Bindings, Sampleable(x),
           NEW image, [image EXCEPT !.drawn = {}] = WouldBe(x)
    PROVE  \A f \in UsedFaces(x.target) :
              /\ BaseSize(x.faces[f]) = image.size
              /\ \A l \in 0..LastRead(x, image.size) :
                    /\ l < image.levels /\ Sized(x.faces[f], l)
                    /\ image.texels[f][l] = x.faces[f].levels[l].texel
<1> DEFINE used == UsedFaces(x.target)
           summary == SummaryOf(x.target, x.faces)
           count == CountOf(x.target, x.faces, x.renderable)
           size == BaseSize(summary)
           texels == [f \in Faces |-> [l \in Levels |->
                        IF f \in used /\ l < count /\ Stored(x.faces[f], l)
                        THEN x.faces[f].levels[l].texel ELSE None]]
           format == RinGpuFormat(summary.format)
<1>0. used \subseteq Faces /\ First \in used
  BY TextureFacts DEF UsedFaces
<1>1. image.size = size /\ image.levels = count /\ image.texels = texels
  <2>1. WouldBe(x) = [size |-> size, format |-> format, target |-> x.renderable,
                      levels |-> count, texels |-> texels, drawn |-> {}]
    BY DEF WouldBe, ImageFor, ImageOf
  <2> HIDE DEF size, format, texels, count
  <2> DEFINE plain == [image EXCEPT !.drawn = {}]
  <2>2. plain.size = size /\ plain.levels = count /\ plain.texels = texels
        /\ DOMAIN plain = {"size", "format", "target", "levels", "texels", "drawn"}
    BY <2>1
  <2>3. DOMAIN image = {"size", "format", "target", "levels", "texels", "drawn"}
    BY <2>2
  <2> QED
    BY <2>2, <2>3
<1>2. \A f \in used : Stored(x.faces[f], 0) /\ BaseSize(x.faces[f]) = size
  <2>1. CASE x.target = "CUBE"
    <3>1. CubeBaseImagesComplete(x)
      BY <2>1 DEF Sampleable, CubeLevel0Complete
    <3>2. \A f \in Faces : Stored(x.faces[f], 0) /\ BaseSize(x.faces[f]) = BaseSize(x.faces[First])
      BY <3>1 DEF CubeBaseImagesComplete, Agree
    <3>3. \E f \in Faces : x.faces[f].defined
      BY <3>2, TextureFacts DEF TextureGood, FacesGood, FaceGood, FaceNamed
    <3>4. PICK g \in Faces : summary = x.faces[g]
      BY <2>1, <3>3, SummaryFace
    <3> QED
      BY <1>0, <3>2, <3>4
  <2>2. CASE x.target # "CUBE"
    <3>1. Stored(x.faces[First], 0)
      BY <2>2 DEF Sampleable, Level0Complete
    <3>2. summary = x.faces[First] /\ used = {First}
      BY <2>2 DEF SummaryOf, UsedFaces
    <3> QED
      BY <3>1, <3>2
  <2> QED
    BY <2>1, <2>2
<1>3. Mipmapped(x.parameters) => \A f \in used : \A l \in Chain(x.faces[f]) : Sized(x.faces[f], l)
  <2>1. CASE x.target = "CUBE"
    BY <1>0, <2>1 DEF Sampleable, CubeLevel0Complete
  <2>2. CASE x.target # "CUBE"
    BY <2>2 DEF Sampleable, Level0Complete, UsedFaces
  <2> QED
    BY <2>1, <2>2
<1>4. Sampler(x.parameters).mip # "NONE" => Mipmapped(x.parameters)
  BY DEF Sampler, SamplerMipFilter, Mipmapped
<1> DEFINE chain == LevelCount(size)
           last == LastRead(x, size)
<1>5. chain \in Nat /\ chain >= 1 /\ \A f \in used : Chain(x.faces[f]) = 0..(chain - 1)
  <2>1. chain \in 1..MaxLevels
    BY CountOfLevels
  <2>2. chain \in Nat /\ chain >= 1
    BY <2>1, TextureFacts
  <2> QED
    BY <1>2, <2>2 DEF Chain
<1>6. \A l \in 0..last : l \in Nat /\ l \in 0..(chain - 1) /\ l \in Levels
                           /\ (l # 0 => Sampler(x.parameters).mip # "NONE")
  <2> SUFFICES ASSUME NEW l \in 0..last
               PROVE  l \in Nat /\ l \in 0..(chain - 1) /\ l \in Levels
                           /\ (l # 0 => Sampler(x.parameters).mip # "NONE")
    OBVIOUS
  <2>1. l \in Nat /\ l \in 0..(chain - 1) /\ (l # 0 => Sampler(x.parameters).mip # "NONE")
    BY <1>5 DEF LastRead
  <2>2. l \in Chain(x.faces[First])
    BY <1>0, <1>5, <2>1
  <2> QED
    BY <2>1, <2>2, ChainLevels
<1> HIDE DEF chain, last
<1>7. \A f \in used : \A l \in 0..last : Sized(x.faces[f], l) /\ Stored(x.faces[f], l)
  <2> SUFFICES ASSUME NEW f \in used, NEW l \in 0..last PROVE Sized(x.faces[f], l)
    BY DEF Sized
  <2>1. CASE l = 0
    BY <1>2, <2>1 DEF Sized
  <2>2. CASE l # 0
    BY <1>3, <1>4, <1>5, <1>6, <2>2
  <2> QED
    BY <2>1, <2>2
<1>8. \A l \in 0..last : l < count
  <2> SUFFICES ASSUME NEW l \in 0..last PROVE l < count
    OBVIOUS
  <2>1. l \in Chain(x.faces[First])
    BY <1>0, <1>5, <1>6
  <2>2. \A u : First \in u => l < HighestOf(x.faces, u)
    BY <1>0, <1>2, <1>7, <2>1, HighestCount
  <2>3. CASE x.target = "CUBE" /\ x.renderable
    BY <2>2, <2>3, TextureFacts DEF CountOf
  <2>4. CASE x.target = "CUBE" /\ ~x.renderable
    <3>1. count = chain
      BY <2>4 DEF CountOf, chain
    <3> QED
      BY <1>5, <1>6, <3>1
  <2>5. CASE x.target # "CUBE" /\ (x.renderable \/ x.faces[First].format.base \in DepthFormats)
    BY <2>2, <2>5 DEF CountOf
  <2>6. CASE x.target # "CUBE" /\ ~(x.renderable \/ x.faces[First].format.base \in DepthFormats)
    <3>1. count = SampledOf(x.faces, {First}) /\ used = {First}
      BY <2>6 DEF CountOf, UsedFaces
    <3>2. LevelCount(BaseSize(x.faces[First])) = chain
      BY <1>0, <1>2 DEF chain
    <3>3. CASE l = 0
      <4>1. SampledOf(x.faces, {First}) >= 1 /\ SampledOf(x.faces, {First}) \in Nat
        BY SampledCount
      <4> QED
        BY <3>1, <3>3, <4>1
    <3>4. CASE l # 0
      <4>1. \A f \in {First} : \A k \in 0..(chain - 1) : Sized(x.faces[f], k)
        BY <1>3, <1>4, <1>5, <1>6, <3>1, <3>4
      <4>2. SampledOf(x.faces, {First}) >= chain /\ SampledOf(x.faces, {First}) \in Nat
        BY <3>2, <4>1, SampledCount
      <4> QED
        BY <1>5, <1>6, <3>1, <4>2
    <3> QED
      BY <3>3, <3>4
  <2> QED
    BY <2>3, <2>4, <2>5, <2>6
<1>9. \A f \in used : \A l \in 0..last : texels[f][l] = x.faces[f].levels[l].texel
  BY <1>0, <1>6, <1>7, <1>8
<1> HIDE DEF texels, count
<1> QED
  BY <1>1, <1>2, <1>7, <1>8, <1>9 DEF last

-----------------------------------------------------------------------------
(***************************************************************************)
(* The state.  The units name live textures of their kinds, and what is    *)
(* charged covers every shadow.                                            *)
(***************************************************************************)
TexturesGood == DOMAIN texture = Textures /\ \A t \in Textures : TextureGood(texture[t])
LiveAs(texs, t, binding) ==
    t \in Textures /\ texs[t].name = "live" /\ texs[t].target = binding
BoundAs(t, binding) == LiveAs(texture, t, binding)
UnitsGood ==
    /\ active \in Units /\ DOMAIN units = Units
    /\ \A u \in Units :
          /\ DOMAIN units[u] = {"flat", "cube"}
          /\ units[u].flat # None => BoundAs(units[u].flat, "2D")
          /\ units[u].cube # None => BoundAs(units[u].cube, "CUBE")
ChargeGood == charged \in Int /\ ChargeCovers
TexturesInvariant == TexturesGood /\ UnitsGood /\ ChargeGood /\ SamplesWhole

LEMMA NoSample ==
    ASSUME sampled' = NothingSampled
    PROVE  SamplesWhole'
  BY DEF SamplesWhole

LEMMA OwnerFacts ==
    ASSUME TexturesInvariant, NEW target \in Targets, Owner(target) # None
    PROVE  /\ BoundAs(Owner(target), BindingOf(target)) /\ FaceOf(target) \in Faces
           /\ TextureGood(texture[Owner(target)]) /\ DOMAIN texture = Textures
           /\ FaceUnder(target) = texture[Owner(target)].faces[FaceOf(target)]
           /\ FaceGood(FaceUnder(target))
           /\ IsFace(target) => FaceOf(target) = target /\ BindingOf(target) = "CUBE"
           /\ ~IsFace(target) => FaceOf(target) = First /\ BindingOf(target) = "2D"
<1>1. /\ IsFace(target) => FaceOf(target) = target /\ BindingOf(target) = "CUBE"
      /\ ~IsFace(target) => FaceOf(target) = First /\ BindingOf(target) = "2D"
  BY DEF FaceOf, BindingOf
<1>2. FaceOf(target) \in Faces
  BY <1>1, TextureFacts DEF Targets, IsFace
<1>3. BoundAs(Owner(target), BindingOf(target))
  BY <1>1 DEF Owner, BoundTo, TexturesInvariant, UnitsGood
<1>4. TextureGood(texture[Owner(target)]) /\ DOMAIN texture = Textures
  BY <1>3 DEF LiveAs, BoundAs, TexturesInvariant, TexturesGood
<1>5. FaceUnder(target) = texture[Owner(target)].faces[FaceOf(target)]
  BY DEF FaceUnder
<1>6. FaceGood(FaceUnder(target))
  BY <1>2, <1>4, <1>5 DEF TextureGood, FacesGood
<1> QED
  BY <1>1, <1>2, <1>3, <1>4, <1>5, <1>6

LEMMA UnderGood ==
    ASSUME TexturesInvariant, NEW target \in Targets
    PROVE  FaceGood(FaceUnder(target))
<1>1. CASE Owner(target) = None
  BY <1>1, EmptyFace DEF FaceUnder
<1>2. CASE Owner(target) # None
  BY <1>2, OwnerFacts
<1> QED
  BY <1>1, <1>2

(* The bytes of all shadows when one texture is another.                    *)
LEMMA AllBytes ==
    ASSUME TexturesGood, NEW t \in Textures, NEW y, ShadowBytes(y) \in Nat,
           texture' = [texture EXCEPT ![t] = y]
    PROVE  /\ AllShadowBytes \in Int
           /\ AllShadowBytes' = AllShadowBytes - ShadowBytes(texture[t]) + ShadowBytes(y)
<1> DEFINE s == [u \in Textures |-> ShadowBytes(texture[u])]
           r == [u \in Textures |-> ShadowBytes(texture'[u])]
<1>1. \A u \in Textures : ShadowBytes(texture[u]) \in Nat
  BY ShadowFacts DEF TexturesGood, TextureGood
<1>2. \A u \in Textures : texture'[u] = IF u = t THEN y ELSE texture[u]
  BY DEF TexturesGood
<1>3. r = [s EXCEPT ![t] = ShadowBytes(y)]
  <2>1. ASSUME NEW u \in Textures
        PROVE  ShadowBytes(texture'[u]) =
                   IF u = t THEN ShadowBytes(y) ELSE ShadowBytes(texture[u])
    <3>1. CASE u = t
      BY <1>2, <3>1
    <3>2. CASE u # t
      BY <1>2, <3>2
    <3> QED
      BY <3>1, <3>2
  <2>2. \A u \in Textures : r[u] = IF u = t THEN ShadowBytes(y) ELSE s[u]
    BY <2>1
  <2> QED
    BY <2>2
<1>4. s \in [1..TextureCount -> Int] /\ t \in 1..TextureCount /\ s[t] = ShadowBytes(texture[t])
  BY <1>1 DEF Textures
<1>5. AllShadowBytes = Total(s, TextureCount) /\ AllShadowBytes' = Total(r, TextureCount)
  BY DEF AllShadowBytes
<1> HIDE DEF s, r
<1>6. /\ Total(s, TextureCount) \in Int
      /\ Total(r, TextureCount) = Total(s, TextureCount) - s[t] + ShadowBytes(y)
  <2>1. ShadowBytes(y) \in Int
    OBVIOUS
  <2> QED
    BY <1>3, <1>4, <2>1, TotalUpdate, TextureFacts
<1> QED
  BY <1>4, <1>5, <1>6

(* One texture changes, and the charge with it.                             *)
LEMMA OneCharged ==
    ASSUME TexturesInvariant, NEW t \in Textures, NEW y, TextureGood(y),
           texture' = [texture EXCEPT ![t] = y], charged' \in Int, charged' <= Budget,
           ShadowBytes(y) - ShadowBytes(texture[t]) <= charged' - charged
    PROVE  /\ \A u \in Textures : texture'[u] = IF u = t THEN y ELSE texture[u]
           /\ TexturesGood' /\ ChargeGood'
<1>1. \A u \in Textures : texture'[u] = IF u = t THEN y ELSE texture[u]
  BY DEF TexturesInvariant, TexturesGood
<1>2. TexturesGood'
  <2>1. DOMAIN texture' = Textures
    BY DEF TexturesInvariant, TexturesGood
  <2> QED
    BY <1>1, <2>1 DEF TexturesInvariant, TexturesGood
<1>3. ShadowBytes(y) \in Nat /\ ShadowBytes(texture[t]) \in Nat
  BY ShadowFacts DEF TexturesInvariant, TexturesGood, TextureGood
<1>4. /\ AllShadowBytes \in Int
      /\ AllShadowBytes' = AllShadowBytes - ShadowBytes(texture[t]) + ShadowBytes(y)
  BY <1>3, AllBytes DEF TexturesInvariant
<1>5. charged \in Int /\ AllShadowBytes <= charged
  BY DEF TexturesInvariant, ChargeGood, ChargeCovers
<1>6. AllShadowBytes' <= charged'
  BY <1>3, <1>4, <1>5
<1>7. ChargeGood'
  BY <1>6 DEF ChargeGood, ChargeCovers
<1> QED
  BY <1>1, <1>2, <1>7

(* It is the same one to the units.                                         *)
LEMMA OneTexture ==
    ASSUME TexturesInvariant, NEW t \in Textures, NEW y, TextureGood(y),
           texture' = [texture EXCEPT ![t] = y],
           y.name = texture[t].name, y.target = texture[t].target,
           UNCHANGED <<units, active>>, charged' \in Int, charged' <= Budget,
           ShadowBytes(y) - ShadowBytes(texture[t]) <= charged' - charged
    PROVE  TexturesGood' /\ UnitsGood' /\ ChargeGood'
<1>1. /\ \A u \in Textures : texture'[u] = IF u = t THEN y ELSE texture[u]
      /\ TexturesGood' /\ ChargeGood'
  BY OneCharged
<1>2. \A u, binding : BoundAs(u, binding) => BoundAs(u, binding)'
  BY <1>1 DEF LiveAs, BoundAs
<1>3. UnitsGood'
  BY <1>2 DEF TexturesInvariant, UnitsGood
<1> QED
  BY <1>1, <1>3

(* The faces, the name and the target are kept, and with them the charge.   *)
LEMMA KeptStep ==
    ASSUME TexturesInvariant, NEW t \in Textures, NEW y, Current(y),
           texture' = [texture EXCEPT ![t] = y], y.faces = texture[t].faces,
           y.name = texture[t].name, y.target = texture[t].target,
           UNCHANGED <<units, active, charged>>
    PROVE  TexturesGood' /\ UnitsGood' /\ ChargeGood'
<1>1. TextureGood(texture[t])
  BY DEF TexturesInvariant, TexturesGood
<1>2. TextureGood(y) /\ ShadowBytes(y) = ShadowBytes(texture[t])
  BY <1>1, SameFaces
<1>3. charged \in Int /\ charged <= Budget /\ ShadowBytes(texture[t]) \in Nat
  BY <1>1, ShadowFacts DEF TexturesInvariant, ChargeGood, ChargeCovers, TextureGood
<1>4. charged' \in Int /\ charged' <= Budget
      /\ ShadowBytes(y) - ShadowBytes(texture[t]) <= charged' - charged
  BY <1>2, <1>3
<1> QED
  BY <1>2, <1>4, OneTexture

LEMMA NothingStep ==
    ASSUME TexturesInvariant, UNCHANGED <<texture, units, active, charged>>,
           sampled' = NothingSampled
    PROVE  TexturesInvariant'
<1>1. TexturesGood' /\ UnitsGood'
  BY DEF TexturesInvariant, TexturesGood, UnitsGood, LiveAs, BoundAs
<1>2. AllShadowBytes' = AllShadowBytes
  BY DEF AllShadowBytes
<1>3. ChargeGood'
  BY <1>2 DEF TexturesInvariant, ChargeGood, ChargeCovers
<1> QED
  BY <1>1, <1>3, NoSample DEF TexturesInvariant

LEMMA RefusedStep ==
    ASSUME TexturesInvariant, NEW code, Refused(code), sampled' = NothingSampled
    PROVE  TexturesInvariant'
  BY NothingStep DEF Refused

LEMMA AbandonedStep ==
    ASSUME TexturesInvariant, NEW target \in Targets, NEW code, Abandoned(target, code),
           IsFace(target) => Owner(target) # None, sampled' = NothingSampled
    PROVE  TexturesInvariant'
<1>1. CASE ~IsFace(target)
  BY <1>1, NothingStep DEF Abandoned, Prepared
<1>2. CASE IsFace(target)
  <2> DEFINE t == Owner(target)
             x == texture[t]
             y == [x EXCEPT !.image = NoImage]
  <2>1. BoundAs(t, "CUBE") /\ TextureGood(x) /\ DOMAIN texture = Textures
    BY <1>2, OwnerFacts
  <2>2. texture' = [texture EXCEPT ![t] = y]
    BY <1>2, <2>1 DEF Abandoned, Prepared, Discarded, LiveAs, BoundAs
  <2>3. /\ TextureShaped(y) /\ SameBuild(y, x) /\ SameSampler(y, x) /\ y.name = x.name
        /\ y.image = NoImage
    BY <2>1, ImageEdited DEF TextureGood, Current
  <2> HIDE DEF y
  <2>4. Current(y)
    BY <2>1, <2>3, DroppedCurrent DEF TextureGood
  <2>5. TextureGood(y) /\ ShadowBytes(y) = ShadowBytes(x)
    BY <2>1, <2>3, <2>4, SameFaces DEF SameBuild
  <2>6. UNCHANGED <<units, active>> /\ charged' = charged /\ t \in Textures /\ x.target = "CUBE"
    BY <2>1 DEF Abandoned, LiveAs, BoundAs
  <2>7. charged \in Int /\ charged <= Budget /\ ShadowBytes(x) \in Nat
    BY <2>1, ShadowFacts DEF TexturesInvariant, ChargeGood, ChargeCovers, TextureGood
  <2>8. y.target = x.target
    BY <2>3 DEF SameBuild
  <2> HIDE DEF t, x
  <2>9. charged' \in Int /\ charged' <= Budget /\ ShadowBytes(y) - ShadowBytes(x) <= charged' - charged
    BY <2>5, <2>6, <2>7
  <2>10. TexturesGood' /\ UnitsGood' /\ ChargeGood'
    BY <2>2, <2>3, <2>5, <2>6, <2>8, <2>9, OneTexture DEF x
  <2> QED
    BY <2>10, NoSample DEF TexturesInvariant
<1> QED
  BY <1>1, <1>2

(* A face is replaced by a good one that the other faces agree with.        *)
LEMMA ReplaceStep ==
    ASSUME TexturesInvariant, NEW target \in Targets, Owner(target) # None, NEW new,
           Replace(target, new), sampled' = NothingSampled, FaceGood(new),
           \A g \in Faces \ {target} :
               IsFace(target) /\ texture[Owner(target)].faces[g].defined /\ new.defined
                   => Agree(new, texture[Owner(target)].faces[g]),
           charged - FaceBytes(FaceUnder(target)) + FaceBytes(new) <= Budget
    PROVE  TexturesInvariant'
<1> DEFINE t == Owner(target)
           x == texture[t]
           f == FaceOf(target)
           y == WithFace(x, f, new)
<1>1. /\ BoundAs(t, BindingOf(target)) /\ f \in Faces /\ TextureGood(x) /\ DOMAIN texture = Textures
      /\ FaceUnder(target) = x.faces[f]
      /\ IsFace(target) => f = target /\ BindingOf(target) = "CUBE"
      /\ ~IsFace(target) => f = First /\ BindingOf(target) = "2D"
  BY OwnerFacts
<1>2. t \in Textures /\ x.name = "live" /\ (x.target # "CUBE" => f = First)
  BY <1>1 DEF LiveAs, BoundAs
<1>3. texture' = [texture EXCEPT ![t] = y]
  BY <1>1, <1>2 DEF Replace, Discarded, WithFace
<1>4. \A g \in Faces \ {f} : x.faces[g].defined /\ new.defined => Agree(new, x.faces[g])
  <2>1. CASE IsFace(target)
    BY <1>1, <2>1
  <2>2. CASE ~IsFace(target)
    BY <1>1, <2>2 DEF LiveAs, BoundAs, TextureGood, FacesGood, FlatOnFirst
  <2> QED
    BY <2>1, <2>2
<1>5. /\ charged' = charged - FaceBytes(x.faces[f]) + FaceBytes(new) /\ dirty'
      /\ UNCHANGED <<units, active>>
  BY <1>1 DEF Replace
<1>6. charged \in Int /\ FaceBytes(x.faces[f]) \in Nat /\ FaceBytes(new) \in Nat
      /\ ShadowBytes(x) \in Nat
  BY <1>1, ShadowFacts, BytesOfLevels
     DEF TexturesInvariant, ChargeGood, TextureGood, FacesGood, FaceGood
<1> HIDE DEF t, x, f, y
<1>7. /\ TextureGood(y) /\ y.name = x.name /\ y.target = x.target
      /\ ShadowBytes(y) = ShadowBytes(x) - FaceBytes(x.faces[f]) + FaceBytes(new)
  BY <1>1, <1>2, <1>4, FaceReplaced DEF y
<1>8. charged' \in Int /\ charged' <= Budget /\ ShadowBytes(y) - ShadowBytes(x) <= charged' - charged
  BY <1>1, <1>5, <1>6, <1>7
<1>9. TexturesGood' /\ UnitsGood' /\ ChargeGood'
  BY <1>2, <1>3, <1>5, <1>7, <1>8, OneTexture DEF x
<1> QED
  BY <1>9, NoSample DEF TexturesInvariant

(* A level is defined: a base that the other faces allow, or another level  *)
(* of the chain of a base of that format, within the budget.                *)
LEMMA LevelStep ==
    ASSUME TexturesInvariant, NEW target \in Targets, Owner(target) # None,
           NEW level \in Levels, NEW size, IsSize(size), NEW format, NEW texel,
           format.compressed # None => ~format.srgb,
           IsFace(target) /\ level = 0 =>
               CubeBaseCompatible(texture[Owner(target)], target, size, format),
           level # 0 => /\ level \in Chain(FaceUnder(target)) /\ format = FaceUnder(target).format
                        /\ size = LevelSize(BaseSize(FaceUnder(target)), level),
           charged + Area(size) * StorageTexelBytes(format) <= Budget,
           Replace(target, WithLevel(FaceUnder(target), level, size, format, texel)),
           sampled' = NothingSampled
    PROVE  TexturesInvariant'
<1> DEFINE face == FaceUnder(target)
           x == texture[Owner(target)]
           new == WithLevel(face, level, size, format, texel)
           bytes == Area(size) * StorageTexelBytes(format)
<1>1. /\ FaceGood(face) /\ FaceOf(target) \in Faces /\ face = x.faces[FaceOf(target)]
      /\ IsFace(target) => FaceOf(target) = target
      /\ FacesGood(x)
  BY OwnerFacts DEF TextureGood
<1>2. FaceBytes(face) \in Nat /\ LevelBytes(face, level) \in Nat /\ charged \in Int /\ bytes \in Nat
  <2>1. FaceBytes(face) \in Nat /\ LevelBytes(face, level) \in Nat
    BY <1>1, BytesOfLevels DEF FaceGood
  <2>2. Area(size) \in Nat /\ StorageTexelBytes(format) \in Nat
    BY AreaNat, StorageNat
  <2> QED
    BY <2>1, <2>2 DEF TexturesInvariant, ChargeGood
<1>3. CASE level = 0
  <2>1. /\ FaceGood(new) /\ new.format = format /\ BaseSize(new) = size /\ FaceBytes(new) = bytes
    BY <1>3, Based
  <2>2. \A g \in Faces \ {target} :
            IsFace(target) /\ x.faces[g].defined /\ new.defined => Agree(new, x.faces[g])
    BY <1>3, <2>1 DEF CubeBaseCompatible, Agree
  <2> HIDE DEF new, bytes
  <2>3. charged - FaceBytes(face) + FaceBytes(new) <= Budget
    BY <1>2, <2>1, TextureFacts DEF bytes
  <2> QED
    BY <2>1, <2>2, <2>3, ReplaceStep DEF new
<1>4. CASE level # 0
  <2>1. /\ FaceGood(new) /\ SameBase(new, face)
        /\ FaceBytes(new) = FaceBytes(face) - LevelBytes(face, level) + bytes
    BY <1>1, <1>4, Extended
  <2>2. \A g \in Faces \ {target} :
            IsFace(target) /\ x.faces[g].defined /\ new.defined => Agree(new, x.faces[g])
    BY <1>1, <2>1 DEF SameBase, Agree, FacesGood, FacesAgree
  <2> HIDE DEF new
  <2>3. charged + bytes <= Budget
    OBVIOUS
  <2> HIDE DEF bytes
  <2>4. charged - FaceBytes(face) + FaceBytes(new) <= Budget
    BY <1>2, <2>1, <2>3, TextureFacts
  <2> QED
    BY <2>1, <2>2, <2>4, ReplaceStep DEF new
<1> QED
  BY <1>3, <1>4

(* A part of a stored level is written, or nothing of it.                   *)
LEMMA PartStep ==
    ASSUME TexturesInvariant, NEW target \in Targets, IsFace(target) => Owner(target) # None,
           NEW level \in Levels, Stored(FaceUnder(target), level), NEW region, NEW texel,
           Written(target, level, region, texel), sampled' = NothingSampled
    PROVE  TexturesInvariant'
<1> DEFINE face == FaceUnder(target)
           x == texture[Owner(target)]
           new == Updated(face, level, region, texel)
<1>1. Owner(target) # None
  BY EmptyFace DEF FaceUnder, NoFace, NoLevel, Stored, Area
<1>2. /\ FaceGood(face) /\ FaceOf(target) \in Faces /\ face = x.faces[FaceOf(target)]
      /\ IsFace(target) => FaceOf(target) = target
      /\ FacesGood(x)
  BY <1>1, OwnerFacts DEF TextureGood
<1>3. CASE Area(region.size) = 0
  BY <1>3, AbandonedStep DEF Written
<1>4. CASE Area(region.size) # 0
  <2>1. FaceGood(new) /\ SameBase(new, face) /\ FaceBytes(new) <= FaceBytes(face)
    BY <1>2, UpdatedFace
  <2>2. Replace(target, new)
    BY <1>4 DEF Written
  <2>3. \A g \in Faces \ {target} :
            IsFace(target) /\ x.faces[g].defined /\ new.defined => Agree(new, x.faces[g])
    BY <1>2, <2>1 DEF SameBase, Agree, FacesGood, FacesAgree
  <2> HIDE DEF new
  <2>4. FaceBytes(face) \in Nat /\ FaceBytes(new) \in Nat /\ charged \in Int /\ charged <= Budget
    BY <1>2, <2>1, BytesOfLevels DEF FaceGood, TexturesInvariant, ChargeGood, ChargeCovers
  <2>5. charged - FaceBytes(face) + FaceBytes(new) <= Budget
    BY <2>1, <2>4, TextureFacts
  <2> QED
    BY <1>1, <2>1, <2>2, <2>3, <2>5, ReplaceStep
<1> QED
  BY <1>3, <1>4

-----------------------------------------------------------------------------
(***************************************************************************)
(* The calls.                                                              *)
(***************************************************************************)
ValidSize(size) == size \in Int \X Int /\ SizeValid(size)
LEMMA SizeIs == ASSUME NEW size, ValidSize(size) PROVE IsSize(size)
  BY TextureFacts DEF ValidSize, SizeValid, IsSize

LEMMA FormatIs ==
    ASSUME NEW base, NEW type, NEW srgb, NEW compressed
    PROVE  LET f == Format(base, type, srgb, compressed)
           IN f.base = base /\ f.type = type /\ f.srgb = srgb /\ f.compressed = compressed
  BY DEF Format

LEMMA RequestedPlain ==
    ASSUME NEW internal, NEW format, NEW type
    PROVE  RequestedFormat(internal, format, type).compressed = None
<1> DEFINE color == ColorStorage(internal, format, type)
           depth == DepthStorage(internal, format, type)
<1>1. \E b, k, s : RequestedFormat(internal, format, type) = Format(b, k, s, None)
  <2>1. CASE internal \in DOMAIN SrgbStorage /\ type = "UBYTE" /\ format = internal
    BY <2>1 DEF RequestedFormat
  <2>2. CASE internal \in DOMAIN SrgbStorage /\ ~(type = "UBYTE" /\ format = internal)
    BY <2>2 DEF RequestedFormat, NoFormat
  <2>3. CASE internal \notin DOMAIN SrgbStorage
    <3> HIDE DEF color, depth
    <3>1. \/ RequestedFormat(internal, format, type) = Format(color, type, FALSE, None)
          \/ RequestedFormat(internal, format, type) = Format(depth, None, FALSE, None)
          \/ RequestedFormat(internal, format, type) = NoFormat
      BY <2>3 DEF RequestedFormat, color, depth
    <3> QED
      BY <3>1 DEF NoFormat
  <2> QED
    BY <2>1, <2>2, <2>3
<1> QED
  BY <1>1, FormatIs

LEMMA CubeAllowed ==
    ASSUME NEW target, NEW level, NEW size, NEW format,
           CubeImageError(target, level, size, format) = "NO_ERROR", IsFace(target)
    PROVE  /\ Owner(target) # None
           /\ level = 0 => CubeBaseCompatible(texture[Owner(target)], target, size, format)
  BY DEF CubeImageError

LEMMA LevelAllowed ==
    ASSUME NEW face, NEW level, NEW size, NEW format,
           LevelError(face, level, size, format) = "NO_ERROR", level # 0
    PROVE  /\ format = face.format /\ level \in Chain(face) /\ size = LevelSize(BaseSize(face), level)
           /\ Stored(face, 0)
  BY DEF LevelError

LEMMA ImageAllowed ==
    ASSUME TexturesInvariant, NEW target, NEW level, NEW size \in Int \X Int, NEW format,
           NEW given, NEW needed, NEW held \in Nat,
           ImageError(target, level, size, format, given, needed, held) = "NO_ERROR"
    PROVE  /\ level \in Levels /\ IsSize(size) /\ Owner(target) # None
           /\ LevelError(FaceUnder(target), level, size, format) = "NO_ERROR"
           /\ charged + Area(size) * StorageTexelBytes(format) <= Budget
<1>1. /\ level \in Levels /\ SizeValid(size) /\ Owner(target) # None
      /\ LevelError(FaceUnder(target), level, size, format) = "NO_ERROR"
      /\ Reserved(held + Area(size) * StorageTexelBytes(format))
  BY DEF ImageError
<1>2. IsSize(size)
  BY <1>1, SizeIs DEF ValidSize
<1> DEFINE bytes == Area(size) * StorageTexelBytes(format)
<1>3. bytes \in Nat
  <2>1. Area(size) \in Nat /\ StorageTexelBytes(format) \in Nat
    BY <1>2, AreaNat, StorageNat
  <2> QED
    BY <2>1
<1>4. charged + (held + bytes) <= Budget /\ charged \in Int
  BY <1>1 DEF Reserved, TexturesInvariant, ChargeGood
<1> HIDE DEF bytes
<1>5. charged + bytes <= Budget
  BY <1>3, <1>4, TextureFacts
<1> QED
  BY <1>1, <1>2, <1>5 DEF bytes

(* A call that is refused, or fails once the face has been entered.         *)
LEMMA FailedStep ==
    ASSUME TexturesInvariant, NEW target \in Targets, NEW outer, NEW inner,
           outer = "NO_ERROR" /\ IsFace(target) => Owner(target) # None,
           sampled' = NothingSampled,
           Refused(outer) \/ (outer = "NO_ERROR" /\ Abandoned(target, inner))
    PROVE  TexturesInvariant'
<1>1. CASE Refused(outer)
  BY <1>1, RefusedStep
<1>2. CASE outer = "NO_ERROR" /\ Abandoned(target, inner)
  BY <1>2, AbandonedStep
<1> QED
  BY <1>1, <1>2

LEMMA TexImageStep ==
    ASSUME TexturesInvariant, NEW target \in Targets, NEW level, NEW size \in Int \X Int,
           NEW request, NEW given, NEW pixel, TexImage(target, level, size, request, given, pixel)
    PROVE  TexturesInvariant'
<1> DEFINE format == RequestedFormat(request[1], request[2], request[3])
           outer == CubeImageError(target, level, size, format)
           needed == IF SizeValid(size)
                     THEN RequiredSourceBytes(size[1], size[2], request[2], request[3]) ELSE 0
           inner == IF outer # "NO_ERROR" THEN outer
                    ELSE ImageError(target, level, size, format, given, needed, 0)
           texel == IF given = None THEN DefaultTexel(format) ELSE StoredTexel(format, request[2], pixel)
           new == WithLevel(FaceUnder(target), level, size, format, texel)
<1>1. /\ sampled' = NothingSampled
      /\ \/ Refused(outer)
         \/ outer = "NO_ERROR" /\ Abandoned(target, inner)
         \/ outer = "NO_ERROR" /\ inner = "NO_ERROR" /\ Replace(target, new)
  BY DEF TexImage, Checked, Counted
<1>2. format.compressed = None
  BY RequestedPlain
<1> HIDE DEF format, needed, texel
<1>3. outer = "NO_ERROR" /\ IsFace(target) =>
         /\ Owner(target) # None
         /\ level = 0 => CubeBaseCompatible(texture[Owner(target)], target, size, format)
  BY CubeAllowed
<1>4. CASE Refused(outer) \/ (outer = "NO_ERROR" /\ Abandoned(target, inner))
  <2> HIDE DEF inner, outer
  <2> QED
    BY <1>1, <1>3, <1>4, FailedStep
<1>5. CASE outer = "NO_ERROR" /\ inner = "NO_ERROR" /\ Replace(target, new)
  <2>1. ImageError(target, level, size, format, given, needed, 0) = "NO_ERROR"
    BY <1>5
  <2>2. /\ level \in Levels /\ IsSize(size) /\ Owner(target) # None
        /\ LevelError(FaceUnder(target), level, size, format) = "NO_ERROR"
        /\ charged + Area(size) * StorageTexelBytes(format) <= Budget
    BY <2>1, ImageAllowed
  <2>3. level # 0 => /\ level \in Chain(FaceUnder(target)) /\ format = FaceUnder(target).format
                     /\ size = LevelSize(BaseSize(FaceUnder(target)), level)
    BY <2>2, LevelAllowed
  <2> QED
    BY <1>1, <1>2, <1>3, <1>5, <2>2, <2>3, LevelStep
<1> QED
  BY <1>1, <1>4, <1>5

LEMMA CubeUpdating ==
    ASSUME NEW target, CubeUpdateError(target) = "NO_ERROR", IsFace(target)
    PROVE  Owner(target) # None
  BY DEF CubeUpdateError

LEMMA SubAllowed ==
    ASSUME NEW target, NEW level, NEW region, NEW format, NEW type, NEW compressed, NEW given,
           SubImageError(target, level, region, format, type, compressed, given) = "NO_ERROR"
    PROVE  level \in Levels /\ Stored(FaceUnder(target), level)
  BY DEF SubImageError

LEMMA TexSubImageStep ==
    ASSUME TexturesInvariant, NEW target \in Targets, NEW level, NEW region, NEW format, NEW type,
           NEW given, NEW pixel, TexSubImage(target, level, region, format, type, given, pixel)
    PROVE  TexturesInvariant'
<1> DEFINE outer == CubeUpdateError(target)
           inner == IF outer # "NO_ERROR" THEN outer
                    ELSE SubImageError(target, level, region, format, type, None, given)
           texel == StoredTexel(FaceUnder(target).format, format, pixel)
<1>1. /\ sampled' = NothingSampled
      /\ \/ Refused(outer) \/ (outer = "NO_ERROR" /\ Abandoned(target, inner))
         \/ outer = "NO_ERROR" /\ inner = "NO_ERROR" /\ Written(target, level, region, texel)
  BY DEF TexSubImage, Checked, Counted
<1> HIDE DEF texel
<1>2. outer = "NO_ERROR" /\ IsFace(target) => Owner(target) # None
  BY CubeUpdating
<1>3. CASE Refused(outer) \/ (outer = "NO_ERROR" /\ Abandoned(target, inner))
  <2> HIDE DEF inner, outer
  <2> QED
    BY <1>1, <1>2, <1>3, FailedStep
<1>4. CASE outer = "NO_ERROR" /\ inner = "NO_ERROR" /\ Written(target, level, region, texel)
  <2>1. level \in Levels /\ Stored(FaceUnder(target), level)
    BY <1>4, SubAllowed
  <2> HIDE DEF inner, outer
  <2> QED
    BY <1>1, <1>2, <1>4, <2>1, PartStep
<1> QED
  BY <1>1, <1>3, <1>4

LEMMA CopyAllowed ==
    ASSUME NEW target, NEW level, NEW internal, NEW size, NEW source,
           CopyOuterError(target, level, internal, size, source) = "NO_ERROR"
    PROVE  /\ level \in Levels /\ SizeValid(size) /\ Owner(target) # None
           /\ IsFace(target) => CubeBaseCompatible(texture[Owner(target)], target, size,
                                                   CopyFormat(internal, source))
<1>1. SourceError(source, size) # "NO_ERROR" \/ SourceError(source, size) = "NO_ERROR"
  OBVIOUS
<1> QED
  BY <1>1 DEF CopyOuterError

LEMMA CopyLevelAllowed ==
    ASSUME NEW face, NEW level, NEW size, NEW format,
           CopyLevelError(face, level, size, format) = "NO_ERROR", level # 0
    PROVE  level \in Chain(face) /\ size = LevelSize(BaseSize(face), level) /\ Stored(face, 0)
  BY DEF CopyLevelError

LEMMA CopyInnerAllowed ==
    ASSUME TexturesInvariant, NEW target \in Targets, NEW level, NEW size, IsSize(size),
           NEW format, NEW source,
           CopyInnerError(target, level, size, format, source) = "NO_ERROR"
    PROVE  /\ CopyLevelError(FaceUnder(target), level, size, format) = "NO_ERROR"
           /\ charged + Area(size) * StorageTexelBytes(CopyStored(FaceUnder(target), level, format))
                <= Budget
<1> DEFINE held == SnapshotBytes(source, size)
           bytes == Area(size) * StorageTexelBytes(CopyStored(FaceUnder(target), level, format))
<1>1. /\ CopyLevelError(FaceUnder(target), level, size, format) = "NO_ERROR"
      /\ Reserved(held + bytes)
  BY DEF CopyInnerError
<1>2. bytes \in Nat
  <2>1. Area(size) \in Nat /\ StorageTexelBytes(CopyStored(FaceUnder(target), level, format)) \in Nat
    BY AreaNat, StorageNat
  <2> QED
    BY <2>1
<1>3. held \in Nat
  <2>1. Area(size) \in Nat
    BY AreaNat
  <2>2. held = Area(size) * 16 \/ held = Area(size) * 4
    BY DEF SnapshotBytes
  <2> QED
    BY <2>1, <2>2
<1>4. charged + (held + bytes) <= Budget /\ charged \in Int
  BY <1>1 DEF Reserved, TexturesInvariant, ChargeGood
<1> HIDE DEF bytes, held
<1>5. charged + bytes <= Budget
  BY <1>2, <1>3, <1>4, TextureFacts
<1> QED
  BY <1>1, <1>5 DEF bytes

LEMMA CopyTexImageStep ==
    ASSUME TexturesInvariant, NEW target \in Targets, NEW level, NEW internal,
           NEW size \in Int \X Int, NEW source,
           CopyTexImage(target, level, internal, size, source)
    PROVE  TexturesInvariant'
<1> DEFINE outer == CopyOuterError(target, level, internal, size, source)
           format == CopyFormat(internal, source)
           inner == IF outer # "NO_ERROR" THEN outer
                    ELSE CopyInnerError(target, level, size, format, source)
           stored == CopyStored(FaceUnder(target), level, format)
           texel == CopiedFrom(source, stored)
<1>1. /\ sampled' = NothingSampled
      /\ \/ Refused(outer) \/ (outer = "NO_ERROR" /\ Abandoned(target, inner))
         \/ /\ outer = "NO_ERROR" /\ inner = "NO_ERROR"
            /\ Replace(target, WithLevel(FaceUnder(target), level, size, stored, texel))
  BY DEF CopyTexImage, Checked, Counted
<1> HIDE DEF texel
<1>2. outer = "NO_ERROR" =>
         /\ level \in Levels /\ SizeValid(size) /\ Owner(target) # None
         /\ IsFace(target) => CubeBaseCompatible(texture[Owner(target)], target, size, format)
  BY CopyAllowed
<1>3. format.compressed = None
  BY FormatIs DEF CopyFormat
<1> HIDE DEF format
<1>4. CASE Refused(outer) \/ (outer = "NO_ERROR" /\ Abandoned(target, inner))
  <2> HIDE DEF inner, outer
  <2> QED
    BY <1>1, <1>2, <1>4, FailedStep
<1>5. CASE /\ outer = "NO_ERROR" /\ inner = "NO_ERROR"
           /\ Replace(target, WithLevel(FaceUnder(target), level, size, stored, texel))
  <2>1. level \in Levels /\ IsSize(size) /\ Owner(target) # None
    BY <1>2, <1>5, SizeIs DEF ValidSize
  <2>2. CopyInnerError(target, level, size, format, source) = "NO_ERROR"
    BY <1>5
  <2>3. /\ CopyLevelError(FaceUnder(target), level, size, format) = "NO_ERROR"
        /\ charged + Area(size) * StorageTexelBytes(stored) <= Budget
    BY <2>1, <2>2, CopyInnerAllowed
  <2>4. level # 0 => /\ level \in Chain(FaceUnder(target)) /\ stored = FaceUnder(target).format
                     /\ size = LevelSize(BaseSize(FaceUnder(target)), level)
    BY <2>3, CopyLevelAllowed DEF CopyStored
  <2>5. stored.compressed # None => ~stored.srgb
    BY <1>3, UnderGood DEF CopyStored, FaceGood, FaceNamed
  <2>6. level = 0 => stored = format
    BY DEF CopyStored
  <2>7. IsFace(target) /\ level = 0 =>
            CubeBaseCompatible(texture[Owner(target)], target, size, stored)
    BY <1>2, <1>5, <2>6
  <2> HIDE DEF inner, outer, stored
  <2> QED
    BY <1>1, <1>5, <2>1, <2>3, <2>4, <2>5, <2>7, LevelStep
<1> QED
  BY <1>1, <1>4, <1>5

LEMMA CopyTexSubImageStep ==
    ASSUME TexturesInvariant, NEW target \in Targets, NEW level, NEW region, NEW source,
           CopyTexSubImage(target, level, region, source)
    PROVE  TexturesInvariant'
<1> DEFINE outer == IF level \notin Levels \/ Negative(region) \/ Before(source)
                    THEN "INVALID_VALUE" ELSE CubeUpdateError(target)
           inner == IF outer # "NO_ERROR" THEN outer
                    ELSE CopySubError(target, level, region, source)
           texel == CopiedFrom(source, FaceUnder(target).format)
<1>1. /\ sampled' = NothingSampled
      /\ \/ Refused(outer) \/ (outer = "NO_ERROR" /\ Abandoned(target, inner))
         \/ outer = "NO_ERROR" /\ inner = "NO_ERROR" /\ Written(target, level, region, texel)
  BY DEF CopyTexSubImage, Checked, Counted
<1> HIDE DEF texel
<1>2. outer = "NO_ERROR" => level \in Levels /\ (IsFace(target) => Owner(target) # None)
  BY CubeUpdating
<1>3. CASE Refused(outer) \/ (outer = "NO_ERROR" /\ Abandoned(target, inner))
  <2> HIDE DEF inner, outer
  <2> QED
    BY <1>1, <1>2, <1>3, FailedStep
<1>4. CASE outer = "NO_ERROR" /\ inner = "NO_ERROR" /\ Written(target, level, region, texel)
  <2>1. CopySubError(target, level, region, source) = "NO_ERROR"
    BY <1>4
  <2>2. Stored(FaceUnder(target), level)
    BY <2>1 DEF CopySubError
  <2> HIDE DEF inner, outer
  <2> QED
    BY <1>1, <1>2, <1>4, <2>2, PartStep
<1> QED
  BY <1>1, <1>3, <1>4

LEMMA DecodedNat ==
    ASSUME NEW c \in Compressed, NEW size, IsSize(size)
    PROVE  DecodedBytes(c, size[1], size[2]) \in Nat
<1>1. Components[CompressedBase(c)] \in {3, 4}
  BY DEF CompressedBase, Components
<1>2. Area(size) \in Nat
  BY AreaNat
<1>3. \E k \in {1, 3, 4, 12, 16} : DecodedBytes(c, size[1], size[2]) = Area(size) * k
  <2>1. \E i \in {3, 4}, j \in {1, 4} : DecodedBytes(c, size[1], size[2]) = size[1] * size[2] * i * j
    BY <1>1 DEF DecodedBytes
  <2>2. \A i \in {3, 4}, j \in {1, 4} : i * j \in {3, 4, 12, 16}
    OBVIOUS
  <2>3. PICK i \in {3, 4}, j \in {1, 4} : DecodedBytes(c, size[1], size[2]) = size[1] * size[2] * i * j
    BY <2>1
  <2>4. size[1] * size[2] = Area(size)
    BY DEF Area
  <2> HIDE DEF Area
  <2>5. DecodedBytes(c, size[1], size[2]) = Area(size) * i * j
    BY <2>3, <2>4
  <2>6. Area(size) * i * j = Area(size) * (i * j)
    BY <1>2
  <2> QED
    BY <2>2, <2>5, <2>6
<1> QED
  BY <1>2, <1>3

(* The storage a compressed image is checked against on a cube map is that  *)
(* of what it decodes to, or no other face is defined.                      *)
LEMMA CompressedCubeAllowed ==
    ASSUME TexturesInvariant, NEW target \in Targets, NEW level, NEW size, NEW c \in Compressed,
           CubeImageError(target, level, size,
               Format(CompressedBase(c), DecodedType(c), CompressedSrgb(c), c)) = "NO_ERROR",
           IsFace(target)
    PROVE  /\ Owner(target) # None
           /\ level = 0 =>
                 CubeBaseCompatible(texture[Owner(target)], target, size, DecodedFormat(c))
<1> DEFINE f == DecodedFormat(c)
           g == Format(CompressedBase(c), DecodedType(c), CompressedSrgb(c), c)
           x == texture[Owner(target)]
<1>1. Owner(target) # None /\ (level = 0 => CubeBaseCompatible(x, target, size, g))
  BY CubeAllowed
<1>2. CASE CompressedSrgb(c)
  <2>1. g.srgb /\ g.compressed # None
    <3>1. g.compressed = c /\ g.srgb = CompressedSrgb(c)
      BY DEF Format
    <3> QED
      BY <1>2, <3>1, TextureAssumption
  <2> HIDE DEF g
  <2>2. \A face \in Faces : FaceNamed(x.faces[face])
    BY <1>1, OwnerFacts DEF TextureGood, FacesGood, FaceGood
  <2>3. level = 0 => \A face \in Faces \ {target} : ~x.faces[face].defined
    BY <1>1, <2>1, <2>2 DEF CubeBaseCompatible, FaceNamed
  <2> QED
    BY <1>1, <2>3 DEF CubeBaseCompatible
<1>3. CASE ~CompressedSrgb(c)
  <2>1. CompressedSrgb(c) = FALSE
    BY <1>3 DEF CompressedSrgb
  <2>2. g = f
    BY <2>1 DEF DecodedFormat
  <2> QED
    BY <1>1, <2>2
<1> QED
  BY <1>2, <1>3

LEMMA CompressedTexImageStep ==
    ASSUME TexturesInvariant, NEW target \in Targets, NEW level, NEW c \in Compressed,
           NEW size \in Int \X Int, NEW given, NEW block,
           CompressedTexImage(target, level, c, size, given, block)
    PROVE  TexturesInvariant'
<1> DEFINE format == DecodedFormat(c)
           held == DecodedBytes(c, size[1], size[2])
           needed == RequiredSourceBytes(size[1], size[2], format.base, format.type)
           stored == Decoded(c, size)
           outer == IF level \notin Levels \/ ~SizeValid(size) THEN "INVALID_VALUE"
                    ELSE CubeImageError(target, level, size,
                            Format(CompressedBase(c), DecodedType(c), CompressedSrgb(c), c))
           inner == IF outer # "NO_ERROR" THEN outer
                    ELSE IF DecodeError(c, size, given, block) # "NO_ERROR"
                    THEN DecodeError(c, size, given, block)
                    ELSE ImageError(target, level, size, format, stored, needed, held)
           texel == DecodedTexel(c, block)
<1>1. /\ sampled' = NothingSampled
      /\ \/ Refused(outer) \/ (outer = "NO_ERROR" /\ Abandoned(target, inner))
         \/ /\ outer = "NO_ERROR" /\ inner = "NO_ERROR"
            /\ Replace(target, WithLevel(FaceUnder(target), level, size, format, texel))
  BY DEF CompressedTexImage, Checked, Counted
<1>2. format.compressed # None => ~format.srgb
  <2>1. ~Format(CompressedBase(c), DecodedType(c), FALSE, c).srgb
    BY DEF Format
  <2> QED
    BY <2>1 DEF DecodedFormat
<1> HIDE DEF needed, texel, stored
<1>3. outer = "NO_ERROR" =>
         /\ level \in Levels /\ SizeValid(size)
         /\ IsFace(target) =>
               /\ Owner(target) # None
               /\ level = 0 => CubeBaseCompatible(texture[Owner(target)], target, size, format)
  BY CompressedCubeAllowed
<1>4. CASE Refused(outer) \/ (outer = "NO_ERROR" /\ Abandoned(target, inner))
  <2> HIDE DEF inner, outer, format
  <2> QED
    BY <1>1, <1>3, <1>4, FailedStep
<1>5. CASE /\ outer = "NO_ERROR" /\ inner = "NO_ERROR"
           /\ Replace(target, WithLevel(FaceUnder(target), level, size, format, texel))
  <2>1. held \in Nat
    BY <1>3, <1>5, SizeIs, DecodedNat DEF ValidSize
  <2> HIDE DEF held
  <2>2. ImageError(target, level, size, format, stored, needed, held) = "NO_ERROR"
    BY <1>5
  <2> HIDE DEF format
  <2>3. /\ level \in Levels /\ IsSize(size) /\ Owner(target) # None
        /\ LevelError(FaceUnder(target), level, size, format) = "NO_ERROR"
        /\ charged + Area(size) * StorageTexelBytes(format) <= Budget
    BY <2>1, <2>2, ImageAllowed
  <2>4. level # 0 => /\ level \in Chain(FaceUnder(target)) /\ format = FaceUnder(target).format
                     /\ size = LevelSize(BaseSize(FaceUnder(target)), level)
    BY <2>3, LevelAllowed
  <2> HIDE DEF inner, outer
  <2> QED
    BY <1>1, <1>2, <1>3, <1>5, <2>3, <2>4, LevelStep
<1> QED
  BY <1>1, <1>4, <1>5

LEMMA CompressedTexSubImageStep ==
    ASSUME TexturesInvariant, NEW target \in Targets, NEW level, NEW region, NEW c, NEW given,
           NEW block, CompressedTexSubImage(target, level, region, c, given, block)
    PROVE  TexturesInvariant'
<1> DEFINE outer == IF level \notin Levels \/ Negative(region) THEN "INVALID_VALUE"
                    ELSE CubeUpdateError(target)
           inner == IF outer # "NO_ERROR" THEN outer
                    ELSE CompressedSubError(target, level, region, c, given, block)
           texel == DecodedTexel(c, block)
<1>1. /\ sampled' = NothingSampled
      /\ \/ Refused(outer) \/ (outer = "NO_ERROR" /\ Abandoned(target, inner))
         \/ outer = "NO_ERROR" /\ inner = "NO_ERROR" /\ Written(target, level, region, texel)
  BY DEF CompressedTexSubImage, Checked, Counted
<1> HIDE DEF texel
<1>2. outer = "NO_ERROR" => level \in Levels /\ (IsFace(target) => Owner(target) # None)
  BY CubeUpdating
<1>3. CASE Refused(outer) \/ (outer = "NO_ERROR" /\ Abandoned(target, inner))
  <2> HIDE DEF inner, outer
  <2> QED
    BY <1>1, <1>2, <1>3, FailedStep
<1>4. CASE outer = "NO_ERROR" /\ inner = "NO_ERROR" /\ Written(target, level, region, texel)
  <2>1. CompressedSubError(target, level, region, c, given, block) = "NO_ERROR"
    BY <1>4
  <2>2. Stored(FaceUnder(target), level)
    BY <2>1 DEF CompressedSubError
  <2> HIDE DEF inner, outer
  <2> QED
    BY <1>1, <1>2, <1>4, <2>2, PartStep
<1> QED
  BY <1>1, <1>3, <1>4

(* What a binding point of the active unit names.                           *)
LEMMA BoundFacts ==
    ASSUME TexturesInvariant, NEW binding \in Bindings, BoundTo(binding) # None
    PROVE  /\ BoundAs(BoundTo(binding), binding) /\ TextureGood(texture[BoundTo(binding)])
           /\ DOMAIN texture = Textures
  BY DEF TexturesInvariant, TexturesGood, UnitsGood, BoundTo, Bindings, LiveAs, BoundAs

LEMMA GenerateMipmapStep ==
    ASSUME TexturesInvariant, NEW binding \in Bindings, GenerateMipmap(binding)
    PROVE  TexturesInvariant'
<1> DEFINE t == BoundTo(binding)
           x == texture[t]
           faces == IF binding = "CUBE" THEN Faces ELSE {First}
           bytes == ChainBytes(x, faces)
           y == WithChains(x, faces)
<1>1. /\ sampled' = NothingSampled
      /\ \/ Refused(MipmapError(binding, bytes))
         \/ /\ MipmapError(binding, bytes) = "NO_ERROR"
            /\ texture' = [texture EXCEPT ![t] = y]
            /\ charged' = charged - ShadowBytes(x) + ShadowBytes(y)
            /\ UNCHANGED <<units, active>>
  BY DEF GenerateMipmap, Counted, ChainBytes, WithChains
<1>2. CASE Refused(MipmapError(binding, bytes))
  BY <1>1, <1>2, RefusedStep
<1>3. CASE /\ MipmapError(binding, bytes) = "NO_ERROR"
           /\ texture' = [texture EXCEPT ![t] = y]
           /\ charged' = charged - ShadowBytes(x) + ShadowBytes(y)
           /\ UNCHANGED <<units, active>>
  <2>1. t # None /\ charged + bytes <= Budget
    BY <1>3 DEF MipmapError, Reserved
  <2>2. t \in Textures /\ TextureGood(x)
    BY <2>1, BoundFacts DEF LiveAs, BoundAs
  <2> HIDE DEF faces
  <2>3. /\ TextureGood(y) /\ y.name = x.name /\ y.target = x.target /\ bytes \in Nat
        /\ ShadowBytes(y) <= ShadowBytes(x) + bytes
    BY <2>2, ChainsGenerated
  <2> HIDE DEF y, bytes
  <2>4. charged \in Int /\ ShadowBytes(x) \in Nat /\ ShadowBytes(y) \in Nat
    BY <2>2, <2>3, ShadowFacts DEF TexturesInvariant, ChargeGood, TextureGood
  <2> HIDE DEF x, t
  <2>5. charged' \in Int /\ charged' <= Budget /\ ShadowBytes(y) - ShadowBytes(x) <= charged' - charged
    BY <1>3, <2>1, <2>3, <2>4, TextureFacts
  <2>6. TexturesGood' /\ UnitsGood' /\ ChargeGood'
    BY <1>3, <2>2, <2>3, <2>5, OneTexture DEF x
  <2> QED
    BY <1>1, <2>6, NoSample DEF TexturesInvariant
<1> QED
  BY <1>1, <1>2, <1>3

LEMMA TexParameterStep ==
    ASSUME TexturesInvariant, NEW binding \in Bindings, NEW name, NEW value,
           TexParameter(binding, name, value)
    PROVE  TexturesInvariant'
<1> DEFINE t == BoundTo(binding)
           x == texture[t]
           y == WithParameter(x, name, ParameterStored(name, value))
<1>1. sampled' = NothingSampled
  BY DEF TexParameter, Counted
<1>2. CASE Refused(ParameterError(binding, name, value))
  BY <1>1, <1>2, RefusedStep
<1>3. CASE UNCHANGED <<texture, units, active, charged>>
  BY <1>1, <1>3, NothingStep
<1>4. CASE /\ ParameterError(binding, name, value) = "NO_ERROR"
           /\ texture' = [texture EXCEPT ![t] =
                             WithParameter(@, name, ParameterStored(name, value))]
           /\ UNCHANGED <<units, active, charged>>
  <2>1. t # None
    BY <1>4 DEF ParameterError
  <2>2. t \in Textures /\ TextureGood(x) /\ DOMAIN texture = Textures
    BY <2>1, BoundFacts DEF LiveAs, BoundAs
  <2>3. texture' = [texture EXCEPT ![t] = y]
    BY <1>4, <2>2
  <2>4. Current(y) /\ y.faces = x.faces /\ y.name = x.name /\ y.target = x.target
    BY <2>2, ParameterCurrent, ParameterEdited
       DEF TextureGood, Current, SameImage, SameBuild
  <2> HIDE DEF y
  <2>5. TexturesGood' /\ UnitsGood' /\ ChargeGood'
    BY <1>4, <2>2, <2>3, <2>4, KeptStep
  <2> QED
    BY <1>1, <2>5, NoSample DEF TexturesInvariant
<1> QED
  BY <1>2, <1>3, <1>4 DEF TexParameter

LEMMA EnableGateStep ==
    ASSUME TexturesInvariant, NEW gate, EnableGate(gate)
    PROVE  TexturesInvariant'
  BY NothingStep DEF EnableGate, Counted

(* A name is taken.                                                         *)
LEMMA NameTaken ==
    ASSUME NEW x, TextureGood(x), x.name = "free"
    PROVE  LET y == [x EXCEPT !.name = "reserved"]
           IN TextureGood(y) /\ ShadowBytes(y) = ShadowBytes(x)
<1> DEFINE y == [x EXCEPT !.name = "reserved"]
<1>1. /\ TextureShaped(y) /\ y.name = "reserved" /\ SameBuild(y, x) /\ SameSampler(y, x)
      /\ y.image = x.image
  BY DEF TextureGood, Current, TextureShaped, TextureFields, SameBuild, SameSampler
<1> HIDE DEF y
<1>2. x.image = NoImage /\ x.sampler = None
  BY DEF TextureGood, Current, LiveOnly
<1>3. Current(y)
  BY <1>1, <1>2 DEF Current, ImageCurrent, SamplerCurrent, LiveOnly, SameSampler
<1>4. FacesGood(y)
  BY <1>1 DEF TextureGood, FacesGood, FacesAgree, FlatOnFirst, EmptyUntilLive, SameBuild
<1>5. ShadowBytes(y) = ShadowBytes(x)
  BY <1>1 DEF ShadowBytes, SameBuild
<1> QED
  BY <1>3, <1>4, <1>5 DEF TextureGood, y

LEMMA GenTexturesStep ==
    ASSUME TexturesInvariant, NEW t \in Textures, GenTextures(t)
    PROVE  TexturesInvariant'
<1> DEFINE x == texture[t]
           y == [x EXCEPT !.name = "reserved"]
<1>1. sampled' = NothingSampled
  BY DEF GenTextures, Counted
<1>2. CASE Refused("OUT_OF_MEMORY")
  BY <1>1, <1>2, RefusedStep
<1>3. CASE /\ x.name = "free" /\ texture' = [texture EXCEPT ![t].name = "reserved"]
           /\ UNCHANGED <<units, active, charged>>
  <2>1. TextureGood(x) /\ DOMAIN texture = Textures
    BY DEF TexturesInvariant, TexturesGood
  <2>2. texture' = [texture EXCEPT ![t] = y]
    BY <1>3, <2>1
  <2>3. TextureGood(y) /\ ShadowBytes(y) = ShadowBytes(x)
    BY <1>3, <2>1, NameTaken
  <2> HIDE DEF y
  <2>4. charged \in Int /\ charged <= Budget /\ ShadowBytes(x) \in Nat
    BY <2>1, ShadowFacts DEF TexturesInvariant, ChargeGood, ChargeCovers, TextureGood
  <2>5. charged' \in Int /\ charged' <= Budget /\ ShadowBytes(y) - ShadowBytes(x) <= charged' - charged
    BY <1>3, <2>3, <2>4
  <2>6. /\ \A u \in Textures : texture'[u] = IF u = t THEN y ELSE texture[u]
        /\ TexturesGood' /\ ChargeGood'
    BY <2>2, <2>3, <2>5, OneCharged
  <2>7. \A u, binding : BoundAs(u, binding) => BoundAs(u, binding)'
    BY <1>3, <2>6 DEF LiveAs, BoundAs
  <2>8. UnitsGood'
    BY <1>3, <2>7 DEF TexturesInvariant, UnitsGood
  <2> QED
    BY <1>1, <2>6, <2>8, NoSample DEF TexturesInvariant
<1> QED
  BY <1>2, <1>3 DEF GenTextures

(* An object is made for a name, or there is one of this target.            *)
LEMMA Promoting ==
    ASSUME NEW x, TextureGood(x), NEW binding, x.name = "live" => x.target = binding
    PROVE  LET y == Promoted(x, binding)
           IN /\ TextureGood(y) /\ ShadowBytes(y) = ShadowBytes(x)
              /\ y.name = "live" /\ y.target = binding
<1> DEFINE y == Promoted(x, binding)
<1>1. Current(y)
  BY PromotedCurrent DEF TextureGood
<1>2. y.faces = x.faces /\ y.name = "live" /\ y.target = binding
  BY PromotedEdited DEF TextureGood, Current
<1> HIDE DEF y
<1>3. FacesGood(y)
  BY <1>2 DEF TextureGood, FacesGood, FacesAgree, FlatOnFirst, EmptyUntilLive
<1>4. ShadowBytes(y) = ShadowBytes(x)
  BY <1>2 DEF ShadowBytes
<1> QED
  BY <1>1, <1>2, <1>3, <1>4 DEF TextureGood, y

LEMMA BindTextureStep ==
    ASSUME TexturesInvariant, NEW binding \in Bindings, NEW t \in Textures \cup {None},
           BindTexture(binding, t)
    PROVE  TexturesInvariant'
<1> DEFINE x == texture[t]
           y == Promoted(x, binding)
           named == IF binding = "CUBE" THEN [units EXCEPT ![active].cube = t]
                    ELSE [units EXCEPT ![active].flat = t]
<1>1. sampled' = NothingSampled
  BY DEF BindTexture, Counted
<1>2. CASE Refused("INVALID_OPERATION")
  BY <1>1, <1>2, RefusedStep
<1>3. CASE /\ t # None => /\ texture[t].name # "free"
                          /\ texture[t].name = "live" => texture[t].target = binding
           /\ texture' = IF t = None THEN texture
                         ELSE [texture EXCEPT ![t] = Promoted(@, binding)]
           /\ units' = named /\ UNCHANGED <<active, charged>>
  <2>1. /\ TexturesGood' /\ ChargeGood' /\ (t # None => LiveAs(texture', t, binding))
        /\ \A u, b : LiveAs(texture, u, b) => LiveAs(texture', u, b)
    <3>1. CASE t = None
      <4>1. texture' = texture /\ charged' = charged
        BY <1>3, <3>1
      <4>2. AllShadowBytes' = AllShadowBytes
        BY <4>1 DEF AllShadowBytes
      <4> QED
        BY <3>1, <4>1, <4>2
           DEF TexturesInvariant, TexturesGood, ChargeGood, ChargeCovers, LiveAs
    <3>2. CASE t # None
      <4>1. t \in Textures /\ TextureGood(x) /\ DOMAIN texture = Textures
        BY <3>2 DEF TexturesInvariant, TexturesGood
      <4>2. texture' = [texture EXCEPT ![t] = y]
        BY <1>3, <3>2, <4>1
      <4>3. x.name = "live" => x.target = binding
        BY <1>3, <3>2
      <4>4. /\ TextureGood(y) /\ ShadowBytes(y) = ShadowBytes(x)
            /\ y.name = "live" /\ y.target = binding
        BY <4>1, <4>3, Promoting
      <4> HIDE DEF y
      <4>5. charged \in Int /\ charged <= Budget /\ ShadowBytes(x) \in Nat
        BY <4>1, ShadowFacts DEF TexturesInvariant, ChargeGood, ChargeCovers, TextureGood
      <4>6. charged' \in Int /\ charged' <= Budget
            /\ ShadowBytes(y) - ShadowBytes(x) <= charged' - charged
        BY <1>3, <4>4, <4>5
      <4>7. /\ \A u \in Textures : texture'[u] = IF u = t THEN y ELSE texture[u]
            /\ TexturesGood' /\ ChargeGood'
        BY <4>1, <4>2, <4>4, <4>6, OneCharged
      <4>8. LiveAs(texture', t, binding) /\ \A u, b : LiveAs(texture, u, b) => LiveAs(texture', u, b)
        BY <4>1, <4>3, <4>4, <4>7 DEF LiveAs
      <4> QED
        BY <4>7, <4>8
    <3> QED
      BY <3>1, <3>2
  <2>2. UnitsGood'
    <3>1. active' \in Units /\ DOMAIN units' = Units
      BY <1>3 DEF TexturesInvariant, UnitsGood, BoundAs
    <3>2. ASSUME NEW u \in Units
          PROVE  /\ DOMAIN units'[u] = {"flat", "cube"}
                 /\ units'[u].flat # None => LiveAs(texture', units'[u].flat, "2D")
                 /\ units'[u].cube # None => LiveAs(texture', units'[u].cube, "CUBE")
      <4>1. /\ DOMAIN units[u] = {"flat", "cube"} /\ DOMAIN units = Units /\ active \in Units
            /\ units[u].flat # None => LiveAs(texture, units[u].flat, "2D")
            /\ units[u].cube # None => LiveAs(texture, units[u].cube, "CUBE")
        BY DEF TexturesInvariant, UnitsGood, BoundAs
      <4>2. CASE u # active
        BY <1>3, <2>1, <4>1, <4>2
      <4>3. CASE u = active /\ binding = "CUBE"
        <5>1. /\ DOMAIN units'[u] = {"flat", "cube"} /\ units'[u].flat = units[u].flat
              /\ units'[u].cube = t
          BY <1>3, <4>1, <4>3
        <5> QED
          BY <2>1, <4>1, <4>3, <5>1
      <4>4. CASE u = active /\ binding = "2D"
        <5>1. /\ DOMAIN units'[u] = {"flat", "cube"} /\ units'[u].flat = t
              /\ units'[u].cube = units[u].cube
          BY <1>3, <4>1, <4>4
        <5> QED
          BY <2>1, <4>1, <4>4, <5>1
      <4> QED
        BY <4>2, <4>3, <4>4 DEF Bindings
    <3> QED
      BY <3>1, <3>2 DEF UnitsGood, BoundAs
  <2> QED
    BY <1>1, <2>1, <2>2, NoSample DEF TexturesInvariant
<1> QED
  BY <1>2, <1>3 DEF BindTexture

LEMMA ActiveTextureStep ==
    ASSUME TexturesInvariant, NEW unit \in Units, ActiveTexture(unit)
    PROVE  TexturesInvariant'
<1>1. /\ active' = unit /\ sampled' = NothingSampled
      /\ UNCHANGED <<texture, units, charged>>
  BY DEF ActiveTexture
<1>2. TexturesGood' /\ UnitsGood'
  BY <1>1 DEF TexturesInvariant, TexturesGood, UnitsGood, LiveAs, BoundAs
<1>3. AllShadowBytes' = AllShadowBytes
  BY <1>1 DEF AllShadowBytes
<1>4. ChargeGood'
  BY <1>1, <1>3 DEF TexturesInvariant, ChargeGood, ChargeCovers
<1> QED
  BY <1>1, <1>2, <1>4, NoSample DEF TexturesInvariant

LEMMA DeleteTextureStep ==
    ASSUME TexturesInvariant, NEW t \in Textures, DeleteTexture(t)
    PROVE  TexturesInvariant'
<1> DEFINE x == texture[t]
<1>1. /\ sampled' = NothingSampled /\ units' = Without(units, t)
      /\ charged' = charged - ReleasedBytes(x)
      /\ texture' = [texture EXCEPT ![t] = NoTexture] /\ active' = active
  BY DEF DeleteTexture, Counted
<1>2. TextureGood(x)
  BY DEF TexturesInvariant, TexturesGood
<1>3. ReleasedBytes(x) \in Nat /\ ReleasedBytes(x) <= ShadowBytes(x) /\ ShadowBytes(x) \in Nat
  BY <1>2, ShadowFacts, TextureFacts DEF TextureGood, ReleasedBytes
<1>4. charged \in Int /\ charged <= Budget
  BY DEF TexturesInvariant, ChargeGood, ChargeCovers
<1> HIDE DEF x
<1>5. /\ charged' \in Int /\ charged' <= Budget
      /\ ShadowBytes(NoTexture) - ShadowBytes(x) <= charged' - charged
  BY <1>1, <1>3, <1>4, NewTexture, TextureFacts
<1>6. /\ \A u \in Textures : texture'[u] = IF u = t THEN NoTexture ELSE texture[u]
      /\ TexturesGood' /\ ChargeGood'
  BY <1>1, <1>5, NewTexture, OneCharged DEF x
<1>7. \A u, b : LiveAs(texture, u, b) /\ u # t => LiveAs(texture', u, b)
  BY <1>6 DEF LiveAs
<1>8. UnitsGood'
  <2>1. active' \in Units /\ DOMAIN units' = Units
    BY <1>1 DEF TexturesInvariant, UnitsGood, Without
  <2>2. ASSUME NEW u \in Units
        PROVE  /\ DOMAIN units'[u] = {"flat", "cube"}
               /\ units'[u].flat # None => LiveAs(texture', units'[u].flat, "2D")
               /\ units'[u].cube # None => LiveAs(texture', units'[u].cube, "CUBE")
    <3>1. units'[u] = [flat |-> IF units[u].flat = t THEN None ELSE units[u].flat,
                       cube |-> IF units[u].cube = t THEN None ELSE units[u].cube]
      BY <1>1 DEF Without
    <3>2. /\ units[u].flat # None => LiveAs(texture, units[u].flat, "2D")
          /\ units[u].cube # None => LiveAs(texture, units[u].cube, "CUBE")
      BY DEF TexturesInvariant, UnitsGood, BoundAs
    <3> QED
      BY <1>7, <3>1, <3>2
  <2> QED
    BY <2>1, <2>2 DEF UnitsGood, BoundAs
<1> QED
  BY <1>1, <1>6, <1>8, NoSample DEF TexturesInvariant

LEMMA RenderToStep ==
    ASSUME TexturesInvariant, NEW t \in Textures, NEW face, NEW level, RenderTo(t, face, level)
    PROVE  TexturesInvariant'
<1> DEFINE x == texture[t]
           y == Drawn(x, face, level)
<1>1. TextureGood(x) /\ DOMAIN texture = Textures
  BY DEF TexturesInvariant, TexturesGood
<1>2. /\ sampled' = NothingSampled /\ x.name = "live"
      /\ texture' = [texture EXCEPT ![t] = y] /\ UNCHANGED <<units, active, charged>>
  BY <1>1 DEF RenderTo, Counted
<1>3. Current(y) /\ y.faces = x.faces /\ y.target = x.target /\ y.name = x.name
  BY <1>1, <1>2, DrawnCurrent DEF TextureGood
<1> HIDE DEF y
<1>4. TexturesGood' /\ UnitsGood' /\ ChargeGood'
  BY <1>1, <1>2, <1>3, KeptStep
<1> QED
  BY <1>2, <1>4, NoSample DEF TexturesInvariant

(* A unit with a texture of the kind its sampler takes is handed the image  *)
(* of that texture; one with a 2D texture as well hands that over.          *)
LEMMA SampleStep ==
    ASSUME TexturesInvariant, NEW unit \in Units, NEW binding \in Bindings, NEW made,
           Sample(unit, binding, made)
    PROVE  TexturesInvariant'
<1> DEFINE bound == IF binding = "CUBE" THEN units[unit].cube ELSE units[unit].flat
           t == RealizedName(unit)
           x == texture[t]
           y == Realized(x, made)
<1>1. UNCHANGED <<units, active, charged>>
  BY DEF Sample
<1>2. CASE UNCHANGED texture /\ sampled' = NothingSampled
  BY <1>1, <1>2, NothingStep
<1>3. CASE bound # None /\ Sampleable(x) /\ SampledAs(t, binding, y)
  <2>1. /\ bound # None /\ Sampleable(x) /\ texture' = [texture EXCEPT ![t] = y]
        /\ \/ sampled' = NothingSampled
           \/ /\ y.image # NoImage /\ y.sampler # None
              /\ sampled' = [binding |-> binding, texture |-> t, image |-> y.image,
                             sampler |-> y.sampler]
    BY <1>3 DEF SampledAs
  <2>2. /\ units[unit].flat # None => BoundAs(units[unit].flat, "2D")
        /\ units[unit].cube # None => BoundAs(units[unit].cube, "CUBE")
    BY DEF TexturesInvariant, UnitsGood
  <2>3. /\ t \in Textures /\ x.name = "live" /\ x.target \in Bindings
        /\ x.target = binding => t = bound
    BY <2>1, <2>2 DEF RealizedName, LiveAs, BoundAs, Bindings
  <2>4. TextureGood(x)
    BY <2>3 DEF TexturesInvariant, TexturesGood
  <2>5. /\ Current(y) /\ SameBuild(y, x) /\ y.name = x.name /\ y.parameters = x.parameters
        /\ y.image = ImageMade(x, made)
    BY <2>3, <2>4, Realizing DEF TextureGood
  <2>6. WouldBe(y) = WouldBe(x)
    BY <2>5, BuildKept
  <2> HIDE DEF y
  <2>7. TexturesGood' /\ UnitsGood' /\ ChargeGood'
    BY <1>1, <2>1, <2>3, <2>5, KeptStep DEF SameBuild
  <2>8. texture'[t] = y
    BY <2>1, <2>3 DEF TexturesInvariant, TexturesGood
  <2>9. SamplesWhole'
    <3>1. CASE sampled' = NothingSampled
      BY <3>1, NoSample
    <3>2. CASE x.target # binding
      <4>1. SUFFICES ASSUME sampled' # NothingSampled
                     PROVE  texture'[sampled'.texture].target # sampled'.binding
        BY DEF SamplesWhole
      <4> QED
        BY <2>1, <2>5, <2>8, <3>2, <4>1 DEF SameBuild
    <3>3. CASE sampled' # NothingSampled /\ x.target = binding
      <4> DEFINE image == y.image
                 z == texture'[t]
                 last == IF sampled'.sampler.mip = "NONE" THEN 0 ELSE LevelCount(image.size) - 1
      <4>1. Sampleable(x)
        BY <2>1
      <4>2. [image EXCEPT !.drawn = {}] = WouldBe(x) /\ y.sampler = Sampler(x.parameters)
        BY <2>1, <2>5, <2>6, <3>3 DEF Current, ImageCurrent, SamplerCurrent
      <4>3. \A f \in UsedFaces(x.target) :
               /\ BaseSize(x.faces[f]) = image.size
               /\ \A l \in 0..LastRead(x, image.size) :
                     /\ l < image.levels /\ Sized(x.faces[f], l)
                     /\ image.texels[f][l] = x.faces[f].levels[l].texel
        BY <2>3, <2>4, <4>1, <4>2, ImageSampled
      <4>4. /\ sampled'.binding = binding /\ sampled'.texture = t /\ sampled'.image = image
            /\ sampled'.sampler = Sampler(x.parameters)
        BY <2>1, <3>3, <4>2
      <4>5. z.faces = x.faces /\ z.target = x.target
        BY <2>5, <2>8 DEF SameBuild
      <4>6. last = LastRead(x, image.size)
        BY <4>4 DEF LastRead
      <4> HIDE DEF image, z, last
      <4>7. \A f \in UsedFaces(z.target) :
               /\ BaseSize(z.faces[f]) = image.size
               /\ \A l \in 0..last :
                     /\ l < image.levels /\ Sized(z.faces[f], l)
                     /\ image.texels[f][l] = z.faces[f].levels[l].texel
        BY <4>3, <4>5, <4>6
      <4> QED
        BY <4>4, <4>7 DEF SamplesWhole, UsedFaces, z, last
    <3> QED
      BY <3>1, <3>2, <3>3
  <2> QED
    BY <2>7, <2>9 DEF TexturesInvariant
<1>4. \/ UNCHANGED texture /\ sampled' = NothingSampled
      \/ bound # None /\ Sampleable(x) /\ SampledAs(t, binding, y)
  BY DEF Sample
<1> QED
  BY <1>2, <1>3, <1>4

-----------------------------------------------------------------------------
LEMMA TexturesStart == NothingStored => TexturesInvariant
<1> SUFFICES ASSUME NothingStored PROVE TexturesInvariant
  OBVIOUS
<1>1. texture = [t \in Textures |-> NoTexture] /\ charged = 0 /\ sampled = NothingSampled
  BY DEF NothingStored
<1>2. TexturesGood
  BY <1>1, NewTexture DEF TexturesGood
<1>3. UnitsGood
  BY DEF NothingStored, UnitsGood, NoUnit
<1>4. AllShadowBytes = 0
  <2> DEFINE s == [t \in Textures |-> ShadowBytes(texture[t])]
  <2>1. s = [t \in 1..TextureCount |-> 0]
    BY <1>1, NewTexture DEF Textures
  <2>2. Total(s, TextureCount) = 0
    BY <2>1, TotalZero, TextureFacts
  <2> QED
    BY <2>2 DEF AllShadowBytes, s
<1>5. ChargeGood
  BY <1>1, <1>4, TextureFacts DEF ChargeGood, ChargeCovers
<1>6. SamplesWhole
  BY <1>1 DEF SamplesWhole
<1> QED
  BY <1>2, <1>3, <1>5, <1>6 DEF TexturesInvariant

LEMMA CallKept ==
    ASSUME TexturesInvariant, TextureCall
    PROVE  TexturesInvariant'
<1>1. CASE DefineImage
  <2>1. PICK target \in Targets, level \in Int, size \in Int \X Int, given \in AnyCount :
           \/ \E request \in STRING \X STRING \X STRING : \E pixel \in AnyTexel(request[3]) :
                 TexImage(target, level, size, request, given, pixel)
           \/ \E internal \in STRING, source \in AnySource :
                 CopyTexImage(target, level, internal, size, source)
           \/ \E c \in Compressed, block \in AnyBlock :
                 CompressedTexImage(target, level, c, size, given, block)
    BY <1>1 DEF DefineImage
  <2> QED
    BY <2>1, TexImageStep, CopyTexImageStep, CompressedTexImageStep
<1>2. CASE UpdateImage
  <2>1. PICK target \in Targets, level \in Int, region \in AnyRegion, given \in AnyCount :
           \/ \E format, type \in STRING : \E pixel \in AnyTexel(type) :
                 TexSubImage(target, level, region, format, type, given, pixel)
           \/ \E source \in AnySource : CopyTexSubImage(target, level, region, source)
           \/ \E c \in Compressed, block \in AnyBlock :
                 CompressedTexSubImage(target, level, region, c, given, block)
    BY <1>2 DEF UpdateImage
  <2> QED
    BY <2>1, TexSubImageStep, CopyTexSubImageStep, CompressedTexSubImageStep
<1>3. CASE ChangeBinding
  BY <1>3, GenTexturesStep, BindTextureStep, ActiveTextureStep DEF ChangeBinding
<1>4. CASE SampleUnit
  BY <1>4, SampleStep DEF SampleUnit
<1>5. CASE \E binding \in Bindings : GenerateMipmap(binding)
  BY <1>5, GenerateMipmapStep
<1>6. CASE \E binding \in Bindings, name \in STRING, value \in STRING \cup Int \cup {NotFinite} :
              TexParameter(binding, name, value)
  BY <1>6, TexParameterStep
<1>7. CASE \E gate \in STRING : EnableGate(gate)
  BY <1>7, EnableGateStep
<1> QED
  BY <1>1, <1>2, <1>3, <1>4, <1>5, <1>6, <1>7 DEF TextureCall

LEMMA StutterKept ==
    ASSUME TexturesInvariant, UNCHANGED textureVars
    PROVE  TexturesInvariant'
<1>1. UNCHANGED <<texture, units, active, charged, sampled>>
  BY DEF textureVars
<1>2. TexturesGood' /\ UnitsGood' /\ SamplesWhole'
  BY <1>1 DEF TexturesInvariant, TexturesGood, UnitsGood, LiveAs, BoundAs, SamplesWhole
<1>3. AllShadowBytes' = AllShadowBytes
  BY <1>1 DEF AllShadowBytes
<1> QED
  BY <1>1, <1>2, <1>3 DEF TexturesInvariant, ChargeGood, ChargeCovers

LEMMA TexturesKept == TexturesInvariant /\ [TexturesNext]_textureVars => TexturesInvariant'
  BY CallKept, StutterKept, DeleteTextureStep, RenderToStep DEF TexturesNext

(* Whatever calls are made, every texture is a good one, the units name     *)
(* live textures of their kinds, the charge covers every shadow within the  *)
(* budget, and what a draw is handed is whole.                              *)
THEOREM TexturesInvariantHolds == TexturesSpec => []TexturesInvariant
<1>1. TexturesInit => TexturesInvariant
  BY TexturesStart DEF TexturesInit
<1>2. TexturesInvariant /\ [TexturesNext]_textureVars => TexturesInvariant'
  BY TexturesKept
<1> QED
  BY <1>1, <1>2, PTL DEF TexturesSpec

(* No call leaves a texture with an image or a sampler that would be built  *)
(* otherwise now (ringl_texture_realize_image and what drops its result).   *)
THEOREM ObjectsCurrentHolds == TexturesSpec => []ObjectsCurrent
<1>1. TexturesInvariant => ObjectsCurrent
  BY CurrentImplied DEF TexturesInvariant, TexturesGood, TextureGood, ObjectsCurrent
<1> QED
  BY <1>1, TexturesInvariantHolds, PTL

(* The shadows of all textures keep whole chains, faces of one size and     *)
(* format and levels that are reduced from the present base, and are paid   *)
(* for within the budget.                                                   *)
THEOREM ShadowsConsistentHolds == TexturesSpec => []ShadowsConsistent
<1>1. TexturesInvariant => FacesConsistent
  BY DEF TexturesInvariant, TexturesGood, TextureGood, FacesGood, FaceGood, LevelsHalve, FacesAgree,
         FacesConsistent
<1>2. TexturesInvariant => GeneratedCurrent
  BY DEF TexturesInvariant, TexturesGood, TextureGood, FacesGood, FaceGood, LevelsGenerated,
         GeneratedCurrent
<1>3. TexturesInvariant => ChargeCovers
  BY DEF TexturesInvariant, ChargeGood
<1>4. TexturesInvariant => ShadowsConsistent
  BY <1>1, <1>2, <1>3 DEF ShadowsConsistent
<1> QED
  BY <1>4, TexturesInvariantHolds, PTL

(* What a draw is handed by ringl_texture_realize_unit holds, on every face *)
(* and level its sampler reads, what was last stored there.                 *)
THEOREM SamplesWholeHolds == TexturesSpec => []SamplesWhole
<1>1. TexturesInvariant => SamplesWhole
  BY DEF TexturesInvariant
<1> QED
  BY <1>1, TexturesInvariantHolds, PTL

-----------------------------------------------------------------------------
(***************************************************************************)
(* Texels.  What each conversion leaves has the components of its format   *)
(* in the range of its storage; then what each call leaves.                *)
(***************************************************************************)
(* What TexelsImplied asks of one texel, and of the formats that occur.     *)
TexelFits(f, texel) == ImpliedComponents(f, texel) /\ Representable(f, texel)
FormatSound(f) ==
    /\ (IsPacked(f) => ~f.srgb /\ ~IsFloat(f)) /\ (f.srgb => f.type = "FLOAT")
    /\ (IsFloat(f) => f.base \in Canonical) /\ f.base \in ColorFormats \cup DepthFormats \cup {None}

(* The format and the type an image of a format is given its texels in.     *)
Uploads(f, format, type) ==
    \/ /\ f.srgb /\ f.type = "FLOAT" /\ type = "UBYTE"
       /\ format \in DOMAIN SrgbStorage /\ f.base = SrgbStorage[format]
    \/ ~f.srgb /\ IsFloat(f) /\ f.base \in Canonical /\ format = f.base /\ type = f.type
    \/ ~f.srgb /\ ~IsFloat(f) /\ IsPacked(f) /\ type \notin {"FLOAT", "HALF"}
    \/ ~f.srgb /\ ~IsFloat(f) /\ f.base \in Canonical /\ format = f.base /\ type = "UBYTE"

LEMMA SrgbFacts ==
    /\ DOMAIN SrgbStorage = {"SRGB", "SRGB_ALPHA"}
    /\ SrgbStorage["SRGB"] = "RGB" /\ SrgbStorage["SRGB_ALPHA"] = "RGBA"
  BY DEF SrgbStorage

(* The fields of a packed word, and its formats apart from the others.      *)
LEMMA PackedFields ==
    ASSUME NEW f, IsPacked(f)
    PROVE  /\ \A c \in 1..4 : Fields[f.base][c] \in Nat
           /\ f.base \notin Canonical /\ f.base \notin DepthFormats
           /\ \A c \in 1..4 : f.base # "RGB565" \/ c # 4 => Fields[f.base][c] # 0
           /\ \A c \in 1..4 : Fields[f.base][c] <= One
  BY DEF IsPacked, Packed, Fields, Canonical, DepthFormats, One

LEMMA HalfRange ==
    ASSUME NEW x \in Int \cup {NotFinite}
    PROVE  Half(x) \in -HalfLimit..HalfLimit
  BY TexelAssumption DEF Half, Clamped, One

LEMMA HalfSame ==
    ASSUME NEW x \in 0..One
    PROVE  Half(x) = x
  BY TexelAssumption DEF Half, Clamped, One

LEMMA ByteRange ==
    ASSUME NEW x \in Int \cup {NotFinite}
    PROVE  FloatToUnorm8(x) \in 0..One
  BY TexelAssumption DEF FloatToUnorm8, Clamped, One

LEMMA ByteSame ==
    ASSUME NEW x \in 0..One
    PROVE  FloatToUnorm8(x) = x
  BY TexelAssumption DEF FloatToUnorm8, Clamped, One

(* The components of a canonical format, spread over four.                  *)
LEMMA ExpandedImplied ==
    ASSUME NEW f, NEW format, NEW given, NEW N, given \in [1..4 -> N], 0 \in N, One \in N,
           \/ f.base = format /\ f.base \in Canonical
           \/ f.base = SrgbStorage[format] /\ format \in DOMAIN SrgbStorage
    PROVE  /\ ImpliedComponents(f, Expanded(format, given))
           /\ \A c \in 1..4 : Expanded(format, given)[c] \in N
<1>1. CASE format \in {"RGBA", "SRGB_ALPHA"}
  <2>1. Expanded(format, given) = given
    BY <1>1 DEF Expanded
  <2>2. f.base = "RGBA"
    <3>1. CASE f.base = format
      BY <1>1, <3>1, SrgbFacts DEF Canonical
    <3>2. CASE f.base # format
      BY <1>1, <3>2, SrgbFacts
    <3> QED
      BY <3>1, <3>2
  <2> QED
    BY <2>1, <2>2 DEF ImpliedComponents
<1>2. CASE format \in {"RGB", "SRGB"}
  <2>1. Expanded(format, given) = <<given[1], given[2], given[3], One>>
    BY <1>2 DEF Expanded
  <2>2. f.base = "RGB"
    <3>1. CASE f.base = format
      BY <1>2, <3>1, SrgbFacts DEF Canonical
    <3>2. CASE f.base # format
      BY <1>2, <3>2, SrgbFacts
    <3> QED
      BY <3>1, <3>2
  <2> QED
    BY <2>1, <2>2 DEF ImpliedComponents
<1>3. CASE format = "ALPHA"
  <2>1. Expanded(format, given) = <<0, 0, 0, given[1]>> /\ f.base = "ALPHA"
    BY <1>3, SrgbFacts DEF Expanded
  <2> QED
    BY <2>1 DEF ImpliedComponents
<1>4. CASE format = "LUMINANCE"
  <2>1. Expanded(format, given) = <<given[1], given[1], given[1], One>> /\ f.base = "LUMINANCE"
    BY <1>4, SrgbFacts DEF Expanded
  <2> QED
    BY <2>1 DEF ImpliedComponents
<1>5. CASE format = "LUMINANCE_ALPHA"
  <2>1. /\ Expanded(format, given) = <<given[1], given[1], given[1], given[2]>>
        /\ f.base = "LUMINANCE_ALPHA"
    BY <1>5, SrgbFacts DEF Expanded
  <2> QED
    BY <2>1 DEF ImpliedComponents
<1> QED
  BY <1>1, <1>2, <1>3, <1>4, <1>5, SrgbFacts DEF Canonical

(* An upload.                                                               *)
LEMMA StoredFits ==
    ASSUME NEW f, NEW format, NEW type, Uploads(f, format, type), NEW given \in AnyTexel(type)
    PROVE  TexelFits(f, StoredTexel(f, format, given))
<1> DEFINE texel == StoredTexel(f, format, given)
<1>1. CASE IsPacked(f)
  <2>1. ~f.srgb /\ ~IsFloat(f)
    BY <1>1, PackedFields, SrgbFacts DEF Uploads, Canonical
  <2>2. given \in [1..4 -> Nat]
    <3>1. type \notin {"FLOAT", "HALF"}
      BY <1>1, <2>1, PackedFields DEF Uploads
    <3> QED
      BY <3>1 DEF AnyTexel, Bytes, One
  <2>3. texel = [c \in 1..4 |-> given[c] % (Fields[f.base][c] + 1)]
    BY <1>1, <2>1, PackedFields DEF StoredTexel, IsFloat, DepthFormats
  <2>4. \A c \in 1..4 : texel[c] \in 0..Fields[f.base][c]
    <3> SUFFICES ASSUME NEW c \in 1..4 PROVE given[c] % (Fields[f.base][c] + 1) \in 0..Fields[f.base][c]
      BY <2>3
    <3>1. given[c] \in Nat /\ Fields[f.base][c] \in Nat
      BY <1>1, <2>2, PackedFields
    <3> HIDE DEF texel
    <3> QED
      BY <3>1
  <2>5. ImpliedComponents(f, texel)
    BY <1>1, PackedFields DEF ImpliedComponents, Canonical
  <2>6. Representable(f, texel)
    BY <1>1, <2>1, <2>4 DEF Representable, IsFloat
  <2> QED
    BY <2>5, <2>6 DEF TexelFits
<1>2. CASE ~IsPacked(f) /\ f.type = "HALF"
  <2>1. f.base \in Canonical /\ format = f.base /\ type = "HALF"
    BY <1>2 DEF Uploads, IsFloat
  <2>2. given \in [1..4 -> Int \cup {NotFinite}]
    BY <2>1 DEF AnyTexel
  <2> DEFINE spread == Expanded(format, given)
             N == Int \cup {NotFinite}
  <2>9. 0 \in N /\ One \in N
    BY DEF One
  <2>3. /\ ImpliedComponents(f, spread)
        /\ \A c \in 1..4 : spread[c] \in N
    <3> HIDE DEF N
    <3> QED
      BY <2>1, <2>2, <2>9, ExpandedImplied DEF N
  <2>4. texel = [c \in 1..4 |-> Half(spread[c])]
    BY <1>2, <2>1 DEF StoredTexel, Canonical
  <2> HIDE DEF spread
  <2>5. \A c \in 1..4 : texel[c] = Half(spread[c]) /\ texel[c] \in -HalfLimit..HalfLimit
    BY <2>3, <2>4, HalfRange
  <2> HIDE DEF texel
  <2>6. Representable(f, texel)
    BY <1>2, <2>1, <2>5, TexelAssumption DEF Representable, Uploads, IsFloat
  <2>7. Half(0) = 0 /\ Half(One) = One
    BY HalfSame DEF One
  <2>8. ImpliedComponents(f, texel)
    BY <2>3, <2>5, <2>7 DEF ImpliedComponents
  <2> QED
    BY <2>6, <2>8 DEF TexelFits, texel
<1>3. CASE ~IsPacked(f) /\ f.type # "HALF"
  <2>1. \/ f.base \in Canonical /\ format = f.base
        \/ format \in DOMAIN SrgbStorage /\ f.base = SrgbStorage[format]
    BY <1>3 DEF Uploads
  <2>2. f.base \in Canonical
    BY <2>1, SrgbFacts DEF Canonical
  <2>3. texel = Expanded(format, given)
    BY <1>3, <2>2 DEF StoredTexel, Canonical
  <2>4. CASE type = "UBYTE"
    <3>1. given \in [1..4 -> 0..One]
      BY <2>4 DEF AnyTexel, Bytes
    <3> DEFINE N == 0..One
    <3>4. 0 \in N /\ One \in N /\ given \in [1..4 -> N]
      BY <3>1 DEF One
    <3> HIDE DEF N
    <3>2. ImpliedComponents(f, texel) /\ \A c \in 1..4 : texel[c] \in N
      BY <2>1, <2>3, <3>4, ExpandedImplied
    <3> HIDE DEF texel
    <3> USE DEF N
    <3>3. Representable(f, texel)
      BY <1>3, <3>2 DEF Representable
    <3> QED
      BY <3>2, <3>3 DEF TexelFits, texel
  <2>5. CASE type # "UBYTE"
    <3>1. ~f.srgb /\ IsFloat(f) /\ type = f.type /\ f.type = "FLOAT"
      BY <1>3, <2>5 DEF Uploads, IsFloat
    <3>2. given \in [1..4 -> Int \cup {NotFinite}]
      BY <3>1 DEF AnyTexel
    <3> DEFINE N == Int \cup {NotFinite}
    <3>5. 0 \in N /\ One \in N /\ given \in [1..4 -> N]
      BY <3>2 DEF One
    <3> HIDE DEF N
    <3>3. ImpliedComponents(f, texel)
      BY <2>1, <2>3, <3>5, ExpandedImplied
    <3>4. Representable(f, texel)
      BY <1>3, <3>1 DEF Representable
    <3> QED
      BY <3>3, <3>4 DEF TexelFits
  <2> QED
    BY <2>4, <2>5
<1> QED
  BY <1>1, <1>2, <1>3

(* A definition without data.                                               *)
LEMMA DefaultFits ==
    ASSUME NEW f, FormatSound(f)
    PROVE  TexelFits(f, DefaultTexel(f))
<1> DEFINE texel == DefaultTexel(f)
<1>1. /\ texel[1] = 0 /\ texel[2] = 0 /\ texel[3] = 0
      /\ texel[4] = IF f.base \in {"RGB", "LUMINANCE"} THEN One ELSE 0
  BY DEF DefaultTexel
<1>2. ImpliedComponents(f, texel)
  BY <1>1 DEF ImpliedComponents, One
<1> HIDE DEF texel
<1>3. \A c \in 1..4 : texel[c] = 0 \/ (texel[c] = One /\ ~IsPacked(f))
  BY <1>1, PackedFields DEF Canonical
<1>4. Representable(f, texel)
  <2> SUFFICES ASSUME NEW c \in 1..4
               PROVE  /\ IsPacked(f) => texel[c] \in 0..Fields[f.base][c]
                      /\ texel[c] \in 0..One /\ texel[c] \in -HalfLimit..HalfLimit
    BY DEF Representable
  <2> QED
    BY <1>3, PackedFields, TexelAssumption DEF One
<1> QED
  BY <1>2, <1>4 DEF TexelFits, texel

(* Four texels of a level, for one of the next.                             *)
LEMMA ReducedFits ==
    ASSUME NEW f, FormatSound(f), ~f.srgb, NEW a, NEW b, NEW c, NEW d,
           TexelFits(f, a), TexelFits(f, b), TexelFits(f, c), TexelFits(f, d)
    PROVE  TexelFits(f, Reduced(f, a, b, c, d))
<1> DEFINE texel == Reduced(f, a, b, c, d)
<1>1. CASE f.type = "HALF"
  <2>1. \A k \in 1..4 : texel[k] = Half((a[k] + b[k] + c[k] + d[k]) \div 4)
    BY <1>1 DEF Reduced
  <2>2. \A k \in 1..4 : a[k] \in Int /\ b[k] \in Int /\ c[k] \in Int /\ d[k] \in Int
    BY <1>1 DEF TexelFits, Representable
  <2> HIDE DEF texel
  <2>3. \A k \in 1..4 : texel[k] \in -HalfLimit..HalfLimit
    <3> SUFFICES ASSUME NEW k \in 1..4 PROVE texel[k] \in -HalfLimit..HalfLimit
      OBVIOUS
    <3>1. (a[k] + b[k] + c[k] + d[k]) \div 4 \in Int
      BY <2>2
    <3> QED
      BY <2>1, <3>1, HalfRange
  <2>4. Half(0) = 0 /\ Half(One) = One
    BY HalfSame DEF One
  <2>5. ImpliedComponents(f, texel)
    <3>1. (One + One + One + One) \div 4 = One /\ (0 + 0 + 0 + 0) \div 4 = 0
      BY DEF One
    <3> QED
      BY <2>1, <2>4, <3>1 DEF TexelFits, ImpliedComponents
  <2>6. Representable(f, texel)
    BY <1>1, <2>3 DEF Representable, FormatSound, IsFloat
  <2> QED
    BY <2>5, <2>6 DEF TexelFits, texel
<1>2. CASE f.type = "FLOAT"
  <2>1. \A k \in 1..4 : texel[k] = (a[k] + b[k] + c[k] + d[k]) \div 4
    BY <1>2 DEF Reduced
  <2> HIDE DEF texel
  <2>2. ImpliedComponents(f, texel)
    <3>1. (One + One + One + One) \div 4 = One /\ (0 + 0 + 0 + 0) \div 4 = 0
      BY DEF One
    <3> QED
      BY <2>1, <3>1 DEF TexelFits, ImpliedComponents
  <2>3. Representable(f, texel)
    BY <1>2 DEF Representable, FormatSound, IsFloat
  <2> QED
    BY <2>2, <2>3 DEF TexelFits, texel
<1>3. CASE f.type \notin {"HALF", "FLOAT"}
  <2>1. \A k \in 1..4 : texel[k] = (a[k] + b[k] + c[k] + d[k] + 2) \div 4
    BY <1>3 DEF Reduced
  <2> HIDE DEF texel
  <2>2. ImpliedComponents(f, texel)
    <3>1. (One + One + One + One + 2) \div 4 = One /\ (0 + 0 + 0 + 0 + 2) \div 4 = 0
      BY DEF One
    <3> QED
      BY <2>1, <3>1 DEF TexelFits, ImpliedComponents
  <2>3. ASSUME NEW k \in 1..4, NEW m \in Nat,
               a[k] \in 0..m, b[k] \in 0..m, c[k] \in 0..m, d[k] \in 0..m
        PROVE  texel[k] \in 0..m
    <3>1. texel[k] = (a[k] + b[k] + c[k] + d[k] + 2) \div 4
      BY <2>1
    <3> QED
      BY <2>3, <3>1
  <2>4. ASSUME NEW k \in 1..4, IsPacked(f)
        PROVE  texel[k] \in 0..Fields[f.base][k]
    <3> DEFINE m == Fields[f.base][k]
    <3>1. m \in Nat
      BY <2>4, PackedFields
    <3>2. a[k] \in 0..m /\ b[k] \in 0..m /\ c[k] \in 0..m /\ d[k] \in 0..m
      BY <2>4 DEF TexelFits, Representable
    <3> HIDE DEF m
    <3>3. texel[k] \in 0..m
      BY <2>3, <3>1, <3>2
    <3> QED
      BY <3>3 DEF m
  <2>5. ASSUME NEW k \in 1..4, f.type = "UBYTE", ~IsPacked(f)
        PROVE  texel[k] \in 0..One
    <3>1. a[k] \in 0..One /\ b[k] \in 0..One /\ c[k] \in 0..One /\ d[k] \in 0..One
      BY <2>5 DEF TexelFits, Representable
    <3>2. One \in Nat
      BY DEF One
    <3> QED
      BY <2>3, <3>1, <3>2
  <2>6. Representable(f, texel)
    BY <1>3, <2>4, <2>5 DEF Representable
  <2> QED
    BY <2>2, <2>6 DEF TexelFits, texel
<1> QED
  BY <1>1, <1>2, <1>3

(* A copy: the snapshot of finite texels is one of integers.                *)
LEMMA SnapshotInt ==
    ASSUME NEW f, NEW texel \in [1..4 -> Int]
    PROVE  \A c \in 1..4 : Snapshot(f, texel)[c] \in Int
<1>1. CASE f.srgb
  <2>1. \A c \in 1..4 : Snapshot(f, texel)[c] \in {texel[c], FloatToUnorm8(texel[4]), One}
    BY <1>1 DEF Snapshot
  <2> QED
    BY <2>1, ByteRange DEF One
<1>2. CASE ~f.srgb /\ IsPacked(f)
  <2> SUFFICES ASSUME NEW c \in 1..4 PROVE Snapshot(f, texel)[c] \in Int
    OBVIOUS
  <2>1. CASE f.base = "RGB565" /\ c = 4
    BY <1>2, <2>1 DEF Snapshot, One
  <2>2. CASE ~(f.base = "RGB565" /\ c = 4)
    <3> DEFINE m == Fields[f.base][c]
    <3>1. Snapshot(f, texel)[c] = (texel[c] * One + m \div 2) \div m
      BY <1>2, <2>2 DEF Snapshot
    <3>2. m \in Nat \ {0}
      BY <1>2, <2>2, PackedFields
    <3> HIDE DEF m
    <3>3. (texel[c] * One + m \div 2) \div m \in Int
      <4>1. texel[c] * One + m \div 2 \in Int
        BY <3>2 DEF One
      <4> QED
        BY <3>2, <4>1
    <3> QED
      BY <3>1, <3>3
  <2> QED
    BY <2>1, <2>2
<1>3. CASE ~f.srgb /\ ~IsPacked(f)
  BY <1>3 DEF Snapshot
<1> QED
  BY <1>1, <1>2, <1>3

LEMMA CopiedImplied ==
    ASSUME NEW f, NEW t, NEW N, \A c \in 1..4 : t[c] \in N, 0 \in N, One \in N
    PROVE  /\ ImpliedComponents(f, CopyComponents(f.base, t))
           /\ \A c \in 1..4 : CopyComponents(f.base, t)[c] \in N
<1> DEFINE kept == CopyComponents(f.base, t)
<1>1. CASE f.base = "RGB"
  <2>1. kept = <<t[1], t[2], t[3], One>>
    BY <1>1 DEF CopyComponents
  <2> QED
    BY <1>1, <2>1 DEF ImpliedComponents
<1>2. CASE f.base = "ALPHA"
  <2>1. kept = <<0, 0, 0, t[4]>>
    BY <1>2 DEF CopyComponents
  <2> QED
    BY <1>2, <2>1 DEF ImpliedComponents
<1>3. CASE f.base = "LUMINANCE"
  <2>1. kept = <<t[1], t[1], t[1], One>>
    BY <1>3 DEF CopyComponents
  <2> QED
    BY <1>3, <2>1 DEF ImpliedComponents
<1>4. CASE f.base = "LUMINANCE_ALPHA"
  <2>1. kept = <<t[1], t[1], t[1], t[4]>>
    BY <1>4 DEF CopyComponents
  <2> QED
    BY <1>4, <2>1 DEF ImpliedComponents
<1>5. CASE f.base \notin {"RGB", "ALPHA", "LUMINANCE", "LUMINANCE_ALPHA"}
  <2>1. kept = t
    BY <1>5 DEF CopyComponents
  <2> QED
    BY <1>5, <2>1 DEF ImpliedComponents
<1> QED
  BY <1>1, <1>2, <1>3, <1>4, <1>5

LEMMA QuantizedRange ==
    ASSUME NEW f, IsPacked(f), NEW t, NEW c \in 1..4, t[c] \in 0..One
    PROVE  Quantized(f.base, t)[c] \in 0..Fields[f.base][c]
<1>1. Quantized(f.base, t)[c] = (t[c] * Fields[f.base][c] + One \div 2) \div One
  BY DEF Quantized
<1>2. Fields[f.base][c] \in {0, 1, 15, 31, 63}
  BY DEF IsPacked, Packed, Fields
<1>3. ASSUME NEW m \in {0, 1, 15, 31, 63}
      PROVE  (t[c] * m + One \div 2) \div One \in 0..m
  BY DEF One
<1> QED
  BY <1>1, <1>2, <1>3

LEMMA CopiedFits ==
    ASSUME NEW f, FormatSound(f), NEW snapshot, \A c \in 1..4 : snapshot[c] \in Int
    PROVE  TexelFits(f, CopiedTexel(f, snapshot))
<1> DEFINE texel == CopiedTexel(f, snapshot)
           kept == CopyComponents(f.base, snapshot)
           bytes == [c \in 1..4 |-> FloatToUnorm8(kept[c])]
<1>1. ImpliedComponents(f, kept) /\ \A c \in 1..4 : kept[c] \in Int
  <2>1. 0 \in Int /\ One \in Int
    BY DEF One
  <2> QED
    BY <2>1, CopiedImplied
<1> HIDE DEF kept
<1>2. \A c \in 1..4 : bytes[c] = FloatToUnorm8(kept[c]) /\ bytes[c] \in 0..One
  BY <1>1, ByteRange
<1>3. ImpliedComponents(f, bytes)
  <2>1. FloatToUnorm8(0) = 0 /\ FloatToUnorm8(One) = One
    BY ByteSame DEF One
  <2> HIDE DEF bytes
  <2> QED
    BY <1>1, <1>2, <2>1 DEF ImpliedComponents
<1>4. CASE f.srgb
  <2>1. /\ texel[1] = bytes[1] /\ texel[2] = bytes[2] /\ texel[3] = bytes[3]
        /\ texel[4] = IF f.base = "RGBA" THEN bytes[4] ELSE One
    BY <1>4 DEF CopiedTexel, kept
  <2> HIDE DEF texel, bytes
  <2>2. ImpliedComponents(f, texel)
    BY <1>3, <2>1 DEF ImpliedComponents
  <2>3. \A c \in 1..4 : texel[c] \in 0..One
    BY <1>2, <2>1 DEF One
  <2>4. Representable(f, texel)
    BY <1>4, <2>3 DEF Representable, FormatSound
  <2> QED
    BY <2>2, <2>4 DEF TexelFits, texel
<1>5. CASE ~f.srgb /\ f.type = "FLOAT"
  <2>1. texel = kept
    BY <1>5 DEF CopiedTexel, kept
  <2>2. Representable(f, texel)
    BY <1>5 DEF Representable, FormatSound, IsFloat
  <2> QED
    BY <1>1, <2>1, <2>2 DEF TexelFits, texel
<1>6. CASE ~f.srgb /\ f.type = "HALF"
  <2>1. \A c \in 1..4 : texel[c] = Half(kept[c]) /\ texel[c] \in -HalfLimit..HalfLimit
    BY <1>1, <1>6, HalfRange DEF CopiedTexel, kept
  <2>2. Half(0) = 0 /\ Half(One) = One
    BY HalfSame DEF One
  <2> HIDE DEF texel
  <2>3. ImpliedComponents(f, texel)
    BY <1>1, <2>1, <2>2 DEF ImpliedComponents
  <2>4. Representable(f, texel)
    BY <1>6, <2>1 DEF Representable, FormatSound, IsFloat
  <2> QED
    BY <2>3, <2>4 DEF TexelFits, texel
<1>7. CASE ~f.srgb /\ ~IsFloat(f) /\ IsPacked(f)
  <2>1. texel = Quantized(f.base, bytes)
    BY <1>7 DEF CopiedTexel, kept, IsFloat
  <2> HIDE DEF bytes
  <2>2. \A c \in 1..4 : texel[c] \in 0..Fields[f.base][c]
    BY <1>2, <1>7, <2>1, QuantizedRange
  <2> HIDE DEF texel
  <2>3. ImpliedComponents(f, texel)
    BY <1>7, PackedFields DEF ImpliedComponents, Canonical
  <2>4. Representable(f, texel)
    BY <1>7, <2>2 DEF Representable, IsFloat
  <2> QED
    BY <2>3, <2>4 DEF TexelFits, texel
<1>8. CASE ~f.srgb /\ ~IsFloat(f) /\ ~IsPacked(f)
  <2>1. texel = CopyComponents(f.base, bytes)
    BY <1>8 DEF CopiedTexel, kept, IsFloat
  <2> DEFINE N == 0..One
  <2>2. 0 \in N /\ One \in N /\ \A c \in 1..4 : bytes[c] \in N
    BY <1>2 DEF One
  <2> HIDE DEF bytes, N
  <2>3. ImpliedComponents(f, texel) /\ \A c \in 1..4 : texel[c] \in N
    BY <2>1, <2>2, CopiedImplied
  <2> HIDE DEF texel
  <2>4. Representable(f, texel)
    BY <1>8, <2>3 DEF Representable, IsFloat, N
  <2> QED
    BY <2>3, <2>4 DEF TexelFits, texel
<1> QED
  BY <1>4, <1>5, <1>6, <1>7, <1>8 DEF IsFloat

(* A decoded block.                                                         *)
LEMMA PaletteBytes ==
    ASSUME NEW first \in [1..3 -> Bytes], NEW second \in [1..3 -> Bytes], NEW selector \in 0..3,
           NEW ordered \in BOOLEAN, NEW k \in 1..3
    PROVE  PaletteColor(first, second, selector, ordered)[k] \in 0..One
<1> DEFINE color == PaletteColor(first, second, selector, ordered)
<1>1. first[k] \in 0..255 /\ second[k] \in 0..255
  BY DEF Bytes, One
<1>2. \/ color = first \/ color = second
      \/ color = [j \in 1..3 |-> IF ordered THEN (2 * first[j] + second[j]) \div 3
                                 ELSE (first[j] + second[j]) \div 2]
      \/ color = [j \in 1..3 |-> IF ordered THEN (first[j] + 2 * second[j]) \div 3 ELSE 0]
  <2>1. selector = 0 \/ selector = 1 \/ selector = 2 \/ selector = 3
    OBVIOUS
  <2> QED
    BY <2>1 DEF PaletteColor
<1> HIDE DEF color
<1>3. \/ color[k] = first[k] \/ color[k] = second[k] \/ color[k] = 0
      \/ color[k] = (2 * first[k] + second[k]) \div 3
      \/ color[k] = (first[k] + second[k]) \div 2
      \/ color[k] = (first[k] + 2 * second[k]) \div 3
  BY <1>2
<1>4. ASSUME NEW x \in 0..255, NEW y \in 0..255
      PROVE  /\ (2 * x + y) \div 3 \in 0..255 /\ (x + y) \div 2 \in 0..255
             /\ (x + 2 * y) \div 3 \in 0..255
  OBVIOUS
<1>5. /\ (2 * first[k] + second[k]) \div 3 \in 0..255 /\ (first[k] + second[k]) \div 2 \in 0..255
      /\ (first[k] + 2 * second[k]) \div 3 \in 0..255
  BY <1>1, <1>4
<1> DEFINE a == (2 * first[k] + second[k]) \div 3
           b == (first[k] + second[k]) \div 2
           d == (first[k] + 2 * second[k]) \div 3
<1> HIDE DEF a, b, d
<1>6. color[k] \in 0..255
  <2>1. color[k] \in {first[k], second[k], 0, a, b, d}
    BY <1>3 DEF a, b, d
  <2>2. a \in 0..255 /\ b \in 0..255 /\ d \in 0..255
    BY <1>5 DEF a, b, d
  <2> QED
    BY <1>1, <2>1, <2>2
<1> QED
  BY <1>6 DEF One, color

LEMMA DecodedFits ==
    ASSUME NEW c \in Compressed, NEW block \in AnyBlock
    PROVE  /\ FormatSound(DecodedFormat(c)) /\ TexelFits(DecodedFormat(c), DecodedTexel(c, block))
<1> DEFINE f == DecodedFormat(c)
           ordered == block.ordered \/ ~OneBitAlpha(c)
           color == IF c = "ETC1" THEN Etc1Texel(block.first, block.modifier)
                    ELSE PaletteColor(block.first, block.second, block.selector, ordered)
           texel == DecodedTexel(c, block)
<1>1. f.base = CompressedBase(c) /\ ~f.srgb /\ f.type = DecodedType(c)
  BY DEF DecodedFormat, Format
<1>2. CompressedBase(c) \in {"RGB", "RGBA"} /\ DecodedType(c) \in {"FLOAT", "UBYTE"}
  BY DEF CompressedBase, DecodedType
<1>3. /\ block.first \in [1..3 -> Bytes] /\ block.second \in [1..3 -> Bytes] /\ block.selector \in 0..3
      /\ block.modifier \in Int /\ block.alpha \in Bytes /\ block.ordered \in BOOLEAN
  BY DEF AnyBlock
<1>4. \A k \in 1..3 : color[k] \in 0..One
  <2> SUFFICES ASSUME NEW k \in 1..3 PROVE color[k] \in 0..One
    OBVIOUS
  <2>1. CASE c = "ETC1"
    <3>1. color[k] = Clamped(block.first[k] + block.modifier, 0, One)
      BY <2>1 DEF Etc1Texel
    <3>3. block.first[k] \in 0..255
      BY <1>3 DEF Bytes, One
    <3>2. block.first[k] + block.modifier \in Int
      BY <1>3, <3>3
    <3> HIDE DEF color
    <3> QED
      BY <3>1, <3>2 DEF Clamped, One
  <2>2. CASE c # "ETC1"
    <3>1. ordered \in BOOLEAN
      BY <1>3 DEF OneBitAlpha
    <3> HIDE DEF ordered
    <3> QED
      BY <1>3, <2>2, <3>1, PaletteBytes
  <2> QED
    BY <2>1, <2>2
<1> DEFINE alpha == CASE c \in {"DXT3", "DXT5", "SRGB_DXT3", "SRGB_DXT5"} -> block.alpha
                      [] OneBitAlpha(c) -> IF ~ordered /\ block.selector = 3 THEN 0 ELSE One
                      [] OTHER -> One
<1>5. alpha \in 0..One /\ (CompressedBase(c) = "RGB" => alpha = One)
  <2>1. CASE c \in {"DXT3", "DXT5", "SRGB_DXT3", "SRGB_DXT5"}
    BY <1>3, <2>1 DEF OneBitAlpha, CompressedBase, Bytes
  <2>2. CASE OneBitAlpha(c)
    BY <2>2 DEF OneBitAlpha, CompressedBase, One
  <2>3. CASE c \notin {"DXT3", "DXT5", "SRGB_DXT3", "SRGB_DXT5"} /\ ~OneBitAlpha(c)
    BY <2>3 DEF One
  <2> QED
    BY <2>1, <2>2, <2>3
<1> HIDE DEF color, alpha
<1>6. texel = <<color[1], color[2], color[3], alpha>>
  BY DEF DecodedTexel, color, alpha
<1> HIDE DEF f
<1>7. ~IsPacked(f) /\ FormatSound(f)
  BY <1>1, <1>2 DEF FormatSound, IsPacked, Packed, IsFloat, Canonical, ColorFormats
<1>8. ImpliedComponents(f, texel)
  BY <1>1, <1>2, <1>5, <1>6 DEF ImpliedComponents
<1>9. \A k \in 1..4 : texel[k] \in 0..One
  BY <1>4, <1>5, <1>6
<1>10. Representable(f, texel)
  <2> HIDE DEF texel
  <2> QED
    BY <1>1, <1>2, <1>7, <1>9 DEF Representable
<1> QED
  BY <1>7, <1>8, <1>10 DEF TexelFits, f

(* The formats that calls ask for, with the texels they give.               *)
LEMMA RequestedSound ==
    ASSUME NEW internal, NEW format, NEW type
    PROVE  LET f == RequestedFormat(internal, format, type)
           IN FormatSound(f) /\ (IsColor(f) /\ f.base # None => Uploads(f, format, type))
<1> DEFINE f == RequestedFormat(internal, format, type)
           color == ColorStorage(internal, format, type)
           depth == DepthStorage(internal, format, type)
<1>1. CASE internal \in DOMAIN SrgbStorage /\ type = "UBYTE" /\ format = internal
  <2>1. f.base = SrgbStorage[format] /\ f.type = "FLOAT" /\ f.srgb
    BY <1>1 DEF RequestedFormat, Format
  <2> HIDE DEF f
  <2> QED
    BY <1>1, <2>1, SrgbFacts
       DEF FormatSound, IsPacked, Packed, IsFloat, Canonical, ColorFormats, Uploads, f
<1>2. CASE \/ internal \in DOMAIN SrgbStorage /\ ~(type = "UBYTE" /\ format = internal)
           \/ internal \notin DOMAIN SrgbStorage /\ color = None /\ depth = None
  <2>1. f.base = None /\ f.type = None /\ ~f.srgb
    BY <1>2 DEF RequestedFormat, NoFormat, Format
  <2> HIDE DEF f
  <2> QED
    BY <2>1, TextureAssumption DEF FormatSound, IsPacked, Packed, IsFloat, ColorFormats, f
<1>3. CASE internal \notin DOMAIN SrgbStorage /\ color # None
  <2>1. f.base = color /\ f.type = type /\ ~f.srgb
    <3> HIDE DEF color, depth
    <3> QED
      BY <1>3 DEF RequestedFormat, Format, color, depth
  <2>2. \/ color \in Packed /\ type \notin {"FLOAT", "HALF"}
        \/ color \in Canonical /\ format = color /\ type \in {"FLOAT", "HALF", "UBYTE"}
    <3>1. CASE internal = format /\ \E p \in Packed : PackedRequest[p] = <<format, type>>
      <4>3. PICK p \in Packed : PackedRequest[p] = <<format, type>>
        BY <3>1
      <4>4. color = CHOOSE q \in Packed : PackedRequest[q] = <<format, type>>
        BY <3>1 DEF ColorStorage
      <4>5. color \in Packed
        BY <4>3, <4>4
      <4>6. type \in {"5_6_5", "4_4_4_4", "5_5_5_1"}
        BY <4>3 DEF Packed, PackedRequest
      <4> QED
        BY <4>5, <4>6
    <3>2. CASE ~(internal = format /\ \E p \in Packed : PackedRequest[p] = <<format, type>>)
      <4>1. /\ color = internal /\ internal = format
            /\ \/ internal \in Canonical /\ type \in {"FLOAT", "HALF"}
               \/ internal \in ColorFormats /\ type = "UBYTE"
        BY <1>3, <3>2 DEF ColorStorage
      <4> QED
        BY <4>1 DEF ColorFormats
    <3> QED
      BY <3>1, <3>2
  <2> HIDE DEF f, color
  <2>3. FormatSound(f)
    BY <2>1, <2>2 DEF FormatSound, IsPacked, Packed, Canonical, ColorFormats, IsFloat
  <2>4. Uploads(f, format, type)
    BY <2>1, <2>2, <2>3 DEF Uploads, FormatSound, IsPacked, IsFloat
  <2> QED
    BY <2>3, <2>4 DEF f
<1>4. CASE internal \notin DOMAIN SrgbStorage /\ color = None /\ depth # None
  <2>1. f.base = depth /\ f.type = None /\ ~f.srgb
    <3> HIDE DEF color, depth
    <3> QED
      BY <1>4 DEF RequestedFormat, Format, color, depth
  <2>2. depth \in DepthFormats
    BY <1>4 DEF DepthStorage, DepthFormats
  <2> HIDE DEF f, depth
  <2> QED
    BY <2>1, <2>2, TextureAssumption DEF IsFloat, FormatSound, IsPacked, Packed, IsColor, ColorFormats, Canonical, DepthFormats, f
<1> QED
  BY <1>1, <1>2, <1>3, <1>4

LEMMA UploadSound ==
    ASSUME NEW f, NEW format, NEW type, FormatSound(f), IsColor(f),
           UploadValid(f, format, type) \/ DepthUploadValid(f, format, type)
    PROVE  Uploads(f, format, type)
<1>1. UploadValid(f, format, type)
  BY DEF DepthUploadValid, IsColor, ColorFormats, Canonical, Packed
<1>2. CASE f.srgb
  BY <1>1, <1>2, SrgbFacts DEF UploadValid, Uploads, FormatSound
<1>3. CASE ~f.srgb /\ IsFloat(f)
  BY <1>1, <1>3 DEF UploadValid, Uploads
<1>4. CASE ~f.srgb /\ ~IsFloat(f) /\ IsPacked(f)
  <2>1. PackedRequest[f.base] = <<format, type>>
    BY <1>1, <1>4 DEF UploadValid
  <2>2. type \in {"5_6_5", "4_4_4_4", "5_5_5_1"}
    BY <1>4, <2>1 DEF IsPacked, Packed, PackedRequest
  <2> QED
    BY <1>4, <2>2 DEF Uploads
<1>5. CASE ~f.srgb /\ ~IsFloat(f) /\ ~IsPacked(f)
  BY <1>1, <1>5 DEF UploadValid, Uploads
<1> QED
  BY <1>2, <1>3, <1>4, <1>5

LEMMA CopyFormatSound ==
    ASSUME NEW internal \in ColorFormats \cup DOMAIN SrgbStorage, NEW source
    PROVE  FormatSound(CopyFormat(internal, source))
<1> DEFINE f == CopyFormat(internal, source)
<1>1. CASE internal \in DOMAIN SrgbStorage
  <2>1. f.base = SrgbStorage[internal] /\ f.type = "FLOAT" /\ f.srgb
    BY <1>1 DEF CopyFormat, Format
  <2> HIDE DEF f
  <2> QED
    BY <1>1, <2>1, SrgbFacts
       DEF FormatSound, IsPacked, Packed, IsFloat, Canonical, ColorFormats, f
<1>2. CASE internal \notin DOMAIN SrgbStorage
  <2>1. /\ f.base = internal /\ ~f.srgb
        /\ internal \in Packed => f.type = PackedType(internal)
    BY <1>2 DEF CopyFormat, Format
  <2>2. internal \in Packed => PackedType(internal) \in {"5_6_5", "4_4_4_4", "5_5_5_1"}
    BY DEF Packed, PackedType, PackedRequest
  <2>3. internal \in Packed \cup Canonical
    BY <1>2 DEF ColorFormats
  <2> HIDE DEF f
  <2> QED
    BY <2>1, <2>2, <2>3 DEF FormatSound, IsPacked, IsFloat, ColorFormats, f
<1> QED
  BY <1>1, <1>2

-----------------------------------------------------------------------------
(* The levels below a base, each reduced from the one above it.             *)
ReducedBase(base) == [texel |-> base.texel, rest |-> base.rest]
ReducedLevel(f, base, l, above) ==
    LET size == IF l = 1 THEN base.size ELSE LevelSize(base.size, l - 1)
        texel == Corner(f, size, above.texel, above.rest)
    IN [texel |-> texel,
        rest |-> IF LevelSize(base.size, l) = <<1, 1>> THEN texel
                 ELSE Reduced(f, above.rest, above.rest, above.rest, above.rest)]
ReducedChain(c, f, base, n) ==
    c = [l \in 0..n |-> IF l = 0 THEN ReducedBase(base) ELSE ReducedLevel(f, base, l, c[l - 1])]

LEMMA ReducedChainExists ==
    ASSUME NEW n \in Nat, NEW f, NEW base
    PROVE  \E c : ReducedChain(c, f, base, n)
<1> DEFINE Bad == {k \in 0..n : ~ \E c : ReducedChain(c, f, base, k)}
<1>1. SUFFICES ASSUME Bad # {} PROVE FALSE
  <2>1. n \in 0..n
    OBVIOUS
  <2> QED
    BY <1>1, <2>1
<1> Bad \subseteq Nat
  OBVIOUS
<1> HIDE DEF Bad
<1>2. PICK m \in Bad : \A k \in Bad : m <= k
  BY <1>1, MinElement
<1> USE DEF Bad
<1>3. CASE m = 0
  <2> DEFINE c == [l \in 0..0 |-> ReducedBase(base)]
  <2>1. ReducedChain(c, f, base, 0)
    <3>1. \A l \in 0..0 : l = 0
      OBVIOUS
    <3> QED
      BY <3>1 DEF ReducedChain
  <2> QED
    BY <1>3, <2>1
<1>4. CASE m # 0
  <2>1. m - 1 \in 0..n /\ m - 1 \notin Bad /\ m \in Nat
    BY <1>2, <1>4
  <2>2. PICK s : ReducedChain(s, f, base, m - 1)
    BY <2>1
  <2> DEFINE t == [l \in 0..m |-> IF l = m THEN ReducedLevel(f, base, m, s[m - 1]) ELSE s[l]]
  <2>3. \A l \in 0..(m - 1) :
           s[l] = IF l = 0 THEN ReducedBase(base) ELSE ReducedLevel(f, base, l, s[l - 1])
    BY <2>2 DEF ReducedChain
  <2>4. \A l \in 0..m :
           t[l] = IF l = 0 THEN ReducedBase(base) ELSE ReducedLevel(f, base, l, t[l - 1])
    <3> SUFFICES ASSUME NEW l \in 0..m
                 PROVE  t[l] = IF l = 0 THEN ReducedBase(base) ELSE ReducedLevel(f, base, l, t[l - 1])
      OBVIOUS
    <3>1. CASE l = m
      <4>1. t[l] = ReducedLevel(f, base, m, s[m - 1])
        BY <3>1
      <4>2. m - 1 \in 0..m /\ m - 1 # m
        BY <1>4, <2>1
      <4>3. t[m - 1] = s[m - 1]
        BY <4>2
      <4> QED
        BY <1>4, <3>1, <4>1, <4>3
    <3>2. CASE l # m /\ l = 0
      <4>1. t[l] = s[l] /\ 0 \in 0..(m - 1)
        BY <1>4, <2>1, <3>2
      <4> HIDE DEF t
      <4> QED
        BY <2>3, <3>2, <4>1
    <3>3. CASE l # m /\ l # 0
      <4>1. l \in 0..(m - 1) /\ l - 1 \in 0..m /\ l - 1 # m
        BY <2>1, <3>3
      <4>2. t[l] = s[l] /\ t[l - 1] = s[l - 1]
        BY <3>3, <4>1
      <4> HIDE DEF t
      <4> QED
        BY <2>3, <3>3, <4>1, <4>2
    <3> QED
      BY <3>1, <3>2, <3>3
  <2>5. DOMAIN t = 0..m /\ t = [l \in 0..m |-> t[l]]
    OBVIOUS
  <2> HIDE DEF t
  <2>6. ReducedChain(t, f, base, m)
    BY <2>4, <2>5 DEF ReducedChain
  <2> QED
    BY <1>2, <2>6
<1> QED
  BY <1>3, <1>4

LEMMA ReductionsAre ==
    ASSUME NEW f, NEW base
    PROVE  LET c == Reductions(f, base)
           IN /\ c[0] = ReducedBase(base)
              /\ \A l \in Levels \ {0} : c[l] = ReducedLevel(f, base, l, c[l - 1])
<1> DEFINE Eq(c) == c = [l \in Levels |-> IF l = 0 THEN ReducedBase(base)
                                          ELSE ReducedLevel(f, base, l, c[l - 1])]
           g == CHOOSE c : Eq(c)
<1>1. Levels = 0..(MaxLevels - 1) /\ MaxLevels - 1 \in Nat
  BY TextureFacts DEF Levels
<1>2. \E c : Eq(c)
  <2>1. PICK c : ReducedChain(c, f, base, MaxLevels - 1)
    BY <1>1, ReducedChainExists
  <2>2. Eq(c)
    BY <2>1 DEF ReducedChain, Levels
  <2> QED
    BY <2>2
<1>3. Eq(g)
  BY <1>2
<1>4. Reductions(f, base) = g
  BY DEF Reductions, ReducedBase, ReducedLevel
<1> HIDE DEF g
<1>5. \A l \in Levels : g[l] = IF l = 0 THEN ReducedBase(base) ELSE ReducedLevel(f, base, l, g[l - 1])
  BY <1>3
<1> QED
  BY <1>4, <1>5, TextureFacts

LEMMA ReductionsFit ==
    ASSUME NEW f, FormatSound(f), ~f.srgb, NEW base,
           TexelFits(f, base.texel), TexelFits(f, base.rest)
    PROVE  \A l \in Levels : /\ TexelFits(f, Reductions(f, base)[l].texel)
                             /\ TexelFits(f, Reductions(f, base)[l].rest)
<1> DEFINE c == Reductions(f, base)
           Good(l) == TexelFits(f, c[l].texel) /\ TexelFits(f, c[l].rest)
           Bad == {l \in Levels : ~Good(l)}
<1>1. /\ c[0] = ReducedBase(base)
      /\ \A l \in Levels \ {0} : c[l] = ReducedLevel(f, base, l, c[l - 1])
  BY ReductionsAre
<1> HIDE DEF c
<1>2. Good(0)
  <2>1. c[0].texel = base.texel /\ c[0].rest = base.rest
    BY <1>1 DEF ReducedBase
  <2> QED
    BY <2>1
<1>3. ASSUME NEW l \in Levels \ {0}, Good(l - 1)
      PROVE  Good(l)
  <2> DEFINE above == c[l - 1]
             size == IF l = 1 THEN base.size ELSE LevelSize(base.size, l - 1)
             texel == Corner(f, size, above.texel, above.rest)
             rest == Reduced(f, above.rest, above.rest, above.rest, above.rest)
  <2>5. c[l] = ReducedLevel(f, base, l, above)
    BY <1>1
  <2> HIDE DEF above
  <2>6. c[l] = [texel |-> texel, rest |-> IF LevelSize(base.size, l) = <<1, 1>> THEN texel ELSE rest]
    BY <2>5 DEF ReducedLevel
  <2> HIDE DEF texel, rest
  <2>1. c[l].texel = texel /\ (c[l].rest = texel \/ c[l].rest = rest)
    BY <2>6
  <2>2. TexelFits(f, above.texel) /\ TexelFits(f, above.rest)
    BY <1>3 DEF above
  <2> HIDE DEF size
  <2>3. TexelFits(f, rest)
    BY <2>2, ReducedFits DEF rest
  <2>4. TexelFits(f, texel)
    BY <2>2, ReducedFits DEF texel, Corner
  <2> QED
    BY <2>1, <2>3, <2>4
<1> HIDE DEF Good
<1>4. Bad = {}
  <2> SUFFICES ASSUME Bad # {} PROVE FALSE
    OBVIOUS
  <2>1. Bad \subseteq Nat
    BY TextureFacts
  <2> HIDE DEF Bad
  <2>2. PICK m \in Bad : \A k \in Bad : m <= k
    BY <2>1, MinElement
  <2>3. m \in Levels /\ ~Good(m) /\ m \in Nat
    BY <2>1, <2>2 DEF Bad
  <2>4. m # 0
    BY <1>2, <2>3
  <2>5. m - 1 \in Levels /\ ~(m <= m - 1)
    BY <2>3, <2>4, TextureFacts DEF Levels
  <2>6. Good(m - 1)
    BY <2>2, <2>5 DEF Bad
  <2> QED
    BY <1>3, <2>3, <2>4, <2>6
<1> QED
  BY <1>4 DEF Good, c

-----------------------------------------------------------------------------
(* A face whose format occurs, that has no level without its base and whose *)
(* stored texels fit the format.                                            *)
FaceFits(face) ==
    /\ FormatSound(face.format) /\ \A l \in Levels : Stored(face, l) => Stored(face, 0)
    /\ \A l \in Levels : Stored(face, l) /\ IsColor(face.format) =>
          TexelFits(face.format, face.levels[l].texel) /\ TexelFits(face.format, face.levels[l].rest)

LEMMA MadeFits ==
    ASSUME NEW f, NEW size, NEW texel, Area(size) # 0 /\ IsColor(f) => TexelFits(f, texel)
    PROVE  LET made == Made(size, texel)
           IN /\ made.size = size
              /\ Area(size) # 0 /\ IsColor(f) => TexelFits(f, made.texel) /\ TexelFits(f, made.rest)
  BY DEF Made

LEMMA EmptyFits == FaceFits(NoFace)
<1>1. \A l \in Levels : ~Stored(NoFace, l)
  BY DEF NoFace, NoLevel, Stored, Area
<1>2. NoFace.format.base = None /\ NoFace.format.type = None /\ ~NoFace.format.srgb
  BY DEF NoFace, NoFormat, Format
<1>3. FormatSound(NoFace.format)
  BY <1>2, TextureAssumption DEF FormatSound, IsPacked, Packed, IsFloat, ColorFormats
<1> QED
  BY <1>1, <1>3 DEF FaceFits

LEMMA BasedFits ==
    ASSUME NEW face, NEW size, NEW format, FormatSound(format), NEW texel,
           Area(size) # 0 /\ IsColor(format) => TexelFits(format, texel)
    PROVE  FaceFits(WithLevel(face, 0, size, format, texel))
<1> DEFINE y == WithLevel(face, 0, size, format, texel)
           made == Made(size, texel)
<1>1. y = [defined |-> TRUE, format |-> format, levels |-> [NoFace.levels EXCEPT ![0] = made]]
  BY DEF WithLevel
<1>2. DOMAIN NoFace.levels = Levels /\ \A l \in Levels : NoFace.levels[l] = NoLevel
  BY DEF NoFace
<1>3. made.size = size
      /\ (Area(size) # 0 /\ IsColor(format) => TexelFits(format, made.texel) /\ TexelFits(format, made.rest))
  BY MadeFits
<1> HIDE DEF made
<1>4. y.format = format /\ y.levels[0] = made /\ \A l \in Levels \ {0} : y.levels[l] = NoLevel
  BY <1>1, <1>2, TextureFacts
<1> HIDE DEF y
<1>5. \A l \in Levels \ {0} : ~Stored(y, l)
  BY <1>4 DEF Stored, NoLevel, Area
<1>6. FaceFits(y)
  <2> SUFFICES ASSUME NEW l \in Levels, Stored(y, l), IsColor(y.format)
               PROVE  TexelFits(y.format, y.levels[l].texel) /\ TexelFits(y.format, y.levels[l].rest)
    BY <1>4, <1>5 DEF FaceFits
  <2>1. l = 0 /\ Area(size) # 0
    BY <1>3, <1>4, <1>5 DEF Stored
  <2> QED
    BY <1>3, <1>4, <2>1
<1> QED
  BY <1>6 DEF y

LEMMA ExtendedFits ==
    ASSUME NEW face, FaceGood(face), FaceFits(face), Stored(face, 0), NEW level \in Levels \ {0},
           NEW size, NEW format, NEW texel,
           Area(size) # 0 /\ IsColor(face.format) => TexelFits(face.format, texel)
    PROVE  FaceFits(WithLevel(face, level, size, format, texel))
<1> DEFINE y == WithLevel(face, level, size, format, texel)
           made == Made(size, texel)
           f == face.format
<1>1. y = [face EXCEPT !.levels[level] = made]
  BY DEF WithLevel
<1>2. made.size = size
      /\ (Area(size) # 0 /\ IsColor(f) => TexelFits(f, made.texel) /\ TexelFits(f, made.rest))
  BY MadeFits
<1> HIDE DEF made
<1>3. /\ y.format = f /\ y.levels[level] = made
      /\ \A l \in Levels \ {level} : y.levels[l] = face.levels[l]
  BY <1>1 DEF FaceGood, FaceShaped, FaceFields
<1> HIDE DEF y
<1>4. FaceFits(y)
  <2>0. Stored(y, 0)
    BY <1>3, TextureFacts DEF Stored
  <2> SUFFICES ASSUME NEW l \in Levels, Stored(y, l), IsColor(f)
               PROVE  TexelFits(f, y.levels[l].texel) /\ TexelFits(f, y.levels[l].rest)
    BY <1>3, <2>0 DEF FaceFits
  <2>1. CASE l = level
    BY <1>2, <1>3, <2>1 DEF Stored
  <2>2. CASE l # level
    BY <1>3, <2>2 DEF Stored, FaceFits
  <2> QED
    BY <2>1, <2>2
<1> QED
  BY <1>4 DEF y

LEMMA UpdatedFits ==
    ASSUME NEW face, FaceGood(face), FaceFits(face), NEW level \in Levels, Stored(face, level),
           NEW region, NEW texel, IsColor(face.format) => TexelFits(face.format, texel)
    PROVE  FaceFits(Updated(face, level, region, texel))
<1> DEFINE y == Updated(face, level, region, texel)
           old == face.levels[level]
           f == face.format
           rest == IF region.size = old.size THEN texel ELSE old.rest
           new == [old EXCEPT !.texel = texel, !.generated = FALSE, !.rest = rest]
           levels == [l \in Levels |-> IF l = level THEN new
                                       ELSE IF level = 0 /\ face.levels[l].generated THEN NoLevel
                                       ELSE face.levels[l]]
<1>1. y = [face EXCEPT !.levels = levels]
  BY DEF Updated
<1>2. new.size = old.size /\ new.texel = texel /\ new.rest = rest
  BY DEF FaceGood, FaceShaped, LevelFields
<1>3. levels[level] = new /\ \A l \in Levels \ {level} : levels[l] \in {NoLevel, face.levels[l]}
  OBVIOUS
<1> HIDE DEF new, levels
<1>4. y.format = f /\ y.levels = levels
  BY <1>1 DEF FaceGood, FaceShaped, FaceFields
<1> HIDE DEF y
<1>5. Area(NoLevel.size) = 0
  BY DEF NoLevel, Area
<1>6. FaceFits(y)
  <2>0. Stored(y, 0)
    <3>1. level # 0 => levels[0] = face.levels[0]
      BY TextureFacts DEF levels
    <3>2. Stored(face, 0)
      BY DEF FaceFits
    <3> QED
      BY <1>2, <1>3, <1>4, <3>1, <3>2 DEF Stored
  <2> SUFFICES ASSUME NEW l \in Levels, Stored(y, l), IsColor(f)
               PROVE  TexelFits(f, y.levels[l].texel) /\ TexelFits(f, y.levels[l].rest)
    BY <1>4, <2>0 DEF FaceFits
  <2>1. CASE l = level
    <3>1. TexelFits(f, texel) /\ TexelFits(f, old.rest)
      BY DEF FaceFits
    <3> QED
      BY <1>2, <1>3, <1>4, <2>1, <3>1
  <2>2. CASE l # level
    <3>1. y.levels[l] = face.levels[l]
      BY <1>3, <1>4, <1>5, <2>2 DEF Stored
    <3> QED
      BY <3>1 DEF Stored, FaceFits
  <2> QED
    BY <2>1, <2>2
<1> QED
  BY <1>6 DEF y

LEMMA GeneratedFits ==
    ASSUME NEW face, FaceGood(face), FaceFits(face), Stored(face, 0), Reducible(face.format)
    PROVE  FaceFits(WithGenerated(face))
<1> DEFINE y == WithGenerated(face)
           f == face.format
           base == face.levels[0]
           levels == [l \in Levels |-> IF l = 0 THEN base
                                       ELSE IF l \in Chain(face) THEN GeneratedLevel(face, l)
                                       ELSE NoLevel]
<1>1. y = [face EXCEPT !.levels = levels]
  BY DEF WithGenerated
<1>2. levels[0] = base /\ \A l \in Levels \ {0} : levels[l] \in {GeneratedLevel(face, l), NoLevel}
  BY TextureFacts
<1> HIDE DEF levels
<1>3. y.format = f /\ y.levels = levels
  BY <1>1 DEF FaceGood, FaceShaped, FaceFields
<1> HIDE DEF y
<1>4. TexelFits(f, base.texel) /\ TexelFits(f, base.rest) /\ FormatSound(f) /\ ~f.srgb
  BY TextureFacts DEF Reducible, FaceFits
<1>5. \A l \in Levels : /\ TexelFits(f, Reductions(f, base)[l].texel)
                        /\ TexelFits(f, Reductions(f, base)[l].rest)
  <2> HIDE DEF f, base
  <2> QED
    BY <1>4, ReductionsFit
<1>6. \A l \in Levels : /\ GeneratedLevel(face, l).texel = Reductions(f, base)[l].texel
                        /\ GeneratedLevel(face, l).rest = Reductions(f, base)[l].rest
  BY DEF GeneratedLevel
<1>7. Area(NoLevel.size) = 0
  BY DEF NoLevel, Area
<1>8. FaceFits(y)
  <2>0. Stored(y, 0)
    BY <1>2, <1>3 DEF Stored
  <2> SUFFICES ASSUME NEW l \in Levels, Stored(y, l)
               PROVE  TexelFits(f, y.levels[l].texel) /\ TexelFits(f, y.levels[l].rest)
    BY <1>3, <1>4, <2>0 DEF FaceFits
  <2>1. CASE l = 0
    BY <1>2, <1>3, <1>4, <2>1
  <2>2. CASE l # 0
    <3>1. y.levels[l] = GeneratedLevel(face, l)
      BY <1>2, <1>3, <1>7, <2>2 DEF Stored
    <3> QED
      BY <1>5, <1>6, <3>1
  <2> QED
    BY <2>1, <2>2
<1> QED
  BY <1>8 DEF y

-----------------------------------------------------------------------------
(* The texels of all textures.                                              *)
TexelsFit == \A t \in Textures, f \in Faces : FaceFits(texture[t].faces[f])

LEMMA FitsKept ==
    ASSUME TexelsFit, \A t \in Textures : texture'[t].faces = texture[t].faces
    PROVE  TexelsFit'
  BY DEF TexelsFit

LEMMA OneFits ==
    ASSUME TexturesInvariant, TexelsFit, NEW t \in Textures, NEW y,
           texture' = [texture EXCEPT ![t] = y], \A f \in Faces : FaceFits(y.faces[f])
    PROVE  TexelsFit'
<1>1. \A u \in Textures : texture'[u] = IF u = t THEN y ELSE texture[u]
  BY DEF TexturesInvariant, TexturesGood
<1>2. ASSUME NEW u \in Textures, NEW f \in Faces
      PROVE  FaceFits(texture'[u].faces[f])
  <2>1. CASE u = t
    BY <1>1, <2>1
  <2>2. CASE u # t
    BY <1>1, <2>2 DEF TexelsFit
  <2> QED
    BY <2>1, <2>2
<1> QED
  BY <1>2 DEF TexelsFit

LEMMA SameFits ==
    ASSUME TexturesInvariant, TexelsFit, NEW t \in Textures, NEW y,
           texture' = [texture EXCEPT ![t] = y], y.faces = texture[t].faces
    PROVE  TexelsFit'
  BY OneFits DEF TexelsFit

LEMMA UnderFits ==
    ASSUME TexturesInvariant, TexelsFit, NEW target \in Targets
    PROVE  FaceFits(FaceUnder(target))
<1>1. CASE Owner(target) = None
  BY <1>1, EmptyFits DEF FaceUnder
<1>2. CASE Owner(target) # None
  BY <1>2, OwnerFacts DEF TexelsFit, LiveAs, BoundAs
<1> QED
  BY <1>1, <1>2

(* A call that fails leaves the texels.                                     *)
LEMMA FailedFits ==
    ASSUME TexturesInvariant, TexelsFit, NEW target \in Targets, NEW outer, NEW inner,
           outer = "NO_ERROR" /\ IsFace(target) => Owner(target) # None,
           Refused(outer) \/ (outer = "NO_ERROR" /\ Abandoned(target, inner))
    PROVE  TexelsFit'
<1>1. CASE Refused(outer)
  BY <1>1, FitsKept DEF Refused
<1>2. CASE outer = "NO_ERROR" /\ Abandoned(target, inner) /\ ~IsFace(target)
  BY <1>2, FitsKept DEF Abandoned, Prepared
<1>3. CASE outer = "NO_ERROR" /\ Abandoned(target, inner) /\ IsFace(target)
  <2> DEFINE t == Owner(target)
             x == texture[t]
             y == [x EXCEPT !.image = NoImage]
  <2>1. BoundAs(t, "CUBE") /\ TextureGood(x) /\ DOMAIN texture = Textures
    BY <1>3, OwnerFacts
  <2>2. t \in Textures /\ texture' = [texture EXCEPT ![t] = y]
    BY <1>3, <2>1 DEF Abandoned, Prepared, Discarded, LiveAs, BoundAs
  <2>3. y.faces = x.faces
    BY <2>1, ImageEdited DEF TextureGood, Current, SameBuild
  <2> HIDE DEF y, t
  <2> QED
    BY <2>2, <2>3, SameFits
<1> QED
  BY <1>1, <1>2, <1>3

(* A face is replaced.                                                      *)
LEMMA ReplaceFits ==
    ASSUME TexturesInvariant, TexelsFit, NEW target \in Targets, Owner(target) # None, NEW new,
           Replace(target, new), FaceFits(new)
    PROVE  TexelsFit'
<1> DEFINE t == Owner(target)
           x == texture[t]
           f == FaceOf(target)
           y == WithFace(x, f, new)
<1>1. /\ BoundAs(t, BindingOf(target)) /\ f \in Faces /\ TextureGood(x) /\ DOMAIN texture = Textures
  BY OwnerFacts
<1>2. t \in Textures
  BY <1>1 DEF LiveAs, BoundAs
<1>3. texture' = [texture EXCEPT ![t] = y]
  BY <1>1, <1>2 DEF Replace, Discarded, WithFace
<1>4. y.faces[f] = new /\ \A g \in Faces \ {f} : y.faces[g] = x.faces[g]
  <2> HIDE DEF x, f
  <2> QED
    BY <1>1 DEF WithFace, TextureGood, Current, TextureShaped, TextureFields
<1> HIDE DEF y, f
<1>5. \A g \in Faces : FaceFits(y.faces[g])
  <2> SUFFICES ASSUME NEW g \in Faces PROVE FaceFits(y.faces[g])
    OBVIOUS
  <2>1. CASE g = f
    BY <1>4, <2>1
  <2>2. CASE g # f
    BY <1>2, <1>4, <2>2 DEF TexelsFit
  <2> QED
    BY <2>1, <2>2
<1> HIDE DEF t
<1> QED
  BY <1>2, <1>3, <1>5, OneFits

LEMMA LevelFits ==
    ASSUME TexturesInvariant, TexelsFit, NEW target \in Targets, Owner(target) # None,
           NEW level \in Levels, NEW size, NEW format, NEW texel, FormatSound(format),
           level # 0 => format = FaceUnder(target).format /\ Stored(FaceUnder(target), 0),
           Area(size) # 0 /\ IsColor(format) => TexelFits(format, texel),
           Replace(target, WithLevel(FaceUnder(target), level, size, format, texel))
    PROVE  TexelsFit'
<1> DEFINE new == WithLevel(FaceUnder(target), level, size, format, texel)
<1>1. FaceFits(new)
  <2>1. CASE level = 0
    BY <2>1, BasedFits
  <2>2. CASE level # 0
    BY <2>2, UnderGood, UnderFits, ExtendedFits
  <2> QED
    BY <2>1, <2>2
<1> HIDE DEF new
<1> QED
  BY <1>1, ReplaceFits DEF new

LEMMA PartFits ==
    ASSUME TexturesInvariant, TexelsFit, NEW target \in Targets,
           IsFace(target) => Owner(target) # None,
           NEW level \in Levels, Stored(FaceUnder(target), level), NEW region, NEW texel,
           Area(region.size) # 0 /\ IsColor(FaceUnder(target).format)
               => TexelFits(FaceUnder(target).format, texel),
           Written(target, level, region, texel)
    PROVE  TexelsFit'
<1> DEFINE new == Updated(FaceUnder(target), level, region, texel)
<1>1. Owner(target) # None
  BY EmptyFace DEF FaceUnder, NoFace, NoLevel, Stored, Area
<1>2. CASE Area(region.size) = 0
  BY <1>2, FailedFits DEF Written
<1>3. CASE Area(region.size) # 0
  <2>1. Replace(target, new)
    BY <1>3 DEF Written
  <2>2. FaceFits(new)
    BY <1>3, UnderGood, UnderFits, UpdatedFits
  <2> HIDE DEF new
  <2> QED
    BY <1>1, <2>1, <2>2, ReplaceFits
<1> QED
  BY <1>2, <1>3

LEMMA TexImageFits ==
    ASSUME TexturesInvariant, TexelsFit, NEW target \in Targets, NEW level, NEW size \in Int \X Int,
           NEW request, NEW given, NEW pixel \in AnyTexel(request[3]),
           TexImage(target, level, size, request, given, pixel)
    PROVE  TexelsFit'
<1> DEFINE format == RequestedFormat(request[1], request[2], request[3])
           outer == CubeImageError(target, level, size, format)
           needed == IF SizeValid(size)
                     THEN RequiredSourceBytes(size[1], size[2], request[2], request[3]) ELSE 0
           inner == IF outer # "NO_ERROR" THEN outer
                    ELSE ImageError(target, level, size, format, given, needed, 0)
           texel == IF given = None THEN DefaultTexel(format) ELSE StoredTexel(format, request[2], pixel)
           new == WithLevel(FaceUnder(target), level, size, format, texel)
<1>1. \/ Refused(outer)
      \/ outer = "NO_ERROR" /\ Abandoned(target, inner)
      \/ outer = "NO_ERROR" /\ inner = "NO_ERROR" /\ Replace(target, new)
  BY DEF TexImage, Checked
<1>2. /\ FormatSound(format)
      /\ IsColor(format) /\ format.base # None => Uploads(format, request[2], request[3])
  BY RequestedSound
<1> HIDE DEF format, needed
<1>3. outer = "NO_ERROR" /\ IsFace(target) => Owner(target) # None
  BY CubeAllowed
<1>4. CASE Refused(outer) \/ (outer = "NO_ERROR" /\ Abandoned(target, inner))
  <2> HIDE DEF inner, outer, texel
  <2> QED
    BY <1>3, <1>4, FailedFits
<1>5. CASE outer = "NO_ERROR" /\ inner = "NO_ERROR" /\ Replace(target, new)
  <2>1. ImageError(target, level, size, format, given, needed, 0) = "NO_ERROR"
    BY <1>5
  <2>2. /\ level \in Levels /\ Owner(target) # None
        /\ LevelError(FaceUnder(target), level, size, format) = "NO_ERROR"
    BY <2>1, ImageAllowed
  <2>3. level # 0 => format = FaceUnder(target).format /\ Stored(FaceUnder(target), 0)
    BY <2>2, LevelAllowed
  <2>4. format.base # None
    BY <2>1 DEF ImageError
  <2>5. IsColor(format) => TexelFits(format, texel)
    BY <1>2, <2>4, DefaultFits, StoredFits
  <2> HIDE DEF inner, outer, texel
  <2> QED
    BY <1>2, <1>5, <2>2, <2>3, <2>5, LevelFits
<1> QED
  BY <1>1, <1>4, <1>5

LEMMA TexSubImageFits ==
    ASSUME TexturesInvariant, TexelsFit, NEW target \in Targets, NEW level, NEW region, NEW format,
           NEW type, NEW given, NEW pixel \in AnyTexel(type),
           TexSubImage(target, level, region, format, type, given, pixel)
    PROVE  TexelsFit'
<1> DEFINE outer == CubeUpdateError(target)
           inner == IF outer # "NO_ERROR" THEN outer
                    ELSE SubImageError(target, level, region, format, type, None, given)
           f == FaceUnder(target).format
           texel == StoredTexel(f, format, pixel)
<1>1. \/ Refused(outer) \/ (outer = "NO_ERROR" /\ Abandoned(target, inner))
      \/ outer = "NO_ERROR" /\ inner = "NO_ERROR" /\ Written(target, level, region, texel)
  BY DEF TexSubImage, Checked
<1>2. outer = "NO_ERROR" /\ IsFace(target) => Owner(target) # None
  BY CubeUpdating
<1>3. CASE Refused(outer) \/ (outer = "NO_ERROR" /\ Abandoned(target, inner))
  <2> HIDE DEF inner, outer, texel
  <2> QED
    BY <1>2, <1>3, FailedFits
<1>4. CASE outer = "NO_ERROR" /\ inner = "NO_ERROR" /\ Written(target, level, region, texel)
  <2>0. SubImageError(target, level, region, format, type, None, given) = "NO_ERROR"
    BY <1>4
  <2>1. /\ level \in Levels /\ Stored(FaceUnder(target), level)
        /\ UploadValid(f, format, type) \/ DepthUploadValid(f, format, type)
    BY <2>0 DEF SubImageError
  <2>2. FormatSound(f)
    BY UnderFits DEF FaceFits
  <2>3. IsColor(f) => TexelFits(f, texel)
    <3> HIDE DEF f
    <3> QED
      BY <2>1, <2>2, UploadSound, StoredFits
  <2> HIDE DEF inner, outer, texel
  <2> QED
    BY <1>2, <1>4, <2>1, <2>3, PartFits
<1> QED
  BY <1>1, <1>3, <1>4

(* A copy reads finite texels.                                              *)
LEMMA CopiedFromFits ==
    ASSUME NEW source \in AnySource, NEW size, ReadError(source, size) = "NO_ERROR",
           NEW f, FormatSound(f)
    PROVE  TexelFits(f, CopiedFrom(source, f))
<1>1. Finite(source.texel) /\ source.texel \in [1..4 -> Int \cup {NotFinite}]
  BY DEF ReadError, AnySource
<1>2. source.texel \in [1..4 -> Int]
  BY <1>1 DEF Finite
<1>3. \A c \in 1..4 : Snapshot(source.format, source.texel)[c] \in Int
  BY <1>2, SnapshotInt
<1> QED
  BY <1>3, CopiedFits DEF CopiedFrom

LEMMA CopyTexImageFits ==
    ASSUME TexturesInvariant, TexelsFit, NEW target \in Targets, NEW level, NEW internal,
           NEW size \in Int \X Int, NEW source \in AnySource,
           CopyTexImage(target, level, internal, size, source)
    PROVE  TexelsFit'
<1> DEFINE outer == CopyOuterError(target, level, internal, size, source)
           format == CopyFormat(internal, source)
           inner == IF outer # "NO_ERROR" THEN outer
                    ELSE CopyInnerError(target, level, size, format, source)
           stored == CopyStored(FaceUnder(target), level, format)
           texel == CopiedFrom(source, stored)
<1>1. \/ Refused(outer) \/ (outer = "NO_ERROR" /\ Abandoned(target, inner))
      \/ /\ outer = "NO_ERROR" /\ inner = "NO_ERROR"
         /\ Replace(target, WithLevel(FaceUnder(target), level, size, stored, texel))
  BY DEF CopyTexImage, Checked
<1>2. outer = "NO_ERROR" => level \in Levels /\ Owner(target) # None
  BY CopyAllowed
<1>3. outer = "NO_ERROR" => internal \in ColorFormats \cup DOMAIN SrgbStorage
  BY DEF CopyOuterError
<1>4. CASE Refused(outer) \/ (outer = "NO_ERROR" /\ Abandoned(target, inner))
  <2> HIDE DEF inner, outer, texel
  <2> QED
    BY <1>2, <1>4, FailedFits
<1>5. CASE /\ outer = "NO_ERROR" /\ inner = "NO_ERROR"
           /\ Replace(target, WithLevel(FaceUnder(target), level, size, stored, texel))
  <2>1. FormatSound(stored)
    <3>1. CASE level = 0
      BY <1>3, <1>5, <3>1, CopyFormatSound DEF CopyStored
    <3>2. CASE level # 0
      BY <3>2, UnderFits DEF CopyStored, FaceFits
    <3> QED
      BY <3>1, <3>2
  <2>2. CopyInnerError(target, level, size, format, source) = "NO_ERROR"
    BY <1>5
  <2>3. ReadError(source, size) = "NO_ERROR"
    BY <2>2 DEF CopyInnerError
  <2>4. level # 0 => stored = FaceUnder(target).format /\ Stored(FaceUnder(target), 0)
    BY <2>2, CopyLevelAllowed DEF CopyStored, CopyInnerError
  <2> HIDE DEF stored
  <2>5. TexelFits(stored, texel)
    BY <2>1, <2>3, CopiedFromFits
  <2> HIDE DEF inner, outer, texel
  <2> QED
    BY <1>2, <1>5, <2>1, <2>4, <2>5, LevelFits
<1> QED
  BY <1>1, <1>4, <1>5

LEMMA CopyTexSubImageFits ==
    ASSUME TexturesInvariant, TexelsFit, NEW target \in Targets, NEW level, NEW region,
           NEW source \in AnySource, CopyTexSubImage(target, level, region, source)
    PROVE  TexelsFit'
<1> DEFINE outer == IF level \notin Levels \/ Negative(region) \/ Before(source)
                    THEN "INVALID_VALUE" ELSE CubeUpdateError(target)
           inner == IF outer # "NO_ERROR" THEN outer
                    ELSE CopySubError(target, level, region, source)
           f == FaceUnder(target).format
           texel == CopiedFrom(source, f)
<1>1. \/ Refused(outer) \/ (outer = "NO_ERROR" /\ Abandoned(target, inner))
      \/ outer = "NO_ERROR" /\ inner = "NO_ERROR" /\ Written(target, level, region, texel)
  BY DEF CopyTexSubImage, Checked
<1>2. outer = "NO_ERROR" => level \in Levels /\ (IsFace(target) => Owner(target) # None)
  BY CubeUpdating
<1>3. CASE Refused(outer) \/ (outer = "NO_ERROR" /\ Abandoned(target, inner))
  <2> HIDE DEF inner, outer, texel
  <2> QED
    BY <1>2, <1>3, FailedFits
<1>4. CASE outer = "NO_ERROR" /\ inner = "NO_ERROR" /\ Written(target, level, region, texel)
  <2>1. CopySubError(target, level, region, source) = "NO_ERROR"
    BY <1>4
  <2>2. /\ Stored(FaceUnder(target), level)
        /\ Area(region.size) = 0 \/ ReadError(source, region.size) = "NO_ERROR"
    BY <2>1 DEF CopySubError
  <2>3. FormatSound(f)
    BY UnderFits DEF FaceFits
  <2>4. Area(region.size) # 0 => TexelFits(f, texel)
    <3> HIDE DEF f
    <3> QED
      BY <2>2, <2>3, CopiedFromFits
  <2> HIDE DEF inner, outer, texel
  <2> QED
    BY <1>2, <1>4, <2>2, <2>4, PartFits
<1> QED
  BY <1>1, <1>3, <1>4

LEMMA CompressedTexImageFits ==
    ASSUME TexturesInvariant, TexelsFit, NEW target \in Targets, NEW level, NEW c \in Compressed,
           NEW size \in Int \X Int, NEW given, NEW block \in AnyBlock,
           CompressedTexImage(target, level, c, size, given, block)
    PROVE  TexelsFit'
<1> DEFINE format == DecodedFormat(c)
           held == DecodedBytes(c, size[1], size[2])
           needed == RequiredSourceBytes(size[1], size[2], format.base, format.type)
           stored == Decoded(c, size)
           outer == IF level \notin Levels \/ ~SizeValid(size) THEN "INVALID_VALUE"
                    ELSE CubeImageError(target, level, size,
                            Format(CompressedBase(c), DecodedType(c), CompressedSrgb(c), c))
           inner == IF outer # "NO_ERROR" THEN outer
                    ELSE IF DecodeError(c, size, given, block) # "NO_ERROR"
                    THEN DecodeError(c, size, given, block)
                    ELSE ImageError(target, level, size, format, stored, needed, held)
           texel == DecodedTexel(c, block)
<1>1. \/ Refused(outer) \/ (outer = "NO_ERROR" /\ Abandoned(target, inner))
      \/ /\ outer = "NO_ERROR" /\ inner = "NO_ERROR"
         /\ Replace(target, WithLevel(FaceUnder(target), level, size, format, texel))
  BY DEF CompressedTexImage, Checked
<1>2. FormatSound(format) /\ TexelFits(format, texel)
  BY DecodedFits
<1> HIDE DEF needed, texel, stored
<1>3. outer = "NO_ERROR" => SizeValid(size) /\ (IsFace(target) => Owner(target) # None)
  BY CubeAllowed
<1>4. CASE Refused(outer) \/ (outer = "NO_ERROR" /\ Abandoned(target, inner))
  <2> HIDE DEF inner, outer, format
  <2> QED
    BY <1>3, <1>4, FailedFits
<1>5. CASE /\ outer = "NO_ERROR" /\ inner = "NO_ERROR"
           /\ Replace(target, WithLevel(FaceUnder(target), level, size, format, texel))
  <2>1. held \in Nat
    BY <1>3, <1>5, SizeIs, DecodedNat DEF ValidSize
  <2> HIDE DEF held, format
  <2>2. ImageError(target, level, size, format, stored, needed, held) = "NO_ERROR"
    BY <1>5
  <2>3. /\ level \in Levels /\ Owner(target) # None
        /\ LevelError(FaceUnder(target), level, size, format) = "NO_ERROR"
    BY <2>1, <2>2, ImageAllowed
  <2>4. level # 0 => format = FaceUnder(target).format /\ Stored(FaceUnder(target), 0)
    BY <2>3, LevelAllowed
  <2> HIDE DEF inner, outer
  <2> QED
    BY <1>2, <1>5, <2>3, <2>4, LevelFits
<1> QED
  BY <1>1, <1>4, <1>5

LEMMA CompressedTexSubImageFits ==
    ASSUME TexturesInvariant, TexelsFit, NEW target \in Targets, NEW level, NEW region,
           NEW c \in Compressed, NEW given, NEW block \in AnyBlock,
           CompressedTexSubImage(target, level, region, c, given, block)
    PROVE  TexelsFit'
<1> DEFINE outer == IF level \notin Levels \/ Negative(region) THEN "INVALID_VALUE"
                    ELSE CubeUpdateError(target)
           inner == IF outer # "NO_ERROR" THEN outer
                    ELSE CompressedSubError(target, level, region, c, given, block)
           texel == DecodedTexel(c, block)
<1>1. \/ Refused(outer) \/ (outer = "NO_ERROR" /\ Abandoned(target, inner))
      \/ outer = "NO_ERROR" /\ inner = "NO_ERROR" /\ Written(target, level, region, texel)
  BY DEF CompressedTexSubImage, Checked
<1> HIDE DEF texel
<1>2. outer = "NO_ERROR" => level \in Levels /\ (IsFace(target) => Owner(target) # None)
  BY CubeUpdating
<1>3. CASE Refused(outer) \/ (outer = "NO_ERROR" /\ Abandoned(target, inner))
  <2> HIDE DEF inner, outer
  <2> QED
    BY <1>2, <1>3, FailedFits
<1>4. CASE outer = "NO_ERROR" /\ inner = "NO_ERROR" /\ Written(target, level, region, texel)
  <2>1. CompressedSubError(target, level, region, c, given, block) = "NO_ERROR"
    BY <1>4
  <2>2. Stored(FaceUnder(target), level) /\ FaceUnder(target).format = DecodedFormat(c)
    BY <2>1 DEF CompressedSubError
  <2>3. TexelFits(FaceUnder(target).format, texel)
    BY <2>2, DecodedFits DEF texel
  <2> HIDE DEF inner, outer
  <2> QED
    BY <1>2, <1>4, <2>2, <2>3, PartFits
<1> QED
  BY <1>1, <1>3, <1>4

(* What is reduced has a stored base of a format that can be.               *)
LEMMA MipmapFaces ==
    ASSUME NEW x, TextureGood(x), MipmapAllowed(x), NEW f \in UsedFaces(x.target)
    PROVE  f \in Faces /\ Stored(x.faces[f], 0) /\ Reducible(x.faces[f].format)
<1>1. CASE x.target = "CUBE"
  <2>1. f \in Faces /\ CubeBaseImagesComplete(x) /\ Reducible(Summary(x).format)
    BY <1>1 DEF UsedFaces, MipmapAllowed
  <2>2. \A g \in Faces : Stored(x.faces[g], 0) /\ x.faces[g].format = x.faces[First].format
    BY <2>1 DEF CubeBaseImagesComplete, Agree
  <2>3. \E g \in Faces : x.faces[g].defined
    BY <2>1, <2>2 DEF TextureGood, FacesGood, FaceGood, FaceNamed
  <2>4. PICK g \in Faces : SummaryOf("CUBE", x.faces) = x.faces[g]
    BY <2>3, SummaryFace
  <2> QED
    BY <1>1, <2>1, <2>2, <2>4, SummaryIs
<1>2. CASE x.target # "CUBE"
  BY <1>2, TextureFacts DEF UsedFaces, MipmapAllowed
<1> QED
  BY <1>1, <1>2

LEMMA GenerateMipmapFits ==
    ASSUME TexturesInvariant, TexelsFit, NEW binding \in Bindings, GenerateMipmap(binding)
    PROVE  TexelsFit'
<1> DEFINE t == BoundTo(binding)
           x == texture[t]
           faces == IF binding = "CUBE" THEN Faces ELSE {First}
           bytes == ChainBytes(x, faces)
           y == WithChains(x, faces)
<1>1. \/ Refused(MipmapError(binding, bytes))
      \/ MipmapError(binding, bytes) = "NO_ERROR" /\ texture' = [texture EXCEPT ![t] = y]
  BY DEF GenerateMipmap, ChainBytes, WithChains
<1>2. CASE Refused(MipmapError(binding, bytes))
  BY <1>2, FitsKept DEF Refused
<1>3. CASE MipmapError(binding, bytes) = "NO_ERROR" /\ texture' = [texture EXCEPT ![t] = y]
  <2>1. t # None /\ MipmapAllowed(x)
    BY <1>3 DEF MipmapError
  <2>2. t \in Textures /\ TextureGood(x) /\ x.target = binding
    BY <2>1, BoundFacts DEF LiveAs, BoundAs
  <2>3. faces = UsedFaces(x.target)
    BY <2>2 DEF UsedFaces
  <2> HIDE DEF faces
  <2>4. \A f \in Faces : y.faces[f] = IF f \in faces THEN WithGenerated(x.faces[f]) ELSE x.faces[f]
    <3> HIDE DEF x
    <3> QED
      BY <2>2 DEF WithChains, TextureGood, Current, TextureShaped, TextureFields
  <2> HIDE DEF y
  <2>5. ASSUME NEW f \in Faces PROVE FaceFits(y.faces[f])
    <3>1. FaceFits(x.faces[f]) /\ FaceGood(x.faces[f])
      BY <2>2 DEF TexelsFit, TextureGood, FacesGood
    <3>2. CASE f \in faces
      <4>1. Stored(x.faces[f], 0) /\ Reducible(x.faces[f].format)
        BY <2>1, <2>2, <2>3, <3>2, MipmapFaces
      <4>2. FaceFits(WithGenerated(x.faces[f]))
        BY <3>1, <4>1, GeneratedFits
      <4> QED
        BY <2>4, <3>2, <4>2
    <3>3. CASE f \notin faces
      BY <2>4, <3>1, <3>3
    <3> QED
      BY <3>2, <3>3
  <2> HIDE DEF t
  <2> QED
    BY <1>3, <2>2, <2>5, OneFits
<1> QED
  BY <1>1, <1>2, <1>3

(* The other calls leave the faces, or take all of them.                    *)
LEMMA BindingFits ==
    ASSUME TexturesInvariant, TexelsFit, ChangeBinding
    PROVE  TexelsFit'
<1>0. DOMAIN texture = Textures /\ \A t \in Textures : TextureGood(texture[t])
  BY DEF TexturesInvariant, TexturesGood
<1>1. ASSUME NEW t \in Textures, GenTextures(t) PROVE TexelsFit'
  <2> DEFINE y == [texture[t] EXCEPT !.name = "reserved"]
  <2>1. CASE texture' = [texture EXCEPT ![t].name = "reserved"]
    <3>1. texture' = [texture EXCEPT ![t] = y]
      BY <1>0, <2>1
    <3>2. y.faces = texture[t].faces
      BY <1>0 DEF TextureGood, Current, TextureShaped, TextureFields
    <3> HIDE DEF y
    <3> QED
      BY <3>1, <3>2, SameFits
  <2>2. CASE Refused("OUT_OF_MEMORY")
    BY <2>2, FitsKept DEF Refused
  <2> QED
    BY <1>1, <2>1, <2>2 DEF GenTextures
<1>2. ASSUME NEW t \in Textures \cup {None}, NEW binding \in Bindings, BindTexture(binding, t)
      PROVE  TexelsFit'
  <2> DEFINE y == Promoted(texture[t], binding)
  <2>1. CASE texture' = texture
    BY <2>1, FitsKept
  <2>2. CASE t # None /\ texture' = [texture EXCEPT ![t] = Promoted(@, binding)]
    <3>1. t \in Textures /\ texture' = [texture EXCEPT ![t] = y]
      BY <1>0, <2>2
    <3>2. y.faces = texture[t].faces
      BY <1>0, <3>1, PromotedEdited DEF TextureGood, Current
    <3> HIDE DEF y
    <3> QED
      BY <3>1, <3>2, SameFits
  <2> QED
    BY <1>2, <2>1, <2>2 DEF BindTexture, Refused
<1>3. ASSUME NEW unit, ActiveTexture(unit) PROVE TexelsFit'
  BY <1>3, FitsKept DEF ActiveTexture
<1> QED
  BY <1>1, <1>2, <1>3 DEF ChangeBinding

LEMMA SampleFits ==
    ASSUME TexturesInvariant, TexelsFit, SampleUnit
    PROVE  TexelsFit'
<1>0. DOMAIN texture = Textures /\ \A t \in Textures : TextureGood(texture[t])
  BY DEF TexturesInvariant, TexturesGood
<1>1. PICK unit \in Units, binding \in Bindings, made \in SUBSET {"image", "sampler"} :
         Sample(unit, binding, made)
  BY DEF SampleUnit
<1> DEFINE bound == IF binding = "CUBE" THEN units[unit].cube ELSE units[unit].flat
           t == RealizedName(unit)
           x == texture[t]
           y == Realized(x, made)
<1>2. CASE texture' = texture
  BY <1>2, FitsKept
<1>3. CASE bound # None /\ texture' = [texture EXCEPT ![t] = y]
  <2>1. /\ units[unit].flat # None => BoundAs(units[unit].flat, "2D")
        /\ units[unit].cube # None => BoundAs(units[unit].cube, "CUBE")
    BY DEF TexturesInvariant, UnitsGood
  <2>2. t \in Textures /\ x.name = "live"
    BY <1>3, <2>1 DEF RealizedName, LiveAs, BoundAs, Bindings
  <2>3. y.faces = x.faces
    BY <1>0, <2>2, Realizing DEF TextureGood, SameBuild
  <2> HIDE DEF y, t
  <2> QED
    BY <1>3, <2>2, <2>3, SameFits
<1> QED
  BY <1>1, <1>2, <1>3 DEF Sample, SampledAs

LEMMA DeletionFits ==
    ASSUME TexturesInvariant, TexelsFit, NEW t \in Textures, DeleteTexture(t)
    PROVE  TexelsFit'
<1>1. texture' = [texture EXCEPT ![t] = NoTexture]
  BY DEF DeleteTexture
<1>2. \A f \in Faces : NoTexture.faces[f] = NoFace
  BY DEF NoTexture
<1> QED
  BY <1>1, <1>2, EmptyFits, OneFits

LEMMA RenderToFits ==
    ASSUME TexturesInvariant, TexelsFit, NEW t \in Textures, NEW face, NEW level,
           RenderTo(t, face, level)
    PROVE  TexelsFit'
<1>0. DOMAIN texture = Textures /\ \A u \in Textures : TextureGood(texture[u])
  BY DEF TexturesInvariant, TexturesGood
<1> DEFINE y == Drawn(texture[t], face, level)
<1>1. texture[t].name = "live" /\ texture' = [texture EXCEPT ![t] = y]
  BY <1>0 DEF RenderTo
<1>2. y.faces = texture[t].faces
  BY <1>0, <1>1, DrawnCurrent DEF TextureGood
<1> HIDE DEF y
<1> QED
  BY <1>1, <1>2, SameFits

LEMMA ParameterFits ==
    ASSUME TexturesInvariant, TexelsFit, NEW binding \in Bindings, NEW name, NEW value,
           TexParameter(binding, name, value)
    PROVE  TexelsFit'
<1> DEFINE t == BoundTo(binding)
           x == texture[t]
           y == WithParameter(x, name, ParameterStored(name, value))
<1>1. CASE texture' = texture
  BY <1>1, FitsKept
<1>2. CASE /\ ParameterError(binding, name, value) = "NO_ERROR"
           /\ texture' = [texture EXCEPT ![t] =
                             WithParameter(@, name, ParameterStored(name, value))]
  <2>1. t # None
    BY <1>2 DEF ParameterError
  <2>2. t \in Textures /\ TextureGood(x) /\ DOMAIN texture = Textures
    BY <2>1, BoundFacts DEF LiveAs, BoundAs
  <2>3. texture' = [texture EXCEPT ![t] = y]
    BY <1>2, <2>2
  <2>4. y.faces = x.faces
    BY <2>2, ParameterEdited DEF TextureGood, Current, SameImage, SameBuild
  <2> HIDE DEF y, t
  <2> QED
    BY <2>2, <2>3, <2>4, SameFits
<1> QED
  BY <1>1, <1>2 DEF TexParameter, Refused

LEMMA CallFits ==
    ASSUME TexturesInvariant, TexelsFit, TextureCall
    PROVE  TexelsFit'
<1>1. CASE DefineImage
  <2>1. PICK target \in Targets, level \in Int, size \in Int \X Int, given \in AnyCount :
           \/ \E request \in STRING \X STRING \X STRING : \E pixel \in AnyTexel(request[3]) :
                 TexImage(target, level, size, request, given, pixel)
           \/ \E internal \in STRING, source \in AnySource :
                 CopyTexImage(target, level, internal, size, source)
           \/ \E c \in Compressed, block \in AnyBlock :
                 CompressedTexImage(target, level, c, size, given, block)
    BY <1>1 DEF DefineImage
  <2> QED
    BY <2>1, TexImageFits, CopyTexImageFits, CompressedTexImageFits
<1>2. CASE UpdateImage
  <2>1. PICK target \in Targets, level \in Int, region \in AnyRegion, given \in AnyCount :
           \/ \E format, type \in STRING : \E pixel \in AnyTexel(type) :
                 TexSubImage(target, level, region, format, type, given, pixel)
           \/ \E source \in AnySource : CopyTexSubImage(target, level, region, source)
           \/ \E c \in Compressed, block \in AnyBlock :
                 CompressedTexSubImage(target, level, region, c, given, block)
    BY <1>2 DEF UpdateImage
  <2> QED
    BY <2>1, TexSubImageFits, CopyTexSubImageFits, CompressedTexSubImageFits
<1>3. CASE ChangeBinding \/ SampleUnit
  BY <1>3, BindingFits, SampleFits
<1>4. CASE \E binding \in Bindings : GenerateMipmap(binding)
  BY <1>4, GenerateMipmapFits
<1>5. CASE \E binding \in Bindings, name \in STRING, value \in STRING \cup Int \cup {NotFinite} :
              TexParameter(binding, name, value)
  BY <1>5, ParameterFits
<1>6. CASE \E gate \in STRING : EnableGate(gate)
  BY <1>6, FitsKept DEF EnableGate
<1> QED
  BY <1>1, <1>2, <1>3, <1>4, <1>5, <1>6 DEF TextureCall

LEMMA TexelsKept ==
    ASSUME TexturesInvariant, TexelsFit, [TexturesNext]_textureVars
    PROVE  TexelsFit'
  BY CallFits, DeletionFits, RenderToFits, FitsKept DEF TexturesNext, textureVars

LEMMA TexelsStart == NothingStored => TexelsFit
<1> SUFFICES ASSUME NothingStored PROVE TexelsFit
  OBVIOUS
<1>1. \A t \in Textures, f \in Faces : texture[t].faces[f] = NoFace
  BY DEF NothingStored, NoTexture
<1> QED
  BY <1>1, EmptyFits DEF TexelsFit

(* Every stored texel has the components its format implies, in the range   *)
(* its storage holds, whichever upload, copy, block or reduction made it    *)
(* (texture.c's conversions).                                               *)
THEOREM TexelsImpliedHolds == TexturesSpec => []TexelsImplied
<1>1. TexturesInit => TexelsFit
  BY TexelsStart DEF TexturesInit
<1>2. TexelsFit /\ TexturesInvariant /\ [TexturesNext]_textureVars => TexelsFit'
  BY TexelsKept
<1>3. TexelsFit => TexelsImplied
  BY DEF TexelsFit, FaceFits, TexelFits, TexelsImplied
<1> QED
  BY <1>1, <1>2, <1>3, TexturesInvariantHolds, PTL DEF TexturesSpec
=============================================================================
