--------------------------- MODULE SubmissionProofs ---------------------------
(***************************************************************************)
(* For any handles, values and lengths of the queue: waits end only when   *)
(* everything before them is done, handles are owned, failures and losses  *)
(* are told.  The second part is about the images that submitted commands  *)
(* use (Rendering): what is believed of their states is so.  The third is  *)
(* about the trace all of it is told in (TraceRing): it is a numbered log. *)
(***************************************************************************)
EXTENDS Submission, Rendering, TraceRing, TotalsTheorems, SequenceTheorems, TLAPS

-----------------------------------------------------------------------------
(***************************************************************************)
(* Types.                                                                  *)
(***************************************************************************)
Ops == {"none", "create", "reset", "record", "close", "submit", "wait", "read", "destroy"}
Entries == [fence : Handles \cup {0}, value : 0 .. LastValue]

(* What a callback leaves in call and in the errors.                        *)
LEMMA ReturnedTypes ==
    ASSUME TypeOK, NEW op \in Ops, NEW r \in Results, NEW records \in SUBSET {"CALL_SUMMARY"},
           Returned(op, r, records)
    PROVE  /\ call' \in [op : Ops, result : Results \cup {"none"},
                         records : SUBSET {"CALL_SUMMARY", "CONTEXT_LOSS"}]
           /\ lost' \in BOOLEAN /\ reported' \in BOOLEAN /\ pending' \in Errors \cup {"none"}
           /\ losses' \in Nat
<1>1. records \cup LossRecord(r) \in SUBSET {"CALL_SUMMARY", "CONTEXT_LOSS"}
  BY DEF LossRecord
<1>2. call' \in [op : Ops, result : Results \cup {"none"},
                 records : SUBSET {"CALL_SUMMARY", "CONTEXT_LOSS"}]
  <2>1. call' = [op |-> op, result |-> r, records |-> records \cup LossRecord(r)]
    BY DEF Returned
  <2> HIDE DEF Ops
  <2> QED
    BY <1>1, <2>1
<1>3. \/ lost' = TRUE /\ reported' = FALSE /\ pending' = "none" /\ losses' = losses + 1
      \/ lost' = lost /\ reported' = reported /\ pending' = pending /\ losses' = losses
  BY DEF Returned, MarkLost, errorVars
<1>4. /\ lost' \in BOOLEAN /\ reported' \in BOOLEAN /\ pending' \in Errors \cup {"none"}
      /\ losses' \in Nat
  <2>1. lost \in BOOLEAN /\ reported \in BOOLEAN /\ pending \in Errors \cup {"none"}
    BY DEF TypeOK
  <2>2. lost' \in BOOLEAN /\ reported' \in BOOLEAN /\ pending' \in Errors \cup {"none"}
    BY ONLY <1>3, <2>1
  <2>3. losses \in Nat /\ (losses' = losses \/ losses' = losses + 1)
    BY <1>3 DEF TypeOK
  <2>4. losses' \in Nat
    BY ONLY <2>3
  <2> QED
    BY <2>2, <2>4
<1> QED
  BY ONLY <1>2, <1>4

LEMMA UnsignalledTypes ==
    ASSUME TypeOK
    PROVE  /\ Unsignalled(queue) \in Seq(Entries) /\ Len(Unsignalled(queue)) = Len(queue)
           /\ \A i \in DOMAIN queue : Unsignalled(queue)[i] =
                IF queue[i].fence = fence THEN [fence |-> 0, value |-> 0] ELSE queue[i]
<1>1. queue \in Seq(Entries) /\ [fence |-> 0, value |-> 0] \in Entries
  BY SubmissionAssumption DEF TypeOK, Entries
<1> QED
  BY <1>1 DEF Unsignalled

LEMMA DestroyTypes ==
    ASSUME TypeOK, NEW r \in Results, DestroyContext(r)
    PROVE  TypeOK'
<1>1. LossRecord(r) \subseteq {"CONTEXT_LOSS"}
  BY DEF LossRecord
<1>2. call' \in [op : Ops, result : Results \cup {"none"},
                 records : SUBSET {"CALL_SUMMARY", "CONTEXT_LOSS"}]
  BY <1>1 DEF DestroyContext, NoCall, Ops, Results
<1>3. live' \in SUBSET Handles /\ queue' \in Seq(Entries) /\ signal' = signal
  BY UnsignalledTypes DEF TypeOK, DestroyContext, FenceDestroyed, deviceVars, Entries
<1>4. /\ lost' = FALSE /\ reported' = FALSE /\ pending' = "none" /\ ops' = FALSE
      /\ generation' \in Generations \cup {0} /\ fence' = 0 /\ value' = 0 /\ pc' = "idle"
      /\ caller' = "draw" /\ losses' = 0 /\ told' = 0 /\ failed' = FALSE
      /\ list' = list /\ presents' = presents /\ drop' = drop
  BY DEF DestroyContext
<1>5. /\ lost' \in BOOLEAN /\ reported' \in BOOLEAN /\ pending' \in Errors \cup {"none"}
      /\ ops' \in BOOLEAN /\ presents' \in BOOLEAN /\ failed' \in BOOLEAN
  BY <1>4 DEF TypeOK
<1>6. /\ {list', fence', drop'} \subseteq Handles \cup {0} /\ value' \in 0 .. LastValue
      /\ caller' \in Callers /\ losses' \in Nat /\ told' \in Nat
  BY <1>4, SubmissionAssumption DEF TypeOK, Callers
<1>7. pc' \in {"idle", "list", "record", "fence", "close", "submit", "wait", "read", "drop",
              "fail", "end"} /\ generation' \in Generations \cup {0}
  BY <1>4
<1> QED
  BY <1>2, <1>3, <1>5, <1>6, <1>7 DEF TypeOK, Ops, Entries

LEMMA QueuedTypes ==
    ASSUME TypeOK, NEW e \in Entries, NEW r \in Results, Queued(e, r)
    PROVE  queue' \in Seq(Entries) /\ signal' = signal
<1>1. queue \in Seq(Entries)
  BY DEF TypeOK, Entries
<1> QED
  BY <1>1 DEF Queued

LEMMA AdvanceTypes ==
    ASSUME TypeOK, Advance
    PROVE  TypeOK'
<1> USE SubmissionAssumption
<1>12. CASE FindLost
  BY <1>12 DEF TypeOK, FindLost, NoCallback, NoCall, errorVars, objectVars, deviceVars,
     historyVars, Results
<1>1. CASE RecordNothing
  BY <1>1 DEF TypeOK, RecordNothing, NoCallback, NoCall, Proceed, AfterRecording, errorVars,
     objectVars, deviceVars, historyVars, Fenced, Results
<1>2. CASE TakeValue
  BY <1>2 DEF TypeOK, TakeValue, NoCallback, NoCall, errorVars, deviceVars, historyVars, Results
<1>3. CASE WaitEnds
  BY <1>3, ReturnedTypes DEF TypeOK, WaitEnds, SyncCall, Proceed, objectVars, deviceVars,
     historyVars, Results, Ops
<1>4. ASSUME NEW error \in Errors, Fail(error) PROVE TypeOK'
  BY <1>4 DEF TypeOK, Fail, RecordError, NoCallback, NoCall, objectVars, deviceVars,
     historyVars, Results
<1>5. ASSUME NEW r \in Results, NEW h \in (Handles \ live) \cup {0}, CreateList(r, h)
      PROVE  TypeOK'
  BY <1>5, ReturnedTypes DEF TypeOK, CreateList, ListCreated, CreateFails, BackendCall,
     AfterList, Usable, deviceVars, historyVars, Ops, Fenced
<1>6. ASSUME NEW r \in Results, NEW h \in (Handles \ live) \cup {0}, CreateFence(r, h)
      PROVE  TypeOK'
  BY <1>6, ReturnedTypes DEF TypeOK, CreateFence, FenceCreated, CreateFails, SyncCall, Usable,
     deviceVars, historyVars, Ops
<1>7. ASSUME NEW r \in Results, SubmitFenced(r) \/ Submit(r) PROVE TypeOK'
  <2>1. [fence |-> fence, value |-> value] \in Entries /\ [fence |-> 0, value |-> 0] \in Entries
    BY DEF TypeOK, Entries
  <2>2. queue' \in Seq(Entries) /\ signal' = signal
    BY <1>7, <2>1, QueuedTypes DEF SubmitFenced, Submit
  <2> QED
    BY <1>7, <2>2, ReturnedTypes DEF TypeOK, SubmitFenced, Submit, SyncCall, BackendCall,
       Proceed, objectVars, historyVars, Ops, Entries
<1>8. ASSUME NEW r \in Results, ResetList(r) \/ RecordCommands(r) \/ CloseList(r)
      PROVE  TypeOK'
  BY <1>8, ReturnedTypes DEF TypeOK, ResetList, RecordCommands, CloseList, BackendCall, Proceed,
     AfterList, AfterRecording, objectVars, deviceVars, historyVars, Ops, Fenced
<1>9. ASSUME NEW r \in Results, DropHandle(r) PROVE TypeOK'
  BY <1>9, ReturnedTypes DEF TypeOK, DropHandle, BackendCall, deviceVars, historyVars, Ops
<1>10. ASSUME NEW r \in Results, NEW after \in {"idle", "fail"}, ReadBack(r, after) PROVE TypeOK'
  BY <1>10, ReturnedTypes DEF TypeOK, ReadBack, SyncCall, Proceed, objectVars, deviceVars,
     historyVars, Ops
<1>11. ASSUME NEW r \in Results, DestroyContext(r) PROVE TypeOK'
  BY <1>11, DestroyTypes
<1> QED
  BY <1>1, <1>2, <1>3, <1>4, <1>5, <1>6, <1>7, <1>8, <1>9, <1>10, <1>11, <1>12 DEF Advance

LEMMA NextTypes ==
    ASSUME TypeOK, [Next]_vars
    PROVE  TypeOK'
<1> USE SubmissionAssumption
<1>1. CASE Advance
  BY <1>1, AdvanceTypes
<1>2. CASE GetError
  <2>1. lost' \in BOOLEAN /\ reported' \in BOOLEAN /\ pending' \in Errors \cup {"none"}
    BY <1>2 DEF TypeOK, GetError
  <2>2. told' \in Nat /\ failed' \in BOOLEAN
    <3>1. told' = told \/ told' = told + 1
      BY <1>2 DEF GetError
    <3>2. told \in Nat
      BY DEF TypeOK
    <3>3. failed' \in BOOLEAN
      BY <1>2 DEF GetError
    <3> QED
      BY ONLY <3>1, <3>2, <3>3
  <2> QED
    BY <1>2, <2>1, <2>2 DEF TypeOK, GetError, NoCallback, NoCall, objectVars, deviceVars, Results
<1>3. CASE Execute
  <2>1. Tail(queue) \in Seq(Entries) /\ Head(queue) \in Entries
    <3>1. queue \in Seq(Entries) /\ queue # <<>>
      BY <1>3 DEF TypeOK, Execute, Entries
    <3> QED
      BY ONLY <3>1
  <2>2. queue' \in Seq(Entries) /\ signal' \in [Handles -> 0 .. LastValue]
    BY <1>3, <2>1 DEF TypeOK, Execute, Entries
  <2> QED
    BY <1>3, <2>2 DEF TypeOK, Execute, NoCallback, NoCall, errorVars, objectVars, historyVars,
       Results, Entries
<1>4. ASSUME NEW c \in Callers, Enter(c) PROVE TypeOK'
  BY <1>4 DEF TypeOK, Enter, NoCallback, NoCall, errorVars, objectVars, deviceVars, historyVars,
     Results
<1>5. ASSUME NEW error \in Errors, Reject(error) PROVE TypeOK'
  BY <1>5 DEF TypeOK, Reject, RecordError, NoCallback, NoCall, objectVars, deviceVars, Results
<1>6. ASSUME NEW g \in Generations, ObserveDeviceGeneration(g) PROVE TypeOK'
  <2>1. /\ lost' \in BOOLEAN /\ reported' \in BOOLEAN /\ pending' \in Errors \cup {"none"}
        /\ generation' \in Generations \cup {0}
    BY <1>6 DEF TypeOK, ObserveDeviceGeneration, MarkLost, errorVars
  <2>2. losses' \in Nat
    BY <1>6 DEF TypeOK, ObserveDeviceGeneration, MarkLost
  <2>3. call' \in [op : Ops, result : Results \cup {"none"},
                   records : SUBSET {"CALL_SUMMARY", "CONTEXT_LOSS"}]
    BY <1>6 DEF ObserveDeviceGeneration, NoCall, Ops
  <2> QED
    BY <1>6, <2>1, <2>2, <2>3 DEF TypeOK, ObserveDeviceGeneration, objectVars, deviceVars,
       historyVars, Ops
<1>7. ASSUME NEW r \in Results, WaitFails(r) PROVE TypeOK'
  BY <1>7, ReturnedTypes DEF TypeOK, WaitFails, SyncCall, Proceed, objectVars, deviceVars,
     historyVars, Ops
<1>8. ASSUME NEW r \in Results, Invalidate(r) \/ DestroyList(r) PROVE TypeOK'
  BY <1>8, ReturnedTypes DEF TypeOK, Invalidate, DestroyList, BackendCall, deviceVars,
     historyVars, Ops
<1>9. ASSUME NEW r \in Results, DestroyContext(r) PROVE TypeOK'
  BY <1>9, DestroyTypes
<1>10. ASSUME NEW r \in Results, NEW on \in BOOLEAN, SetSyncOps(r, on) PROVE TypeOK'
  <2>1. CASE fence = 0
    BY <1>10, <2>1 DEF TypeOK, SetSyncOps, NoCallback, NoCall, errorVars, deviceVars,
       historyVars, Results
  <2>2. CASE fence # 0
    <3>1. live' \in SUBSET Handles /\ queue' \in Seq(Entries) /\ signal' = signal
      BY <1>10, <2>2, UnsignalledTypes DEF TypeOK, SetSyncOps, FenceDestroyed, Entries
    <3> QED
      BY <1>10, <2>2, <3>1, ReturnedTypes DEF TypeOK, SetSyncOps, BackendCall, historyVars, Ops,
         Entries
  <2> QED
    BY <2>1, <2>2
<1>11. ASSUME NEW r \in Results, Replace(r) PROVE TypeOK'
  BY <1>11, ReturnedTypes DEF TypeOK, Replace, BackendCall, objectVars, deviceVars, historyVars,
     Ops
<1>12. CASE UNCHANGED vars
  BY <1>12 DEF TypeOK, vars, errorVars, objectVars, deviceVars, historyVars
<1> QED
  BY <1>1, <1>2, <1>3, <1>4, <1>5, <1>6, <1>7, <1>8, <1>9, <1>10, <1>11, <1>12 DEF Next

LEMMA InitTypes == Init => TypeOK
<1> SUFFICES ASSUME Init
             PROVE  TypeOK
  OBVIOUS
<1>1. queue \in Seq([fence : Handles \cup {0}, value : 0 .. LastValue])
  BY DEF Init
<1>2. lost \in BOOLEAN /\ reported \in BOOLEAN /\ ops \in BOOLEAN /\ presents \in BOOLEAN
      /\ failed \in BOOLEAN
  BY DEF Init
<1>3. signal \in [Handles -> 0 .. LastValue] /\ value \in 0 .. LastValue
  BY SubmissionAssumption DEF Init
<1>4. call \in [op : Ops, result : Results \cup {"none"},
                records : SUBSET {"CALL_SUMMARY", "CONTEXT_LOSS"}]
  BY DEF Init, NoCall, Ops
<1> QED
  BY <1>1, <1>2, <1>3, <1>4 DEF Init, TypeOK, Callers, Ops

(* Every variable keeps its type; no fence is told to signal more than the  *)
(* last value.                                                              *)
THEOREM TypeCorrect == Spec => []TypeOK
  BY InitTypes, NextTypes, PTL DEF Spec

-----------------------------------------------------------------------------
(***************************************************************************)
(* Handles.                                                                *)
(***************************************************************************)
Owned ==
    /\ HandlesOwned
    /\ drop # 0 <=> pc = "drop"
    /\ pc = "end" => list = 0

LEMMA NextOwned ==
    ASSUME TypeOK, Owned, [Next]_vars
    PROVE  Owned'
<1> USE SubmissionAssumption
<1>1. 0 \notin live /\ {list, fence, drop} \subseteq Handles \cup {0}
  BY DEF TypeOK
<1>2. ASSUME UNCHANGED <<list, fence, drop, live>>, pc # "drop", pc' # "drop", pc' # "end"
      PROVE  Owned'
  BY <1>2 DEF Owned, HandlesOwned
<1>3. CASE FindLost \/ RecordNothing \/ TakeValue \/ WaitEnds
  <2>1. pc # "drop" /\ pc' # "drop" /\ pc' # "end"
    BY <1>3 DEF FindLost, RecordNothing, TakeValue, WaitEnds, Proceed, AfterRecording
  <2>2. UNCHANGED <<list, fence, drop, live>>
    BY <1>3 DEF FindLost, RecordNothing, TakeValue, WaitEnds, Proceed, objectVars
  <2> QED
    BY <1>2, <2>1, <2>2
<1>4. ASSUME NEW error \in Errors, Fail(error)
      PROVE  Owned'
  BY <1>2, <1>4 DEF Fail, objectVars
<1>5. ASSUME NEW r \in Results, NEW h \in (Handles \ live) \cup {0},
             CreateList(r, h) \/ CreateFence(r, h)
      PROVE  Owned'
  <2>1. CASE ListCreated(r, h) /\ pc = "list" /\ list = 0
    BY <1>1, <2>1 DEF ListCreated, Usable, AfterList, Owned, HandlesOwned
  <2>2. CASE FenceCreated(r, h) /\ pc = "fence" /\ fence = 0
    BY <1>1, <2>2 DEF FenceCreated, Usable, Owned, HandlesOwned
  <2>3. CASE CreateFails(r, h) /\ pc \in {"list", "fence"}
    BY <1>1, <2>3 DEF CreateFails, Owned, HandlesOwned
  <2> QED
    BY <1>5, <2>1, <2>2, <2>3 DEF CreateList, CreateFence
<1>6. ASSUME NEW r \in Results,
             ResetList(r) \/ RecordCommands(r) \/ CloseList(r) \/ WaitFails(r) \/ Replace(r)
      PROVE  Owned'
  <2>1. pc # "drop" /\ pc' # "drop" /\ pc' # "end"
    BY <1>6 DEF ResetList, RecordCommands, CloseList, WaitFails, Replace, Proceed, AfterList,
       AfterRecording
  <2>2. UNCHANGED <<list, fence, drop, live>>
    BY <1>6 DEF ResetList, RecordCommands, CloseList, WaitFails, Replace, Proceed, objectVars
  <2> QED
    BY <1>2, <2>1, <2>2
<1>7. ASSUME NEW r \in Results, NEW after \in {"idle", "fail"},
             Submit(r) \/ SubmitFenced(r) \/ ReadBack(r, after)
      PROVE  Owned'
  <2>1. pc # "drop" /\ pc' # "drop" /\ pc' # "end"
    BY <1>7 DEF Submit, SubmitFenced, ReadBack, Proceed
  <2>2. UNCHANGED <<list, fence, drop, live>>
    BY <1>7 DEF Submit, SubmitFenced, ReadBack, Proceed, objectVars
  <2> QED
    BY <1>2, <2>1, <2>2
<1>8. ASSUME NEW r \in Results, DropHandle(r)
      PROVE  Owned'
  BY <1>1, <1>8 DEF DropHandle, Owned, HandlesOwned
<1>9. ASSUME NEW r \in Results, DestroyContext(r)
      PROVE  Owned'
  BY <1>1, <1>9 DEF DestroyContext, FenceDestroyed, Owned, HandlesOwned
<1>10. ASSUME NEW r \in Results, Invalidate(r) \/ DestroyList(r)
       PROVE  Owned'
  BY <1>1, <1>10 DEF Invalidate, DestroyList, Idle, Owned, HandlesOwned
<1>11. ASSUME NEW r \in Results, NEW on \in BOOLEAN, SetSyncOps(r, on)
       PROVE  Owned'
  BY <1>1, <1>11 DEF SetSyncOps, FenceDestroyed, Idle, Owned, HandlesOwned
<1>12. CASE Execute
  BY <1>12 DEF Execute, objectVars, Owned, HandlesOwned
<1>13. CASE GetError \/ (\E error \in Errors : Reject(error))
            \/ (\E g \in Generations : ObserveDeviceGeneration(g))
  BY <1>13 DEF GetError, Reject, ObserveDeviceGeneration, objectVars, Owned, HandlesOwned
<1>14. ASSUME NEW c \in Callers, Enter(c)
       PROVE  Owned'
  BY <1>14 DEF Enter, Idle, objectVars, Owned, HandlesOwned
<1>15. CASE UNCHANGED vars
  BY <1>15 DEF vars, objectVars, Owned, HandlesOwned
<1> QED
  BY <1>3, <1>4, <1>5, <1>6, <1>7, <1>8, <1>9, <1>10, <1>11, <1>12, <1>13, <1>14, <1>15
     DEF Next, Advance

-----------------------------------------------------------------------------
(***************************************************************************)
(* The fence: a call that is to submit has a value of its own, and a call  *)
(* that waits has its submission at the end of the queue or done.          *)
(***************************************************************************)
Fresh ==
    /\ fence # 0 /\ signal[fence] < value
    /\ \A i \in DOMAIN queue : queue[i].fence # 0 => queue[i].value < value

Covered ==
    \/ queue = <<>> /\ signal[fence] = value
    \/ queue # <<>> /\ queue[Len(queue)] = [fence |-> fence, value |-> value]

Signals ==
    /\ fence = 0 => value = 0
    /\ fence # 0 => signal[fence] <= value
    /\ SignalsGrow

Steps ==
    /\ pc = "fence" => caller \in Fenced
    /\ pc \in {"close", "submit"} /\ caller \in Fenced => Fresh
    /\ pc = "wait" => fence # 0 /\ Covered

Fences == Signals /\ Steps

LEMMA Typed ==
    ASSUME TypeOK
    PROVE  /\ queue \in Seq(Entries) /\ Len(queue) \in Nat /\ DOMAIN queue = 1 .. Len(queue)
           /\ \A i \in DOMAIN queue : /\ queue[i].fence \in Handles \cup {0}
                                      /\ queue[i].value \in Nat
           /\ value \in Nat /\ fence \in Handles \cup {0} /\ 0 \notin Handles
           /\ \A h \in Handles : signal[h] \in Nat
           /\ fence # 0 => signal[fence] \in Nat
<1>1. queue \in Seq(Entries)
  BY DEF TypeOK, Entries
<1>2. Len(queue) \in Nat /\ DOMAIN queue = 1 .. Len(queue) /\ \A i \in DOMAIN queue : queue[i] \in Entries
  BY ONLY <1>1
<1>3. \A e \in Entries : e.fence \in Handles \cup {0} /\ e.value \in Nat
  BY SubmissionAssumption DEF Entries
<1>4. /\ value \in Nat /\ fence \in Handles \cup {0} /\ 0 \notin Handles
      /\ \A h \in Handles : signal[h] \in Nat
  BY SubmissionAssumption DEF TypeOK
<1> QED
  BY <1>1, <1>2, <1>3, <1>4

(* Steps that leave the fence and the queue alone.                          *)
LEMMA FenceUntouched ==
    ASSUME Fences, UNCHANGED <<fence, value, queue, signal>>,
           pc' = "fence" => caller' \in Fenced,
           pc' \in {"close", "submit"} /\ caller' \in Fenced => Fresh,
           pc' # "wait"
    PROVE  Fences'
<1>1. Signals'
  BY DEF Fences, Signals, SignalsGrow
<1>2. Fresh' <=> Fresh
  BY DEF Fresh
<1>3. Steps'
  BY <1>2 DEF Steps
<1> QED
  BY <1>1, <1>3 DEF Fences

LEMMA TakeValueFences ==
    ASSUME TypeOK, Fences, TakeValue
    PROVE  Fences'
<1>1. CASE value = LastValue
  BY <1>1, FenceUntouched DEF TakeValue, deviceVars
<1>2. CASE value # LastValue
  <2>1. /\ fence # 0 /\ value' = value + 1 /\ pc' = "close"
        /\ fence' = fence /\ queue' = queue /\ signal' = signal
    BY <1>2 DEF TakeValue, deviceVars
  <2>2. signal[fence] \in Nat /\ value \in Nat /\ signal[fence] <= value
    BY <2>1, Typed DEF Fences, Signals
  <2>3. \A i \in DOMAIN queue : queue[i].fence # 0 => queue[i].value \in Nat /\ queue[i].value <= value
    BY Typed DEF Fences, Signals, SignalsGrow
  <2>4. Fresh'
    BY <2>1, <2>2, <2>3 DEF Fresh
  <2>5. SignalsGrow'
    <3>1. \A i \in DOMAIN queue : queue[i].fence # 0 => queue[i].value <= value + 1
      BY <2>2, <2>3
    <3> QED
      BY <2>1, <3>1 DEF Fences, Signals, SignalsGrow
  <2>6. Signals'
    BY <2>1, <2>2, <2>5 DEF Signals
  <2> QED
    BY <2>1, <2>4, <2>6 DEF Fences, Steps
<1> QED
  BY <1>1, <1>2

LEMMA FenceCreatedFences ==
    ASSUME TypeOK, Fences, NEW r \in Results, NEW h \in (Handles \ live) \cup {0},
           pc = "fence", fence = 0, FenceCreated(r, h), caller' = caller
    PROVE  Fences'
<1>1. /\ h \in Handles /\ fence' = h /\ signal' = [signal EXCEPT ![h] = 0]
      /\ value' = value /\ pc' = pc /\ queue' = queue
  BY DEF FenceCreated, Usable
<1>2. value = 0 /\ \A i \in DOMAIN queue : queue[i].fence = 0
  BY DEF Fences, Signals, SignalsGrow
<1>3. signal'[h] = 0
  BY <1>1 DEF TypeOK
<1>4. Signals'
  BY <1>1, <1>2, <1>3, SubmissionAssumption DEF Signals, SignalsGrow
<1> QED
  BY <1>1, <1>4 DEF Fences, Steps

LEMMA SubmitFences ==
    ASSUME TypeOK, Fences, NEW r \in Results, Submit(r)
    PROVE  Fences'
<1>1. /\ pc' # "wait" /\ pc' # "fence" /\ pc' # "close" /\ pc' # "submit"
      /\ fence' = fence /\ value' = value /\ signal' = signal
      /\ queue' = queue \/ queue' = Append(queue, [fence |-> 0, value |-> 0])
  BY DEF Submit, Queued, Proceed, objectVars
<1>2. Signals'
  <2>1. CASE queue' = queue
    BY <1>1, <2>1 DEF Fences, Signals, SignalsGrow
  <2>2. CASE queue' = Append(queue, [fence |-> 0, value |-> 0])
    <3>1. /\ DOMAIN queue' = 1 .. Len(queue) + 1 /\ Len(queue) \in Nat
          /\ \A i \in 1 .. Len(queue) : queue'[i] = queue[i]
          /\ queue'[Len(queue) + 1] = [fence |-> 0, value |-> 0]
      BY <2>2, Typed
    <3>2. \A i \in DOMAIN queue' : queue'[i].fence # 0 => i \in 1 .. Len(queue)
      BY <3>1
    <3>3. SignalsGrow'
      BY <1>1, <3>1, <3>2, Typed DEF Fences, Signals, SignalsGrow
    <3> QED
      BY <1>1, <3>3 DEF Fences, Signals
  <2> QED
    BY <1>1, <2>1, <2>2
<1> QED
  BY <1>1, <1>2 DEF Fences, Steps

LEMMA SubmitFencedFences ==
    ASSUME TypeOK, Fences, NEW r \in Results, SubmitFenced(r)
    PROVE  Fences'
<1>1. fence' = fence /\ value' = value /\ signal' = signal /\ Fresh
  BY DEF SubmitFenced, Queued, Proceed, objectVars, Fences, Steps
<1>2. CASE r # "ok"
  <2>1. queue' = queue /\ pc' = "fail"
    BY <1>2 DEF SubmitFenced, Queued, Proceed
  <2> QED
    BY <1>1, <2>1, FenceUntouched
<1>3. CASE r = "ok"
  <2> DEFINE entry == [fence |-> fence, value |-> value]
  <2>1. queue' = Append(queue, entry) /\ pc' = "wait"
    BY <1>3 DEF SubmitFenced, Queued, Proceed
  <2>2. /\ DOMAIN queue' = 1 .. Len(queue) + 1 /\ Len(queue) \in Nat
        /\ Len(queue') = Len(queue) + 1 /\ queue' # <<>>
        /\ \A i \in 1 .. Len(queue) : queue'[i] = queue[i]
        /\ queue'[Len(queue) + 1] = entry
    BY <2>1, Typed
  <2>3. ASSUME NEW i \in DOMAIN queue', queue'[i].fence # 0
        PROVE  /\ queue'[i].fence = fence
               /\ signal[fence] < queue'[i].value /\ queue'[i].value <= value
               /\ \A j \in 1 .. i - 1 : queue'[j].fence # 0 => queue'[j].value < queue'[i].value
    <3>1. CASE i \in 1 .. Len(queue)
      BY <2>2, <2>3, <3>1, Typed DEF Fences, Signals, SignalsGrow
    <3>2. CASE i = Len(queue) + 1
      <4>1. queue'[i].fence = fence /\ queue'[i].value = value
        BY <2>2, <3>2
      <4>2. \A j \in 1 .. i - 1 : j \in DOMAIN queue /\ queue'[j] = queue[j]
        BY <2>2, <3>2, Typed
      <4> QED
        BY <1>1, <4>1, <4>2, Typed DEF Fresh
    <3> QED
      BY <2>2, <3>1, <3>2
  <2>4. SignalsGrow'
    BY <1>1, <2>3 DEF SignalsGrow
  <2>5. Signals'
    BY <1>1, <2>4 DEF Fences, Signals
  <2>6. Covered' /\ fence' # 0
    BY <1>1, <2>2 DEF Covered, Fresh
  <2> QED
    BY <2>1, <2>5, <2>6 DEF Fences, Steps
<1> QED
  BY <1>2, <1>3

(* The oldest submission is done: the fence catches up with it.             *)
LEMMA ExecuteFences ==
    ASSUME TypeOK, Fences, Execute
    PROVE  Fences'
<1> DEFINE n == Len(queue)
<1>1. /\ fence' = fence /\ value' = value /\ pc' = pc /\ caller' = caller
      /\ queue # <<>> /\ queue' = Tail(queue)
  BY DEF Execute, objectVars
<1>2. /\ n \in Nat \ {0} /\ DOMAIN queue = 1 .. n
      /\ Len(queue') = n - 1 /\ DOMAIN queue' = 1 .. n - 1
      /\ \A i \in 1 .. n - 1 : queue'[i] = queue[i + 1]
      /\ Head(queue) = queue[1] /\ queue[1] \in Entries
  <2>1. queue \in Seq(Entries)
    BY Typed
  <2>2. n \in Nat \ {0}
    BY ONLY <1>1, <2>1
  <2>3. queue' \in Seq(Entries) /\ Len(queue') = n - 1
    BY ONLY <1>1, <2>1, <2>2
  <2>4. \A i \in 1 .. n - 1 : queue'[i] = queue[i + 1]
    BY ONLY <1>1, <2>1, <2>2
  <2>5. Head(queue) = queue[1] /\ queue[1] \in Entries
    BY ONLY <1>1, <2>1, <2>2
  <2> QED
    BY <2>1, <2>2, <2>3, <2>4, <2>5
<1>3. \A i \in 1 .. n - 1 : i + 1 \in DOMAIN queue /\ 1 \in 1 .. (i + 1) - 1
  BY <1>2
<1>4. fence # 0 => /\ signal'[fence] \in Nat /\ signal'[fence] <= value
                   /\ \A i \in 1 .. n - 1 : queue[i + 1].fence # 0
                        => signal'[fence] < queue[i + 1].value
                   /\ n = 1 /\ queue[1].fence # 0 => signal'[fence] = queue[1].value
                   /\ signal'[fence] = signal[fence] \/ (/\ queue[1].fence # 0
                                                         /\ signal'[fence] = queue[1].value)
  <2> SUFFICES ASSUME fence # 0
               PROVE  /\ signal'[fence] \in Nat /\ signal'[fence] <= value
                      /\ \A i \in 1 .. n - 1 : queue[i + 1].fence # 0
                           => signal'[fence] < queue[i + 1].value
                      /\ n = 1 /\ queue[1].fence # 0 => signal'[fence] = queue[1].value
                      /\ signal'[fence] = signal[fence] \/ (/\ queue[1].fence # 0
                                                            /\ signal'[fence] = queue[1].value)
    OBVIOUS
  <2>1. CASE queue[1].fence = 0
    <3>1. signal' = signal
      BY <1>2, <2>1 DEF Execute
    <3> QED
      BY <1>2, <1>3, <2>1, <3>1, Typed DEF Fences, Signals, SignalsGrow
  <2>2. CASE queue[1].fence # 0
    <3>1. queue[1].fence = fence /\ queue[1].value <= value /\ queue[1].value \in Nat
      BY <1>2, <2>2, Typed DEF Fences, Signals, SignalsGrow
    <3>2. signal' = [signal EXCEPT ![fence] = queue[1].value]
      BY <1>2, <2>2, <3>1 DEF Execute
    <3>3. signal'[fence] = queue[1].value
      BY <3>2, Typed DEF TypeOK
    <3>4. \A i \in 1 .. n - 1 : queue[i + 1].fence # 0 => queue[1].value < queue[i + 1].value
      BY <1>2, <1>3, <2>2 DEF Fences, Signals, SignalsGrow
    <3> QED
      BY <2>2, <3>1, <3>3, <3>4
  <2> QED
    BY <2>1, <2>2
<1>5. ASSUME NEW i \in DOMAIN queue', queue'[i].fence # 0
      PROVE  /\ queue'[i].fence = fence
             /\ signal'[fence] < queue'[i].value /\ queue'[i].value <= value
             /\ \A j \in 1 .. i - 1 : queue'[j].fence # 0 => queue'[j].value < queue'[i].value
  <2>1. i \in 1 .. n - 1 /\ i + 1 \in DOMAIN queue /\ queue'[i] = queue[i + 1]
    BY <1>2, <1>3
  <2>2. queue[i + 1].fence = fence /\ queue[i + 1].value <= value /\ fence # 0
    BY <1>5, <2>1 DEF Fences, Signals, SignalsGrow
  <2>3. ASSUME NEW j \in 1 .. i - 1, queue'[j].fence # 0
        PROVE  queue'[j].value < queue'[i].value
    <3>1. queue'[j] = queue[j + 1] /\ j + 1 \in 1 .. (i + 1) - 1
      BY <1>2, <2>1
    <3> QED
      BY <1>5, <2>1, <2>3, <3>1 DEF Fences, Signals, SignalsGrow
  <2> QED
    BY <1>4, <1>5, <2>1, <2>2, <2>3
<1>6. Signals'
  <2>1. SignalsGrow'
    BY <1>1, <1>5 DEF SignalsGrow
  <2> QED
    BY <1>1, <1>4, <2>1 DEF Fences, Signals
<1>7. ASSUME Fresh
      PROVE  Fresh'
  <2>1. signal'[fence] < value
    <3>1. fence # 0 /\ signal[fence] < value
      BY <1>7 DEF Fresh
    <3>2. queue[1].fence # 0 => queue[1].value < value
      BY <1>2, <1>7 DEF Fresh
    <3> QED
      BY <1>4, <3>1, <3>2
  <2>2. \A i \in DOMAIN queue' : queue'[i].fence # 0 => queue'[i].value < value
    BY <1>2, <1>3, <1>7 DEF Fresh
  <2> QED
    BY <1>1, <1>7, <2>1, <2>2 DEF Fresh
<1>8. ASSUME Covered, fence # 0
      PROVE  Covered'
  <2>1. queue[n] = [fence |-> fence, value |-> value]
    BY <1>1, <1>8 DEF Covered
  <2>2. CASE n = 1
    <3>1. queue' = <<>>
      BY <1>2, <2>2, Typed, <1>1
    <3>2. signal'[fence] = value
      BY <1>4, <1>8, <2>1, <2>2
    <3> QED
      BY <1>1, <3>1, <3>2 DEF Covered
  <2>3. CASE n # 1
    <3>1. Len(queue') = n - 1 /\ queue'[n - 1] = queue[n] /\ queue' # <<>>
      BY <1>2, <2>3
    <3> QED
      BY <1>1, <2>1, <3>1 DEF Covered
  <2> QED
    BY <2>2, <2>3
<1> QED
  BY <1>1, <1>6, <1>7, <1>8 DEF Fences, Steps

(* A fence that is given up takes its signals with it.                      *)
LEMMA GivenUpFences ==
    ASSUME TypeOK, Fences, fence' = 0, value' = 0,
           \/ fence = 0 /\ UNCHANGED <<queue, signal>>
           \/ queue' = Unsignalled(queue) /\ UNCHANGED signal,
           pc' = "idle"
    PROVE  Fences'
<1>1. \A i \in DOMAIN queue' : queue'[i].fence = 0
  <2>1. CASE fence = 0 /\ queue' = queue
    BY <2>1 DEF Fences, Signals, SignalsGrow
  <2>2. CASE queue' = Unsignalled(queue)
    <3>1. /\ DOMAIN queue' = DOMAIN queue
          /\ \A i \in DOMAIN queue : queue'[i] =
                IF queue[i].fence = fence THEN [fence |-> 0, value |-> 0] ELSE queue[i]
      BY <2>2 DEF Unsignalled
    <3>2. \A i \in DOMAIN queue : queue[i].fence # 0 => queue[i].fence = fence
      BY DEF Fences, Signals, SignalsGrow
    <3> QED
      BY <3>1, <3>2
  <2> QED
    BY <2>1, <2>2
<1>2. Signals'
  BY <1>1 DEF Signals, SignalsGrow
<1> QED
  BY <1>2 DEF Fences, Steps

LEMMA NextFences ==
    ASSUME TypeOK, Fences, [Next]_vars
    PROVE  Fences'
<1>1. CASE TakeValue \/ Execute
  BY <1>1, TakeValueFences, ExecuteFences
<1>2. CASE RecordNothing \/ FindLost
  BY <1>2, FenceUntouched DEF RecordNothing, FindLost, Proceed, AfterRecording, objectVars,
     deviceVars
<1>3. CASE WaitEnds
  BY <1>3, FenceUntouched DEF WaitEnds, Proceed, objectVars, deviceVars
<1>4. ASSUME NEW error \in Errors, Fail(error)
      PROVE  Fences'
  BY <1>4, FenceUntouched DEF Fail, objectVars, deviceVars
<1>5. ASSUME NEW r \in Results, NEW h \in (Handles \ live) \cup {0}, CreateList(r, h)
      PROVE  Fences'
  <2>1. UNCHANGED <<fence, value, queue, signal, caller>> /\ pc' \in {"fail", "drop", AfterList}
    BY <1>5 DEF CreateList, ListCreated, CreateFails, deviceVars
  <2> QED
    BY <2>1, FenceUntouched DEF AfterList, Fenced
<1>6. ASSUME NEW r \in Results, NEW h \in (Handles \ live) \cup {0}, CreateFence(r, h)
      PROVE  Fences'
  <2>1. CASE FenceCreated(r, h)
    BY <1>6, <2>1, FenceCreatedFences DEF CreateFence
  <2>2. CASE CreateFails(r, h) /\ UNCHANGED deviceVars
    BY <1>6, <2>2, FenceUntouched DEF CreateFence, CreateFails, deviceVars
  <2> QED
    BY <1>6, <2>1, <2>2 DEF CreateFence
<1>7. ASSUME NEW r \in Results, ResetList(r)
      PROVE  Fences'
  BY <1>7, FenceUntouched DEF ResetList, Proceed, AfterList, Fenced, objectVars, deviceVars
<1>8. ASSUME NEW r \in Results, RecordCommands(r) \/ Replace(r)
      PROVE  Fences'
  BY <1>8, FenceUntouched DEF RecordCommands, Replace, Proceed, AfterRecording, objectVars, deviceVars
<1>9. ASSUME NEW r \in Results, CloseList(r)
      PROVE  Fences'
  BY <1>9, FenceUntouched DEF CloseList, Proceed, objectVars, deviceVars, Fences, Steps
<1>10. ASSUME NEW r \in Results, DropHandle(r)
       PROVE  Fences'
  BY <1>10, FenceUntouched DEF DropHandle, deviceVars
<1>11. ASSUME NEW r \in Results, Submit(r) \/ SubmitFenced(r)
       PROVE  Fences'
  BY <1>11, SubmitFences, SubmitFencedFences
<1>12. ASSUME NEW r \in Results, NEW after \in {"idle", "fail"}, ReadBack(r, after)
       PROVE  Fences'
  BY <1>12, FenceUntouched DEF ReadBack, Proceed, objectVars, deviceVars
<1>13. ASSUME NEW r \in Results, DestroyContext(r)
       PROVE  Fences'
  BY <1>13, GivenUpFences DEF DestroyContext, FenceDestroyed, deviceVars
<1>14. ASSUME NEW r \in Results, WaitFails(r)
       PROVE  Fences'
  BY <1>14, FenceUntouched DEF WaitFails, Proceed, objectVars, deviceVars
<1>15. ASSUME NEW r \in Results, Invalidate(r) \/ DestroyList(r)
       PROVE  Fences'
  BY <1>15, FenceUntouched DEF Invalidate, DestroyList, Idle, deviceVars
<1>16. ASSUME NEW r \in Results, NEW on \in BOOLEAN, SetSyncOps(r, on)
       PROVE  Fences'
  <2>1. CASE fence = 0
    BY <1>16, <2>1, FenceUntouched DEF SetSyncOps, Idle, deviceVars
  <2>2. CASE fence # 0
    BY <1>16, <2>2, GivenUpFences DEF SetSyncOps, FenceDestroyed, Idle
  <2> QED
    BY <2>1, <2>2
<1>17. CASE GetError
  BY <1>17, FenceUntouched DEF GetError, objectVars, deviceVars
<1>18. ASSUME NEW c \in Callers, Enter(c)
       PROVE  Fences'
  BY <1>18, FenceUntouched DEF Enter, objectVars, deviceVars
<1>19. ASSUME NEW error \in Errors, Reject(error)
       PROVE  Fences'
  BY <1>19, FenceUntouched DEF Reject, Idle, objectVars, deviceVars
<1>20. ASSUME NEW g \in Generations, ObserveDeviceGeneration(g)
       PROVE  Fences'
  BY <1>20, FenceUntouched DEF ObserveDeviceGeneration, objectVars, deviceVars
<1>21. CASE UNCHANGED vars
  BY <1>21 DEF vars, objectVars, deviceVars, Fences, Signals, Steps, SignalsGrow, Fresh, Covered
<1> QED
  BY <1>1, <1>2, <1>3, <1>4, <1>5, <1>6, <1>7, <1>8, <1>9, <1>10, <1>11, <1>12, <1>13, <1>14,
     <1>15, <1>16, <1>17, <1>18, <1>19, <1>20, <1>21 DEF Next, Advance

-----------------------------------------------------------------------------
(***************************************************************************)
(* Errors and loss.                                                        *)
(***************************************************************************)

(* Where a call may be on a context that is lost: over; or a draw or a read  *)
(* that destroyed something, the read before it asks for its list.          *)
LostAt(place, who) ==
    \/ place \in Over
    \/ place = "list" /\ who \in {"draw", "read"}
    \/ place \in {"record", "close", "submit"} /\ who = "draw"

Told ==
    /\ LossOnce /\ FailuresVisible
    /\ ~lost => ~reported
    /\ pc \notin {"idle", "end"} => ~reported
    /\ lost => LostAt(pc, caller)

ErrorsStay == UNCHANGED <<lost, reported, pending, losses>>

Loses ==
    ~lost /\ lost' = TRUE /\ reported' = FALSE /\ pending' = "none" /\ losses' = losses + 1

LEMMA KeptTold ==
    ASSUME Told, ErrorsStay, UNCHANGED <<told, failed>>,
           pc' \notin {"idle", "end"} => pc \notin {"idle", "end"} \/ ~lost,
           lost => LostAt(pc', caller')
    PROVE  Told'
  BY DEF Told, ErrorsStay, LossOnce, FailuresVisible

LEMMA LosesTold ==
    ASSUME Told, Loses, UNCHANGED <<told, failed>>, LostAt(pc', caller')
    PROVE  Told'
<1>1. losses = 0 /\ told = 0
  BY DEF Told, Loses, LossOnce
<1>2. losses' = 1 /\ told' = 0
  BY <1>1 DEF Loses
<1> QED
  BY <1>2 DEF Told, Loses, LossOnce, FailuresVisible

LEMMA KeptOrLoses ==
    ASSUME NEW op, NEW r, NEW records, Returned(op, r, records)
    PROVE  /\ ErrorsStay \/ Loses
           /\ lost' => lost \/ r = "lost"
           /\ lost => ErrorsStay
  BY DEF Returned, MarkLost, errorVars, ErrorsStay, Loses

LEMMA CallbackTold ==
    ASSUME Told, NEW op, NEW r, NEW records, Returned(op, r, records), UNCHANGED <<told, failed>>,
           pc' \notin {"idle", "end"} => pc \notin {"idle", "end"},
           lost \/ r = "lost" => LostAt(pc', caller')
    PROVE  Told'
<1>1. CASE ErrorsStay
  BY <1>1, KeptTold
<1>2. CASE Loses
  <2>1. r = "lost"
    BY <1>2, KeptOrLoses DEF Loses
  <2> QED
    BY <1>2, <2>1, LosesTold
<1> QED
  BY <1>1, <1>2, KeptOrLoses

LEMMA FailureTold ==
    ASSUME Told, NEW error \in Errors, RecordError(error), losses' = losses, pc' = "idle",
           ~lost \/ ~reported
    PROVE  Told'
  BY DEF Told, RecordError, LossOnce, FailuresVisible, Errors, LostAt, Over

LEMMA GetErrorTold ==
    ASSUME Told, GetError
    PROVE  Told'
<1>1. lost' = lost /\ pc' = "idle" /\ failed' = FALSE /\ losses' = losses
  BY DEF GetError, NoCallback
<1>2. CASE lost
  <2>1. reported' = TRUE /\ losses = 1
    BY <1>2 DEF GetError, Told, LossOnce
  <2>2. told' = 1
    BY <1>2 DEF GetError, Told, LossOnce
  <2> QED
    BY <1>1, <1>2, <2>1, <2>2 DEF Told, LossOnce, FailuresVisible, LostAt, Over
<1>3. CASE ~lost
  BY <1>1, <1>3 DEF GetError, Told, LossOnce, FailuresVisible
<1> QED
  BY <1>2, <1>3

LEMMA NextTold ==
    ASSUME TypeOK, Told, [Next]_vars
    PROVE  Told'
<1> USE DEF LostAt, Over
<1>1. CASE RecordNothing
  BY <1>1, KeptTold DEF RecordNothing, NoCallback, errorVars, historyVars, Proceed,
     AfterRecording, ErrorsStay, Told
<1>2. CASE TakeValue
  BY <1>2, KeptTold DEF TakeValue, NoCallback, errorVars, historyVars, ErrorsStay, Told
<1>3. CASE WaitEnds
  BY <1>3, CallbackTold DEF WaitEnds, SyncCall, Proceed, historyVars, Told
<1>4. ASSUME NEW error \in Errors, Fail(error)
      PROVE  Told'
  BY <1>4, FailureTold DEF Fail, NoCallback, Told
<1>5. ASSUME NEW r \in Results, NEW h \in (Handles \ live) \cup {0}, CreateList(r, h)
      PROVE  Told'
  <2>1. /\ pc = "list" /\ pc' \in {"record", "fence", "drop", "fail"}
        /\ lost => caller = "draw" /\ pc' \in {"record", "drop", "fail"}
        /\ caller' = caller
    BY <1>5 DEF CreateList, ListCreated, CreateFails, AfterList, GivesUp, Fenced, Told
  <2>2. r = "lost" => pc' \in {"drop", "fail"}
    BY <1>5 DEF CreateList, ListCreated, CreateFails, Usable
  <2> QED
    BY <1>5, <2>1, <2>2, CallbackTold DEF CreateList, BackendCall, historyVars
<1>6. ASSUME NEW r \in Results, NEW h \in (Handles \ live) \cup {0}, CreateFence(r, h)
      PROVE  Told'
  <2>1. pc = "fence" /\ ~lost /\ pc' \notin {"idle", "end"}
    BY <1>6 DEF CreateFence, FenceCreated, CreateFails, Told
  <2>2. r = "lost" => pc' \in {"drop", "fail"}
    BY <1>6 DEF CreateFence, FenceCreated, CreateFails, Usable
  <2> QED
    BY <1>6, <2>1, <2>2, CallbackTold DEF CreateFence, SyncCall, historyVars
<1>7. ASSUME NEW r \in Results, ResetList(r)
      PROVE  Told'
  BY <1>7, CallbackTold DEF ResetList, BackendCall, Proceed, AfterList, GivesUp, Fenced,
     historyVars, Told
<1>8. ASSUME NEW r \in Results, RecordCommands(r)
      PROVE  Told'
  BY <1>8, CallbackTold DEF RecordCommands, BackendCall, Proceed, AfterRecording, Fenced,
     historyVars, Told
<1>9. ASSUME NEW r \in Results, CloseList(r)
      PROVE  Told'
  BY <1>9, CallbackTold DEF CloseList, BackendCall, Proceed, historyVars, Told
<1>10. ASSUME NEW r \in Results, DropHandle(r)
       PROVE  Told'
  BY <1>10, CallbackTold DEF DropHandle, BackendCall, historyVars
<1>11. ASSUME NEW r \in Results, Submit(r)
       PROVE  Told'
  BY <1>11, CallbackTold DEF Submit, BackendCall, Proceed, historyVars, Told
<1>12. ASSUME NEW r \in Results, SubmitFenced(r)
       PROVE  Told'
  BY <1>12, CallbackTold DEF SubmitFenced, SyncCall, Proceed, Fenced, historyVars, Told
<1>13. ASSUME NEW r \in Results, NEW after \in {"idle", "fail"}, ReadBack(r, after)
       PROVE  Told'
  BY <1>13, CallbackTold DEF ReadBack, SyncCall, Proceed, historyVars, Told
<1>14. ASSUME NEW r \in Results, WaitFails(r)
       PROVE  Told'
  BY <1>14, CallbackTold DEF WaitFails, SyncCall, Proceed, historyVars, Told
<1>15. ASSUME NEW r \in Results, DestroyContext(r)
       PROVE  Told'
  <2>1. lost' = FALSE /\ reported' = FALSE /\ failed' = FALSE /\ pc' = "idle"
    BY <1>15 DEF DestroyContext
  <2>2. losses' = 0 /\ told' = 0
    BY <1>15 DEF DestroyContext
  <2> QED
    BY <2>1, <2>2 DEF Told, LossOnce, FailuresVisible
<1>16. ASSUME NEW r \in Results, Invalidate(r) \/ DestroyList(r)
       PROVE  Told'
  BY <1>16, CallbackTold DEF Invalidate, DestroyList, BackendCall, Idle, historyVars
<1>17. ASSUME NEW r \in Results, NEW on \in BOOLEAN, SetSyncOps(r, on)
       PROVE  Told'
  <2>1. CASE fence = 0
    BY <1>17, <2>1, KeptTold DEF SetSyncOps, NoCallback, Idle, errorVars, historyVars, ErrorsStay
  <2>2. CASE fence # 0
    BY <1>17, <2>2, CallbackTold DEF SetSyncOps, BackendCall, Idle, historyVars
  <2> QED
    BY <2>1, <2>2
<1>18. CASE GetError
  BY <1>18, GetErrorTold
<1>19. CASE Execute
  BY <1>19, KeptTold DEF Execute, NoCallback, errorVars, historyVars, ErrorsStay, Told
<1>20. ASSUME NEW c \in Callers, Enter(c)
       PROVE  Told'
  BY <1>20, KeptTold DEF Enter, Idle, NoCallback, errorVars, historyVars, ErrorsStay
<1>21. ASSUME NEW error \in Errors, Reject(error)
       PROVE  Told'
  BY <1>21, FailureTold DEF Reject, Idle, NoCallback
<1>22. ASSUME NEW g \in Generations, ObserveDeviceGeneration(g)
       PROVE  Told'
  <2>1. (ErrorsStay \/ Loses) /\ pc' = "idle" /\ UNCHANGED <<told, failed>> /\ ~lost
    BY <1>22 DEF ObserveDeviceGeneration, MarkLost, ErrorsStay, Loses, errorVars, historyVars
  <2> QED
    BY <2>1, KeptTold, LosesTold
<1>23. CASE UNCHANGED vars
  BY <1>23, KeptTold DEF vars, errorVars, historyVars, ErrorsStay, Told
<1>24. CASE FindLost
  BY <1>24, KeptTold DEF FindLost, NoCallback, errorVars, historyVars, ErrorsStay, Told
<1>25. ASSUME NEW r \in Results, Replace(r)
       PROVE  Told'
  BY <1>25, CallbackTold DEF Replace, BackendCall, historyVars
<1> QED
  BY <1>1, <1>2, <1>3, <1>4, <1>5, <1>6, <1>7, <1>8, <1>9, <1>10, <1>11, <1>12, <1>13, <1>14,
     <1>15, <1>16, <1>17, <1>18, <1>19, <1>20, <1>21, <1>22, <1>23, <1>24, <1>25 DEF Next,
     Advance

-----------------------------------------------------------------------------
(***************************************************************************)
(* The invariant and the theorems.                                         *)
(***************************************************************************)
Invariant == TypeOK /\ Owned /\ Fences /\ Told

LEMMA InitInvariant == Init => Invariant
<1> SUFFICES ASSUME Init
             PROVE  Invariant
  OBVIOUS
<1>1. Owned /\ Fences
  BY DEF Init, Owned, HandlesOwned, Fences, Signals, Steps, SignalsGrow
<1>2. Told
  BY DEF Init, Told, LossOnce, FailuresVisible
<1> QED
  BY <1>1, <1>2, InitTypes DEF Invariant

LEMMA Step == Invariant /\ [Next]_vars => Invariant'
  BY NextTypes, NextOwned, NextFences, NextTold DEF Invariant

(* In every reachable state all parts of the invariant hold.                *)
THEOREM InvariantHolds == Spec => []Invariant
  BY InitInvariant, Step, PTL DEF Spec

(* Every handle has one place in the context or was destroyed.              *)
THEOREM HandlesOwnedHolds == Spec => []HandlesOwned
<1>1. Invariant => HandlesOwned
  BY DEF Invariant, Owned
<1> QED
  BY <1>1, InvariantHolds, PTL

(* A fence is told to signal growing values only.                           *)
THEOREM SignalsGrowHolds == Spec => []SignalsGrow
<1>1. Invariant => SignalsGrow
  BY DEF Invariant, Fences, Signals
<1> QED
  BY <1>1, InvariantHolds, PTL

(* A wait without limit is for a value that is signalled or on its way.     *)
THEOREM WaitAnswerableHolds == Spec => []WaitAnswerable
<1>1. ASSUME Invariant
      PROVE  WaitAnswerable
  <2>1. SUFFICES ASSUME pc = "wait"
                 PROVE  \/ signal[fence] >= value
                        \/ \E i \in DOMAIN queue : queue[i] = [fence |-> fence, value |-> value]
    BY DEF WaitAnswerable
  <2>2. Covered /\ value \in Nat /\ Len(queue) \in Nat /\ DOMAIN queue = 1 .. Len(queue)
        /\ queue \in Seq(Entries)
    BY <1>1, <2>1, Typed DEF Invariant, Fences, Steps
  <2>3. CASE queue = <<>> /\ signal[fence] = value
    BY <2>2, <2>3
  <2>4. CASE queue # <<>> /\ queue[Len(queue)] = [fence |-> fence, value |-> value]
    <3>1. Len(queue) # 0
      BY <2>2, <2>4
    <3> QED
      BY <2>2, <2>4, <3>1
  <2> QED
    BY <2>2, <2>3, <2>4 DEF Covered
<1> QED
  BY <1>1, InvariantHolds, PTL

(* A wait that ends well covers all that was submitted before.              *)
THEOREM WaitCoversHolds == Spec => WaitCovers
<1>1. ASSUME Invariant, [Next]_vars
      PROVE  [pc = "wait" /\ pc' \in {"idle", "read"} => queue = <<>>]_vars
  <2>1. SUFFICES ASSUME Next, pc = "wait", pc' \in {"idle", "read"}, queue # <<>>
                 PROVE  FALSE
    BY <1>1
  <2>2. WaitEnds
    BY <2>1 DEF Next, Advance, GetError, Execute, FindLost, Replace, RecordNothing, TakeValue,
       Fail, CreateList, CreateFence, ResetList, RecordCommands, DropHandle, CloseList, Submit, SubmitFenced,
       DestroyContext, ReadBack, Enter, Reject, ObserveDeviceGeneration, WaitFails, Invalidate,
       DestroyList, SetSyncOps, Idle, Proceed, objectVars
  <2>3. /\ fence # 0 /\ queue[Len(queue)] = [fence |-> fence, value |-> value]
        /\ signal[fence] >= value
    BY <1>1, <2>1, <2>2 DEF Invariant, Fences, Steps, Covered, WaitEnds
  <2>4. Len(queue) \in DOMAIN queue
    <3>1. queue \in Seq(Entries)
      BY <1>1, Typed DEF Invariant
    <3> QED
      BY ONLY <2>1, <3>1
  <2>5. signal[fence] < value /\ signal[fence] \in Nat /\ value \in Nat
    BY <1>1, <2>3, <2>4, Typed DEF Invariant, Fences, Signals, SignalsGrow
  <2> QED
    BY <2>3, <2>5
<1> QED
  BY <1>1, InvariantHolds, PTL DEF Spec, WaitCovers

(* A call that failed leaves an error or the loss to be read.               *)
THEOREM FailuresVisibleHolds == Spec => []FailuresVisible
<1>1. Invariant => FailuresVisible
  BY DEF Invariant, Told
<1> QED
  BY <1>1, InvariantHolds, PTL

(* A loss is traced once and told once.                                     *)
THEOREM LossOnceHolds == Spec => []LossOnce
<1>1. Invariant => LossOnce
  BY DEF Invariant, Told
<1> QED
  BY <1>1, InvariantHolds, PTL

LEMMA ReturnedCall ==
    ASSUME NEW op, NEW r, NEW records, Returned(op, r, records)
    PROVE  call'.op = op /\ call'.result = r
  BY DEF Returned

(* A callback that tells of the loss is the last of its call.               *)
LEMMA ToldStops ==
    ASSUME TypeOK, Next, call'.result = "lost", call'.op # "destroy"
    PROVE  pc' \in Over
<1>2. \A r \in Results : BackendCall("destroy", r) => FALSE
  BY ReturnedCall DEF BackendCall
<1>3. call' = NoCall => FALSE
  BY DEF NoCall
<1>4. ASSUME NEW r \in Results, NEW h \in (Handles \ live) \cup {0},
             CreateList(r, h) \/ CreateFence(r, h)
      PROVE  pc' \in Over
  <2>1. r = "lost"
    BY ReturnedCall, <1>4 DEF CreateList, CreateFence, BackendCall, SyncCall
  <2>2. CreateFails(r, h)
    BY <1>4, <2>1 DEF CreateList, CreateFence, ListCreated, FenceCreated, Usable
  <2> QED
    BY <2>2 DEF CreateFails, Over
<1>5. ASSUME NEW r \in Results, NEW after \in {"idle", "fail"},
             \/ ResetList(r) \/ RecordCommands(r) \/ CloseList(r) \/ Submit(r)
             \/ SubmitFenced(r) \/ ReadBack(r, after) \/ WaitFails(r)
      PROVE  pc' \in Over
  <2>1. r = "lost"
    BY ReturnedCall, <1>5 DEF ResetList, RecordCommands, CloseList, Submit, SubmitFenced, ReadBack,
       WaitFails, BackendCall, SyncCall
  <2> QED
    BY <1>5, <2>1 DEF ResetList, RecordCommands, CloseList, Submit, SubmitFenced, ReadBack,
       WaitFails, Proceed, Over
<1>6. CASE WaitEnds
  <2>1. call'.result = "ok"
    BY ReturnedCall, <1>6 DEF WaitEnds, SyncCall, Results
  <2> QED
    BY <2>1
<1>7. ASSUME NEW r \in Results, DestroyContext(r)
      PROVE  pc' \in Over
  BY <1>7 DEF DestroyContext, Over
<1>8. ASSUME NEW r \in Results, NEW on \in BOOLEAN, SetSyncOps(r, on)
      PROVE  pc' \in Over
  BY <1>8 DEF SetSyncOps, Idle, Over
<1>9. ASSUME NEW g \in Generations, ObserveDeviceGeneration(g)
      PROVE  pc' \in Over
  BY <1>9 DEF ObserveDeviceGeneration, Over
<1>10. ASSUME NEW r \in Results, Replace(r) \/ DropHandle(r) \/ Invalidate(r) \/ DestroyList(r)
       PROVE  FALSE
  BY <1>2, <1>10 DEF Replace, DropHandle, Invalidate, DestroyList
<1>11. ASSUME \/ RecordNothing \/ TakeValue \/ FindLost \/ GetError \/ Execute
              \/ \E c \in Callers : Enter(c)
              \/ \E error \in Errors : Fail(error) \/ Reject(error)
       PROVE  FALSE
  BY <1>3, <1>11 DEF RecordNothing, TakeValue, FindLost, GetError, Execute, Enter, Fail, Reject,
     NoCallback
<1> QED
  BY <1>4, <1>5, <1>6, <1>7, <1>8, <1>9, <1>10, <1>11 DEF Next, Advance

(* A call that is told of the loss only destroys from then on, as do all    *)
(* later ones; a draw or a read that does not look at what a destroy says   *)
(* goes on no longer than until it is told or asks.                         *)
THEOREM LossFinalHolds == Spec => LossFinal
<1> DEFINE Ending == pc \in {"idle", "end"} /\ list = 0
           Silent == call'.op \in {"none", "destroy"}
           Final == /\ lost' \/ Ending
                    /\ pc \in Over => Silent /\ pc' \in Over
                    /\ caller \in Fenced => Silent
<1>1. ASSUME Invariant, Next, lost
      PROVE  Final
  <2>1. /\ LostAt(pc, caller) /\ (pc = "end" => list = 0) /\ lost = TRUE
    BY <1>1 DEF Invariant, Told, Owned, TypeOK
  <2>2. CASE Execute \/ FindLost
    <3>1. lost' = lost /\ call' = NoCall /\ (pc' = pc \/ pc' = "fail")
      BY <2>2 DEF Execute, FindLost, NoCallback, errorVars
    <3>2. Silent
      BY <3>1 DEF NoCall
    <3>3. pc \in Over => pc' \in Over
      BY <3>1 DEF Over
    <3>4. lost'
      BY <1>1, <3>1
    <3> HIDE DEF Silent
    <3> QED
      BY <3>2, <3>3, <3>4
  <2>3. CASE GetError
    BY <1>1, <2>3 DEF GetError, NoCallback, NoCall, Over
  <2>4. ASSUME NEW error \in Errors, Fail(error) \/ Reject(error)
        PROVE  Final
    <3>1. lost' = lost /\ call' = NoCall /\ (pc' = "idle" \/ ~lost)
      BY <2>4 DEF Fail, Reject, Idle, RecordError, NoCallback
    <3>2. Silent
      BY <3>1 DEF NoCall
    <3>3. pc' \in Over
      BY <1>1, <3>1 DEF Over
    <3>4. lost'
      BY <1>1, <3>1
    <3> HIDE DEF Silent
    <3> QED
      BY <3>2, <3>3, <3>4
  <2>5. ASSUME NEW r \in Results, DropHandle(r) \/ DestroyList(r) \/ Replace(r)
        PROVE  Final
    <3>1. Returned("destroy", r, {"CALL_SUMMARY"})
      BY <2>5 DEF DropHandle, DestroyList, Replace, BackendCall
    <3>2. lost' = lost
      BY <1>1, <3>1, KeptOrLoses DEF ErrorsStay
    <3>3. Silent
      BY <3>1 DEF Returned
    <3>4. pc \in Over => pc' \in Over
      BY <2>5 DEF DropHandle, DestroyList, Replace, Over
    <3> QED
      BY <1>1, <3>2, <3>3, <3>4
  <2>6. ASSUME NEW r \in Results, DestroyContext(r)
        PROVE  Final
    <3>1. Ending
      BY <2>1, <2>6 DEF DestroyContext
    <3>2. Silent /\ pc' \in Over
      BY <2>6 DEF DestroyContext, NoCall, Over
    <3> QED
      BY <3>1, <3>2
  <2>7. ASSUME NEW r \in Results, NEW h \in (Handles \ live) \cup {0}, CreateList(r, h)
        PROVE  Final
    <3>1. Returned("create", r, {"CALL_SUMMARY"}) /\ pc = "list" /\ caller \notin Fenced
      BY <1>1, <2>7 DEF CreateList, BackendCall, GivesUp
    <3>2. lost' = lost
      BY <1>1, <3>1, KeptOrLoses DEF ErrorsStay
    <3> QED
      BY <1>1, <3>1, <3>2 DEF Over
  <2>8. ASSUME NEW r \in Results, ResetList(r) \/ RecordCommands(r) \/ CloseList(r) \/ Submit(r)
        PROVE  Final
    <3>1. /\ pc \in {"list", "record", "close", "submit"} /\ caller \notin Fenced
          /\ \E op : Returned(op, r, {"CALL_SUMMARY"})
      BY <1>1, <2>1, <2>8 DEF ResetList, RecordCommands, CloseList, Submit, BackendCall,
         GivesUp, LostAt, Over, Fenced
    <3>2. lost' = lost
      BY <1>1, <3>1, KeptOrLoses DEF ErrorsStay
    <3> QED
      BY <1>1, <3>1, <3>2 DEF Over
  <2>9. \/ Execute \/ FindLost \/ GetError
        \/ \E error \in Errors : Fail(error) \/ Reject(error)
        \/ \E r \in Results :
             \/ DropHandle(r) \/ DestroyList(r) \/ Replace(r) \/ DestroyContext(r)
             \/ ResetList(r) \/ RecordCommands(r) \/ CloseList(r) \/ Submit(r)
             \/ \E h \in (Handles \ live) \cup {0} : CreateList(r, h)
    BY <1>1, <2>1 DEF Next, Advance, RecordNothing, TakeValue, WaitEnds, CreateFence,
       SubmitFenced, ReadBack, Enter, ObserveDeviceGeneration, WaitFails, Invalidate, SetSyncOps,
       Idle, LostAt, Over, Fenced
  <2> QED
    BY <2>2, <2>3, <2>4, <2>5, <2>6, <2>7, <2>8, <2>9
<1>2. ASSUME Invariant, [Next]_vars
      PROVE  [/\ call'.result = "lost" /\ call'.op # "destroy" => pc' \in Over
              /\ lost => Final]_vars
  BY <1>1, <1>2, ToldStops DEF Invariant
<1> QED
  BY <1>2, InvariantHolds, PTL DEF Spec, LossFinal

-----------------------------------------------------------------------------
(***************************************************************************)
(* The states of images, for any names that are different from each other. *)
(***************************************************************************)
(* What is attached was made renderable, and what was made renderable has   *)
(* no image of another usage.                                               *)
RenderableImages ==
    /\ \A f \in Framebuffers : attached[f] # None => attached[f] \in renderable
    /\ \A t \in renderable : actual[t] # "NONE" => t \in targets

(* Beliefs about images, apart from the calls that choose among them.       *)
ImagesType ==
    /\ actual \in [Images -> States \cup {"NONE"}] /\ tracked \in [Images -> States]
    /\ unsure \subseteq Images /\ targets \subseteq Textures
ChoicesType ==
    /\ defined \subseteq Textures /\ renderable \subseteq Textures
    /\ unit \in Textures \cup {None}
    /\ attached \in [Framebuffers -> Textures \cup {None}]
    /\ framebuffer \in Framebuffers \cup {None}
    /\ program \in Programs
    /\ dirty \in BOOLEAN
    /\ commands \in {"none", "graphics", "present"}
GroupType ==
    group \in {NoGroup} \cup [pipeline : Pipelines, texture : Textures, intact : BOOLEAN]

ImagesInv ==
    /\ NamesAssumption
    /\ ImagesType /\ ChoicesType /\ GroupType
    /\ TrackedStates /\ RenderableImages /\ GroupCurrent

LEMMA ImagesInvTrue == ImagesInv => BeliefsTrue
  BY DEF ImagesInv, ImagesType, ChoicesType, GroupType, BeliefsTrue, ImagesTracked, RenderingTypeOK,
         AttachedRenderable, RenderableImages

LEMMA ImageNames ==
    ASSUME NamesAssumption
    PROVE  /\ Images = Textures \cup {Surface} /\ Surface \notin Textures
           /\ None \notin Textures /\ None # Surface /\ None \notin Framebuffers
  BY DEF NamesAssumption, Images

-----------------------------------------------------------------------------
(* Images and lists.                                                        *)

(* The images a list is built for: textures, and the surface if it exists.  *)
Existing(set) == set \subseteq Images /\ (Surface \in set => HasSurface)

(* What a step does to images leaves the beliefs about them true.           *)
BeliefsKept ==
    /\ ImagesType' /\ TrackedStates'
    /\ \A t \in Textures : actual[t] # "NONE" => actual'[t] # "NONE"
    /\ targets \subseteq targets'
    /\ \A t \in Textures \cap renderable : actual[t] = "NONE" /\ actual'[t] # "NONE" => t \in targets'

LEMMA CreatedKeeps ==
    ASSUME ImagesInv, NEW created, Existing(created), Created(created)
    PROVE  BeliefsKept
<1>1. /\ actual' = Filled(actual, created) /\ tracked' = Filled(tracked, created)
      /\ targets' = targets \cup {t \in created \ {Surface} : actual[t] = "NONE" /\ t \in renderable}
      /\ unsure' = unsure
  BY DEF Created
<1>2. ImagesType'
  BY <1>1, ImageNames DEF ImagesInv, ImagesType, Existing, Filled, States
<1>3. TrackedStates'
  BY <1>1 DEF ImagesInv, ImagesType, TrackedStates, Filled
<1> QED
  BY <1>1, <1>2, <1>3, ImageNames DEF BeliefsKept, ImagesInv, ImagesType, Filled

(* A goal names states of images that exist or are created for it.          *)
GoalType(goal) == Existing(DOMAIN goal) /\ \A i \in DOMAIN goal : goal[i] \in States

LEMMA AcceptedTypes ==
    ASSUME ImagesInv, NEW goal, GoalType(goal), Accepted(goal)
    PROVE  /\ actual' \in [Images -> States \cup {"NONE"}]
           /\ targets' \subseteq Textures /\ targets \subseteq targets'
           /\ \A t \in Textures : actual[t] # "NONE" => actual'[t] # "NONE"
           /\ \A t \in Textures \cap renderable :
                 actual[t] = "NONE" /\ actual'[t] # "NONE" => t \in targets'
<1>1. /\ actual' = [i \in Images |-> IF i \in Moved(goal) THEN goal[i]
                                       ELSE Filled(actual, DOMAIN goal)[i]]
      /\ targets' = targets \cup {t \in DOMAIN goal \ {Surface} :
                                     actual[t] = "NONE" /\ t \in renderable}
  BY DEF Accepted
<1>2. /\ Moved(goal) \subseteq DOMAIN goal
      /\ \A i \in DOMAIN goal : goal[i] \in States /\ i \in Images
  BY DEF Moved, GoalType, Existing
<1>3. /\ actual \in [Images -> States \cup {"NONE"}] /\ targets \subseteq Textures
      /\ "NONE" \notin States /\ "COPY_DESTINATION" \in States
  BY DEF ImagesInv, ImagesType, States
<1>4. \A i \in Images : Filled(actual, DOMAIN goal)[i] =
          IF i \in DOMAIN goal \ {Surface} /\ actual[i] = "NONE" THEN "COPY_DESTINATION" ELSE actual[i]
  BY DEF Filled
<1> QED
  BY <1>1, <1>2, <1>3, <1>4, ImageNames DEF ImagesInv

LEMMA PublishedKeeps ==
    ASSUME ImagesInv, NEW goal, GoalType(goal), Accepted(goal), Published(goal)
    PROVE  BeliefsKept
<1>1. /\ actual' = [i \in Images |-> IF i \in Moved(goal) THEN goal[i]
                                       ELSE Filled(actual, DOMAIN goal)[i]]
      /\ tracked' = [i \in Images |-> IF i \in DOMAIN goal THEN goal[i] ELSE tracked[i]]
      /\ unsure' = unsure \ Moved(goal)
  BY DEF Accepted, Published
<1>2. \A i \in Images :
          /\ i \in Moved(goal) <=> i \in DOMAIN goal /\ Filled(tracked, DOMAIN goal)[i] # goal[i]
          /\ Filled(actual, DOMAIN goal)[i] =
                 IF i \in DOMAIN goal \ {Surface} /\ actual[i] = "NONE" THEN "COPY_DESTINATION"
                                                                       ELSE actual[i]
          /\ Filled(tracked, DOMAIN goal)[i] =
                 IF i \in DOMAIN goal \ {Surface} /\ actual[i] = "NONE" THEN "COPY_DESTINATION"
                                                                       ELSE tracked[i]
  BY DEF Filled, Moved
<1>3. /\ \A i \in DOMAIN goal : goal[i] \in States /\ goal[i] # "NONE" /\ i \in Images
      /\ Surface \in DOMAIN goal => actual[Surface] # "NONE"
  BY DEF GoalType, Existing, HasSurface, States
<1>4. tracked \in [Images -> States] /\ unsure \subseteq Images
  BY DEF ImagesInv, ImagesType
<1>5. tracked' \in [Images -> States] /\ unsure' \subseteq Images
  BY <1>1, <1>3, <1>4
<1>6. TrackedStates'
  <2> SUFFICES ASSUME NEW i \in Images \ unsure'
               PROVE  tracked'[i] = IF actual'[i] = "NONE" THEN "UNDEFINED" ELSE actual'[i]
    BY DEF TrackedStates
  <2>1. CASE i \in Moved(goal)
    BY <1>1, <1>2, <1>3, <2>1
  <2>2. CASE i \notin Moved(goal)
    <3>1. i \notin unsure /\ tracked[i] = IF actual[i] = "NONE" THEN "UNDEFINED" ELSE actual[i]
      BY <1>1, <2>2 DEF ImagesInv, TrackedStates
    <3>2. actual'[i] = Filled(actual, DOMAIN goal)[i]
      BY <1>1, <2>2
    <3>3. CASE i \in DOMAIN goal
      <4>1. tracked'[i] = Filled(tracked, DOMAIN goal)[i]
        BY <1>1, <1>2, <2>2, <3>3
      <4> QED
        BY <1>2, <1>3, <3>1, <3>2, <3>3, <4>1
    <3>4. CASE i \notin DOMAIN goal
      BY <1>1, <1>2, <3>1, <3>2, <3>4
    <3> QED
      BY <3>3, <3>4
  <2> QED
    BY <2>1, <2>2
<1> QED
  BY <1>5, <1>6, AcceptedTypes DEF BeliefsKept, ImagesType

(* Images that a step creates, or moves, are there for what they are for.   *)
LEMMA RenderableKept ==
    ASSUME ImagesInv, BeliefsKept, UNCHANGED <<renderable, attached>>
    PROVE  RenderableImages'
  BY DEF ImagesInv, ChoicesType, RenderableImages, BeliefsKept

-----------------------------------------------------------------------------
(* Calls that draw, clear, read back and present.                           *)

ChoicesKept == UNCHANGED <<defined, renderable, unit, attached, framebuffer, program>>

LEMMA ImageStep ==
    ASSUME ImagesInv, BeliefsKept, ChoicesKept, dirty' \in BOOLEAN,
           commands' \in {"none", "graphics", "present"}, GroupType', GroupCurrent'
    PROVE  ImagesInv'
<1>1. ChoicesType'
  BY DEF ImagesInv, ChoicesType, ChoicesKept
<1>2. RenderableImages'
  BY RenderableKept DEF ChoicesKept
<1>3. NamesAssumption'
  BY DEF ImagesInv, NamesAssumption
<1> QED
  BY <1>1, <1>2, <1>3 DEF ImagesInv, BeliefsKept

LEMMA GroupSame ==
    ASSUME ImagesInv, UNCHANGED <<group, unit, defined>>, dirty => dirty'
    PROVE  GroupType' /\ GroupCurrent'
  BY DEF ImagesInv, GroupType, GroupCurrent, NoGroup, Pipelines, Programs, Formats

LEMMA BegunType ==
    ASSUME ImagesInv, NEW capability \in {"graphics", "present"}
    PROVE  /\ Begun(capability) \in {"none", "graphics", "present"}
           /\ commands \in {"none", "graphics", "present"} /\ dirty \in BOOLEAN
  BY DEF ImagesInv, ChoicesType, Begun

LEMMA TargetExists ==
    ASSUME ImagesInv, Target # None
    PROVE  Existing({Target})
<1>1. Target \in Textures \/ (Target = Surface /\ HasSurface)
  BY DEF Target, ImagesInv, ChoicesType
<1> QED
  BY <1>1, ImageNames DEF Existing, ImagesInv

LEMMA ReadsExist ==
    ASSUME ImagesInv, CanSample
    PROVE  Reads \subseteq Textures /\ Target \notin Reads /\ Reads \subseteq defined
  BY DEF CanSample, Reads, ImagesInv, ChoicesType

LEMMA DrawSet ==
    ASSUME ImagesInv, CanSample, Target # None
    PROVE  Existing({Target} \cup Reads) /\ GoalType(DrawGoal)
<1>1. Existing({Target} \cup Reads)
  BY TargetExists, ReadsExist, ImageNames DEF Existing, ImagesInv
<1> QED
  BY <1>1 DEF GoalType, DrawGoal, States, Existing

LEMMA PreparedKeeps ==
    ASSUME ImagesInv, Target # None, program # None, CanSample, group' = PreparedGroup,
           UNCHANGED <<unit, defined>>
    PROVE  GroupType' /\ GroupCurrent'
<1>1. CASE ~Rebuild
  BY <1>1 DEF PreparedGroup, Rebuild, ImagesInv, GroupType, GroupCurrent, NoGroup, Pipelines,
              Programs, Formats
<1>2. CASE Rebuild /\ Sampling
  <2>1. unit \in defined /\ unit \in Textures
    BY <1>2 DEF CanSample, Reads, ImagesInv, ChoicesType
  <2>2. Pipeline \in Pipelines
    BY DEF Pipeline, Pipelines, Format, Formats, ImagesInv, ChoicesType
  <2>3. group' = [pipeline |-> Pipeline, texture |-> unit, intact |-> TRUE]
    BY <1>2 DEF PreparedGroup
  <2>4. GroupType'
    BY <2>1, <2>2, <2>3 DEF GroupType, Pipelines, Programs, Formats, NoGroup
  <2> QED
    BY <2>1, <2>3, <2>4 DEF GroupCurrent
<1>3. CASE Rebuild /\ ~Sampling
  <2>1. group' = NoGroup
    BY <1>3 DEF PreparedGroup
  <2> QED
    BY <2>1 DEF GroupType, GroupCurrent, NoGroup
<1> QED
  BY <1>1, <1>2, <1>3

LEMMA StoppedKeeps ==
    ASSUME ImagesInv, NEW capability \in {"graphics", "present"}, Stopped(capability)
    PROVE  ImagesInv'
<1>1. PICK created \in SUBSET {Target} : Created(created)
  BY DEF Stopped
<1>2. Existing(created)
  BY TargetExists DEF Stopped, Existing
<1>3. BeliefsKept
  BY <1>1, <1>2, CreatedKeeps
<1>4. /\ ChoicesKept /\ UNCHANGED <<group, dirty>>
      /\ commands' \in {"none", "graphics", "present"} /\ dirty' \in BOOLEAN
  BY BegunType DEF Stopped, ChoicesKept, textureVars
<1> QED
  BY <1>3, <1>4, GroupSame, ImageStep DEF ChoicesKept

LEMMA DrawUnpreparedKeeps ==
    ASSUME ImagesInv, DrawUnprepared
    PROVE  ImagesInv'
<1>1. PICK created \in SUBSET ({Target} \cup (Reads \cap defined)) : Created(created)
  BY DEF DrawUnprepared
<1>2. Existing(created)
  BY TargetExists, ImageNames DEF DrawUnprepared, Existing, ImagesInv, ChoicesType
<1>3. BeliefsKept
  BY <1>1, <1>2, CreatedKeeps
<1>4. /\ ChoicesKept /\ group' = NoGroup
      /\ commands' \in {"none", "graphics", "present"} /\ dirty' \in BOOLEAN
  BY BegunType DEF DrawUnprepared, ChoicesKept, textureVars
<1>5. GroupType' /\ GroupCurrent'
  BY <1>4 DEF GroupType, GroupCurrent, NoGroup
<1> QED
  BY <1>3, <1>4, <1>5, ImageStep

LEMMA DrawRefusedKeeps ==
    ASSUME ImagesInv, DrawRefused
    PROVE  ImagesInv'
<1>1. Created({Target} \cup Reads) /\ Target # None /\ CanSample /\ program # None
  BY DEF DrawRefused, Refused
<1>2. BeliefsKept
  BY <1>1, DrawSet, CreatedKeeps
<1>3. /\ ChoicesKept /\ group' = PreparedGroup
      /\ commands' \in {"none", "graphics", "present"} /\ dirty' \in BOOLEAN
  BY BegunType DEF DrawRefused, ChoicesKept, textureVars
<1>4. GroupType' /\ GroupCurrent'
  BY <1>1, <1>3, PreparedKeeps DEF ChoicesKept
<1> QED
  BY <1>2, <1>3, <1>4, ImageStep

LEMMA DrawDoneKeeps ==
    ASSUME ImagesInv, DrawDone
    PROVE  ImagesInv'
<1>1. /\ Accepted(DrawGoal) /\ Published(DrawGoal)
      /\ Target # None /\ CanSample /\ program # None
  BY DEF DrawDone
<1>2. BeliefsKept
  BY <1>1, DrawSet, PublishedKeeps
<1>3. /\ ChoicesKept /\ group' = PreparedGroup
      /\ commands' \in {"none", "graphics", "present"} /\ dirty' \in BOOLEAN
  BY BegunType DEF DrawDone, ChoicesKept, textureVars
<1>4. GroupType' /\ GroupCurrent'
  BY <1>1, <1>3, PreparedKeeps DEF ChoicesKept
<1> QED
  BY <1>2, <1>3, <1>4, ImageStep

LEMMA TransferKeeps ==
    ASSUME ImagesInv, NEW image, Existing({image}), NEW state \in States,
           NEW capability \in {"graphics", "present"},
           Transfer([i \in {image} |-> state], capability)
    PROVE  ImagesInv'
<1> DEFINE goal == [i \in {image} |-> state]
<1>1. GoalType(goal)
  BY DEF GoalType
<1>2. Accepted(goal) /\ Published(goal)
  BY DEF Transfer
<1> HIDE DEF goal
<1>3. BeliefsKept
  BY <1>1, <1>2, PublishedKeeps
<1>4. /\ ChoicesKept /\ UNCHANGED <<group, dirty>>
      /\ commands' \in {"none", "graphics", "present"} /\ dirty' \in BOOLEAN
  BY BegunType DEF Transfer, ChoicesKept, textureVars
<1> QED
  BY <1>3, <1>4, GroupSame, ImageStep DEF ChoicesKept

LEMMA TransfersKeep ==
    ASSUME ImagesInv, Clear \/ ClearForEmbedding \/ ReadPixels \/ Present
    PROVE  ImagesInv'
<1>1. HasSurface => Existing({Surface})
  BY ImageNames DEF Existing, ImagesInv
<1>2. {"COLOR_TARGET", "COPY_SOURCE", "PRESENT"} \subseteq States
  BY DEF States
<1>3. CASE Clear
  BY <1>2, <1>3, TargetExists, TransferKeeps DEF Clear
<1>4. CASE ClearForEmbedding
  BY <1>1, <1>2, <1>4, TransferKeeps DEF ClearForEmbedding
<1>5. CASE ReadPixels
  BY <1>2, <1>5, TargetExists, TransferKeeps DEF ReadPixels
<1>6. CASE Present
  BY <1>1, <1>2, <1>6, TransferKeeps DEF Present
<1> QED
  BY <1>3, <1>4, <1>5, <1>6

LEMMA ReadUnconfirmedKeeps ==
    ASSUME ImagesInv, ReadUnconfirmed
    PROVE  ImagesInv'
<1> DEFINE goal == [i \in {Target} |-> "COPY_SOURCE"]
<1>1. /\ Target # None /\ Accepted(goal) /\ tracked' = Filled(tracked, {Target})
      /\ unsure' = unsure \cup {Target}
  BY DEF ReadUnconfirmed
<1>2. Existing({Target}) /\ GoalType(goal)
  BY <1>1, TargetExists DEF GoalType, States
<1>3. Target \in Images
  BY <1>2 DEF Existing
<1>4. actual' = [i \in Images |-> IF i \in Moved(goal) THEN goal[i]
                                    ELSE Filled(actual, {Target})[i]]
      /\ Moved(goal) \subseteq {Target}
  BY <1>1 DEF Accepted, Moved
<1>5. \A i \in Images \ {Target} : actual'[i] = actual[i] /\ tracked'[i] = tracked[i]
  BY <1>1, <1>4 DEF Filled
<1>6. TrackedStates'
  BY <1>1, <1>5 DEF ImagesInv, TrackedStates
<1>7. tracked' \in [Images -> States] /\ unsure' \subseteq Images
  BY <1>1, <1>3 DEF ImagesInv, ImagesType, Filled, States
<1> HIDE DEF goal
<1>8. BeliefsKept
  BY <1>1, <1>2, <1>6, <1>7, AcceptedTypes DEF BeliefsKept, ImagesType
<1>9. /\ ChoicesKept /\ UNCHANGED <<group, dirty>>
      /\ commands' \in {"none", "graphics", "present"} /\ dirty' \in BOOLEAN
  BY BegunType DEF ReadUnconfirmed, ChoicesKept, textureVars
<1> QED
  BY <1>8, <1>9, GroupSame, ImageStep DEF ChoicesKept

(* No image changes.                                                        *)
LEMMA ImagesSame ==
    ASSUME ImagesInv, UNCHANGED imageVars
    PROVE  BeliefsKept
  BY DEF ImagesInv, ImagesType, TrackedStates, imageVars, BeliefsKept

LEMMA IdleKeeps ==
    ASSUME ImagesInv, Finish \/ PresentFails \/ ChangeState \/ UNCHANGED renderingVars
    PROVE  ImagesInv'
<1>1. UNCHANGED imageVars /\ ChoicesKept /\ UNCHANGED group /\ dirty' \in {dirty, TRUE}
  BY DEF Finish, PresentFails, ChangeState, renderingVars, imageVars, textureVars, ChoicesKept
<1>2. commands' \in {"none", "graphics", "present"} /\ dirty' \in BOOLEAN
  BY <1>1, BegunType DEF Finish, PresentFails, ChangeState, renderingVars
<1>3. dirty => dirty'
  BY <1>1, <1>2
<1> QED
  BY <1>1, <1>2, <1>3, ImagesSame, GroupSame, ImageStep DEF ChoicesKept

LEMMA InvalidateKeeps ==
    ASSUME ImagesInv, InvalidateGraphicsArtifacts
    PROVE  ImagesInv'
<1>1. /\ UNCHANGED imageVars /\ ChoicesKept /\ group' = NoGroup /\ dirty' = TRUE /\ commands' = "none"
  BY DEF InvalidateGraphicsArtifacts, textureVars, ChoicesKept
<1>2. GroupType' /\ GroupCurrent'
  BY <1>1 DEF GroupType, GroupCurrent, NoGroup
<1> QED
  BY <1>1, <1>2, ImagesSame, ImageStep

-----------------------------------------------------------------------------
(* Calls that change what the next draw depends on.                         *)

LEMMA SurfaceKeeps ==
    ASSUME ImagesInv, ReplaceSurface \/ SetDefaultFramebufferState
    PROVE  ImagesInv'
<1>1. PICK state \in States \cup {"NONE"} : SetDefaultFramebuffer(state)
  BY DEF ReplaceSurface, SetDefaultFramebufferState, States
<1>2. /\ actual' = [actual EXCEPT ![Surface] = state]
      /\ tracked' = [tracked EXCEPT ![Surface] = IF state = "NONE" THEN "UNDEFINED" ELSE state]
      /\ unsure' = unsure \ {Surface} /\ targets' = targets
      /\ ChoicesKept /\ UNCHANGED <<group, commands>>
  BY <1>1 DEF SetDefaultFramebuffer, textureVars, ChoicesKept
<1>3. ImagesType'
  BY <1>2, ImageNames DEF ImagesInv, ImagesType, States
<1>4. TrackedStates'
  BY <1>2, ImageNames DEF ImagesInv, ImagesType, TrackedStates
<1>5. BeliefsKept
  BY <1>2, <1>3, <1>4, ImageNames DEF BeliefsKept, ImagesInv, ImagesType
<1>6. dirty' \in {dirty, TRUE}
  BY DEF ReplaceSurface, SetDefaultFramebufferState
<1>7. commands' \in {"none", "graphics", "present"}
  BY <1>2, BegunType
<1>8. dirty' \in BOOLEAN
  BY <1>6, BegunType
<1>9. dirty => dirty'
  BY <1>6, <1>8
<1> QED
  BY <1>2, <1>5, <1>7, <1>8, <1>9, GroupSame, ImageStep DEF ChoicesKept

(* A discarded image is gone, and whoever refers to it is dirty.            *)
LEMMA DiscardKeeps ==
    ASSUME ImagesInv, NEW t \in Textures, Discard(t)
    PROVE  /\ ImagesType' /\ TrackedStates' /\ GroupType'
           /\ actual'[t] = "NONE" /\ targets' = targets \ {t}
           /\ \A u \in Textures \ {t} : actual'[u] = actual[u]
<1>1. /\ actual' = [actual EXCEPT ![t] = "NONE"]
      /\ tracked' = [tracked EXCEPT ![t] = "UNDEFINED"]
      /\ targets' = targets \ {t} /\ unsure' = unsure \ {t}
      /\ group' = [group EXCEPT !.intact = group.intact /\ (group.texture # t \/ actual[t] = "NONE")]
  BY DEF Discard
<1>2. ImagesType' /\ actual'[t] = "NONE" /\ \A u \in Textures \ {t} : actual'[u] = actual[u]
  BY <1>1, ImageNames DEF ImagesInv, ImagesType, States
<1>3. TrackedStates'
  BY <1>1, ImageNames DEF ImagesInv, ImagesType, TrackedStates
<1>4. GroupType'
  <2>1. CASE group = NoGroup
    BY <1>1, <2>1 DEF GroupType, NoGroup
  <2>2. CASE group # NoGroup
    <3> DEFINE whole == group.intact /\ (group.texture # t \/ actual[t] = "NONE")
    <3>1. group \in [pipeline : Pipelines, texture : Textures, intact : BOOLEAN] /\ whole \in BOOLEAN
      BY <2>2 DEF ImagesInv, GroupType
    <3>2. group' = [group EXCEPT !.intact = whole]
      BY <1>1
    <3> HIDE DEF whole
    <3> QED
      BY <3>1, <3>2 DEF GroupType, Pipelines, Programs, Formats
  <2> QED
    BY <2>1, <2>2
<1> QED
  BY <1>1, <1>2, <1>3, <1>4

LEMMA NewContentsKeeps ==
    ASSUME ImagesInv, TexImage \/ TexSubImage \/ GenerateMipmap
    PROVE  ImagesInv'
<1>1. unit \in Textures /\ defined' \in {defined, defined \cup {unit}} /\ NewContents
  BY DEF TexImage, TexSubImage, GenerateMipmap, ImagesInv, ChoicesType
<1>2. /\ Discard(unit) /\ dirty' = TRUE
      /\ UNCHANGED <<renderable, unit, attached, framebuffer, program, commands>>
  BY <1>1 DEF NewContents
<1>3. /\ ImagesType' /\ TrackedStates' /\ GroupType'
      /\ actual'[unit] = "NONE" /\ targets' = targets \ {unit}
      /\ \A u \in Textures \ {unit} : actual'[u] = actual[u]
  BY <1>1, <1>2, DiscardKeeps
<1>4. ChoicesType'
  BY <1>1, <1>2 DEF ImagesInv, ChoicesType
<1>5. RenderableImages'
  BY <1>2, <1>3 DEF ImagesInv, ChoicesType, RenderableImages
<1>6. GroupCurrent' /\ NamesAssumption'
  BY <1>2 DEF GroupCurrent, ImagesInv, NamesAssumption
<1> QED
  BY <1>3, <1>4, <1>5, <1>6 DEF ImagesInv

LEMMA DeleteTextureKeeps ==
    ASSUME ImagesInv, NEW t \in Textures, DeleteTexture(t)
    PROVE  ImagesInv'
<1>1. /\ attached' = [f \in Framebuffers |-> IF attached[f] = t THEN None ELSE attached[f]]
      /\ unit' = IF unit = t THEN None ELSE unit
      /\ Discard(t) /\ defined' = defined \ {t} /\ renderable' = renderable \ {t}
      /\ dirty' = TRUE /\ UNCHANGED <<framebuffer, program, commands>>
  BY DEF DeleteTexture
<1>2. /\ ImagesType' /\ TrackedStates' /\ GroupType'
      /\ actual'[t] = "NONE" /\ targets' = targets \ {t}
      /\ \A u \in Textures \ {t} : actual'[u] = actual[u]
  BY <1>1, DiscardKeeps
<1>3. ChoicesType'
  BY <1>1 DEF ImagesInv, ChoicesType
<1>4. RenderableImages'
  BY <1>1, <1>2 DEF ImagesInv, ChoicesType, RenderableImages
<1>5. GroupCurrent' /\ NamesAssumption'
  BY <1>1 DEF GroupCurrent, ImagesInv, NamesAssumption
<1> QED
  BY <1>2, <1>3, <1>4, <1>5 DEF ImagesInv

LEMMA FramebufferTexture2DKeeps ==
    ASSUME ImagesInv, NEW t \in Textures \cup {None}, FramebufferTexture2D(t)
    PROVE  ImagesInv'
<1>1. /\ framebuffer # None /\ attached' = [attached EXCEPT ![framebuffer] = t]
      /\ UNCHANGED <<defined, unit, framebuffer, program, commands>>
  BY DEF FramebufferTexture2D
<1>2. CASE t = None \/ t \in renderable
  <2>1. UNCHANGED imageVars /\ UNCHANGED <<renderable, group, dirty>>
    BY <1>2, ImageNames DEF FramebufferTexture2D, RequireColorTarget, ImagesInv, ChoicesType
  <2>2. BeliefsKept /\ GroupType' /\ GroupCurrent'
    BY <1>1, <2>1, ImagesSame, GroupSame
  <2>3. ChoicesType'
    BY <1>1, <2>1 DEF ImagesInv, ChoicesType
  <2>4. RenderableImages'
    BY <1>1, <1>2, <2>1 DEF ImagesInv, ChoicesType, RenderableImages, imageVars
  <2>5. NamesAssumption'
    BY DEF ImagesInv, NamesAssumption
  <2> QED
    BY <2>2, <2>3, <2>4, <2>5 DEF ImagesInv, BeliefsKept
<1>3. CASE t # None /\ t \notin renderable
  <2>1. t \in Textures /\ renderable' = renderable \cup {t} /\ Discard(t) /\ dirty' = TRUE
    BY <1>3 DEF FramebufferTexture2D, RequireColorTarget
  <2>2. /\ ImagesType' /\ TrackedStates' /\ GroupType'
        /\ actual'[t] = "NONE" /\ targets' = targets \ {t}
        /\ \A u \in Textures \ {t} : actual'[u] = actual[u]
    BY <2>1, DiscardKeeps
  <2>3. ChoicesType'
    BY <1>1, <2>1 DEF ImagesInv, ChoicesType
  <2>4. RenderableImages'
    BY <1>1, <2>1, <2>2 DEF ImagesInv, ChoicesType, RenderableImages
  <2>5. GroupCurrent' /\ NamesAssumption'
    BY <2>1 DEF GroupCurrent, ImagesInv, NamesAssumption
  <2> QED
    BY <2>2, <2>3, <2>4, <2>5 DEF ImagesInv
<1> QED
  BY <1>2, <1>3

(* Bindings change and no image does.                                       *)
LEMMA BindingsKeep ==
    ASSUME ImagesInv, UNCHANGED imageVars, UNCHANGED <<defined, renderable, group, commands>>,
           unit' \in Textures \cup {None}, program' \in Programs, dirty' \in BOOLEAN,
           framebuffer' \in Framebuffers \cup {None},
           attached' \in [Framebuffers -> Textures \cup {None}],
           \A f \in Framebuffers : attached'[f] \in {attached[f], None},
           (dirty \/ unit' # unit) => dirty'
    PROVE  ImagesInv'
<1>1. BeliefsKept
  BY ImagesSame
<1>2. ChoicesType' /\ GroupType'
  BY DEF ImagesInv, ChoicesType, GroupType, NoGroup, Pipelines, Programs, Formats
<1>3. RenderableImages'
  BY DEF ImagesInv, ChoicesType, RenderableImages, imageVars
<1>4. GroupCurrent' /\ NamesAssumption'
  BY DEF ImagesInv, GroupCurrent, NoGroup, NamesAssumption
<1> QED
  BY <1>1, <1>2, <1>3, <1>4 DEF ImagesInv, BeliefsKept

LEMMA BindTextureKeeps ==
    ASSUME ImagesInv, NEW t \in Textures \cup {None}, BindTexture(t)
    PROVE  ImagesInv'
  BY BindingsKeep DEF BindTexture, ImagesInv, ChoicesType

LEMMA UseProgramKeeps ==
    ASSUME ImagesInv, NEW p \in Programs, UseProgram(p)
    PROVE  ImagesInv'
  BY BindingsKeep DEF UseProgram, textureVars, ImagesInv, ChoicesType

LEMMA BindFramebufferKeeps ==
    ASSUME ImagesInv, NEW f \in Framebuffers \cup {None}, BindFramebuffer(f)
    PROVE  ImagesInv'
  BY BindingsKeep DEF BindFramebuffer, textureVars, ImagesInv, ChoicesType

LEMMA DeleteFramebufferKeeps ==
    ASSUME ImagesInv, NEW f \in Framebuffers, DeleteFramebuffer(f)
    PROVE  ImagesInv'
  BY BindingsKeep DEF DeleteFramebuffer, textureVars, ImagesInv, ChoicesType

-----------------------------------------------------------------------------
(* What follows.                                                            *)

LEMMA ImagesInit == NamesAssumption /\ RenderingInit => ImagesInv
<1> SUFFICES ASSUME NamesAssumption, RenderingInit PROVE ImagesInv
  OBVIOUS
<1>1. ImagesType /\ ChoicesType /\ GroupType
  BY DEF RenderingInit, ImagesType, ChoicesType, GroupType, States, Programs
<1>2. TrackedStates /\ RenderableImages /\ GroupCurrent
  BY DEF RenderingInit, TrackedStates, RenderableImages, GroupCurrent
<1> QED
  BY <1>1, <1>2 DEF ImagesInv

LEMMA ImagesNext == ImagesInv /\ [RenderingNext]_renderingVars => ImagesInv'
<1> SUFFICES ASSUME ImagesInv, [RenderingNext]_renderingVars PROVE ImagesInv'
  OBVIOUS
<1>1. CASE Draw
  BY <1>1, StoppedKeeps, DrawUnpreparedKeeps, DrawRefusedKeeps, DrawDoneKeeps DEF Draw
<1>2. CASE Read \/ Clear \/ ClearForEmbedding \/ Present
  BY <1>2, StoppedKeeps, ReadUnconfirmedKeeps, TransfersKeep DEF Read
<1>3. CASE Finish \/ PresentFails \/ ChangeState \/ UNCHANGED renderingVars
  BY <1>3, IdleKeeps
<1>4. CASE ReplaceSurface \/ SetDefaultFramebufferState
  BY <1>4, SurfaceKeeps
<1>5. CASE \E t \in Textures : DeleteTexture(t)
  BY <1>5, DeleteTextureKeeps
<1>6. CASE \E t \in Textures \cup {None} : BindTexture(t) \/ FramebufferTexture2D(t)
  BY <1>6, BindTextureKeeps, FramebufferTexture2DKeeps
<1>7. CASE TexImage \/ TexSubImage \/ GenerateMipmap
  BY <1>7, NewContentsKeeps
<1>8. CASE \E f \in Framebuffers : DeleteFramebuffer(f)
  BY <1>8, DeleteFramebufferKeeps
<1>9. CASE \E f \in Framebuffers \cup {None} : BindFramebuffer(f)
  BY <1>9, BindFramebufferKeeps
<1>10. CASE \E p \in Programs : UseProgram(p)
  BY <1>10, UseProgramKeeps
<1>11. CASE InvalidateGraphicsArtifacts
  BY <1>11, InvalidateKeeps
<1> QED
  BY <1>1, <1>2, <1>3, <1>4, <1>5, <1>6, <1>7, <1>8, <1>9, <1>10, <1>11 DEF RenderingNext

(* All that RinGL believes about the device and acts upon is so: the states *)
(* of images whose readback was confirmed, the bind group, what an attached *)
(* texture can be used for.                                                 *)
THEOREM BeliefsTrueHolds == RenderingSpec => []BeliefsTrue
<1>1. RenderingInit => ImagesInv
  BY ImagesInit, NamesAssumption
<1> QED
  BY <1>1, ImagesNext, ImagesInvTrue, PTL DEF RenderingSpec

LEMMA DrawReaches ==
    ASSUME ImagesInv, DrawDone, ({Target} \cup Reads) \cap unsure = {}
    PROVE  /\ actual'[Target] = "COLOR_TARGET"
           /\ \A t \in Reads : t # Target /\ actual'[t] = "SHADER_READ"
<1> DEFINE goal == DrawGoal
<1>1. /\ Accepted(goal) /\ Published(goal) /\ Target # None /\ CanSample
  BY DEF DrawDone
<1>2. DOMAIN goal = {Target} \cup Reads /\ goal[Target] = "COLOR_TARGET"
  BY DEF DrawGoal
<1>3. \A t \in Reads : t # Target /\ goal[t] = "SHADER_READ"
  BY <1>1, ReadsExist DEF DrawGoal
<1>4. BeliefsKept /\ GoalType(goal)
  BY <1>1, DrawSet, PublishedKeeps
<1> HIDE DEF goal
<1>5. \A i \in DOMAIN goal : actual'[i] = goal[i]
  <2> SUFFICES ASSUME NEW i \in DOMAIN goal PROVE actual'[i] = goal[i]
    OBVIOUS
  <2>1. i \in Images /\ goal[i] \in States /\ i \notin unsure /\ i \notin unsure'
    BY <1>1, <1>2, <1>4 DEF GoalType, Existing, Published
  <2>2. tracked'[i] = goal[i]
    BY <1>1, <2>1 DEF Published
  <2>3. tracked'[i] = IF actual'[i] = "NONE" THEN "UNDEFINED" ELSE actual'[i]
    BY <1>4, <2>1 DEF BeliefsKept, TrackedStates
  <2>4. goal[i] # "UNDEFINED"
    BY <1>2, <1>3
  <2> QED
    BY <2>2, <2>3, <2>4
<1> QED
  BY <1>2, <1>3, <1>5

(* Whatever a draw that reaches the queue draws to is a color target then,  *)
(* and what it samples is another image, ready to be read.                  *)
THEOREM DrawsInStateHolds == RenderingSpec => DrawsInState
<1> DEFINE Reaches == DrawDone /\ ({Target} \cup Reads) \cap unsure = {} =>
                          /\ actual'[Target] = "COLOR_TARGET"
                          /\ \A t \in Reads : t # Target /\ actual'[t] = "SHADER_READ"
<1>1. RenderingInit => ImagesInv
  BY ImagesInit, NamesAssumption
<1>2. ImagesInv /\ [RenderingNext]_renderingVars => [Reaches]_renderingVars
  BY DrawReaches
<1>3. RenderingSpec => [][Reaches]_renderingVars
  BY <1>1, <1>2, ImagesNext, PTL DEF RenderingSpec
<1> QED
  BY <1>3 DEF DrawsInState

-----------------------------------------------------------------------------
(***************************************************************************)
(* The trace runtime (TraceRing): for rings of every size and any number   *)
(* of types, readers and sequence numbers, the ring keeps its newest       *)
(* events where readers look for them, no reader misses an event           *)
(* unknowingly, and the ring implements the numbered log.                  *)
(***************************************************************************)

-----------------------------------------------------------------------------
(***************************************************************************)
(* Arithmetic: numbers less than a round apart lie in different slots.     *)
(***************************************************************************)

LEMMA Division ==
    ASSUME NEW n \in Nat \ {0}, NEW a \in Nat
    PROVE  /\ a = n * (a \div n) + (a % n)
           /\ a % n \in 0 .. n - 1 /\ a \div n \in Int
  OBVIOUS

(* No multiple of n lies strictly between 0 and n.                          *)
LEMMA NoMultiple ==
    ASSUME NEW n \in Nat \ {0}, NEW k \in Int, NEW d \in Nat, d > 0, d < n
    PROVE  n * k # d
<1>1. CASE k <= 0
  <2>1. n * k <= 0
    BY <1>1
  <2> QED
    BY <2>1
<1>2. CASE k >= 1
  <2>1. n * k >= n
    BY <1>2
  <2> QED
    BY <2>1
<1> QED
  BY <1>1, <1>2

LEMMA Apart ==
    ASSUME NEW n \in Nat \ {0}, NEW a \in Nat, NEW b \in Nat, a < b, b < a + n
    PROVE  a % n # b % n
<1>1. SUFFICES ASSUME a % n = b % n
               PROVE  FALSE
  OBVIOUS
<1> DEFINE p == a \div n
<1> DEFINE q == b \div n
<1>2. /\ p \in Int /\ q \in Int /\ a % n \in Int
      /\ a = n * p + (a % n) /\ b = n * q + (b % n)
  BY Division
<1> HIDE DEF p, q
<1>3. b - a = n * q - n * p
  BY <1>1, <1>2
<1>4. n * q - n * p = n * (q - p)
  BY <1>2
<1>5. n * (q - p) # b - a
  <2>1. q - p \in Int /\ b - a \in Nat /\ b - a > 0 /\ b - a < n
    BY <1>2
  <2> QED
    BY ONLY <2>1, NoMultiple, n \in Nat \ {0}
<1> QED
  BY <1>3, <1>4, <1>5

(* Every number has a slot, and those of a window have different ones.      *)
LEMMA SlotsDiffer ==
    /\ \A s \in Nat \ {0} : SlotOf(s) \in Slots
    /\ \A s, u \in Nat \ {0} : s < u /\ u < s + RingSize => SlotOf(s) # SlotOf(u)
<1>1. ASSUME NEW s \in Nat \ {0}
      PROVE  SlotOf(s) \in Slots
  <2>1. s - 1 \in Nat
    OBVIOUS
  <2> QED
    BY <2>1, Division, SizesAssumption DEF SlotOf, Slots
<1>2. ASSUME NEW s \in Nat \ {0}, NEW u \in Nat \ {0}, s < u, u < s + RingSize
      PROVE  SlotOf(s) # SlotOf(u)
  <2>1. s - 1 \in Nat /\ u - 1 \in Nat /\ s - 1 < u - 1 /\ u - 1 < (s - 1) + RingSize
    BY <1>2, SizesAssumption
  <2> QED
    BY <2>1, Apart, SizesAssumption DEF SlotOf
<1> QED
  BY <1>1, <1>2

-----------------------------------------------------------------------------
(***************************************************************************)
(* The inductive invariant.  What is kept ends just before next; a reader  *)
(* is behind it and past everything it was given.                          *)
(***************************************************************************)
Counting ==
    /\ next - count = dropped + 1
    /\ Total(counts, NTypes) = next - 1

Reader(r) ==
    /\ cursor[r] <= next
    /\ last[r] < next
    /\ cursor[r] # 0 => last[r] < cursor[r]
    /\ cursor[r] = 0 => last[r] = 0
    /\ r \notin excused => cursor[r] = last[r] + 1

TraceInvariant ==
    /\ TraceTypeOK /\ KeptInPlace /\ Counting
    /\ \A r \in Readers : Reader(r)

LEMMA Window ==
    ASSUME TraceInvariant
    PROVE  /\ Oldest \in Nat \ {0} /\ Oldest <= next /\ next \in Nat \ {0}
           /\ count = next - Oldest /\ count <= RingSize /\ count \in Nat
           /\ \A s \in Oldest .. next - 1 : /\ SlotOf(s) \in Slots
                                            /\ events[SlotOf(s)] \in Events
                                            /\ events[SlotOf(s)].sequence = s
<1>1. /\ Oldest \in Nat \ {0} /\ Oldest <= next /\ next \in Nat \ {0}
      /\ count = next - Oldest /\ count <= RingSize /\ count \in Nat
  BY SizesAssumption DEF TraceInvariant, TraceTypeOK, Counting, Oldest
<1>2. ASSUME NEW s \in Oldest .. next - 1
      PROVE  /\ SlotOf(s) \in Slots
             /\ events[SlotOf(s)] \in Events
             /\ events[SlotOf(s)].sequence = s
  <2>1. s \in Nat \ {0}
    BY <1>1
  <2>2. SlotOf(s) \in Slots
    BY <2>1, SlotsDiffer
  <2>3. events[SlotOf(s)].sequence = s
    BY DEF TraceInvariant, KeptInPlace
  <2>4. events[SlotOf(s)] # Zero
    BY <2>1, <2>3 DEF Zero
  <2> QED
    BY <2>2, <2>3, <2>4 DEF TraceInvariant, TraceTypeOK
<1> QED
  BY <1>1, <1>2

LEMMA TraceInitInvariant == TraceInit => TraceInvariant
<1> SUFFICES ASSUME TraceInit
             PROVE  TraceInvariant
  OBVIOUS
<1>1. TraceTypeOK
  <2>1. <<>> \in Seq(Events)
    OBVIOUS
  <2> QED
    BY <2>1, SizesAssumption DEF TraceInit, TraceTypeOK
<1>2. KeptInPlace
  BY DEF TraceInit, KeptInPlace, Oldest
<1>3. Counting
  <2>1. counts = [i \in 1 .. NTypes |-> 0]
    BY DEF TraceInit, Types
  <2>2. Total(counts, NTypes) = 0
    BY <2>1, TotalZero, SizesAssumption
  <2> QED
    BY <2>2 DEF TraceInit, Counting
<1>4. \A r \in Readers : Reader(r)
  BY DEF TraceInit, Reader
<1> QED
  BY <1>1, <1>2, <1>3, <1>4 DEF TraceInvariant

(* A new event overwrites nothing but the event that leaves the window.     *)
LEMMA RecordStep ==
    ASSUME TraceInvariant, NEW type \in Types, Record(type)
    PROVE  TraceInvariant'
<1> DEFINE event == [type |-> type, sequence |-> next]
<1>1. /\ next' = next + 1 /\ next \in Nat \ {0} /\ next < LastSequence
      /\ events' = [events EXCEPT ![SlotOf(next)] = event]
      /\ counts' = [counts EXCEPT ![type] = @ + 1]
      /\ UNCHANGED readerVars
  BY SizesAssumption DEF Record, TraceInvariant, TraceTypeOK
<1>2. /\ count' \in 0 .. RingSize /\ dropped' \in Nat
      /\ Oldest' >= Oldest /\ Oldest' + RingSize > next /\ Oldest' \in Nat \ {0}
      /\ next' - count' = dropped' + 1
  <2>1. /\ count \in 0 .. RingSize /\ dropped \in Nat /\ RingSize \in Nat \ {0}
        /\ next - count = dropped + 1 /\ next' = next + 1 /\ next \in Nat
    BY <1>1, SizesAssumption DEF TraceInvariant, TraceTypeOK, Counting
  <2>2. CASE count = RingSize
    <3>1. dropped' = dropped + 1 /\ count' = count
      BY <2>2 DEF Record, Counted
    <3> QED
      BY ONLY <2>1, <2>2, <3>1 DEF Oldest
  <2>3. CASE count # RingSize
    <3>1. dropped' = dropped /\ count' = count + 1
      BY <2>3 DEF Record, Counted
    <3> QED
      BY ONLY <2>1, <2>3, <3>1 DEF Oldest
  <2> QED
    BY <2>2, <2>3
<1>3. event \in Events
  BY <1>1 DEF Events
<1>4. SlotOf(next) \in Slots
  BY <1>1, SlotsDiffer
<1>5. events' \in [Slots -> Events \cup {Zero}] /\ events'[SlotOf(next)] = event
  BY <1>1, <1>3, <1>4 DEF TraceInvariant, TraceTypeOK
<1>6. TraceTypeOK'
  <2>1. next' \in 1 .. LastSequence
    BY <1>1, SizesAssumption
  <2>2. counts' \in [Types -> Nat]
    BY <1>1 DEF TraceInvariant, TraceTypeOK
  <2> QED
    BY <1>1, <1>2, <1>5, <2>1, <2>2 DEF TraceInvariant, TraceTypeOK, readerVars
<1>7. KeptInPlace'
  <2>1. SUFFICES ASSUME NEW s \in Oldest' .. next
                 PROVE  events'[SlotOf(s)].sequence = s
    BY <1>1 DEF KeptInPlace, SlotOf
  <2>2. CASE s = next
    BY <1>5, <2>2
  <2>3. CASE s # next
    <3>1. s \in Oldest .. next - 1 /\ s \in Nat \ {0} /\ s < next /\ next < s + RingSize
      <4>1. \A new \in Nat, old \in Nat \ {0}, n \in Nat, k \in Nat, size \in Nat :
               new >= old /\ new + size > n /\ k \in new .. n /\ k # n =>
                 k \in old .. n - 1 /\ k \in Nat \ {0} /\ k < n /\ n < k + size
        OBVIOUS
      <4>2. /\ Oldest' \in Nat /\ Oldest \in Nat \ {0} /\ next \in Nat /\ RingSize \in Nat
            /\ Oldest' >= Oldest /\ Oldest' + RingSize > next
        BY ONLY <1>1, <1>2, Window, SizesAssumption, TraceInvariant
      <4>3. s \in Nat /\ s \in Oldest' .. next /\ s # next
        BY <2>3, <4>2
      <4> QED
        BY ONLY <4>1, <4>2, <4>3
    <3>2. SlotOf(s) # SlotOf(next) /\ SlotOf(s) \in Slots
      BY <1>1, <3>1, SlotsDiffer
    <3>3. events'[SlotOf(s)] = events[SlotOf(s)]
      BY <1>1, <3>2 DEF TraceInvariant, TraceTypeOK
    <3> QED
      BY <3>1, <3>3, Window
  <2> QED
    BY <2>2, <2>3
<1>8. Counting'
  <2>1. counts \in [1 .. NTypes -> Int] /\ type \in 1 .. NTypes /\ counts[type] + 1 \in Int
        /\ counts[type] \in Int
    <3>1. counts \in [1 .. NTypes -> Nat] /\ type \in 1 .. NTypes
      BY DEF TraceInvariant, TraceTypeOK, Types
    <3>2. counts[type] \in Nat
      BY <3>1
    <3>3. counts \in [1 .. NTypes -> Int]
      BY <3>1
    <3> QED
      BY <3>1, <3>2, <3>3
  <2>2. Total(counts', NTypes) = Total(counts, NTypes) - counts[type] + (counts[type] + 1)
        /\ Total(counts, NTypes) \in Int
    BY <1>1, <2>1, TotalUpdate, SizesAssumption
  <2>3. Total(counts', NTypes) = next' - 1
    BY <1>1, <2>1, <2>2 DEF TraceInvariant, Counting
  <2> QED
    BY <1>2, <2>3 DEF Counting
<1>9. \A r \in Readers : Reader(r)'
  BY <1>1, SizesAssumption DEF TraceInvariant, TraceTypeOK, Reader, readerVars
<1> QED
  BY <1>6, <1>7, <1>8, <1>9 DEF TraceInvariant

(* A read changes nothing but what its reader knows.                        *)
LEMMA ReaderStep ==
    ASSUME TraceInvariant, NEW r \in Readers, NEW status, NEW delivered, NEW to,
           Returns(r, status, delivered, to),
           status \in {"none", "all", "more", "noRoom", "missed"},
           delivered \in Seq(Events), to \in Nat, to <= next,
           last' \in [Readers -> Nat], excused' \in SUBSET Readers,
           \A u \in Readers \ {r} : last'[u] = last[u] /\ (u \in excused' <=> u \in excused),
           Reader(r)'
    PROVE  TraceInvariant'
<1>1. UNCHANGED ringVars
  BY DEF Returns
<1>2. /\ cursor' \in [Readers -> 0 .. LastSequence]
      /\ answer' \in [Readers -> [status : {"none", "all", "more", "noRoom", "missed"},
                                  events : Seq(Events)]]
  <2>1. to \in 0 .. LastSequence
    BY SizesAssumption DEF TraceInvariant, TraceTypeOK
  <2> QED
    BY <2>1 DEF Returns, TraceInvariant, TraceTypeOK
<1>3. TraceTypeOK'
  BY <1>1, <1>2 DEF TraceInvariant, TraceTypeOK, ringVars
<1>4. KeptInPlace' /\ Counting'
  BY <1>1 DEF TraceInvariant, KeptInPlace, Counting, Oldest, ringVars
<1>5. ASSUME NEW u \in Readers
      PROVE  Reader(u)'
  <2>1. CASE u = r
    BY <2>1
  <2>2. CASE u # r
    <3>1. /\ cursor'[u] = cursor[u] /\ last'[u] = last[u] /\ (u \in excused' <=> u \in excused)
          /\ next' = next
      BY <1>1, <2>2 DEF Returns, TraceInvariant, TraceTypeOK, ringVars
    <3>2. Reader(u)
      BY DEF TraceInvariant
    <3> QED
      BY <3>1, <3>2 DEF Reader
  <2> QED
    BY <2>1, <2>2
<1> QED
  BY <1>3, <1>4, <1>5 DEF TraceInvariant

(* Where a reader stands.                                                   *)
LEMMA Standing ==
    ASSUME TraceInvariant, NEW r \in Readers
    PROVE  /\ cursor[r] \in Nat /\ last[r] \in Nat /\ Reader(r) /\ excused \subseteq Readers
           /\ Position(r) \in Nat \ {0} /\ Position(r) <= next /\ last[r] < Position(r)
           /\ r \notin excused => Position(r) = last[r] + 1
           /\ Position(r) # cursor[r] => cursor[r] = 0
  BY Window, SizesAssumption DEF TraceInvariant, TraceTypeOK, Reader, Position

LEMMA EmptyAnswer == <<>> \in Seq(Events)
  OBVIOUS

(* What a read copies out is what lies at the places it looks at.           *)
LEMMA Delivered ==
    ASSUME TraceInvariant, NEW r \in Readers, NEW n \in Nat,
           Position(r) >= Oldest, Position(r) + n <= next
    PROVE  LET batch == [i \in 1 .. n |-> events[SlotOf(Position(r) + i - 1)]]
           IN  /\ batch \in Seq(Events) /\ Len(batch) = n
               /\ \A i \in 1 .. n : batch[i].sequence = Position(r) + i - 1
<1> DEFINE at == Position(r)
<1> DEFINE batch == [i \in 1 .. n |-> events[SlotOf(at + i - 1)]]
<1>1. at \in Nat \ {0} /\ at >= Oldest /\ at + n <= next
  BY Standing
<1> HIDE DEF at
<1>2. ASSUME NEW i \in 1 .. n
      PROVE  events[SlotOf(at + i - 1)] \in Events /\ events[SlotOf(at + i - 1)].sequence = at + i - 1
  <2>1. at + i - 1 \in Oldest .. next - 1
    BY <1>1, Window
  <2> QED
    BY <2>1, Window
<1>3. batch \in [1 .. n -> Events]
  BY <1>2
<1>4. \A i \in 1 .. n : batch[i].sequence = at + i - 1
  BY <1>2
<1> HIDE DEF batch
<1>5. batch \in Seq(Events) /\ Len(batch) = n
  BY <1>3, SeqDef
<1> QED
  BY <1>4, <1>5 DEF batch, at

LEMMA EmptyReadStep ==
    ASSUME TraceInvariant, NEW r \in Readers,
           ReadMissed(r) \/ ReadNothing(r) \/ ReadWithoutRoom(r)
    PROVE  /\ TraceInvariant' /\ answer'[r].events = <<>>
           /\ \A u \in Readers \ {r} : answer'[u] = answer[u] /\ cursor'[u] = cursor[u]
<1>1. PICK status \in {"all", "noRoom", "missed"}, to \in Nat :
        /\ Returns(r, status, <<>>, to) /\ to <= next
        /\ last' = last /\ excused' = IF status = "missed" THEN excused \cup {r} ELSE excused
        /\ \/ status = "missed" /\ to = Oldest /\ cursor[r] # 0 /\ cursor[r] < Oldest
           \/ status = "all" /\ to = Position(r) /\ Position(r) = next
           \/ status = "noRoom" /\ to = cursor[r]
  <2>1. CASE ReadMissed(r)
    <3>1. cursor[r] # 0 /\ cursor[r] < Oldest
      BY <2>1, Window, Standing DEF ReadMissed, Position
    <3>2. Returns(r, "missed", <<>>, Oldest) /\ last' = last /\ excused' = excused \cup {r}
      BY <2>1 DEF ReadMissed
    <3> QED
      BY <3>1, <3>2, Window
  <2>2. CASE ReadNothing(r)
    <3>1. /\ Returns(r, "all", <<>>, Position(r)) /\ Position(r) = next
          /\ last' = last /\ excused' = excused
      BY <2>2 DEF ReadNothing
    <3> QED
      BY <3>1, Window, Standing
  <2>3. CASE ReadWithoutRoom(r)
    <3>1. Returns(r, "noRoom", <<>>, cursor[r]) /\ last' = last /\ excused' = excused
      BY <2>3 DEF ReadWithoutRoom
    <3>2. cursor[r] \in Nat /\ cursor[r] <= next
      BY Standing DEF Reader
    <3> QED
      BY <3>1, <3>2
  <2> QED
    BY <2>1, <2>2, <2>3
<1>2. /\ cursor' = [cursor EXCEPT ![r] = to] /\ next' = next
      /\ cursor \in [Readers -> 0 .. LastSequence] /\ last \in [Readers -> Nat]
      /\ excused \in SUBSET Readers
  BY <1>1 DEF Returns, ringVars, TraceInvariant, TraceTypeOK
<1>3. cursor'[r] = to /\ last'[r] = last[r] /\ (r \in excused' <=> status = "missed" \/ r \in excused)
  BY <1>1, <1>2
<1>4. Reader(r)'
  <2>1. /\ cursor[r] \in Nat /\ last[r] \in Nat /\ Reader(r)
        /\ Position(r) \in Nat \ {0} /\ last[r] < Position(r)
        /\ r \notin excused => Position(r) = last[r] + 1
        /\ Oldest \in Nat \ {0} /\ next \in Nat \ {0}
    BY Standing, Window
  <2>2. CASE status = "missed"
    BY <1>1, <1>2, <1>3, <2>1, <2>2 DEF Reader
  <2>3. CASE status = "all"
    BY <1>1, <1>2, <1>3, <2>1, <2>3 DEF Reader
  <2>4. CASE status = "noRoom"
    BY <1>1, <1>2, <1>3, <2>1, <2>4 DEF Reader
  <2> QED
    BY <2>2, <2>3, <2>4
<1>5. TraceInvariant'
  <2>1. /\ last' \in [Readers -> Nat] /\ excused' \in SUBSET Readers
        /\ \A u \in Readers \ {r} : last'[u] = last[u] /\ (u \in excused' <=> u \in excused)
    BY <1>1, <1>2
  <2> QED
    BY <1>1, <1>4, <2>1, EmptyAnswer, ReaderStep
<1>6. /\ answer'[r].events = <<>>
      /\ \A u \in Readers \ {r} : answer'[u] = answer[u] /\ cursor'[u] = cursor[u]
  BY <1>1 DEF Returns, TraceInvariant, TraceTypeOK
<1> QED
  BY <1>5, <1>6

(* What ReadSome returns, by its parts.                                     *)
LEMMA SomeParts ==
    ASSUME TraceInvariant, NEW r \in Readers, NEW capacity \in Capacities, ReadSome(r, capacity)
    PROVE  \E n \in Nat \ {0} :
             /\ Position(r) >= Oldest /\ Position(r) + n <= next
             /\ Returns(r, IF Position(r) + n = next THEN "all" ELSE "more",
                        [i \in 1 .. n |-> events[SlotOf(Position(r) + i - 1)]], Position(r) + n)
             /\ last' = [last EXCEPT ![r] = Position(r) + n - 1]
             /\ excused' = excused \ {r}
<1> DEFINE available == next - Position(r)
<1> DEFINE n == IF available > capacity THEN capacity ELSE available
<1>1. /\ Position(r) \in Nat \ {0} /\ next \in Nat \ {0} /\ capacity \in Nat /\ capacity > 0
      /\ Position(r) >= Oldest /\ Position(r) <= next - 1
  BY Standing, Window, SizesAssumption DEF ReadSome
<1>2. n \in Nat \ {0} /\ Position(r) + n <= next /\ (available > capacity <=> Position(r) + n # next)
  BY <1>1
<1>3. /\ Returns(r, IF available > capacity THEN "more" ELSE "all",
                 [i \in 1 .. n |-> events[SlotOf(Position(r) + i - 1)]], Position(r) + n)
      /\ last' = [last EXCEPT ![r] = Position(r) + n - 1]
      /\ excused' = excused \ {r}
  BY DEF ReadSome, AfterRead
<1>4. (IF available > capacity THEN "more" ELSE "all")
        = (IF Position(r) + n = next THEN "all" ELSE "more")
  BY <1>2
<1> HIDE DEF n, available
<1> QED
  BY <1>1, <1>2, <1>3, <1>4

LEMMA SomeReadStep ==
    ASSUME TraceInvariant, NEW r \in Readers, NEW capacity \in Capacities, ReadSome(r, capacity)
    PROVE  /\ TraceInvariant'
           /\ answer'[r].events \in Seq(Events)
           /\ \A i \in 1 .. Len(answer'[r].events) :
                answer'[r].events[i].sequence = Position(r) + i - 1
           /\ \A u \in Readers \ {r} : answer'[u] = answer[u] /\ cursor'[u] = cursor[u]
<1>1. PICK n \in Nat \ {0} :
        /\ Position(r) >= Oldest /\ Position(r) + n <= next
        /\ Returns(r, IF Position(r) + n = next THEN "all" ELSE "more",
                   [i \in 1 .. n |-> events[SlotOf(Position(r) + i - 1)]], Position(r) + n)
        /\ last' = [last EXCEPT ![r] = Position(r) + n - 1]
        /\ excused' = excused \ {r}
  BY SomeParts
<1> DEFINE batch == [i \in 1 .. n |-> events[SlotOf(Position(r) + i - 1)]]
<1> DEFINE status == IF Position(r) + n = next THEN "all" ELSE "more"
<1>2. /\ batch \in Seq(Events) /\ Len(batch) = n
      /\ \A i \in 1 .. n : batch[i].sequence = Position(r) + i - 1
  BY <1>1, Delivered
<1>3. Returns(r, status, batch, Position(r) + n) /\ status \in {"all", "more"}
  BY <1>1
<1> HIDE DEF batch, status
<1>4. /\ answer' = [answer EXCEPT ![r] = [status |-> status, events |-> batch]]
      /\ cursor' = [cursor EXCEPT ![r] = Position(r) + n] /\ next' = next
      /\ DOMAIN answer = Readers /\ DOMAIN cursor = Readers
      /\ last \in [Readers -> Nat] /\ excused \in SUBSET Readers
  BY <1>3 DEF Returns, ringVars, TraceInvariant, TraceTypeOK
<1>5. Position(r) \in Nat \ {0} /\ next \in Nat /\ n \in Nat
  BY Standing, Window
<1>6. /\ last' \in [Readers -> Nat] /\ excused' \in SUBSET Readers
      /\ \A u \in Readers \ {r} : last'[u] = last[u] /\ (u \in excused' <=> u \in excused)
  <2>1. Position(r) + n - 1 \in Nat
    BY <1>5
  <2> QED
    BY <1>1, <1>4, <2>1
<1>7. Reader(r)'
  <2>1. cursor'[r] = Position(r) + n /\ last'[r] = Position(r) + n - 1
    BY <1>1, <1>4
  <2> QED
    BY <1>1, <1>4, <1>5, <2>1 DEF Reader
<1>8. TraceInvariant'
  <2>1. Position(r) + n \in Nat /\ Position(r) + n <= next
    BY <1>1, <1>5
  <2> QED
    BY <1>2, <1>3, <1>6, <1>7, <2>1, ReaderStep
<1>9. answer'[r].events = batch
  BY <1>4
<1> QED
  BY <1>2, <1>4, <1>8, <1>9

LEMMA TraceStep == TraceInvariant /\ [TraceNext]_traceVars => TraceInvariant'
<1> SUFFICES ASSUME TraceInvariant, [TraceNext]_traceVars
             PROVE  TraceInvariant'
  OBVIOUS
<1>1. CASE \E type \in Types : Record(type)
  BY <1>1, RecordStep
<1>2. ASSUME NEW r \in Readers, ReadTrace(r)
      PROVE  TraceInvariant'
  <2>1. CASE ReadMissed(r) \/ ReadNothing(r) \/ ReadWithoutRoom(r)
    BY <2>1, EmptyReadStep
  <2>2. CASE \E capacity \in Capacities : ReadSome(r, capacity)
    BY <2>2, SomeReadStep
  <2> QED
    BY <1>2, <2>1, <2>2 DEF ReadTrace
<1>3. CASE UNCHANGED traceVars
  BY <1>3 DEF traceVars, ringVars, readerVars, TraceInvariant, TraceTypeOK, KeptInPlace, Counting, Reader, Oldest
<1> QED
  BY <1>1, <1>2, <1>3 DEF TraceNext

(* The ring, its counters and its readers always agree.                     *)
THEOREM TraceInvariantHolds == TraceSpec => []TraceInvariant
<1> QED
  BY TraceInitInvariant, TraceStep, PTL DEF TraceSpec

(* No event gets the reserved sequence number, and readers get nothing but  *)
(* events (ringl_trace_runtime_record and ringl_trace_runtime_read).        *)
THEOREM TraceTypeCorrect == TraceSpec => []TraceTypeOK
<1>1. TraceInvariant => TraceTypeOK
  BY DEF TraceInvariant
<1> QED
  BY <1>1, TraceInvariantHolds, PTL

(* Every event that counts as kept is where readers look for it, however    *)
(* often the ring has wrapped (events[(sequence - 1) % MAX]).               *)
THEOREM KeptInPlaceHolds == TraceSpec => []KeptInPlace
<1>1. TraceInvariant => KeptInPlace
  BY DEF TraceInvariant
<1> QED
  BY <1>1, TraceInvariantHolds, PTL

(* Kept, dropped and counted by type are the same events.                   *)
THEOREM CountersAgreeHolds == TraceSpec => []CountersAgree
<1>1. TraceInvariant => CountersAgree
  BY DEF TraceInvariant, Counting, CountersAgree, Oldest
<1> QED
  BY <1>1, TraceInvariantHolds, PTL

-----------------------------------------------------------------------------
(* What NoSilentGap says of a step and a reader.                            *)
Gapless(r) ==
    answer'[r].events # <<>> /\ (answer'[r] # answer[r] \/ cursor'[r] # cursor[r]) =>
      LET batch == answer'[r].events
      IN  /\ batch[1].sequence > last[r]
          /\ batch[1].sequence = last[r] + 1 \/ r \in excused
          /\ \A i \in 2 .. Len(batch) : batch[i].sequence = batch[i - 1].sequence + 1

LEMMA GaplessStep ==
    ASSUME TraceInvariant, [TraceNext]_traceVars, NEW r \in Readers
    PROVE  Gapless(r)
<1>1. CASE UNCHANGED <<answer, cursor>>
  BY <1>1 DEF Gapless
<1>2. ASSUME NEW u \in Readers, ReadTrace(u)
      PROVE  Gapless(r)
  <2>1. CASE ReadMissed(u) \/ ReadNothing(u) \/ ReadWithoutRoom(u)
    <3>1. /\ answer'[u].events = <<>>
          /\ \A v \in Readers \ {u} : answer'[v] = answer[v] /\ cursor'[v] = cursor[v]
      BY <2>1, EmptyReadStep
    <3>2. CASE r = u
      BY <3>1, <3>2 DEF Gapless
    <3>3. CASE r # u
      BY <3>1, <3>3 DEF Gapless
    <3> QED
      BY <3>2, <3>3
  <2>2. ASSUME NEW capacity \in Capacities, ReadSome(u, capacity)
        PROVE  Gapless(r)
    <3> DEFINE batch == answer'[u].events
    <3>1. /\ batch \in Seq(Events)
          /\ \A i \in 1 .. Len(batch) : batch[i].sequence = Position(u) + i - 1
          /\ \A v \in Readers \ {u} : answer'[v] = answer[v] /\ cursor'[v] = cursor[v]
      BY <2>2, SomeReadStep
    <3>2. CASE r # u
      BY <3>1, <3>2 DEF Gapless
    <3>3. CASE r = u
      <4>1. /\ Position(u) \in Nat \ {0} /\ last[u] \in Nat /\ last[u] < Position(u)
            /\ u \notin excused => Position(u) = last[u] + 1
        BY Standing
      <4> HIDE DEF batch
      <4>2. Len(batch) \in Nat
        BY <3>1
      <4>3. ASSUME batch # <<>>
            PROVE  batch[1].sequence = Position(u)
        <5>1. Len(batch) >= 1
          BY ONLY <3>1, <4>2, <4>3
        <5> QED
          BY ONLY <3>1, <4>1, <4>2, <5>1
      <4>4. \A i \in 2 .. Len(batch) : batch[i].sequence = batch[i - 1].sequence + 1
        <5> TAKE i \in 2 .. Len(batch)
        <5>1. i \in 1 .. Len(batch) /\ i - 1 \in 1 .. Len(batch)
          BY <4>2
        <5>2. batch[i].sequence = Position(u) + i - 1
              /\ batch[i - 1].sequence = Position(u) + (i - 1) - 1
          BY ONLY <3>1, <5>1
        <5> QED
          BY ONLY <4>1, <4>2, <5>1, <5>2
      <4> QED
        BY <3>3, <4>1, <4>3, <4>4 DEF Gapless, batch
    <3> QED
      BY <3>2, <3>3
  <2> QED
    BY <1>2, <2>1, <2>2 DEF ReadTrace
<1>3. CASE \E type \in Types : Record(type)
  BY <1>1, <1>3 DEF Record, readerVars
<1>4. CASE UNCHANGED traceVars
  BY <1>1, <1>4 DEF traceVars, readerVars
<1> QED
  BY <1>2, <1>3, <1>4 DEF TraceNext

(* A reader that resumes from the returned cursor gets every event once and *)
(* in order, or has been told by a read that it missed some.                *)
THEOREM NoSilentGapHolds == TraceSpec => NoSilentGap
<1>1. TraceInvariant /\ [TraceNext]_traceVars => [\A r \in Readers : Gapless(r)]_traceVars
  BY GaplessStep
<1>2. TraceSpec => [][\A r \in Readers : Gapless(r)]_traceVars
  BY <1>1, TraceInvariantHolds, PTL DEF TraceSpec
<1> QED
  BY <1>2 DEF NoSilentGap, Gapless

-----------------------------------------------------------------------------
(***************************************************************************)
(* The refinement: what is kept, read from the oldest on, is the log.      *)
(***************************************************************************)
LEMMA KeptIs ==
    TraceInvariant => /\ Kept \in Seq(Events) /\ Len(Kept) = count
                 /\ \A p \in 1 .. count : Kept[p] = events[SlotOf(Oldest + p - 1)]
<1> SUFFICES ASSUME TraceInvariant
             PROVE  /\ Kept \in Seq(Events) /\ Len(Kept) = count
                    /\ \A p \in 1 .. count : Kept[p] = events[SlotOf(Oldest + p - 1)]
  OBVIOUS
<1>1. \A p \in 1 .. count : Oldest + p - 1 \in Oldest .. next - 1
  BY Window
<1>2. \A p \in 1 .. count : events[SlotOf(Oldest + p - 1)] \in Events
  BY <1>1, Window
<1>3. Kept \in [1 .. count -> Events]
  BY <1>2 DEF Kept
<1>4. count \in Nat
  BY Window
<1>5. Kept \in Seq(Events) /\ Len(Kept) = count
  BY <1>3, <1>4, SeqDef
<1> QED
  BY <1>5 DEF Kept

(* ... and in the next state.                                               *)
LEMMA KeptIsNext ==
    ASSUME TraceInvariant'
    PROVE  /\ Kept' \in Seq(Events) /\ Len(Kept') = count'
           /\ \A p \in 1 .. count' : Kept'[p] = events'[SlotOf(Oldest' + p - 1)]
<1>1. (TraceInvariant => /\ Kept \in Seq(Events) /\ Len(Kept) = count
                    /\ \A p \in 1 .. count : Kept[p] = events[SlotOf(Oldest + p - 1)])'
  BY KeptIs, PTL
<1> QED
  BY <1>1 DEF SlotOf

LEMMA OldestKept == TraceInvariant => Log!Oldest = Oldest
  BY KeptIs DEF Log!Oldest, Oldest

LEMMA InitRefines == TraceInit => Log!Init
<1> SUFFICES ASSUME TraceInit
             PROVE  Log!Init
  OBVIOUS
<1>1. Kept \in Seq(Events) /\ Len(Kept) = 0
  BY TraceInitInvariant, KeptIs DEF TraceInit
<1>2. Kept = <<>>
  BY ONLY <1>1
<1> QED
  BY <1>2 DEF TraceInit, Log!Init

(* Two sequences of one length that agree everywhere.                       *)
LEMMA SameSequence ==
    ASSUME NEW S, NEW s \in Seq(S), NEW t \in Seq(S), Len(s) = Len(t),
           \A i \in 1 .. Len(s) : s[i] = t[i]
    PROVE  s = t
  OBVIOUS

LEMMA RecordRefines ==
    ASSUME TraceInvariant, TraceInvariant', NEW type \in Types, Record(type)
    PROVE  Log!Record(type)
<1> DEFINE event == [type |-> type, sequence |-> next]
<1> DEFINE room == IF Len(Kept) = RingSize THEN Tail(Kept) ELSE Kept
<1>1. /\ next' = next + 1 /\ next \in Nat \ {0} /\ next < LastSequence
      /\ events' = [events EXCEPT ![SlotOf(next)] = event]
      /\ UNCHANGED <<cursor, answer>>
  BY SizesAssumption DEF Record, TraceInvariant, TraceTypeOK, readerVars
<1>2. /\ Kept \in Seq(Events) /\ Len(Kept) = count
      /\ Kept' \in Seq(Events) /\ Len(Kept') = count'
  BY KeptIs, KeptIsNext
<1>3. event \in Events
  BY <1>1 DEF Events
<1>4. /\ count \in Nat /\ count <= RingSize /\ RingSize \in Nat \ {0}
      /\ Oldest \in Nat \ {0} /\ Oldest = next - count
      /\ Oldest' = next' - count'
  BY Window, SizesAssumption DEF Oldest
<1>5. \/ count = RingSize /\ count' = count
      \/ count < RingSize /\ count' = count + 1
  BY <1>4 DEF Record, Counted
<1>6. ASSUME NEW s \in Oldest .. next - 1, s > next - RingSize
      PROVE  events'[SlotOf(s)] = events[SlotOf(s)]
  <2>1. s \in Nat \ {0} /\ s < next /\ next < s + RingSize
    BY <1>1, <1>4, <1>6
  <2>2. SlotOf(s) \in Slots /\ SlotOf(s) # SlotOf(next)
    BY <1>1, <2>1, SlotsDiffer
  <2> QED
    BY <1>1, <2>2 DEF TraceInvariant, TraceTypeOK
<1>7. events'[SlotOf(next)] = event
  BY <1>1, SlotsDiffer DEF TraceInvariant, TraceTypeOK
<1> HIDE DEF event
<1>8. PICK n \in Nat \ {0}, first \in Nat \ {0} :
        /\ n = count' /\ first = Oldest' /\ first + n = next + 1
        /\ room \in Seq(Events) /\ Len(room) = n - 1
        /\ \/ count = RingSize /\ n = count /\ first = Oldest + 1
           \/ count < RingSize /\ n = count + 1 /\ first = Oldest
  <2>1. count' \in Nat \ {0} /\ Oldest' \in Nat \ {0} /\ Oldest' + count' = next + 1
    BY <1>1, <1>4, <1>5
  <2>2. room \in Seq(Events) /\ Len(room) = count' - 1
    BY ONLY <1>2, <1>4, <1>5
  <2>3. \/ count = RingSize /\ count' = count /\ Oldest' = Oldest + 1
        \/ count < RingSize /\ count' = count + 1 /\ Oldest' = Oldest
    BY <1>1, <1>4, <1>5
  <2> HIDE DEF room
  <2> QED
    BY <2>1, <2>2, <2>3
<1>9. \A p \in 1 .. n - 1 : room[p] = events[SlotOf(first + p - 1)]
  <2> TAKE p \in 1 .. n - 1
  <2>1. CASE count = RingSize /\ n = count /\ first = Oldest + 1
    <3>1. room[p] = Kept[p + 1] /\ p + 1 \in 1 .. count
      BY ONLY <1>2, <1>4, <2>1, p \in 1 .. n - 1, n \in Nat
    <3>2. Oldest + (p + 1) - 1 = first + p - 1
      BY <1>4, <2>1
    <3>3. Kept[p + 1] = events[SlotOf(Oldest + (p + 1) - 1)]
      BY <3>1, KeptIs
    <3> QED
      BY ONLY <3>1, <3>2, <3>3
  <2>2. CASE count < RingSize /\ n = count + 1 /\ first = Oldest
    <3>1. room[p] = Kept[p] /\ p \in 1 .. count
      BY ONLY <1>2, <1>4, <2>2, p \in 1 .. n - 1, n \in Nat
    <3> QED
      BY <2>2, <3>1, KeptIs
  <2> QED
    BY <1>8, <2>1, <2>2
<1> HIDE DEF room
<1>10. \A p \in 1 .. n - 1 : Kept'[p] = room[p]
  <2> TAKE p \in 1 .. n - 1
  <2>1. PICK s \in Nat : s = first + p - 1
    OBVIOUS
  <2>2. s \in Oldest .. next - 1 /\ s > next - RingSize /\ p \in 1 .. n
    <3>1. /\ first \in Nat /\ n \in Nat /\ p \in 1 .. n - 1 /\ s \in Nat
          /\ next \in Nat /\ RingSize \in Nat /\ Oldest \in Nat
      BY <1>1, <1>4
    <3>2. first + n = next + 1 /\ n <= RingSize /\ Oldest <= first
      <4>1. first + n = next + 1
        BY ONLY <1>8
      <4>2. CASE count = RingSize /\ n = count /\ first = Oldest + 1
        BY ONLY <3>1, <4>1, <4>2
      <4>3. CASE count < RingSize /\ n = count + 1 /\ first = Oldest
        <5>1. count \in Nat
          BY <1>4
        <5> QED
          BY ONLY <3>1, <4>1, <4>3, <5>1
      <4> QED
        BY ONLY <1>8, <4>2, <4>3
    <3> QED
      BY ONLY <2>1, <3>1, <3>2
  <2>3. Kept'[p] = events'[SlotOf(s)]
    BY <1>8, <2>1, <2>2, KeptIsNext
  <2>4. events'[SlotOf(s)] = events[SlotOf(s)]
    BY <1>6, <2>2
  <2> QED
    BY <1>9, <2>1, <2>3, <2>4
<1>11. Kept'[n] = event
  <2>1. n \in 1 .. n /\ first + n - 1 = next
    <3>1. first + n = next + 1
      BY ONLY <1>8
    <3>2. next \in Nat
      BY ONLY <1>1
    <3> QED
      BY ONLY <3>1, <3>2, n \in Nat \ {0}, first \in Nat \ {0}
  <2>2. Kept'[n] = events'[SlotOf(first + n - 1)]
    BY <1>8, <2>1, KeptIsNext
  <2> QED
    BY <1>7, <2>1, <2>2
<1>12. Kept' = Append(room, event)
  <2>1. room \in Seq(Events) /\ Len(room) = n - 1 /\ n \in Nat \ {0}
    BY <1>8
  <2>2. /\ Append(room, event) \in Seq(Events) /\ Len(Append(room, event)) = n
        /\ \A p \in 1 .. n - 1 : Append(room, event)[p] = room[p]
        /\ Append(room, event)[n] = event
    BY ONLY <1>3, <2>1
  <2>3. \A p \in 1 .. n : Kept'[p] = Append(room, event)[p]
    <3> TAKE p \in 1 .. n
    <3>1. CASE p = n
      BY ONLY <1>11, <2>2, <3>1
    <3>2. CASE p # n
      <4>1. p \in 1 .. n - 1
        BY <3>2
      <4> QED
        BY ONLY <1>10, <2>2, <4>1
    <3> QED
      BY <3>1, <3>2
  <2>4. Len(Kept') = n
    BY <1>2, <1>8
  <2> QED
    BY ONLY <1>2, <2>2, <2>3, <2>4, SameSequence
<1> QED
  BY <1>1, <1>12 DEF Log!Record, room, event

LEMMA ReadRefines ==
    ASSUME TraceInvariant, TraceInvariant', NEW r \in Readers, ReadTrace(r)
    PROVE  Log!Next
<1>1. /\ Log!Oldest = Oldest /\ Oldest \in Nat \ {0} /\ Oldest <= next /\ next \in Nat \ {0}
      /\ Log!Wanted(r) = Position(r)
      /\ Position(r) \in Nat \ {0} /\ Position(r) <= next
  BY OldestKept, Window, Standing DEF Log!Wanted, Position
<1>2. ASSUME NEW status, NEW delivered, NEW to, Returns(r, status, delivered, to)
      PROVE  Log!Answers(r, status, delivered, to)
  BY <1>2 DEF Returns, ringVars, Log!Answers, Kept, Oldest
<1>3. CASE ReadMissed(r)
  <2>1. Position(r) < Oldest /\ Returns(r, "missed", <<>>, Oldest)
    BY <1>1, <1>3 DEF ReadMissed
  <2>2. Log!Miss(r)
    BY <1>1, <1>2, <2>1 DEF Log!Miss
  <2> QED
    BY <2>2 DEF Log!Next
<1>4. CASE ReadNothing(r)
  <2>1. Position(r) = next /\ Returns(r, "all", <<>>, next)
    BY <1>4 DEF ReadNothing
  <2>2. Log!CatchUp(r)
    BY <1>1, <1>2, <2>1 DEF Log!CatchUp
  <2> QED
    BY <2>2 DEF Log!Next
<1>5. CASE ReadWithoutRoom(r)
  <2>1. Position(r) \in Oldest .. next - 1 /\ Returns(r, "noRoom", <<>>, cursor[r])
    BY <1>5 DEF ReadWithoutRoom
  <2>2. Log!Decline(r)
    BY <1>1, <1>2, <2>1 DEF Log!Decline
  <2> QED
    BY <2>2 DEF Log!Next
<1>6. ASSUME NEW capacity \in Capacities, ReadSome(r, capacity)
      PROVE  Log!Next
  <2>1. PICK n \in Nat \ {0} :
          /\ Position(r) >= Oldest /\ Position(r) + n <= next
          /\ Returns(r, IF Position(r) + n = next THEN "all" ELSE "more",
                     [i \in 1 .. n |-> events[SlotOf(Position(r) + i - 1)]], Position(r) + n)
    BY <1>6, SomeParts
  <2>2. n \in 1 .. RingSize
    BY <1>1, <2>1, Window, SizesAssumption
  <2>3. [i \in 1 .. n |-> events[SlotOf(Position(r) + i - 1)]]
          = [i \in 1 .. n |-> Kept[Position(r) - Oldest + i]]
    <3>1. ASSUME NEW i \in 1 .. n
          PROVE  events[SlotOf(Position(r) + i - 1)] = Kept[Position(r) - Oldest + i]
      <4> DEFINE p == Position(r) - Oldest + i
      <4>1. p \in 1 .. count /\ Oldest + p - 1 = Position(r) + i - 1
        BY <1>1, <2>1, Window
      <4> HIDE DEF p
      <4>2. Kept[p] = events[SlotOf(Oldest + p - 1)]
        BY <4>1, KeptIs
      <4> QED
        BY <4>1, <4>2 DEF p
    <3> QED
      BY <3>1
  <2>4. Log!Deliver(r, n)
    <3>1. Log!Answers(r, IF Position(r) + n = next THEN "all" ELSE "more",
                      [i \in 1 .. n |-> Kept[Position(r) - Oldest + i]], Position(r) + n)
      BY <1>2, <2>1, <2>3
    <3>2. n > 0
      OBVIOUS
    <3> HIDE DEF Position
    <3> QED
      BY ONLY <1>1, <2>1, <3>1, <3>2 DEF Log!Deliver
  <2> QED
    BY <2>2, <2>4 DEF Log!Next
<1> QED
  BY <1>3, <1>4, <1>5, <1>6 DEF ReadTrace

(* The trace ring is the numbered log of docs/ringl-tracing-v1.md, for      *)
(* every size: the remainder never mixes up what is kept.                   *)
THEOREM LogImplemented == TraceSpec => ImplementsLog
<1>1. TraceInvariant /\ TraceInvariant' /\ [TraceNext]_traceVars => [Log!Next]_Log!vars
  <2> SUFFICES ASSUME TraceInvariant, TraceInvariant', [TraceNext]_traceVars
               PROVE  [Log!Next]_Log!vars
    OBVIOUS
  <2>1. CASE \E type \in Types : Record(type)
    BY <2>1, RecordRefines DEF Log!Next
  <2>2. CASE \E r \in Readers : ReadTrace(r)
    BY <2>2, ReadRefines
  <2>3. CASE UNCHANGED traceVars
    BY <2>3 DEF traceVars, ringVars, readerVars, Log!vars, Kept, Oldest
  <2> QED
    BY <2>1, <2>2, <2>3 DEF TraceNext
<1> QED
  BY <1>1, InitRefines, TraceInvariantHolds, PTL DEF TraceSpec, ImplementsLog, Log!Spec
=============================================================================
