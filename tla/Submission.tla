------------------------------ MODULE Submission ------------------------------
(***************************************************************************)
(* What a context and its device tell each other while a call is under way *)
(* (src/src/context/sync.c, and context.c for errors and loss): the command *)
(* list all calls share, the fence of glFinish and glReadPixels with its    *)
(* values, the loss of the device, and what glGetError says afterwards.    *)
(*                                                                         *)
(* A call makes one callback of the device per step; meanwhile the device  *)
(* works on its queue.  What the commands are is left to Rendering.        *)
(***************************************************************************)
EXTENDS Integers, Sequences

CONSTANTS
    Handles,         \* RinGPU handles of lists and fences; 0 is none
    LastValue,       \* UINT64_MAX: the value after which a fence signals no more
    MaxQueue,        \* bound: a call starts when less is queued
    QueuePresents,   \* queue_capabilities has RINGL_RIN_GPU_QUEUE_PRESENT
    Generations      \* device generations the embedding observes

ASSUME SubmissionAssumption ==
    /\ 0 \notin Handles /\ LastValue \in Nat /\ MaxQueue \in Nat \ {0}
    /\ QueuePresents \in BOOLEAN /\ Generations \subseteq Nat \ {0}

VARIABLES
    lost, reported, pending,   \* lost, loss_reported and pending_error
    generation,                \* device_generation; 0 when unbound
    ops,                       \* has_sync_ops
    list, presents,            \* graphics_command_list; it can present
    fence, value,              \* finish_fence and finish_value
    drop,                      \* what a failed creation returned all the same
    pc, caller,                \* what is to be done next, and for which call
    live,                      \* handles that were given out and not destroyed
    queue, signal,             \* the graphics queue, and what fences signal
    call,                      \* the callback of the last step, and its trace
    losses, told, failed       \* history: loss records, losses told, and
                               \* that a call failed since the last glGetError

errorVars == <<lost, reported, pending>>
objectVars == <<ops, list, presents, fence, value, drop, live>>
deviceVars == <<queue, signal>>
historyVars == <<told, failed>>
vars == <<errorVars, generation, objectVars, pc, caller, deviceVars, call,
          losses, historyVars>>

Errors == {"INVALID_OPERATION", "OUT_OF_MEMORY"}
Results == {"ok", "refused", "lost"}
Callers == {"finish", "read", "draw", "present"}
Fenced == {"finish", "read"}
NoCall == [op |-> "none", result |-> "none", records |-> {}]

(* No fence is told to signal past its last value; a handle is a handle.    *)
TypeOK ==
    /\ lost \in BOOLEAN /\ reported \in BOOLEAN /\ pending \in Errors \cup {"none"}
    /\ generation \in Generations \cup {0}
    /\ ops \in BOOLEAN /\ presents \in BOOLEAN
    /\ {list, fence, drop} \subseteq Handles \cup {0}
    /\ value \in 0 .. LastValue
    /\ pc \in {"idle", "list", "record", "fence", "close", "submit", "wait", "read",
               "drop", "fail", "end"}
    /\ caller \in Callers
    /\ live \in SUBSET Handles
    /\ queue \in Seq([fence : Handles \cup {0}, value : 0 .. LastValue])
    /\ signal \in [Handles -> 0 .. LastValue]
    /\ call \in [op : {"none", "create", "reset", "record", "close", "submit", "wait",
                       "read", "destroy"},
                 result : Results \cup {"none"},
                 records : SUBSET {"CALL_SUMMARY", "CONTEXT_LOSS"}]
    /\ losses \in Nat /\ told \in Nat /\ failed \in BOOLEAN

Init ==
    /\ lost = FALSE /\ reported = FALSE /\ pending = "none"
    /\ generation \in Generations \cup {0}
    /\ ops = FALSE /\ list = 0 /\ presents = FALSE
    /\ fence = 0 /\ value = 0 /\ drop = 0
    /\ pc = "idle" /\ caller = "draw"
    /\ live = {} /\ queue = <<>> /\ signal = [h \in Handles |-> 0]
    /\ call = NoCall /\ losses = 0 /\ told = 0 /\ failed = FALSE

-----------------------------------------------------------------------------
(***************************************************************************)
(* context.c: errors and loss.                                             *)
(***************************************************************************)

\* Fault: the loss counts as reported when it is found.
MarkLostReported ==
    IF lost THEN UNCHANGED <<errorVars, losses>>
            ELSE /\ lost' = TRUE /\ reported' = TRUE /\ pending' = "none"
                 /\ losses' = losses + 1

(* ringl_context_mark_lost                                                  *)
MarkLost ==
    IF lost THEN UNCHANGED <<errorVars, losses>>
            ELSE /\ lost' = TRUE /\ reported' = FALSE /\ pending' = "none"
                 /\ losses' = losses + 1

LossRecord(r) == IF r = "lost" /\ ~lost THEN {"CONTEXT_LOSS"} ELSE {}

Returned(op, r, records) ==
    /\ call' = [op |-> op, result |-> r, records |-> records \cup LossRecord(r)]
    /\ IF r = "lost" THEN MarkLost ELSE UNCHANGED <<errorVars, losses>>

(* A callback of ringpu_ops, by way of ringl_backend_result.                *)
BackendCall(op, r) == Returned(op, r, {"CALL_SUMMARY"})

(* A callback of sync_ops, called by sync.c itself.                         *)
SyncCall(op, r) == Returned(op, r, {})

NoCallback == call' = NoCall /\ UNCHANGED losses

RecordError(error) ==
    /\ pending' = IF lost \/ pending # "none" THEN pending ELSE error
    /\ failed' = TRUE
    /\ UNCHANGED <<lost, reported, told>>

(* ringl_get_error                                                          *)
GetError ==
    /\ pc = "idle"
    /\ IF lost THEN /\ told' = IF reported THEN told ELSE told + 1
                    /\ reported' = TRUE
                    /\ UNCHANGED pending
               ELSE pending' = "none" /\ UNCHANGED <<reported, told>>
    /\ failed' = FALSE
    /\ NoCallback
    /\ UNCHANGED <<lost, generation, objectVars, pc, caller, deviceVars>>

(* ringl_context_observe_device_generation                                  *)
ObserveDeviceGeneration(g) ==
    /\ pc = "idle" /\ ~lost /\ g # generation
    /\ IF generation = 0
         THEN generation' = g /\ call' = NoCall /\ UNCHANGED <<errorVars, losses>>
         ELSE /\ MarkLost
              /\ call' = [op |-> "none", result |-> "none", records |-> {"CONTEXT_LOSS"}]
              /\ UNCHANGED generation
    /\ UNCHANGED <<objectVars, pc, caller, deviceVars, historyVars>>

-----------------------------------------------------------------------------
(***************************************************************************)
(* One call: what it does until it submits.                                *)
(***************************************************************************)
Idle == pc = "idle" /\ ~lost

(* A call starts; those that wait need the callbacks for it.                *)
Enter(c) ==
    /\ Idle /\ Len(queue) < MaxQueue
    /\ caller' = c
    /\ pc' = IF c \in Fenced /\ ~ops THEN "fail" ELSE "list"
    /\ NoCallback
    /\ UNCHANGED <<errorVars, generation, objectVars, deviceVars, historyVars>>

(* Any call may fail before it reaches the device.                          *)
Reject(error) ==
    /\ Idle
    /\ RecordError(error)
    /\ NoCallback
    /\ UNCHANGED <<generation, objectVars, pc, caller, deviceVars>>

Usable(r, h) == r = "ok" /\ h # 0

\* Fault: a handle that came with a failure is forgotten.
CreateFailsLeaking(r, h) ==
    /\ ~Usable(r, h)
    /\ live' = live \cup ({h} \ {0})
    /\ pc' = "fail"
    /\ UNCHANGED <<drop, ops, list, presents, fence, value>>

CreateFails(r, h) ==
    /\ ~Usable(r, h)
    /\ live' = live \cup ({h} \ {0})
    /\ drop' = h
    /\ pc' = IF h = 0 THEN "fail" ELSE "drop"
    /\ UNCHANGED <<ops, list, presents, fence, value>>

(* What a draw, a clear or a read replaces on its way is destroyed: images   *)
(* of another use before its list is made, the bind group and an evicted    *)
(* pipeline of a draw after that.  Whether that finds the device lost is    *)
(* not looked at, and the call goes on.                                     *)
Replace(r) ==
    /\ \/ pc = "list" /\ caller \in {"draw", "read"}
       \/ pc = "record" /\ caller = "draw"
    /\ BackendCall("destroy", r)
    /\ UNCHANGED <<generation, objectVars, pc, caller, deviceVars, historyVars>>

\* Fault: a read does not look whether the context was lost meanwhile.
GivesUpNever == FALSE

(* prepare_empty_command_list looks at lost again, begin_commands does not. *)
GivesUp == lost /\ caller \in Fenced

FindLost ==
    /\ pc = "list" /\ GivesUp
    /\ pc' = "fail"
    /\ NoCallback
    /\ UNCHANGED <<errorVars, generation, objectVars, caller, deviceVars, historyVars>>

AfterList == IF caller = "finish" THEN "fence" ELSE "record"

(* prepare_empty_command_list in sync.c and begin_commands in draw.c share  *)
(* one list, which each of them makes with capabilities of its own.         *)
ListCreated(r, h) ==
    /\ Usable(r, h)
    /\ list' = h /\ presents' = (QueuePresents /\ caller \notin Fenced)
    /\ live' = live \cup {h}
    /\ pc' = AfterList
    /\ UNCHANGED <<ops, fence, value, drop>>

CreateList(r, h) ==
    /\ pc = "list" /\ list = 0 /\ ~GivesUp
    /\ BackendCall("create", r)
    /\ ListCreated(r, h) \/ CreateFails(r, h)
    /\ UNCHANGED <<generation, caller, deviceVars, historyVars>>

(* The callback op, then the next step, or failure.                         *)
Proceed(next, r) ==
    /\ pc' = IF r = "ok" THEN next ELSE "fail"
    /\ UNCHANGED <<generation, objectVars, caller, historyVars>>

ResetList(r) ==
    /\ pc = "list" /\ list # 0 /\ ~GivesUp
    /\ BackendCall("reset", r)
    /\ Proceed(AfterList, r)
    /\ UNCHANGED deviceVars

AfterRecording == IF caller \in Fenced THEN "fence" ELSE "close"

(* The commands of a call, as one.                                          *)
RecordCommands(r) ==
    /\ pc = "record"
    /\ BackendCall("record", r)
    /\ Proceed(AfterRecording, r)
    /\ UNCHANGED deviceVars

(* glReadPixels of an image that can be copied from already.                *)
RecordNothing ==
    /\ pc = "record" /\ caller = "read"
    /\ NoCallback
    /\ UNCHANGED errorVars
    /\ Proceed(AfterRecording, "ok")
    /\ UNCHANGED deviceVars

FenceCreated(r, h) ==
    /\ Usable(r, h)
    /\ fence' = h /\ live' = live \cup {h}
    /\ signal' = [signal EXCEPT ![h] = 0]
    /\ UNCHANGED <<ops, list, presents, value, drop, pc, queue>>

(* ensure_finish_fence                                                      *)
CreateFence(r, h) ==
    /\ pc = "fence" /\ fence = 0
    /\ SyncCall("create", r)
    /\ FenceCreated(r, h) \/ (CreateFails(r, h) /\ UNCHANGED deviceVars)
    /\ UNCHANGED <<generation, caller, historyVars>>

(* What a failed creation returned is destroyed.                            *)
DropHandle(r) ==
    /\ pc = "drop"
    /\ BackendCall("destroy", r)
    /\ live' = live \ {drop} /\ drop' = 0 /\ pc' = "fail"
    /\ UNCHANGED <<generation, ops, list, presents, fence, value, caller, deviceVars,
                   historyVars>>

(* A value is used up even if nothing is submitted with it.                 *)
TakeValue ==
    /\ pc = "fence" /\ fence # 0
    /\ IF value = LastValue THEN pc' = "fail" /\ UNCHANGED value
                            ELSE pc' = "close" /\ value' = value + 1
    /\ NoCallback
    /\ UNCHANGED <<errorVars, generation, ops, list, presents, fence, drop, live, caller,
                   deviceVars, historyVars>>

CloseList(r) ==
    /\ pc = "close"
    /\ BackendCall("close", r)
    /\ Proceed("submit", r)
    /\ UNCHANGED deviceVars

-----------------------------------------------------------------------------
(***************************************************************************)
(* Submission, the wait, and the end of the call.                          *)
(***************************************************************************)
Queued(entry, r) ==
    /\ queue' = IF r = "ok" THEN Append(queue, entry) ELSE queue
    /\ UNCHANGED signal

(* submit_commands in draw.c                                                *)
Submit(r) ==
    /\ pc = "submit" /\ caller \notin Fenced
    /\ BackendCall("submit", r)
    /\ Queued([fence |-> 0, value |-> 0], r)
    /\ Proceed("idle", r)

\* Fault: the wait begins whether or not the list was submitted.
SubmitFencedUnchecked(r) ==
    /\ pc = "submit" /\ caller \in Fenced
    /\ SyncCall("submit", r)
    /\ Queued([fence |-> fence, value |-> value], r)
    /\ Proceed("wait", "ok")

(* submit_and_wait                                                          *)
SubmitFenced(r) ==
    /\ pc = "submit" /\ caller \in Fenced
    /\ SyncCall("submit", r)
    /\ Queued([fence |-> fence, value |-> value], r)
    /\ Proceed("wait", r)

WaitEnds ==
    /\ pc = "wait" /\ signal[fence] >= value
    /\ SyncCall("wait", "ok")
    /\ Proceed(IF caller = "read" THEN "read" ELSE "idle", "ok")
    /\ UNCHANGED deviceVars

WaitFails(r) ==
    /\ pc = "wait" /\ r # "ok"
    /\ SyncCall("wait", r)
    /\ Proceed("idle", r)
    /\ UNCHANGED deviceVars

(* The pixels are read, and may turn out not to be representable.           *)
ReadBack(r, next) ==
    /\ pc = "read" /\ next \in {"idle", "fail"}
    /\ SyncCall("read", r)
    /\ Proceed(next, r)
    /\ UNCHANGED deviceVars

Fail(error) ==
    /\ pc = "fail"
    /\ caller \in {"finish", "present"} => error = "INVALID_OPERATION"
    /\ RecordError(error)
    /\ pc' = "idle"
    /\ NoCallback
    /\ UNCHANGED <<generation, objectVars, caller, deviceVars>>

-----------------------------------------------------------------------------
(***************************************************************************)
(* The embedding, and what destroys objects.                               *)
(***************************************************************************)

(* RinGPU does not signal a fence that was destroyed.                       *)
Unsignalled(q) ==
    [i \in DOMAIN q |-> IF q[i].fence = fence THEN [fence |-> 0, value |-> 0] ELSE q[i]]

FenceDestroyed == live' = live \ {fence} /\ queue' = Unsignalled(queue) /\ UNCHANGED signal

\* Fault: the values start again while the fence stays.
SetSyncOpsRewinding(r, on) ==
    /\ Idle /\ ops' = on /\ value' = 0 /\ r = "ok"
    /\ NoCallback
    /\ UNCHANGED <<errorVars, fence, live, generation, list, presents, drop, pc, caller,
                   deviceVars, historyVars>>

(* ringl_context_set_sync_ops                                               *)
SetSyncOps(r, on) ==
    /\ Idle /\ ops' = on
    /\ IF fence = 0 THEN /\ r = "ok" /\ NoCallback
                         /\ UNCHANGED <<errorVars, fence, value, live, deviceVars>>
                    ELSE /\ BackendCall("destroy", r)
                         /\ FenceDestroyed /\ fence' = 0 /\ value' = 0
    /\ UNCHANGED <<generation, list, presents, drop, pc, caller, historyVars>>

(* ringl_invalidate_graphics_artifacts: calls on programs drop the list.    *)
Invalidate(r) ==
    /\ Idle /\ list # 0
    /\ BackendCall("destroy", r)
    /\ live' = live \ {list} /\ list' = 0 /\ presents' = FALSE
    /\ UNCHANGED <<generation, ops, fence, value, drop, pc, caller, deviceVars, historyVars>>

(* ringl_context_destroy gives up the list, then the fence and the context. *)
DestroyList(r) ==
    /\ pc = "idle" /\ list # 0
    /\ BackendCall("destroy", r)
    /\ live' = live \ {list} /\ list' = 0 /\ presents' = FALSE
    /\ pc' = "end"
    /\ UNCHANGED <<generation, ops, fence, value, drop, caller, deviceVars, historyVars>>

(* The next context starts from nothing.                                    *)
DestroyContext(r) ==
    /\ pc = "end" \/ (pc = "idle" /\ list = 0)
    /\ IF fence = 0 THEN r = "ok" /\ call' = NoCall /\ UNCHANGED <<live, deviceVars>>
                    ELSE /\ call' = [op |-> "destroy", result |-> r,
                                     records |-> {"CALL_SUMMARY"} \cup LossRecord(r)]
                         /\ FenceDestroyed
    /\ lost' = FALSE /\ reported' = FALSE /\ pending' = "none"
    /\ generation' \in Generations \cup {0}
    /\ ops' = FALSE /\ fence' = 0 /\ value' = 0
    /\ pc' = "idle" /\ caller' = "draw"
    /\ losses' = 0 /\ told' = 0 /\ failed' = FALSE
    /\ UNCHANGED <<list, presents, drop>>

(* The device finishes the oldest list and signals its fence.               *)
Execute ==
    /\ queue # <<>>
    /\ queue' = Tail(queue)
    /\ signal' = IF Head(queue).fence = 0 THEN signal
                 ELSE [signal EXCEPT ![Head(queue).fence] = Head(queue).value]
    /\ NoCallback
    /\ UNCHANGED <<errorVars, generation, objectVars, pc, caller, historyVars>>

-----------------------------------------------------------------------------
(* What a call does once it has started, but for a wait that fails.         *)
Advance ==
    \/ FindLost \/ RecordNothing \/ TakeValue \/ WaitEnds
    \/ \E error \in Errors : Fail(error)
    \/ \E r \in Results :
         \/ \E h \in (Handles \ live) \cup {0} : CreateList(r, h) \/ CreateFence(r, h)
         \/ ResetList(r) \/ RecordCommands(r) \/ DropHandle(r) \/ CloseList(r)
         \/ Submit(r) \/ SubmitFenced(r) \/ (pc = "end" /\ DestroyContext(r))
         \/ \E next \in {"idle", "fail"} : ReadBack(r, next)

Next ==
    \/ GetError \/ Execute \/ Advance
    \/ \E c \in Callers : Enter(c)
    \/ \E error \in Errors : Reject(error)
    \/ \E g \in Generations : ObserveDeviceGeneration(g)
    \/ \E r \in Results :
         \/ Replace(r) \/ WaitFails(r) \/ Invalidate(r) \/ DestroyList(r) \/ DestroyContext(r)
         \/ \E on \in BOOLEAN : SetSyncOps(r, on)

Spec == Init /\ [][Next]_vars

(* Nothing inside a call waits but for the fence, and the device works off  *)
(* its queue.                                                               *)
FairSpec == Spec /\ WF_vars(Advance) /\ WF_vars(Execute)

-----------------------------------------------------------------------------
(* Every handle the device gave out, with an error or without, is in one    *)
(* place of the context or has been destroyed.                              *)
HandlesOwned ==
    /\ live = {list, fence, drop} \ {0}
    /\ \A h \in Handles : h = list => h # fence
    /\ drop \notin {list, fence} \ {0}

(* "signal_value > backend->last_signal_value" (tests/sync_test.c): what a  *)
(* fence is to signal only grows, from what it signals on.                  *)
SignalsGrow ==
    \A i \in DOMAIN queue : queue[i].fence # 0 =>
        /\ queue[i].fence = fence
        /\ signal[fence] < queue[i].value /\ queue[i].value <= value
        /\ \A j \in 1 .. i - 1 : queue[j].fence # 0 => queue[j].value < queue[i].value

(* A wait without limit waits for a value that is on its way or signalled.  *)
WaitAnswerable ==
    pc = "wait" => signal[fence] >= value
                   \/ \E i \in DOMAIN queue : queue[i] = [fence |-> fence, value |-> value]

(* When the wait of glFinish or glReadPixels ends well, the device has done *)
(* all that was submitted before, also after waits that failed, values that *)
(* were used up and fences that were replaced.                              *)
WaitCovers ==
    [][pc = "wait" /\ pc' \in {"idle", "read"} => queue = <<>>]_vars

(* A call that failed leaves something to be read with glGetError: an error *)
(* or the loss, which then takes the place of the error.                    *)
FailuresVisible == failed => pending # "none" \/ (lost /\ ~reported)

(* Where a call makes no callback any more but to destroy.                  *)
Over == {"idle", "drop", "fail", "end"}

(* A call that a callback tells of the loss makes no callback after it but  *)
(* to destroy, and no call on the lost context reaches the device.  Only a  *)
(* draw, a clear or a read that loses the device by destroying something    *)
(* goes on: the read until it asks for its list, the draw to its end or to  *)
(* the next callback that tells it.                                         *)
LossFinal ==
    [][/\ call'.result = "lost" /\ call'.op # "destroy" => pc' \in Over
       /\ lost => /\ lost' \/ (pc \in {"idle", "end"} /\ list = 0)
                  /\ pc \in Over => call'.op \in {"none", "destroy"} /\ pc' \in Over
                  /\ caller \in Fenced => call'.op \in {"none", "destroy"}]_vars

(* A loss is traced once and told once, however many callbacks report it.   *)
LossOnce ==
    /\ losses = IF lost THEN 1 ELSE 0
    /\ told = IF lost /\ reported THEN 1 ELSE 0

(* Every call returns, if the device works on and its answers arrive.       *)
CallsReturn == pc # "idle" ~> pc = "idle"

=============================================================================
