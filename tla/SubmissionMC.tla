---------------------------- MODULE SubmissionMC ----------------------------
(* For TLC: calls on the device, and the ring their callbacks are traced in, *)
(* which shares no state with them.  A behaviour is of one of the two parts. *)
EXTENDS Submission, TraceRing

VARIABLE part

MCInit ==
    /\ Init /\ TraceInit
    /\ part \in {"calls", "trace"} /\ (part = "trace" => generation = 0)
MCNext ==
    /\ \/ part = "calls" /\ Next /\ UNCHANGED traceVars
       \/ part = "trace" /\ TraceNext /\ UNCHANGED vars
    /\ UNCHANGED part
MCSpec ==
    /\ MCInit /\ [][MCNext]_<<vars, traceVars, part>>
    /\ WF_vars(part = "calls" /\ Advance) /\ WF_vars(part = "calls" /\ Execute)
=============================================================================
