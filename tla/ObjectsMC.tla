------------------------------ MODULE ObjectsMC ------------------------------
(* Objects for TLC: states that differ in the last error are the same.      *)
EXTENDS Objects

(* What a call does never depends on the error the one before recorded.    *)
ViewNotRaised == <<objects, bufferVars, arrayBuffer, arrayVars, updateVars>>
=============================================================================
