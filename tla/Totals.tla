------------------------------- MODULE Totals -------------------------------
(***************************************************************************)
(* Sums of finite integer-valued functions whose domain is 1 .. n.  The    *)
(* sum is the last entry of a recursively defined function, not the value  *)
(* of a RECURSIVE operator, so that theorems can be proved about it.       *)
(***************************************************************************)
EXTENDS Integers

(***************************************************************************)
(* f[1] + ... + f[n].                                                      *)
(***************************************************************************)
Total(f, n) ==
    LET s[i \in 0 .. n] == IF i = 0 THEN 0 ELSE s[i - 1] + f[i] IN s[n]

(***************************************************************************)
(* The smaller of two integers: how the accounting clamps a release.       *)
(***************************************************************************)
Lesser(a, b) == IF a <= b THEN a ELSE b
=============================================================================
