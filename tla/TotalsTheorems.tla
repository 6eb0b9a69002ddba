--------------------------- MODULE TotalsTheorems ---------------------------
(***************************************************************************)
(* Facts about Total.  They are proved by induction, which takes the form  *)
(* of MinElement: the set of counterexamples would have a least element.   *)
(***************************************************************************)
EXTENDS Totals, TLAPS, WellFoundedInduction

(* A non-empty set of natural numbers has a least element.                 *)
LEMMA MinElement ==
  ASSUME NEW T, T \subseteq Nat, T # {}
  PROVE \E m \in T : \A k \in T : m <= k
<1> DEFINE R == OpToRel(<, Nat)
<1>1. IsWellFoundedOn(R, Nat) BY NatLessThanWellFounded
<1>2. \A x, y \in Nat : x < y => <<x, y>> \in R
  BY DEF OpToRel
<1> HIDE DEF R
<1>3. PICK m \in T : \A y \in T : ~ (<<y, m>> \in R)
  BY <1>1, WFMin
<1> DEFINE Less(x, y) == <<x, y>> \in R
<1>4. (\A x, y \in Nat : x < y => Less(x, y)) /\ (\A y \in T : ~ Less(y, m))
  BY <1>2, <1>3
<1> HIDE DEF Less
<1>5. \A k \in T : m <= k
  BY <1>4
<1> QED BY <1>5

(* Induction up to n: a set of indices that holds 0, and each one whose    *)
(* predecessor it holds, holds them all.                                   *)
LEMMA UpTo ==
  ASSUME NEW n \in Nat, NEW T, 0 \in T, \A k \in 1 .. n : k - 1 \in T => k \in T
  PROVE  \A k \in 0 .. n : k \in T
<1> DEFINE Bad == {k \in 0 .. n : k \notin T}
<1>1. SUFFICES ASSUME Bad # {} PROVE FALSE OBVIOUS
<1>2. Bad \subseteq Nat OBVIOUS
<1> HIDE DEF Bad
<1>3. PICK m \in Bad : \A k \in Bad : m <= k BY <1>1, <1>2, MinElement
<1>4. m \in 0 .. n /\ m \notin T BY <1>3 DEF Bad
<1>5. m \in 1 .. n /\ m - 1 \in 0 .. n /\ ~ (m <= m - 1) BY <1>4
<1>6. m - 1 \notin Bad BY <1>3, <1>5
<1>7. m - 1 \in T BY <1>5, <1>6 DEF Bad
<1> QED BY <1>4, <1>5, <1>7

(* s lists the states from a on when step[1], ..., step[n] are taken.      *)
StepsOf(step, n, S) == step \in [1 .. n -> [S -> S]]
Iterated(s, n, S, a, step) ==
  /\ s \in [0 .. n -> S] /\ s[0] = a
  /\ \A k \in 1 .. n : s[k] = step[k][s[k - 1]]

(* n steps can be taken from every state, one after the other.             *)
LEMMA IterationExists ==
  ASSUME NEW n \in Nat, NEW S, NEW a \in S, NEW step, StepsOf(step, n, S)
  PROVE  \E s : Iterated(s, n, S, a, step)
<1>0. step \in [1 .. n -> [S -> S]] BY DEF StepsOf
<1> DEFINE Taken(m, s) == s[0] = a /\ \A k \in 1 .. m : s[k] = step[k][s[k - 1]]
<1> DEFINE T == {m \in 0 .. n : \E s \in [0 .. m -> S] : Taken(m, s)}
<1>1. 0 \in T
  <2>1. [k \in 0 .. 0 |-> a] \in [0 .. 0 -> S] /\ Taken(0, [k \in 0 .. 0 |-> a]) OBVIOUS
  <2>2. \E s \in [0 .. 0 -> S] : Taken(0, s) BY <2>1
  <2> QED BY <2>2
<1>2. ASSUME NEW m \in 1 .. n, m - 1 \in T PROVE m \in T
  <2>1. PICK s \in [0 .. m - 1 -> S] : Taken(m - 1, s) BY <1>2
  <2> DEFINE t == [k \in 0 .. m |-> IF k = m THEN step[m][s[m - 1]] ELSE s[k]]
  <2>2. s[m - 1] \in S /\ step[m] \in [S -> S] BY <1>0
  <2>3. step[m][s[m - 1]] \in S BY <2>2
  <2>4. t \in [0 .. m -> S] BY <2>3
  <2>5. t[0] = a BY <2>1
  <2>6. ASSUME NEW k \in 1 .. m PROVE t[k] = step[k][t[k - 1]]
    <3>1. t[k - 1] = s[k - 1] OBVIOUS
    <3>2. CASE k = m BY <3>1, <3>2
    <3>3. CASE k # m
      <4>1. k \in 1 .. m - 1 BY <3>3
      <4>2. t[k] = s[k] BY <3>3
      <4>3. s[k] = step[k][s[k - 1]] BY <2>1, <4>1
      <4> HIDE DEF t
      <4> QED BY <3>1, <4>2, <4>3
    <3> QED BY <3>2, <3>3
  <2>7. Taken(m, t) BY <2>5, <2>6
  <2> HIDE DEF t, Taken
  <2>8. \E u \in [0 .. m -> S] : Taken(m, u) BY <2>4, <2>7
  <2> QED BY <2>8
<1> HIDE DEF T
<1>3. \A m \in 0 .. n : m \in T BY <1>1, <1>2, UpTo
<1>4. n \in T BY <1>3
<1>5. PICK s \in [0 .. n -> S] : Taken(n, s) BY <1>4 DEF T
<1> QED BY <1>5 DEF Iterated

(* What agrees at first, and after each step if it did before, agrees.     *)
Following(s, t, n) ==
  s[0] = t[0] /\ \A k \in 1 .. n : s[k - 1] = t[k - 1] => s[k] = t[k]

LEMMA IterationUnique ==
  ASSUME NEW n \in Nat, NEW s, NEW t, Following(s, t, n)
  PROVE  \A k \in 0 .. n : s[k] = t[k]
<1>0. s[0] = t[0] /\ \A k \in 1 .. n : s[k - 1] = t[k - 1] => s[k] = t[k] BY DEF Following
<1> DEFINE T == {k \in 0 .. n : s[k] = t[k]}
<1>1. 0 \in T BY <1>0
<1>2. \A k \in 1 .. n : k - 1 \in T => k \in T BY <1>0
<1> HIDE DEF T
<1>3. \A k \in 0 .. n : k \in T BY <1>1, <1>2, UpTo
<1> QED BY <1>3 DEF T

(* s[i] is the sum of the first i values of f.                             *)
PrefixOf(s, f, n) ==
  /\ s \in [0 .. n -> Int]
  /\ s[0] = 0
  /\ \A i \in 1 .. n : s[i] = s[i - 1] + f[i]

(* Every function has its prefix sums.                                     *)
LEMMA PrefixExists ==
  ASSUME NEW n \in Nat, NEW f \in [1 .. n -> Int]
  PROVE  \E s : PrefixOf(s, f, n)
<1> DEFINE Bad == {k \in 0 .. n : ~ \E s : PrefixOf(s, f, k)}
<1>1. SUFFICES ASSUME Bad # {} PROVE FALSE
  <2>1. n \in 0 .. n OBVIOUS
  <2>2. CASE n \in Bad BY <1>1, <2>2
  <2>3. CASE n \notin Bad BY <2>1, <2>3
  <2> QED BY <2>2, <2>3
<1> Bad \subseteq Nat
  OBVIOUS
<1> HIDE DEF Bad
<1>2. PICK m \in Bad : \A k \in Bad : m <= k
  BY <1>1, MinElement
<1> USE DEF Bad
<1>3. CASE m = 0
  <2>1. PrefixOf([i \in 0 .. 0 |-> 0], f, 0) BY DEF PrefixOf
  <2> QED BY <1>3, <2>1
<1>4. CASE m # 0
  <2>1. m - 1 \in 0 .. n /\ m - 1 \notin Bad BY <1>2, <1>4
  <2>2. PICK s : PrefixOf(s, f, m - 1) BY <2>1
  <2> DEFINE t == [i \in 0 .. m |-> IF i = m THEN s[m - 1] + f[m] ELSE s[i]]
  <2>3. m \in 1 .. n BY <1>4
  <2>4. s \in [0 .. m - 1 -> Int] /\ s[0] = 0
        /\ \A i \in 1 .. m - 1 : s[i] = s[i - 1] + f[i]
    BY <2>2 DEF PrefixOf
  <2>5. t \in [0 .. m -> Int] BY <2>3, <2>4
  <2>6. \A i \in 1 .. m : t[i] = t[i - 1] + f[i]
    <3> TAKE i \in 1 .. m
    <3>1. CASE i = m BY <3>1, <2>3, <2>4
    <3>2. CASE i # m BY <3>2, <2>3, <2>4
    <3> QED BY <3>1, <3>2
  <2>7. t[0] = 0 BY <2>3, <2>4
  <2>8. PrefixOf(t, f, m) BY <2>5, <2>6, <2>7 DEF PrefixOf
  <2> QED BY <2>8
<1> QED BY <1>3, <1>4

(* The prefix sums are determined.                                         *)
LEMMA PrefixUnique ==
  ASSUME NEW n \in Nat, NEW f \in [1 .. n -> Int], NEW s, NEW t,
         PrefixOf(s, f, n), PrefixOf(t, f, n)
  PROVE  s = t
<1> DEFINE Bad == {k \in 0 .. n : s[k] # t[k]}
<1>1. SUFFICES ASSUME Bad # {} PROVE FALSE
  <2>1. CASE Bad = {}
    <3>1. \A k \in 0 .. n : s[k] = t[k] BY <2>1
    <3> QED BY <3>1 DEF PrefixOf
  <2> QED BY <2>1, <1>1
<1> Bad \subseteq Nat
  OBVIOUS
<1> HIDE DEF Bad
<1>2. PICK m \in Bad : \A k \in Bad : m <= k
  BY <1>1, MinElement
<1> USE DEF Bad
<1>3. m # 0 BY <1>2 DEF PrefixOf
<1>4. m - 1 \notin Bad /\ m - 1 \in 0 .. n BY <1>2, <1>3
<1> QED BY <1>2, <1>3, <1>4 DEF PrefixOf

(* The last prefix sum is the total.                                       *)
LEMMA TotalPrefix ==
  ASSUME NEW n \in Nat, NEW f \in [1 .. n -> Int], NEW s, PrefixOf(s, f, n)
  PROVE  Total(f, n) = s[n]
<1> DEFINE Eq(u) == u = [i \in 0 .. n |-> IF i = 0 THEN 0 ELSE u[i - 1] + f[i]]
<1> DEFINE g == CHOOSE u : Eq(u)
<1>1. Eq(s) BY DEF PrefixOf
<1>2. Eq(g) BY <1>1
<1>4. \A u : Eq(u) => u = s
  <2> TAKE u
  <2> HAVE Eq(u)
  <2> DEFINE Bad == {k \in 0 .. n : u[k] # s[k]}
  <2>1. SUFFICES ASSUME Bad # {} PROVE FALSE
    <3>1. CASE Bad = {}
      <4>1. \A k \in 0 .. n : u[k] = s[k] BY <3>1
      <4> QED BY <4>1 DEF PrefixOf
    <3> QED BY <3>1, <2>1
  <2> Bad \subseteq Nat
    OBVIOUS
  <2> HIDE DEF Bad
  <2>2. PICK m \in Bad : \A k \in Bad : m <= k
    BY <2>1, MinElement
  <2> USE DEF Bad
  <2>3. m # 0 BY <2>2 DEF PrefixOf
  <2>4. m - 1 \notin Bad /\ m - 1 \in 0 .. n BY <2>2, <2>3
  <2> QED BY <2>2, <2>3, <2>4 DEF PrefixOf
<1>5. Total(f, n) = g[n] BY DEF Total
<1> QED BY <1>2, <1>4, <1>5
(* Replacing one value changes the total by the difference.                *)
LEMMA TotalUpdate ==
  ASSUME NEW n \in Nat, NEW f \in [1 .. n -> Int], NEW j \in 1 .. n, NEW v \in Int
  PROVE  /\ Total(f, n) \in Int
         /\ Total([f EXCEPT ![j] = v], n) = Total(f, n) - f[j] + v
<1> DEFINE g == [f EXCEPT ![j] = v]
<1>1. PICK s : PrefixOf(s, f, n) BY PrefixExists
<1> DEFINE t == [i \in 0 .. n |-> IF i < j THEN s[i] ELSE s[i] - f[j] + v]
<1>2. s \in [0 .. n -> Int] /\ s[0] = 0
      /\ \A i \in 1 .. n : s[i] = s[i - 1] + f[i]
  BY <1>1 DEF PrefixOf
<1>3. t \in [0 .. n -> Int] /\ t[0] = 0
  <2>1. f[j] \in Int /\ 0 \in 0 .. n /\ 0 < j OBVIOUS
  <2>2. \A i \in 0 .. n : (IF i < j THEN s[i] ELSE s[i] - f[j] + v) \in Int BY <1>2, <2>1
  <2>3. t[0] = s[0] BY <2>1
  <2> QED BY <1>2, <2>2, <2>3
<1>4. \A i \in 1 .. n : t[i] = t[i - 1] + g[i]
  <2> TAKE i \in 1 .. n
  <2>1. CASE i = j BY <2>1, <1>2
  <2>2. CASE i < j BY <2>2, <1>2
  <2>3. CASE i > j
    <3>1. ~ (i < j) /\ ~ (i - 1 < j) /\ i - 1 \in 0 .. n /\ i \in 0 .. n BY <2>3
    <3>2. g[i] = f[i] BY <2>3
    <3>3. t[i] = s[i] - f[j] + v /\ t[i - 1] = s[i - 1] - f[j] + v BY <3>1
    <3>4. s[i] \in Int /\ s[i - 1] \in Int /\ f[i] \in Int /\ f[j] \in Int BY <3>1, <1>2
    <3>5. s[i] = s[i - 1] + f[i] BY <1>2
    <3> HIDE DEF t, g
    <3> QED BY <3>2, <3>3, <3>4, <3>5
  <2> QED BY <2>1, <2>2, <2>3
<1>5. PrefixOf(t, g, n) BY <1>3, <1>4 DEF PrefixOf
<1>6. g \in [1 .. n -> Int] OBVIOUS
<1>7. Total(f, n) = s[n] BY <1>1, TotalPrefix
<1> HIDE DEF g, t
<1>8. Total(g, n) = t[n] BY <1>5, <1>6, TotalPrefix
<1>9. t[n] = s[n] - f[j] + v BY <1>2 DEF t
<1> QED BY <1>2, <1>7, <1>8, <1>9 DEF g

(* No value of a natural-valued function exceeds the total.                *)
LEMMA TotalBound ==
  ASSUME NEW n \in Nat, NEW f \in [1 .. n -> Nat], NEW j \in 1 .. n
  PROVE  f[j] <= Total(f, n)
<1>1. f \in [1 .. n -> Int] OBVIOUS
<1>2. PICK s : PrefixOf(s, f, n) BY <1>1, PrefixExists
<1>3. s \in [0 .. n -> Int] /\ s[0] = 0
      /\ \A i \in 1 .. n : s[i] = s[i - 1] + f[i]
  BY <1>2 DEF PrefixOf
<1> DEFINE Good(k) == s[k] >= 0 /\ (j <= k => f[j] <= s[k])
<1> DEFINE Bad == {k \in 0 .. n : ~ Good(k)}
<1>4. SUFFICES ASSUME Bad # {} PROVE FALSE
  <2>1. CASE Bad = {}
    <3>1. Good(n) BY <2>1
    <3> QED BY <3>1, <1>1, <1>2, TotalPrefix
  <2> QED BY <2>1, <1>4
<1> Bad \subseteq Nat
  OBVIOUS
<1> HIDE DEF Bad
<1>5. PICK m \in Bad : \A k \in Bad : m <= k
  BY <1>4, MinElement
<1> USE DEF Bad
<1>6. m \in 1 .. n BY <1>3
<1>7. Good(m - 1) BY <1>5, <1>6
<1>8. s[m] = s[m - 1] + f[m] /\ f[m] \in Nat /\ s[m - 1] \in Int BY <1>3, <1>6
<1>9. Good(m)
  <2>0. s[m - 1] >= 0 BY <1>7
  <2>1. s[m] >= 0 BY <2>0, <1>8
  <2>2. ASSUME j <= m PROVE f[j] <= s[m]
    <3>1. CASE j = m BY <1>7, <1>8, <3>1
    <3>2. CASE j # m
      <4>1. j <= m - 1 BY <2>2, <1>6, <3>2
      <4>2. f[j] <= s[m - 1] /\ f[j] \in Nat BY <1>7, <4>1
      <4> QED BY <1>8, <4>2
    <3> QED BY <3>1, <3>2
  <2> QED BY <2>1, <2>2
<1> QED BY <1>9

(* The totals of non-negative functions are non-negative.                  *)
LEMMA TotalNat ==
  ASSUME NEW n \in Nat, NEW f \in [1 .. n -> Nat]
  PROVE  Total(f, n) \in Nat
<1>0. f \in [1 .. n -> Int] OBVIOUS
<1>1. PICK s : PrefixOf(s, f, n) BY <1>0, PrefixExists
<1>2. Total(f, n) = s[n] BY <1>0, <1>1, TotalPrefix
<1>3. s \in [0 .. n -> Int] /\ s[0] = 0
      /\ \A i \in 1 .. n : s[i] = s[i - 1] + f[i]
  BY <1>1 DEF PrefixOf
<1> DEFINE Bad == {k \in 0 .. n : s[k] < 0}
<1>4. CASE Bad = {}
  <2>1. n \in 0 .. n /\ n \notin Bad BY <1>4
  <2>2. s[n] \in Int /\ ~ (s[n] < 0) BY <1>3, <2>1
  <2> QED BY <1>2, <2>2
<1>5. CASE Bad # {}
  <2> Bad \subseteq Nat
    OBVIOUS
  <2> HIDE DEF Bad
  <2>1. PICK m \in Bad : \A k \in Bad : m <= k
    BY <1>5, MinElement
  <2> USE DEF Bad
  <2>2. m \in 1 .. n BY <1>3
  <2>3. m - 1 \notin Bad /\ m - 1 \in 0 .. n BY <2>1, <2>2
  <2>4. s[m] = s[m - 1] + f[m] /\ f[m] >= 0 /\ s[m - 1] \in Int BY <1>3, <2>2
  <2> QED BY <2>3, <2>4
<1> QED BY <1>4, <1>5

(* The total of a sum of two functions is the sum of their totals.         *)
LEMMA TotalSum ==
  ASSUME NEW n \in Nat, NEW f \in [1 .. n -> Int], NEW g \in [1 .. n -> Int]
  PROVE  Total([i \in 1 .. n |-> f[i] + g[i]], n) = Total(f, n) + Total(g, n)
<1> DEFINE h == [i \in 1 .. n |-> f[i] + g[i]]
<1>1. PICK s : PrefixOf(s, f, n) BY PrefixExists
<1>2. PICK t : PrefixOf(t, g, n) BY PrefixExists
<1> DEFINE u == [i \in 0 .. n |-> s[i] + t[i]]
<1>3. s \in [0 .. n -> Int] /\ s[0] = 0
      /\ \A i \in 1 .. n : s[i] = s[i - 1] + f[i]
  BY <1>1 DEF PrefixOf
<1>4. t \in [0 .. n -> Int] /\ t[0] = 0
      /\ \A i \in 1 .. n : t[i] = t[i - 1] + g[i]
  BY <1>2 DEF PrefixOf
<1>5. h \in [1 .. n -> Int] OBVIOUS
<1>6. u \in [0 .. n -> Int] /\ u[0] = 0 BY <1>3, <1>4
<1>7. \A i \in 1 .. n : u[i] = u[i - 1] + h[i]
  <2> TAKE i \in 1 .. n
  <2>1. i \in 0 .. n /\ i - 1 \in 0 .. n OBVIOUS
  <2>2. u[i] = s[i] + t[i] /\ u[i - 1] = s[i - 1] + t[i - 1] BY <2>1
  <2>3. h[i] = f[i] + g[i] OBVIOUS
  <2>4. {f[i], g[i], s[i], t[i], s[i - 1], t[i - 1]} \subseteq Int
    BY <2>1, <1>3, <1>4
  <2>5. s[i] = s[i - 1] + f[i] /\ t[i] = t[i - 1] + g[i] BY <1>3, <1>4
  <2> HIDE DEF h, u
  <2> QED BY <2>2, <2>3, <2>4, <2>5
<1>8. PrefixOf(u, h, n) BY <1>6, <1>7 DEF PrefixOf
<1>9. Total(f, n) = s[n] /\ Total(g, n) = t[n] BY <1>1, <1>2, TotalPrefix
<1>10. u[n] = s[n] + t[n] OBVIOUS
<1> HIDE DEF h, u
<1>11. Total(h, n) = u[n] BY <1>5, <1>8, TotalPrefix
<1> QED BY <1>9, <1>10, <1>11 DEF h

(* A function that is nowhere larger has no larger total.                  *)
LEMMA TotalMonotone ==
  ASSUME NEW n \in Nat, NEW f \in [1 .. n -> Int], NEW g \in [1 .. n -> Int],
         \A i \in 1 .. n : f[i] <= g[i]
  PROVE  Total(f, n) <= Total(g, n)
<1> DEFINE h == [i \in 1 .. n |-> g[i] - f[i]]
<1>1. h \in [1 .. n -> Nat] /\ h \in [1 .. n -> Int] OBVIOUS
<1>2. g = [i \in 1 .. n |-> f[i] + h[i]] OBVIOUS
<1> HIDE DEF h
<1>3. Total(g, n) = Total(f, n) + Total(h, n) BY <1>1, <1>2, TotalSum
<1>4. Total(h, n) \in Nat BY <1>1, TotalNat
<1>5. PICK s : PrefixOf(s, f, n) BY PrefixExists
<1>6. Total(f, n) \in Int
  <2>1. Total(f, n) = s[n] BY <1>5, TotalPrefix
  <2> QED BY <1>5, <2>1 DEF PrefixOf
<1> QED BY <1>3, <1>4, <1>6

(* The total of nothing but zeros.                                         *)
LEMMA TotalZero ==
  ASSUME NEW n \in Nat
  PROVE  Total([i \in 1 .. n |-> 0], n) = 0
<1> DEFINE f == [i \in 1 .. n |-> 0]
<1> DEFINE s == [i \in 0 .. n |-> 0]
<1>1. PrefixOf(s, f, n) BY DEF PrefixOf
<1>2. f \in [1 .. n -> Int] /\ s[n] = 0 OBVIOUS
<1> HIDE DEF f, s
<1> QED BY <1>1, <1>2, TotalPrefix DEF f
=============================================================================
