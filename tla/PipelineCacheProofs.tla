------------------------- MODULE PipelineCacheProofs -------------------------
(***************************************************************************)
(* The pipeline cache is a bounded FIFO for every capacity and every set   *)
(* of keys and handles.  What it is asked for comes from Drawing, which is *)
(* the second half of this module: for any state the calls can set, draws  *)
(* and clears are what the state says they are.                            *)
(***************************************************************************)
EXTENDS PipelineCache, Drawing, SequenceTheorems, WellFoundedInduction, TLAPS

(***************************************************************************)
(* Arithmetic of the ring: its indexes never go round more than once.      *)
(***************************************************************************)

(* An index within the ring is where it says.                               *)
LEMMA IndexWithin ==
    ASSUME NEW c \in Nat \ {0}, NEW a \in Nat, a < c
    PROVE  a % c = a
  OBVIOUS

(* An index past the end is at the start again.                             *)
LEMMA IndexWraps ==
    ASSUME NEW c \in Nat \ {0}, NEW a \in Nat, a >= c, a < c + c
    PROVE  a % c = a - c
  OBVIOUS

(* The index one further on.                                                *)
Turn(c, a) == IF a < c THEN a ELSE a - c

(* An index at most one round away, as a choice between the two.            *)
LEMMA IndexTurns ==
    ASSUME NEW c \in Nat \ {0}, NEW a \in Nat, a < c + c
    PROVE  a % c = Turn(c, a)
<1>1. a < c => a % c = a
  BY IndexWithin
<1>2. a >= c => a % c = a - c
  BY IndexWraps
<1> DEFINE r == a % c
<1>3. /\ a < c => r = a
      /\ a >= c => r = a - c
  BY <1>1, <1>2
<1> HIDE DEF r
<1>4. r = Turn(c, a)
  BY <1>3 DEF Turn
<1> QED
  BY <1>4 DEF r

(* Advancing the eviction pointer advances what lies behind it, and what    *)
(* was evicted is the last.                                                 *)
LEMMA IndexAdvances ==
    ASSUME NEW c \in Nat \ {0}, NEW n \in Nat, n < c, NEW i \in Nat, i < c
    PROVE  /\ (n + i) % c \in Nat /\ (n + i) % c < c
           /\ (n + 1) % c \in Nat /\ (n + 1) % c < c
           /\ (((n + 1) % c) + (c - 1)) % c = n
           /\ (n + i) % c = n => i = 0
<1> DEFINE m == Turn(c, n + 1)
<1>1. m \in Nat /\ m < c
  BY DEF Turn
<1>2. (n + i) % c = Turn(c, n + i)
  BY IndexTurns
<1>3. (n + 1) % c = m
  BY IndexTurns
<1> HIDE DEF m
<1>4. (m + (c - 1)) % c = Turn(c, m + (c - 1))
  BY <1>1, IndexTurns
<1>5. (n + i) % c \in Nat /\ (n + i) % c < c /\ ((n + i) % c = n => i = 0)
  BY <1>2 DEF Turn
<1>6. Turn(c, m + (c - 1)) = n
  BY DEF Turn, m
<1> QED
  BY ONLY <1>1, <1>3, <1>4, <1>5, <1>6

LEMMA IndexAdvancesBehind ==
    ASSUME NEW c \in Nat \ {0}, NEW n \in Nat, n < c, NEW i \in Nat, i < c - 1
    PROVE  (((n + 1) % c) + i) % c = (n + (i + 1)) % c
<1> DEFINE m == Turn(c, n + 1)
<1>1. m \in Nat /\ m < c
  BY DEF Turn
<1>2. (n + 1) % c = m
  BY IndexTurns
<1> HIDE DEF m
<1>3. (n + (i + 1)) % c = Turn(c, n + (i + 1))
  <2>1. n + (i + 1) \in Nat /\ n + (i + 1) < c + c
    OBVIOUS
  <2> QED
    BY <2>1, IndexTurns
<1>4. (m + i) % c = Turn(c, m + i)
  <2>1. m + i \in Nat /\ m + i < c + c
    BY <1>1
  <2> QED
    BY <2>1, IndexTurns
<1>5. Turn(c, m + i) = Turn(c, n + (i + 1))
  BY DEF Turn, m
<1> QED
  BY ONLY <1>2, <1>3, <1>4, <1>5

(* Going round the ring from any index visits every index once.             *)
LEMMA RotationVisits ==
    ASSUME NEW c \in Nat \ {0}, NEW n \in Nat, n < c
    PROVE  /\ \A i, j \in Nat : i < c /\ j < c /\ (n + i) % c = (n + j) % c => i = j
           /\ \A j \in Nat : j < c => \E i \in Nat : i < c /\ (n + i) % c = j
<1>1. \A i \in Nat : i < c => (n + i) % c = Turn(c, n + i)
  BY IndexTurns
<1>2. ASSUME NEW i \in Nat, NEW j \in Nat, i < c, j < c, (n + i) % c = (n + j) % c
      PROVE  i = j
  <2>1. Turn(c, n + i) = Turn(c, n + j)
    BY <1>1, <1>2
  <2> QED
    BY ONLY <1>2, <2>1, n \in Nat, n < c, c \in Nat DEF Turn
<1>3. ASSUME NEW j \in Nat, j < c
      PROVE  \E i \in Nat : i < c /\ (n + i) % c = j
  <2> DEFINE i == IF j >= n THEN j - n ELSE (j - n) + c
  <2>1. i \in Nat /\ i < c
    BY <1>3
  <2>2. Turn(c, n + i) = j
    BY <1>3 DEF Turn
  <2> HIDE DEF i
  <2>3. (n + i) % c = j
    BY <1>1, <2>1, <2>2
  <2> QED
    BY <2>1, <2>3
<1> QED
  BY <1>2, <1>3

-----------------------------------------------------------------------------
(***************************************************************************)
(* The ring and the pipelines of the device.                               *)
(***************************************************************************)
Invariant == TypeOK /\ PipelinesOwned

(* The same of any ring of n entries and any pipelines.                     *)
Owned(e, n, l) ==
    /\ \A h \in Handles : l[h] # Null => \E i \in Slots : i < n /\ e[i].pipeline = h
    /\ \A i \in Slots : i < n => l[e[i].pipeline] = e[i].key
    /\ \A i, j \in Slots : i < n /\ j < n /\ e[i].key = e[j].key => i = j

LEMMA OwnedByRing == TypeOK => (PipelinesOwned <=> Owned(entries, count, live))
<1> SUFFICES ASSUME TypeOK
             PROVE  PipelinesOwned <=> Owned(entries, count, live)
  OBVIOUS
<1> USE NullAssumption
<1>1. \A i \in Slots : /\ entries[i] # Empty <=> i < count
                       /\ i < count => i < capacity /\ entries[i] \in Entries
                       /\ i < count => entries[i].pipeline \in Handles /\ entries[i].key \in Keys
                       /\ ~(i < count) => entries[i].pipeline = Null /\ entries[i].key = Null
  BY DEF TypeOK, Slots, Entries, Empty
<1>2. PipelinesOwned => Owned(entries, count, live)
  BY ONLY <1>1, NullAssumption DEF PipelinesOwned, Owned
<1>3. Owned(entries, count, live) => PipelinesOwned
  <2>1. \A i, j \in Slots : entries[i] # Empty /\ entries[i].key = entries[j].key => i < count /\ j < count
    BY ONLY <1>1, NullAssumption
  <2> QED
    BY ONLY <1>1, <2>1, NullAssumption DEF PipelinesOwned, Owned
<1> QED
  BY <1>2, <1>3

(* A key that is not cached and a handle that is not used are in no entry.  *)
LEMMA CreatesFresh ==
    ASSUME Invariant, NEW key \in Keys, NEW handle \in Handles, Creates(key, handle)
    PROVE  \A i \in Slots : i < count => /\ entries[i] \in Entries
                                         /\ entries[i].key # key
                                         /\ entries[i].pipeline # handle
<1> TAKE i \in Slots
<1> HAVE i < count
<1>1. entries[i] \in Entries
  BY DEF Invariant, TypeOK
<1>2. entries[i].key # key
  BY DEF Invariant, TypeOK, Creates, Hit, Slots
<1>3. live[entries[i].pipeline] = entries[i].key /\ entries[i].key \in Keys
  BY <1>1 DEF Invariant, TypeOK, PipelinesOwned, Entries
<1>4. entries[i].pipeline # handle
  BY <1>3, NullAssumption DEF Creates
<1> QED
  BY <1>1, <1>2, <1>4

LEMMA InitInvariant == Init => Invariant
  BY CapacityAssumption, NullAssumption
  DEF Init, Invariant, TypeOK, PipelinesOwned, Slots, Empty

LEMMA CreateFailsInvariant ==
    ASSUME Invariant, NEW key \in Keys, CreateFails(key)
    PROVE  Invariant'
<1>1. TypeOK'
  BY CapacityAssumption DEF CreateFails, Opened, Invariant, TypeOK, Slots
<1>2. PipelinesOwned'
  BY CapacityAssumption DEF CreateFails, Opened, Invariant, TypeOK, PipelinesOwned, Slots
<1> QED
  BY <1>1, <1>2 DEF Invariant

(* A ring stays owned when a new entry is added after the last one.         *)
LEMMA AddedOwned ==
    ASSUME NEW e, NEW n \in Slots, NEW l, NEW f, NEW m,
           NEW key \in Keys, NEW handle \in Handles,
           Owned(e, n, l),
           \A i \in Slots : i < n => /\ e[i] \in Entries
                                    /\ e[i].key # key
                                    /\ e[i].pipeline # handle
                                    /\ f[i] = e[i],
           f[n] = Entry(key, handle),
           \A h \in Handles : m[h] = IF h = handle THEN key ELSE l[h]
    PROVE  Owned(f, n + 1, m)
<1>1. \A i \in Slots : i < n + 1 <=> i < n \/ i = n
  BY DEF Slots
<1>2. f[n].key = key /\ f[n].pipeline = handle
  BY DEF Entry
<1>3. ASSUME NEW h \in Handles, m[h] # Null
      PROVE  \E i \in Slots : i < n + 1 /\ f[i].pipeline = h
  <2>1. CASE h = handle
    BY <1>1, <1>2, <2>1
  <2>2. CASE h # handle
    <3>1. PICK i \in Slots : i < n /\ e[i].pipeline = h
      BY <1>3, <2>2 DEF Owned
    <3> QED
      BY <1>1, <3>1
  <2> QED
    BY <2>1, <2>2
<1>4. ASSUME NEW i \in Slots, i < n + 1
      PROVE  m[f[i].pipeline] = f[i].key
  <2>1. CASE i = n
    BY <1>2, <2>1
  <2>2. CASE i < n
    BY <2>2 DEF Owned, Entries
  <2> QED
    BY <1>1, <1>4, <2>1, <2>2
<1>5. ASSUME NEW i \in Slots, NEW j \in Slots, i < n + 1, j < n + 1, f[i].key = f[j].key
      PROVE  i = j
  BY <1>1, <1>2, <1>5 DEF Owned
<1> QED
  BY ONLY <1>3, <1>4, <1>5 DEF Owned

LEMMA StoreInvariant ==
    ASSUME Invariant, NEW key \in Keys, NEW handle \in Handles, Store(key, handle)
    PROVE  Invariant'
<1>1. Opened \in InitialCapacity .. MaxCapacity /\ count \in Slots /\ capacity' = Opened
      /\ capacity <= Opened
  BY CapacityAssumption DEF Store, Opened, Invariant, TypeOK, Slots
<1>2. Entry(key, handle) \in Entries /\ Entry(key, handle) # Empty
      /\ Entry(key, handle).key = key /\ Entry(key, handle).pipeline = handle
  BY NullAssumption DEF Entry, Entries, Empty
<1>3. \A i \in Slots : entries'[i] = IF i = count THEN Entry(key, handle) ELSE entries[i]
  BY DEF Store, Invariant, TypeOK
<1>4. \A i \in Slots : i < count => /\ entries[i] \in Entries
                                    /\ entries[i].key # key
                                    /\ entries[i].pipeline # handle
  BY CreatesFresh DEF Store
<1>5. /\ capacity' \in {0} \cup InitialCapacity .. MaxCapacity
      /\ count' \in 0 .. capacity' /\ count' = count + 1
      /\ next' \in 0 .. MaxCapacity - 1
      /\ next' < capacity' \/ next' = 0
      /\ count' < capacity' => next' = 0
  BY <1>1, CapacityAssumption DEF Store, Opened, Invariant, TypeOK
<1>6. entries' \in [Slots -> Entries \cup {Empty}]
  BY <1>2 DEF Store, Invariant, TypeOK
<1>7. \A i \in Slots : entries'[i] # Empty <=> i < count'
  <2> TAKE i \in Slots
  <2>1. count' = count + 1 /\ count \in Nat /\ i \in Nat
    BY <1>5 DEF Invariant, TypeOK, Slots
  <2>2. entries[i] # Empty <=> i < count
    BY DEF Invariant, TypeOK
  <2>3. CASE i = count
    BY <1>2, <1>3, <2>1, <2>3
  <2>4. CASE i # count
    BY <1>3, <2>1, <2>2, <2>4
  <2> QED
    BY <2>3, <2>4
<1>8. live' \in [Handles -> Keys \cup {Null}]
      /\ \A h \in Handles : live'[h] = IF h = handle THEN key ELSE live[h]
  BY DEF Store, Made, Invariant, TypeOK
<1>9. TypeOK'
  BY <1>5, <1>6, <1>7, <1>8 DEF TypeOK, Slots
<1>10. Owned(entries, count, live)
  BY OwnedByRing DEF Invariant
<1>11. Owned(entries', count', live')
  <2>1. \A i \in Slots : i < count => entries'[i] = entries[i]
    BY <1>1, <1>3 DEF Slots
  <2>2. count \in Slots /\ entries'[count] = Entry(key, handle) /\ count' = count + 1
    BY <1>1, <1>3, <1>5
  <2>3. \A i \in Slots : i < count => /\ entries[i] \in Entries
                                      /\ entries[i].key # key
                                      /\ entries[i].pipeline # handle
                                      /\ entries'[i] = entries[i]
    BY <1>4, <2>1
  <2>4. Owned(entries', count + 1, live')
    BY ONLY <2>2, <2>3, <1>8, <1>10, AddedOwned, key \in Keys, handle \in Handles
  <2> QED
    BY <2>2, <2>4
<1>12. (TypeOK => (PipelinesOwned <=> Owned(entries, count, live)))'
  BY OwnedByRing, PTL
<1> QED
  BY <1>9, <1>11, <1>12 DEF Invariant

(* Growth moves the entries and keeps what they own.                        *)
LEMMA RotatedOwned ==
    ASSUME Invariant, count = capacity, capacity # 0
    PROVE  /\ Owned(Rotated, count, live)
           /\ Rotated \in [Slots -> Entries \cup {Empty}]
           /\ \A i \in Slots : i < count => \E j \in Slots : j < count /\ Rotated[i] = entries[j]
           /\ \A i \in Slots : ~(i < count) => Rotated[i] = Empty
<1> DEFINE at(i) == (next + i) % capacity
<1>1. /\ capacity \in Nat \ {0} /\ next \in Nat /\ next < capacity
      /\ \A i : i \in Slots /\ i < count <=> i \in Nat /\ i < capacity
  BY CapacityAssumption DEF Invariant, TypeOK, Slots
<1>2. \A i \in Slots : Rotated[i] = IF i < count THEN entries[at(i)] ELSE Empty
  BY DEF Rotated
<1>3. \A i \in Slots : i < count => at(i) \in Slots /\ at(i) < count
  BY <1>1, IndexAdvances
<1>4. \A i, j \in Slots : i < count /\ j < count /\ at(i) = at(j) => i = j
  BY <1>1, RotationVisits
<1>5. \A j \in Slots : j < count => \E i \in Slots : i < count /\ at(i) = j
  BY <1>1, RotationVisits
<1>6. Rotated \in [Slots -> Entries \cup {Empty}]
  <2>1. \A i \in Slots : Rotated[i] \in Entries \cup {Empty}
    BY <1>2, <1>3 DEF Invariant, TypeOK
  <2> QED
    BY <2>1 DEF Rotated
<1> HIDE DEF at
<1>7. Owned(entries, count, live)
  BY OwnedByRing DEF Invariant
<1>8. Owned(Rotated, count, live)
  BY ONLY <1>2, <1>3, <1>4, <1>5, <1>7 DEF Owned
<1> QED
  BY ONLY <1>2, <1>3, <1>6, <1>8

LEMMA StoreGrownInvariant ==
    ASSUME Invariant, NEW key \in Keys, NEW handle \in Handles, StoreGrown(key, handle)
    PROVE  Invariant'
<1>1. /\ count = capacity /\ capacity \in Nat \ {0} /\ capacity < MaxCapacity
      /\ Larger \in InitialCapacity .. MaxCapacity /\ count < Larger /\ count \in Slots
  BY CapacityAssumption DEF StoreGrown, Opened, Larger, Invariant, TypeOK, Slots
<1>2. Entry(key, handle) \in Entries /\ Entry(key, handle) # Empty
  BY NullAssumption DEF Entry, Entries, Empty
<1>3. /\ Owned(Rotated, count, live)
      /\ Rotated \in [Slots -> Entries \cup {Empty}]
      /\ \A i \in Slots : i < count => \E j \in Slots : j < count /\ Rotated[i] = entries[j]
      /\ \A i \in Slots : ~(i < count) => Rotated[i] = Empty
  BY <1>1, RotatedOwned
<1>4. \A i \in Slots : entries'[i] = IF i = count THEN Entry(key, handle) ELSE Rotated[i]
  BY <1>3 DEF StoreGrown
<1>5. \A i \in Slots : i < count => /\ Rotated[i] \in Entries
                                    /\ Rotated[i].key # key
                                    /\ Rotated[i].pipeline # handle
                                    /\ entries'[i] = Rotated[i]
  <2>1. \A j \in Slots : j < count => /\ entries[j] \in Entries
                                      /\ entries[j].key # key
                                      /\ entries[j].pipeline # handle
    BY CreatesFresh DEF StoreGrown
  <2>2. \A i \in Slots : i < count => entries'[i] = Rotated[i]
    BY <1>1, <1>4 DEF Slots
  <2> QED
    BY <1>3, <2>1, <2>2
<1>6. /\ capacity' \in {0} \cup InitialCapacity .. MaxCapacity
      /\ count' \in 0 .. capacity' /\ count' = count + 1
      /\ next' \in 0 .. MaxCapacity - 1 /\ next' = 0
  BY <1>1, CapacityAssumption DEF StoreGrown
<1>7. entries' \in [Slots -> Entries \cup {Empty}]
  BY <1>2, <1>3 DEF StoreGrown
<1>8. \A i \in Slots : entries'[i] # Empty <=> i < count'
  <2> TAKE i \in Slots
  <2>1. i < count' <=> i < count \/ i = count
    BY <1>1, <1>6 DEF Slots
  <2>2. i < count => Rotated[i] # Empty
    BY <1>5, NullAssumption DEF Entries, Empty
  <2> QED
    BY <1>2, <1>3, <1>4, <2>1, <2>2
<1>9. live' \in [Handles -> Keys \cup {Null}]
      /\ \A h \in Handles : live'[h] = IF h = handle THEN key ELSE live[h]
  BY DEF StoreGrown, Made, Invariant, TypeOK
<1>10. TypeOK'
  BY <1>6, <1>7, <1>8, <1>9 DEF TypeOK, Slots
<1>11. Owned(entries', count', live')
  <2>1. count \in Slots /\ entries'[count] = Entry(key, handle)
    BY <1>1, <1>4
  <2>2. Owned(entries', count + 1, live')
    BY ONLY <1>3, <1>5, <1>9, <2>1, AddedOwned, key \in Keys, handle \in Handles
  <2> QED
    BY <1>6, <2>2
<1>12. (TypeOK => (PipelinesOwned <=> Owned(entries, count, live)))'
  BY OwnedByRing, PTL
<1> QED
  BY <1>10, <1>11, <1>12 DEF Invariant

LEMMA StoreEvictingInvariant ==
    ASSUME Invariant, NEW key \in Keys, NEW handle \in Handles, StoreEvicting(key, handle)
    PROVE  Invariant'
<1>1. /\ count = capacity /\ capacity \in Nat \ {0} /\ next \in Nat /\ next < capacity
      /\ next \in Slots /\ capacity' = capacity /\ count' = count
  BY CapacityAssumption DEF StoreEvicting, Opened, Invariant, TypeOK, Slots
<1>2. Entry(key, handle) \in Entries /\ Entry(key, handle) # Empty
      /\ Entry(key, handle).key = key /\ Entry(key, handle).pipeline = handle
  BY NullAssumption DEF Entry, Entries, Empty
<1>3. \A i \in Slots : entries'[i] = IF i = next THEN Entry(key, handle) ELSE entries[i]
  BY DEF StoreEvicting, Invariant, TypeOK
<1>4. \A i \in Slots : i < count => /\ entries[i] \in Entries
                                    /\ entries[i].key # key
                                    /\ entries[i].pipeline # handle
  BY CreatesFresh DEF StoreEvicting
<1> DEFINE old == entries[next].pipeline
<1>5. old \in Handles /\ old # handle
  BY <1>1, <1>4 DEF Entries
<1>6. live' \in [Handles -> Keys \cup {Null}]
      /\ \A h \in Handles : live'[h] = IF h = old THEN Null ELSE IF h = handle THEN key ELSE live[h]
  BY <1>5 DEF StoreEvicting, Destroy, Made, Invariant, TypeOK
<1>7. TypeOK'
  <2>1. next' \in 0 .. MaxCapacity - 1 /\ next' < capacity'
    <3>1. next' \in Nat /\ next' < capacity
      BY <1>1, IndexAdvances DEF StoreEvicting, AfterNext
    <3> QED
      BY <1>1, <3>1, CapacityAssumption DEF Invariant, TypeOK
  <2>2. entries' \in [Slots -> Entries \cup {Empty}]
    BY <1>2 DEF StoreEvicting, Invariant, TypeOK
  <2>3. \A i \in Slots : entries'[i] # Empty <=> i < count'
    BY <1>1, <1>2, <1>3 DEF Invariant, TypeOK
  <2>4. ~(count' < capacity')
    BY <1>1
  <2>5. capacity' \in {0} \cup InitialCapacity .. MaxCapacity /\ count' \in 0 .. capacity'
    BY <1>1 DEF Invariant, TypeOK
  <2> QED
    BY <1>6, <2>1, <2>2, <2>3, <2>4, <2>5 DEF TypeOK, Slots
<1>8. Owned(entries, count, live)
  BY OwnedByRing DEF Invariant
<1> HIDE DEF old
<1>9. Owned(entries', count', live')
  <2>1. ASSUME NEW h \in Handles, live'[h] # Null
        PROVE  \E i \in Slots : i < count' /\ entries'[i].pipeline = h
    <3>1. CASE h = handle
      BY <1>1, <1>2, <1>3, <3>1
    <3>2. CASE h # handle
      <4>1. h # old /\ live[h] # Null
        BY <1>6, <2>1, <3>2
      <4>2. PICK i \in Slots : i < count /\ entries[i].pipeline = h
        BY <1>8, <4>1 DEF Owned
      <4>3. i # next
        BY <4>1, <4>2 DEF old
      <4> QED
        BY <1>1, <1>3, <4>2, <4>3
    <3> QED
      BY <3>1, <3>2
  <2>2. ASSUME NEW i \in Slots, i < count'
        PROVE  live'[entries'[i].pipeline] = entries'[i].key
    <3>1. CASE i = next
      BY <1>2, <1>3, <1>5, <1>6, <3>1
    <3>2. CASE i # next
      <4>1. entries'[i] = entries[i] /\ i < count
        BY <1>1, <1>3, <2>2, <3>2
      <4>2. entries[i].pipeline # old
        BY <1>1, <1>8, <3>2, <4>1 DEF Owned, old
      <4> QED
        BY <1>4, <1>6, <1>8, <4>1, <4>2 DEF Owned, Entries
    <3> QED
      BY <3>1, <3>2
  <2>3. ASSUME NEW i \in Slots, NEW j \in Slots, i < count', j < count',
               entries'[i].key = entries'[j].key
        PROVE  i = j
    BY <1>1, <1>2, <1>3, <1>4, <1>8, <2>3 DEF Owned
  <2> QED
    BY ONLY <2>1, <2>2, <2>3 DEF Owned
<1>10. (TypeOK => (PipelinesOwned <=> Owned(entries, count, live)))'
  BY OwnedByRing, PTL
<1> QED
  BY <1>7, <1>9, <1>10 DEF Invariant

LEMMA DestroyCacheInvariant ==
    ASSUME Invariant, DestroyCache
    PROVE  Invariant'
<1>1. \A h \in Handles : live'[h] = Null
  BY DEF DestroyCache, Invariant, PipelinesOwned
<1>2. TypeOK'
  BY CapacityAssumption DEF DestroyCache, Invariant, TypeOK, Slots
<1>3. PipelinesOwned'
  BY <1>1 DEF DestroyCache, PipelinesOwned, Slots, Empty
<1> QED
  BY <1>2, <1>3 DEF Invariant

(* The invariant holds of every reachable state.                            *)
THEOREM InvariantHolds == Spec => []Invariant
<1>1. Init => Invariant
  BY InitInvariant
<1>2. Invariant /\ [Next]_vars => Invariant'
  <2> SUFFICES ASSUME Invariant, [Next]_vars
               PROVE  Invariant'
    OBVIOUS
  <2>1. CASE Next
    BY <2>1, CreateFailsInvariant, StoreInvariant, StoreGrownInvariant, StoreEvictingInvariant,
       DestroyCacheInvariant DEF Next
  <2>2. CASE UNCHANGED vars
    BY <2>2 DEF vars, Invariant, TypeOK, PipelinesOwned, Slots
  <2> QED
    BY <2>1, <2>2
<1> QED
  BY <1>1, <1>2, PTL DEF Spec

(* The ring is never torn: the valid entries are the first count ones and   *)
(* the eviction pointer moves only in a full ring.                          *)
THEOREM TypeCorrect == Spec => []TypeOK
<1>1. Invariant => TypeOK
  BY DEF Invariant
<1> QED
  BY <1>1, InvariantHolds, PTL

(* No pipeline leaks and none is cached after it was destroyed, whatever    *)
(* the capacities: at eviction, growth or destruction of the cache.         *)
THEOREM PipelinesOwnedHolds == Spec => []PipelinesOwned
<1>1. Invariant => PipelinesOwned
  BY DEF Invariant
<1> QED
  BY <1>1, InvariantHolds, PTL

-----------------------------------------------------------------------------
(***************************************************************************)
(* The ring implements the FIFO.                                           *)
(***************************************************************************)

(* The queue holds the entries of the ring.                                 *)
LEMMA QueueEntries ==
    TypeOK => /\ Queue \in Seq(Entries) /\ Len(Queue) = count
              /\ \A p \in 1 .. count : Queue[p] = entries[(next + (p - 1)) % capacity]
              /\ \A p \in 1 .. count : \E r \in Slots : r < count /\ Queue[p] = entries[r]
<1> SUFFICES ASSUME TypeOK
             PROVE  /\ Queue \in Seq(Entries) /\ Len(Queue) = count
                    /\ \A p \in 1 .. count : Queue[p] = entries[(next + (p - 1)) % capacity]
                    /\ \A p \in 1 .. count : \E r \in Slots : r < count /\ Queue[p] = entries[r]
  OBVIOUS
<1>1. \A p \in 1 .. count : Queue[p] = entries[(next + (p - 1)) % capacity]
  <2> TAKE p \in 1 .. count
  <2>1. next + p - 1 = next + (p - 1)
    BY DEF TypeOK
  <2> QED
    BY <2>1 DEF Queue, At
<1>2. \A p \in 1 .. count : /\ Queue[p] \in Entries
                            /\ \E r \in Slots : r < count /\ Queue[p] = entries[r]
  <2> TAKE p \in 1 .. count
  <2>1. /\ capacity \in Nat \ {0} /\ next \in Nat /\ next < capacity
        /\ p - 1 \in Nat /\ p - 1 < capacity /\ capacity <= MaxCapacity
    BY CapacityAssumption DEF TypeOK
  <2> DEFINE r == (next + (p - 1)) % capacity
  <2>2. r \in Nat /\ r < capacity
    BY <2>1, IndexAdvances
  <2> HIDE DEF r
  <2>3. r \in Slots /\ r < count
    <3>1. count < capacity => next = 0
      BY DEF TypeOK
    <3>2. count < capacity => r = p - 1
      BY <2>1, <3>1, IndexWithin DEF r
    <3> QED
      BY <2>1, <2>2, <3>2, CapacityAssumption DEF TypeOK, Slots
  <2>4. Queue[p] = entries[r]
    BY <1>1 DEF r
  <2> QED
    BY <2>3, <2>4 DEF TypeOK
<1>3. count \in Nat /\ Queue \in [1 .. count -> Entries]
  BY <1>2, CapacityAssumption DEF TypeOK, Queue
<1>4. Queue \in Seq(Entries) /\ Len(Queue) = count
  BY ONLY <1>3
<1> QED
  BY <1>1, <1>2, <1>4

(* Two sequences that are equal everywhere are equal.                       *)
LEMMA AppendedIs ==
    ASSUME NEW S, NEW s \in Seq(S), NEW x \in S, NEW t \in Seq(S), Len(t) = Len(s) + 1,
           \A i \in 1 .. Len(s) : t[i] = s[i], t[Len(s) + 1] = x
    PROVE  t = Append(s, x)
  OBVIOUS

(* ... and in the next state.                                               *)
LEMMA QueueEntriesNext ==
    ASSUME Invariant'
    PROVE  /\ Queue' \in Seq(Entries) /\ Len(Queue') = count'
           /\ \A p \in 1 .. count' : Queue'[p] = entries'[(next' + (p - 1)) % capacity']
<1>1. (TypeOK => /\ Queue \in Seq(Entries) /\ Len(Queue) = count
                 /\ \A p \in 1 .. count : Queue[p] = entries[(next + (p - 1)) % capacity]
                 /\ \A p \in 1 .. count : \E r \in Slots : r < count /\ Queue[p] = entries[r])'
  BY QueueEntries, PTL
<1> QED
  BY <1>1 DEF Invariant

(* What is new to the ring is new to the queue.                             *)
LEMMA QueueFresh ==
    ASSUME Invariant, NEW key \in Keys, NEW handle \in Handles, Creates(key, handle)
    PROVE  /\ Fifo!Unknown(Entry(key, handle).key)
           /\ Fifo!Unused(Entry(key, handle).pipeline)
           /\ Entry(key, handle) \in Fifo!Entries
<1>1. Entry(key, handle).key = key /\ Entry(key, handle).pipeline = handle
  BY DEF Entry
<1>2. Entry(key, handle) \in Fifo!Entries
  BY DEF Entry, Fifo!Entries
<1>3. \A p \in 1 .. Len(Queue) : Queue[p].key # key /\ Queue[p].pipeline # handle
  BY QueueEntries, CreatesFresh DEF Invariant
<1> QED
  BY <1>1, <1>2, <1>3 DEF Fifo!Unknown, Fifo!Unused

LEMMA InitRefines == Init => Fifo!Init
<1> SUFFICES ASSUME Init PROVE Fifo!Init
  OBVIOUS
<1>1. TypeOK /\ count = 0 /\ capacity = 0
  BY InitInvariant DEF Init, Invariant
<1>2. Queue \in Seq(Entries) /\ Len(Queue) = 0
  BY <1>1, QueueEntries
<1>3. Queue = <<>>
  BY ONLY <1>2
<1> QED
  BY <1>1, <1>3 DEF Fifo!Init

(* Every step that adds nothing leaves the queue or empties it.             *)
LEMMA CreateFailsRefines ==
    ASSUME Invariant, Invariant', NEW key \in Keys, CreateFails(key)
    PROVE  [Fifo!Next]_Fifo!vars
<1>1. CASE capacity' = capacity
  <2>1. Queue' = Queue
    BY <1>1 DEF CreateFails, Queue, At
  <2> QED
    BY <1>1, <2>1 DEF Fifo!vars
<1>2. CASE capacity' # capacity
  <2>1. capacity = 0 /\ capacity' = InitialCapacity /\ count = 0 /\ count' = 0
    BY <1>2 DEF CreateFails, Opened, Invariant, TypeOK
  <2>2. Queue \in Seq(Entries) /\ Len(Queue) = 0 /\ Queue' \in Seq(Entries) /\ Len(Queue') = 0
    BY <2>1, QueueEntries, QueueEntriesNext DEF Invariant
  <2>3. Queue' = Queue
    BY ONLY <2>2
  <2> QED
    BY <2>1, <2>3 DEF Fifo!Next, Fifo!Open
<1> QED
  BY <1>1, <1>2

LEMMA DestroyCacheRefines ==
    ASSUME Invariant, Invariant', DestroyCache
    PROVE  Fifo!Next
<1>1. Queue' \in Seq(Entries) /\ Len(Queue') = 0
  BY QueueEntriesNext DEF DestroyCache
<1>2. Queue' = <<>>
  BY ONLY <1>1
<1> QED
  BY <1>2 DEF DestroyCache, Fifo!Next, Fifo!Flush

(* With room left, the new entry goes behind the last.                      *)
LEMMA StoreRefines ==
    ASSUME Invariant, Invariant', NEW key \in Keys, NEW handle \in Handles, Store(key, handle)
    PROVE  Fifo!Next
<1> DEFINE entry == Entry(key, handle)
<1>1. /\ count' = count + 1 /\ count < Opened /\ capacity' = Opened /\ next' = next
      /\ Opened \in InitialCapacity .. MaxCapacity /\ Opened \in Nat \ {0} /\ count \in Nat
      /\ capacity' >= capacity /\ (capacity' = capacity \/ (capacity = 0 /\ count = 0))
      /\ next = 0 /\ (count # 0 => capacity = Opened)
  BY CapacityAssumption DEF Store, Opened, Invariant, TypeOK
<1>2. \A i \in Slots : entries'[i] = IF i = count THEN entry ELSE entries[i]
  BY DEF Store, Invariant, TypeOK
<1>3. /\ Queue \in Seq(Entries) /\ Len(Queue) = count
      /\ Queue' \in Seq(Entries) /\ Len(Queue') = count + 1
  BY <1>1, QueueEntries, QueueEntriesNext DEF Invariant
<1>4. \A p \in 1 .. count + 1 : /\ p - 1 \in Slots
                                /\ Queue'[p] = entries'[p - 1]
                                /\ p <= count => Queue[p] = entries[p - 1]
  <2> TAKE p \in 1 .. count + 1
  <2>1. p - 1 \in Nat /\ p - 1 < Opened /\ p - 1 \in Slots /\ 0 + (p - 1) = p - 1
    BY <1>1, CapacityAssumption DEF Slots
  <2>2. (p - 1) % Opened = p - 1
    BY <1>1, <2>1, IndexWithin
  <2>3. Queue'[p] = entries'[p - 1]
    <3>1. p \in 1 .. count' /\ next' = 0 /\ capacity' = Opened
      BY <1>1
    <3>2. Queue'[p] = entries'[(next' + (p - 1)) % capacity']
      BY <3>1, QueueEntriesNext
    <3> QED
      BY ONLY <2>1, <2>2, <3>1, <3>2
  <2>4. ASSUME p <= count
        PROVE  Queue[p] = entries[p - 1]
    <3>1. p \in 1 .. count /\ capacity = Opened /\ next = 0
      BY <1>1, <2>4
    <3>2. \A q \in 1 .. count : Queue[q] = entries[(next + (q - 1)) % capacity]
      BY QueueEntries DEF Invariant
    <3>3. Queue[p] = entries[(next + (p - 1)) % capacity]
      BY ONLY <3>1, <3>2
    <3> QED
      BY ONLY <2>1, <2>2, <3>1, <3>3
  <2> QED
    BY <2>1, <2>3, <2>4
<1>5. \A p \in 1 .. count : Queue'[p] = Queue[p]
  <2> TAKE p \in 1 .. count
  <2>1. p \in 1 .. count + 1 /\ p <= count /\ p - 1 # count
    BY <1>1
  <2> QED
    BY <1>2, <1>4, <2>1
<1>6. Queue'[count + 1] = entry
  BY <1>1, <1>2, <1>4
<1>7. entry \in Entries
  BY DEF Entry, Entries
<1>8. Queue' = Append(Queue, entry)
  <2> HIDE DEF entry
  <2> QED
    BY ONLY <1>3, <1>5, <1>6, <1>7, AppendedIs
<1>9. Fifo!Store(entry)
  <2>1. /\ capacity' \in Fifo!Limits /\ capacity' >= capacity
        /\ capacity' = capacity \/ Len(Queue) = capacity
        /\ Len(Queue) < capacity'
    BY <1>1, <1>3 DEF Fifo!Limits
  <2>2. Fifo!Unknown(entry.key) /\ Fifo!Unused(entry.pipeline)
    BY QueueFresh DEF Store
  <2> HIDE DEF entry
  <2> QED
    BY <1>8, <2>1, <2>2 DEF Fifo!Store
<1> QED
  BY <1>9, QueueFresh DEF Store, Fifo!Next

(* Growth keeps the order, and the new entry goes behind the last.          *)
LEMMA StoreGrownRefines ==
    ASSUME Invariant, Invariant', NEW key \in Keys, NEW handle \in Handles,
           StoreGrown(key, handle)
    PROVE  Fifo!Next
<1> DEFINE entry == Entry(key, handle)
<1>1. /\ count' = count + 1 /\ count = capacity /\ capacity' = Larger /\ next' = 0
      /\ Larger \in InitialCapacity .. MaxCapacity /\ Larger \in Nat \ {0} /\ count \in Nat
      /\ capacity < Larger /\ capacity \in Nat
  BY CapacityAssumption DEF StoreGrown, Opened, Larger, Invariant, TypeOK
<1>2. \A i \in Slots : /\ i < count => entries'[i] = entries[(next + i) % capacity]
                       /\ i = count => entries'[i] = entry
  <2>1. Rotated \in [Slots -> Entries \cup {Empty}]
    BY <1>1, RotatedOwned, CapacityAssumption DEF StoreGrown, Opened
  <2>2. \A i \in Slots : entries'[i] = IF i = count THEN entry ELSE Rotated[i]
    BY <2>1 DEF StoreGrown
  <2>3. \A i \in Slots : i < count => i # count /\ Rotated[i] = entries[(next + i) % capacity]
    BY <1>1 DEF Rotated, Slots
  <2> QED
    BY <2>2, <2>3
<1>3. /\ Queue \in Seq(Entries) /\ Len(Queue) = count
      /\ Queue' \in Seq(Entries) /\ Len(Queue') = count + 1
  BY <1>1, QueueEntries, QueueEntriesNext DEF Invariant
<1>4. \A p \in 1 .. count + 1 : p - 1 \in Slots /\ Queue'[p] = entries'[p - 1]
  <2> TAKE p \in 1 .. count + 1
  <2>1. p - 1 \in Nat /\ p - 1 < Larger /\ p - 1 \in Slots /\ 0 + (p - 1) = p - 1
    BY <1>1, CapacityAssumption DEF Slots
  <2>2. (p - 1) % Larger = p - 1
    BY <1>1, <2>1, IndexWithin
  <2>3. p \in 1 .. count' /\ next' = 0 /\ capacity' = Larger
    BY <1>1
  <2>4. Queue'[p] = entries'[(next' + (p - 1)) % capacity']
    BY <2>3, QueueEntriesNext
  <2> QED
    BY ONLY <2>1, <2>2, <2>3, <2>4
<1>5. \A p \in 1 .. count : Queue'[p] = Queue[p]
  <2> TAKE p \in 1 .. count
  <2>1. p \in 1 .. count + 1 /\ p - 1 < count
    BY <1>1
  <2>2. Queue'[p] = entries[(next + (p - 1)) % capacity]
    BY <1>2, <1>4, <2>1
  <2> QED
    BY <2>2, QueueEntries DEF Invariant
<1>6. Queue'[count + 1] = entry
  <2>1. count + 1 \in 1 .. count + 1 /\ (count + 1) - 1 = count
    BY <1>1
  <2> QED
    BY <1>2, <1>4, <2>1
<1>7. entry \in Entries
  BY DEF Entry, Entries
<1>8. Queue' = Append(Queue, entry)
  <2> HIDE DEF entry
  <2> QED
    BY ONLY <1>3, <1>5, <1>6, <1>7, AppendedIs
<1>9. Fifo!Store(entry)
  <2>1. /\ capacity' \in Fifo!Limits /\ capacity' >= capacity
        /\ Len(Queue) = capacity /\ Len(Queue) < capacity'
    BY <1>1, <1>3 DEF Fifo!Limits
  <2>2. Fifo!Unknown(entry.key) /\ Fifo!Unused(entry.pipeline)
    BY QueueFresh DEF StoreGrown
  <2> HIDE DEF entry
  <2> QED
    BY <1>8, <2>1, <2>2 DEF Fifo!Store
<1> QED
  BY <1>9, QueueFresh DEF StoreGrown, Fifo!Next

(* Eviction takes the oldest, and the new entry goes behind the last.       *)
LEMMA StoreEvictingRefines ==
    ASSUME Invariant, Invariant', NEW key \in Keys, NEW handle \in Handles,
           StoreEvicting(key, handle)
    PROVE  Fifo!Next
<1> DEFINE entry == Entry(key, handle)
<1>1. /\ count' = count /\ count = capacity /\ capacity' = capacity
      /\ next' = (next + 1) % capacity
      /\ capacity \in Nat \ {0} /\ next \in Nat /\ next < capacity
      /\ capacity \in InitialCapacity .. MaxCapacity
  BY CapacityAssumption DEF StoreEvicting, AfterNext, Opened, Invariant, TypeOK
<1>2. \A i \in Slots : entries'[i] = IF i = next THEN entry ELSE entries[i]
  BY DEF StoreEvicting, Invariant, TypeOK
<1>3. /\ Queue \in Seq(Entries) /\ Len(Queue) = capacity
      /\ Queue' \in Seq(Entries) /\ Len(Queue') = capacity
      /\ \A p \in 1 .. capacity : Queue[p] = entries[(next + (p - 1)) % capacity]
      /\ \A p \in 1 .. capacity : Queue'[p] = entries'[(next' + (p - 1)) % capacity]
  BY <1>1, QueueEntries, QueueEntriesNext DEF Invariant
<1>4. Tail(Queue) \in Seq(Entries) /\ Len(Tail(Queue)) = capacity - 1
      /\ \A p \in 1 .. capacity - 1 : Tail(Queue)[p] = Queue[p + 1]
  <2>1. Queue # <<>>
    BY ONLY <1>1, <1>3
  <2> QED
    BY ONLY <1>1, <1>3, <2>1, HeadTailProperties
<1>5. \A p \in 1 .. capacity - 1 : Queue'[p] = Tail(Queue)[p]
  <2> TAKE p \in 1 .. capacity - 1
  <2>1. /\ p \in Nat /\ p < capacity /\ p - 1 \in Nat /\ p - 1 < capacity - 1 /\ p - 1 < capacity
        /\ (p - 1) + 1 = p /\ (p + 1) - 1 = p /\ p # 0
        /\ p \in 1 .. capacity /\ p + 1 \in 1 .. capacity
    BY <1>1
  <2>2. (((next + 1) % capacity) + (p - 1)) % capacity = (next + ((p - 1) + 1)) % capacity
    <3> DEFINE i == p - 1
    <3>1. i \in Nat /\ i < capacity - 1
      BY <2>1
    <3> HIDE DEF i
    <3>2. (((next + 1) % capacity) + i) % capacity = (next + (i + 1)) % capacity
      BY ONLY <1>1, <3>1, IndexAdvancesBehind
    <3> QED
      BY ONLY <3>2 DEF i
  <2> DEFINE r == (next + p) % capacity
  <2>3. r \in Nat /\ r < capacity /\ r # next
    BY <1>1, <2>1, IndexAdvances
  <2>4. r \in Slots
    <3> HIDE DEF r
    <3> QED
      BY <1>1, <2>3, CapacityAssumption DEF Slots
  <2>5. Queue'[p] = entries'[r]
    BY ONLY <1>1, <1>3, <2>1, <2>2
  <2>6. Queue[p + 1] = entries[r]
    BY ONLY <1>3, <2>1
  <2>7. entries'[r] = entries[r]
    <3> HIDE DEF r
    <3> QED
      BY <1>2, <2>3, <2>4
  <2> QED
    BY <1>4, <2>5, <2>6, <2>7
<1>6. Queue'[capacity] = entry
  <2>1. capacity \in 1 .. capacity /\ 0 \in Nat /\ 0 < capacity
    BY <1>1
  <2>2. (((next + 1) % capacity) + (capacity - 1)) % capacity = next
    BY <1>1, <2>1, IndexAdvances
  <2>3. Queue'[capacity] = entries'[next]
    BY ONLY <1>1, <1>3, <2>1, <2>2
  <2>4. next \in Slots
    BY <1>1, CapacityAssumption DEF Slots
  <2> QED
    BY <1>2, <2>3, <2>4
<1>7. entry \in Entries
  BY DEF Entry, Entries
<1>8. Queue' = Append(Tail(Queue), entry)
  <2> HIDE DEF entry
  <2>1. capacity = (capacity - 1) + 1
    BY <1>1
  <2>2. Len(Queue') = Len(Tail(Queue)) + 1 /\ Queue'[Len(Tail(Queue)) + 1] = entry
    BY ONLY <1>3, <1>4, <1>6, <2>1
  <2>3. \A p \in 1 .. Len(Tail(Queue)) : Queue'[p] = Tail(Queue)[p]
    BY ONLY <1>4, <1>5
  <2> QED
    BY ONLY <1>3, <1>4, <1>7, <2>2, <2>3, AppendedIs
<1>9. Fifo!Store(entry)
  <2>1. /\ capacity' \in Fifo!Limits /\ capacity' >= capacity /\ capacity' = capacity
        /\ ~(Len(Queue) < capacity')
    BY <1>1, <1>3 DEF Fifo!Limits
  <2>2. Fifo!Unknown(entry.key) /\ Fifo!Unused(entry.pipeline)
    BY QueueFresh DEF StoreEvicting
  <2> HIDE DEF entry
  <2> QED
    BY <1>8, <2>1, <2>2 DEF Fifo!Store
<1> QED
  BY <1>9, QueueFresh DEF StoreEvicting, Fifo!Next

(* The cache implements the bounded FIFO: every step of the ring, growth by *)
(* rotation and eviction included, is a step of the queue or none.          *)
THEOREM FifoImplemented == Spec => ImplementsFifo
<1>1. Init => Fifo!Init
  BY InitRefines
<1>2. Invariant /\ Invariant' /\ [Next]_vars => [Fifo!Next]_Fifo!vars
  <2> SUFFICES ASSUME Invariant, Invariant', [Next]_vars
               PROVE  [Fifo!Next]_Fifo!vars
    OBVIOUS
  <2>1. CASE Next
    BY <2>1, CreateFailsRefines, StoreRefines, StoreGrownRefines, StoreEvictingRefines,
       DestroyCacheRefines DEF Next
  <2>2. CASE UNCHANGED vars
    BY <2>2 DEF vars, Fifo!vars, Queue, At
  <2> QED
    BY <2>1, <2>2
<1> QED
  BY <1>1, <1>2, InvariantHolds, PTL DEF Spec, ImplementsFifo, Fifo!Spec

-----------------------------------------------------------------------------
(***************************************************************************)
(* Drawing, for any state a call can set, any target and any device: the   *)
(* pipelines the cache is asked for, and what is marked when they change.  *)
(***************************************************************************)
(* What the calls may be given, and what None is not.                       *)
Inputs == NumbersAssumption /\ ArgumentsAssumption /\ TargetsAssumption /\ NoneAssumption

LEMMA InputsHold == Inputs
  BY NumbersAssumption, ArgumentsAssumption, TargetsAssumption, NoneAssumption DEF Inputs

(* The fixed-function state: the range of every field that draws depend on. *)
FixedStates ==
    [viewport : [1 .. 4 -> Int], sized : BOOLEAN, scissor : [1 .. 4 -> Int],
     cullMode : Faces \cup {"FRONT_AND_BACK"}, frontFace : {"CW", "CCW"},
     depthFunc : Comparisons, depthMask : BOOLEAN, depthRange : [1 .. 2 -> Int],
     lineWidth : Int, coverage : Int \X BOOLEAN, offset : [1 .. 2 -> Int],
     stencil : [Faces -> StencilStates],
     blendFunc : [1 .. 4 -> SourceFactors],
     blendEquation : [1 .. 2 -> AllEquations],
     blendColor : [1 .. 4 -> Int], colorMask : SUBSET Channels,
     clearColor : Color, clearDepth : Float, clearStencil : Int,
     hint : Hints, packing : {1, 2, 4, 8}, unpacking : {1, 2, 4, 8}]
Fits(f) == f \in FixedStates /\ f.scissor[3] >= 0 /\ f.scissor[4] >= 0

(* What a pipeline and what a raster state is made of.                      *)
PipelineFields(f) == <<f.cullMode, f.frontFace, f.depthFunc, f.depthMask, f.stencil, f.blendFunc,
                       f.blendEquation, f.blendColor, f.colorMask>>
RasterFields(f) == <<f.viewport, f.sized, f.scissor, f.depthRange, f.lineWidth, f.offset,
                     f.coverage>>
PipelineKept ==
    /\ PipelineFields(fixed') = PipelineFields(fixed)
    /\ enabled' \ {"SCISSOR_TEST"} = enabled \ {"SCISSOR_TEST"}
RasterKept == RasterFields(fixed') = RasterFields(fixed) /\ enabled' = enabled

(* What every call that sets state leaves true.                             *)
SettingSound ==
    /\ Fits(fixed)'
    /\ "PIPELINE" \in dirty' \/ PipelineKept
    /\ {"PIPELINE", "VIEWPORT"} \cap dirty' # {} \/ RasterKept

(* A number cut to 0.0 .. 1.0.                                              *)
LEMMA UnitRange ==
    ASSUME Inputs, NEW x \in Int
    PROVE  Unit(x) \in Int /\ 0 <= Unit(x) /\ Unit(x) <= One
  BY DEF Inputs, NumbersAssumption, Unit, Within

LEMMA FiniteInt == ASSUME NEW x \in Float, Finite(x) PROVE x \in Int
  BY DEF Float, Finite

-----------------------------------------------------------------------------
(* The three shapes of a call that sets state.                              *)
LEMMA SetSound ==
    ASSUME Fits(fixed), NEW valid, NEW code, NEW after, Set(valid, code, after, "PIPELINE"),
           valid => Fits(after)
    PROVE  SettingSound
  BY DEF SettingSound, PipelineKept, RasterKept, Set, Refused, Marked

LEMMA SetRasterSound ==
    ASSUME Fits(fixed), NEW valid, NEW code, NEW after, Set(valid, code, after, "VIEWPORT"),
           valid => Fits(after) /\ PipelineFields(after) = PipelineFields(fixed)
    PROVE  SettingSound
  BY DEF SettingSound, PipelineKept, RasterKept, Set, Refused, Marked

LEMMA StoreSound ==
    ASSUME Fits(fixed), NEW valid, NEW code, NEW after, Keep(valid, code, after),
           valid => /\ Fits(after) /\ PipelineFields(after) = PipelineFields(fixed)
                    /\ RasterFields(after) = RasterFields(fixed)
    PROVE  SettingSound
  BY DEF SettingSound, PipelineKept, RasterKept, Keep, Refused

LEMMA EnableSound ==
    ASSUME Fits(fixed), NEW c, Enable(c) \/ Disable(c)
    PROVE  SettingSound
<1>1. Fits(fixed)' /\ fixed' = fixed
  BY DEF Enable, Disable
<1>2. enabled' = enabled \cup {c} \/ enabled' = enabled \ {c}
  BY DEF Enable, Disable
<1>3. CASE enabled' = enabled
  BY <1>1, <1>3 DEF SettingSound, PipelineKept, RasterKept
<1>4. CASE enabled' # enabled /\ c = "SCISSOR_TEST"
  <2>1. "VIEWPORT" \in dirty'
    BY <1>4 DEF Enable, Disable, Marked
  <2> QED
    BY <1>1, <1>2, <1>4, <2>1 DEF SettingSound, PipelineKept
<1>5. CASE enabled' # enabled /\ c # "SCISSOR_TEST"
  <2>1. "PIPELINE" \in dirty'
    BY <1>5 DEF Enable, Disable, Marked
  <2> QED
    BY <1>1, <2>1 DEF SettingSound
<1> QED
  BY <1>3, <1>4, <1>5

LEMMA EnableExtensionSound ==
    ASSUME Fits(fixed), NEW g, EnableExtension(g)
    PROVE  SettingSound
  BY DEF SettingSound, PipelineKept, RasterKept, EnableExtension

LEMMA ViewportSound ==
    ASSUME Fits(fixed), NEW box \in [1 .. 4 -> Int], Viewport(box)
    PROVE  SettingSound
<1> DEFINE after == [fixed EXCEPT !.viewport = box, !.sized = TRUE]
<1>1. Fits(after) /\ PipelineFields(after) = PipelineFields(fixed)
  BY DEF Fits, FixedStates, PipelineFields
<1>2. enabled' = enabled /\ (fixed' = fixed \/ (fixed' = after /\ "VIEWPORT" \in dirty'))
  BY DEF Viewport, Refused
<1> HIDE DEF after
<1> QED
  BY <1>1, <1>2 DEF SettingSound, PipelineKept, RasterKept

LEMMA ScissorSound ==
    ASSUME Fits(fixed), NEW box \in [1 .. 4 -> Int], Scissor(box)
    PROVE  SettingSound
<1> DEFINE after == [fixed EXCEPT !.scissor = box]
<1>1. box[3] >= 0 /\ box[4] >= 0 => Fits(after) /\ PipelineFields(after) = PipelineFields(fixed)
  BY DEF Fits, FixedStates, PipelineFields
<1>2. /\ enabled' = enabled
      /\ fixed' = fixed \/ (box[3] >= 0 /\ box[4] >= 0 /\ fixed' = after /\ "VIEWPORT" \in dirty')
  BY DEF Scissor, Refused
<1> HIDE DEF after
<1> QED
  BY <1>1, <1>2 DEF SettingSound, PipelineKept, RasterKept

LEMMA CullFaceSound ==
    ASSUME Fits(fixed), NEW mode, CullFace(mode)
    PROVE  SettingSound
<1> DEFINE after == [fixed EXCEPT !.cullMode = mode]
<1>1. mode \in Faces \cup {"FRONT_AND_BACK"} => Fits(after)
  BY DEF Fits, FixedStates
<1> HIDE DEF after
<1> QED
  BY <1>1, SetSound DEF CullFace, after

LEMMA FrontFaceSound ==
    ASSUME Fits(fixed), NEW mode, FrontFace(mode)
    PROVE  SettingSound
<1> DEFINE after == [fixed EXCEPT !.frontFace = mode]
<1>1. mode \in {"CW", "CCW"} => Fits(after)
  BY DEF Fits, FixedStates
<1> HIDE DEF after
<1> QED
  BY <1>1, SetSound DEF FrontFace, after

LEMMA DepthFuncSound ==
    ASSUME Fits(fixed), NEW func, DepthFunc(func)
    PROVE  SettingSound
<1> DEFINE after == [fixed EXCEPT !.depthFunc = func]
<1>1. func \in Comparisons => Fits(after)
  BY DEF Fits, FixedStates
<1> HIDE DEF after
<1> QED
  BY <1>1, SetSound DEF DepthFunc, after

LEMMA DepthMaskSound ==
    ASSUME Fits(fixed), NEW on \in BOOLEAN, DepthMask(on)
    PROVE  SettingSound
<1> DEFINE after == [fixed EXCEPT !.depthMask = on]
<1>1. Fits(after)
  BY DEF Fits, FixedStates
<1> HIDE DEF after
<1> QED
  BY <1>1, SetSound DEF DepthMask, after

LEMMA ColorMaskSound ==
    ASSUME Fits(fixed), NEW mask \in SUBSET Channels, ColorMask(mask)
    PROVE  SettingSound
<1> DEFINE after == [fixed EXCEPT !.colorMask = mask]
<1>1. Fits(after)
  BY DEF Fits, FixedStates
<1> HIDE DEF after
<1> QED
  BY <1>1, SetSound DEF ColorMask, after

LEMMA DepthRangeSound ==
    ASSUME Inputs, Fits(fixed), NEW near \in Float, NEW far \in Float, DepthRange(near, far)
    PROVE  SettingSound
<1> DEFINE after == [fixed EXCEPT !.depthRange = <<Unit(near), Unit(far)>>]
<1>1. Finite(near) /\ Finite(far) => Fits(after) /\ PipelineFields(after) = PipelineFields(fixed)
  BY UnitRange, FiniteInt DEF Fits, FixedStates, PipelineFields
<1> HIDE DEF after
<1> QED
  BY <1>1, SetRasterSound DEF DepthRange, after

LEMMA LineWidthSound ==
    ASSUME Inputs, Fits(fixed), NEW width, LineWidth(width)
    PROVE  SettingSound
<1> DEFINE after == [fixed EXCEPT !.lineWidth = width]
<1>0. width \in One .. MaxWidth => width \in Int
  BY DEF Inputs, NumbersAssumption
<1>1. width \in One .. MaxWidth => Fits(after)
  BY <1>0 DEF Fits, FixedStates
<1> HIDE DEF after
<1> QED
  BY <1>1, SetSound DEF LineWidth, after

LEMMA SampleCoverageSound ==
    ASSUME Inputs, Fits(fixed), NEW value \in Float, NEW invert \in BOOLEAN, SampleCoverage(value, invert)
    PROVE  SettingSound
<1> DEFINE after == [fixed EXCEPT !.coverage = <<Unit(value), invert>>]
<1>1. Finite(value) => Fits(after)
  BY UnitRange, FiniteInt DEF Fits, FixedStates
<1> HIDE DEF after
<1> QED
  BY <1>1, SetSound DEF SampleCoverage, after

LEMMA PolygonOffsetSound ==
    ASSUME Fits(fixed), NEW factor \in Float, NEW units \in Float, PolygonOffset(factor, units)
    PROVE  SettingSound
<1> DEFINE after == [fixed EXCEPT !.offset = <<factor, units>>]
<1>1. Finite(factor) /\ Finite(units) => Fits(after)
  BY FiniteInt DEF Fits, FixedStates
<1> HIDE DEF after
<1> QED
  BY <1>1, SetSound DEF PolygonOffset, after

LEMMA BlendFuncSeparateSound ==
    ASSUME Inputs, Fits(fixed), NEW f \in BlendFuncs, BlendFuncSeparate(f)
    PROVE  SettingSound
<1> DEFINE valid == /\ {f[1], f[3]} \subseteq SourceFactors
                    /\ {f[2], f[4]} \subseteq Factors
           after == [fixed EXCEPT !.blendFunc = f]
<1>1. valid => f \in [1 .. 4 -> SourceFactors]
  <2>1. f \in [1 .. 4 -> STRING]
    BY DEF Inputs, ArgumentsAssumption
  <2>2. valid => \A i \in 1 .. 4 : f[i] \in SourceFactors
    BY DEF SourceFactors
  <2> QED
    BY <2>1, <2>2
<1>2. f \in [1 .. 4 -> SourceFactors] => Fits(after)
  BY DEF Fits, FixedStates
<1>3. Set(valid, "INVALID_ENUM", after, "PIPELINE")
  BY DEF BlendFuncSeparate
<1> HIDE DEF after, valid
<1> QED
  BY <1>1, <1>2, <1>3, SetSound

LEMMA BlendEquationSeparateSound ==
    ASSUME Inputs, Fits(fixed), NEW e \in BlendEquations, BlendEquationSeparate(e)
    PROVE  SettingSound
<1> DEFINE valid == {e[1], e[2]} \subseteq Equations
           after == [fixed EXCEPT !.blendEquation = e]
<1>1. valid => e \in [1 .. 2 -> AllEquations]
  <2>1. e \in [1 .. 2 -> STRING]
    BY DEF Inputs, ArgumentsAssumption
  <2>2. valid => \A i \in 1 .. 2 : e[i] \in AllEquations
    BY DEF Equations
  <2> QED
    BY <2>1, <2>2
<1>2. e \in [1 .. 2 -> AllEquations] => Fits(after)
  BY DEF Fits, FixedStates
<1>3. Set(valid, "INVALID_ENUM", after, "PIPELINE")
  BY DEF BlendEquationSeparate
<1> HIDE DEF after, valid
<1> QED
  BY <1>1, <1>2, <1>3, SetSound

LEMMA ClearColorSound ==
    ASSUME Fits(fixed), NEW c \in Color, ClearColor(c)
    PROVE  SettingSound
<1> DEFINE after == [fixed EXCEPT !.clearColor = c]
<1>1. Fits(after) /\ PipelineFields(after) = PipelineFields(fixed)
                  /\ RasterFields(after) = RasterFields(fixed)
  BY DEF Fits, FixedStates, PipelineFields, RasterFields
<1> HIDE DEF after
<1> QED
  BY <1>1, StoreSound DEF ClearColor, after

LEMMA ClearDepthSound ==
    ASSUME Fits(fixed), NEW d \in Float, ClearDepth(d)
    PROVE  SettingSound
<1> DEFINE after == [fixed EXCEPT !.clearDepth = d]
<1>1. Fits(after) /\ PipelineFields(after) = PipelineFields(fixed)
                  /\ RasterFields(after) = RasterFields(fixed)
  BY DEF Fits, FixedStates, PipelineFields, RasterFields
<1> HIDE DEF after
<1> QED
  BY <1>1, StoreSound DEF ClearDepth, after

LEMMA ClearStencilSound ==
    ASSUME Inputs, Fits(fixed), NEW s \in Int, ClearStencil(s)
    PROVE  SettingSound
<1> DEFINE after == [fixed EXCEPT !.clearStencil = Within(s, 0, StencilMax)]
<1>0. Within(s, 0, StencilMax) \in Int
  BY DEF Within, Inputs, NumbersAssumption
<1>1. Fits(after) /\ PipelineFields(after) = PipelineFields(fixed)
                  /\ RasterFields(after) = RasterFields(fixed)
  BY <1>0 DEF Fits, FixedStates, PipelineFields, RasterFields
<1> HIDE DEF after
<1> QED
  BY <1>1, StoreSound DEF ClearStencil, after

LEMMA BlendColorSound ==
    ASSUME Inputs, Fits(fixed), NEW c \in Color, BlendColor(c)
    PROVE  SettingSound
<1> DEFINE valid == \A i \in 1 .. 4 : Finite(c[i])
           kept == IF {"float_color_buffer", "half_float_color_buffer"} \cap gates = {}
                   THEN [i \in 1 .. 4 |-> Unit(c[i])] ELSE c
           after == [fixed EXCEPT !.blendColor = kept]
<1>1. valid => kept \in [1 .. 4 -> Int]
  <2>1. valid => \A i \in 1 .. 4 : c[i] \in Int
    BY FiniteInt DEF Color
  <2>2. valid => \A i \in 1 .. 4 : Unit(c[i]) \in Int
    BY <2>1, UnitRange
  <2>3. valid => c \in [1 .. 4 -> Int] /\ [i \in 1 .. 4 |-> Unit(c[i])] \in [1 .. 4 -> Int]
    BY <2>1, <2>2 DEF Color
  <2> QED
    BY <2>3
<1>2. kept \in [1 .. 4 -> Int] => Fits(after)
  <2> HIDE DEF kept
  <2> QED
    BY DEF Fits, FixedStates
<1>3. Set(valid, "INVALID_VALUE", after, "PIPELINE")
  BY DEF BlendColor
<1> HIDE DEF after, valid, kept
<1> QED
  BY <1>1, <1>2, <1>3, SetSound

LEMMA HintSound ==
    ASSUME Fits(fixed), NEW target, NEW mode, Hint(target, mode)
    PROVE  SettingSound
<1> DEFINE after == IF target = "MIPMAP" THEN fixed ELSE [fixed EXCEPT !.hint = mode]
<1>1. mode \in Hints => /\ Fits(after) /\ PipelineFields(after) = PipelineFields(fixed)
                          /\ RasterFields(after) = RasterFields(fixed)
  BY DEF Fits, FixedStates, PipelineFields, RasterFields
<1> HIDE DEF after
<1> QED
  BY <1>1, StoreSound DEF Hint, after

LEMMA PixelStoreSound ==
    ASSUME Fits(fixed), NEW pname, NEW param \in Int, PixelStore(pname, param)
    PROVE  SettingSound
<1> DEFINE after == IF pname = "PACK" THEN [fixed EXCEPT !.packing = param]
                   ELSE [fixed EXCEPT !.unpacking = param]
<1>1. param \in {1, 2, 4, 8} => /\ Fits(after) /\ PipelineFields(after) = PipelineFields(fixed)
                                 /\ RasterFields(after) = RasterFields(fixed)
  BY DEF Fits, FixedStates, PipelineFields, RasterFields
<1> HIDE DEF after
<1> QED
  BY <1>1, StoreSound DEF PixelStore, after

(* What is kept of a stencil mask.                                          *)
LEMMA Remainder ==
    ASSUME NEW n \in Nat \ {0}, NEW a \in Int
    PROVE  a % n \in 0 .. n - 1
  OBVIOUS

LEMMA PlanesRange ==
    ASSUME Inputs, NEW mask \in Int
    PROVE  Planes(mask) \in 0 .. StencilMax
<1>1. StencilMax + 1 \in Nat \ {0} /\ (StencilMax + 1) - 1 = StencilMax
  BY DEF Inputs, NumbersAssumption
<1>2. mask % (StencilMax + 1) \in 0 .. (StencilMax + 1) - 1
  BY <1>1, Remainder
<1> QED
  BY ONLY <1>1, <1>2 DEF Planes

LEMMA PlanesSame ==
    ASSUME Inputs, NEW mask \in 0 .. StencilMax
    PROVE  Planes(mask) = mask
<1>1. StencilMax + 1 \in Nat \ {0} /\ mask \in Nat /\ mask < StencilMax + 1
  BY DEF Inputs, NumbersAssumption
<1>2. mask % (StencilMax + 1) = mask
  BY <1>1, IndexWithin
<1> QED
  BY ONLY <1>2 DEF Planes

(* The stencil state of the faces that a call names.                        *)
LEMMA StencilFits ==
    ASSUME Fits(fixed), NEW s \in [Faces -> StencilStates]
    PROVE  Fits([fixed EXCEPT !.stencil = s])
  BY DEF Fits, FixedStates

LEMMA StencilFuncSeparateSound ==
    ASSUME Inputs, Fits(fixed), NEW face, NEW func, NEW reference \in Int, NEW mask \in Int,
           StencilFuncSeparate(face, func, reference, mask)
    PROVE  SettingSound
<1> DEFINE new(s) == [s EXCEPT !.func = func, !.mask = Planes(mask),
                               !.ref = Within(reference, 0, StencilMax)]
           faces == [f \in Faces |-> IF f \in Named(face) THEN new(fixed.stencil[f])
                                       ELSE fixed.stencil[f]]
           after == [fixed EXCEPT !.stencil = faces]
           valid == Named(face) # {} /\ func \in Comparisons
<1>1. Within(reference, 0, StencilMax) \in 0 .. StencilMax /\ Planes(mask) \in 0 .. StencilMax
  BY PlanesRange DEF Within, Inputs, NumbersAssumption
<1>2. valid => \A s \in StencilStates : new(s) \in StencilStates
  BY <1>1 DEF StencilStates
<1>3. valid => faces \in [Faces -> StencilStates]
  <2> HIDE DEF new
  <2> QED
    BY <1>2 DEF Fits, FixedStates
<1>4. Set(valid, "INVALID_ENUM", after, "PIPELINE")
  BY DEF StencilFuncSeparate, WithStencil
<1> HIDE DEF faces, valid
<1> QED
  BY <1>3, <1>4, StencilFits, SetSound

LEMMA StencilMaskSeparateSound ==
    ASSUME Inputs, Fits(fixed), NEW face, NEW mask \in Int, StencilMaskSeparate(face, mask)
    PROVE  SettingSound
<1> DEFINE new(s) == [s EXCEPT !.write = Planes(mask)]
           faces == [f \in Faces |-> IF f \in Named(face) THEN new(fixed.stencil[f])
                                       ELSE fixed.stencil[f]]
           after == [fixed EXCEPT !.stencil = faces]
           valid == Named(face) # {}
<1>2. valid => \A s \in StencilStates : new(s) \in StencilStates
  BY PlanesRange DEF StencilStates
<1>3. valid => faces \in [Faces -> StencilStates]
  <2> HIDE DEF new
  <2> QED
    BY <1>2 DEF Fits, FixedStates
<1>4. Set(valid, "INVALID_ENUM", after, "PIPELINE")
  BY DEF StencilMaskSeparate, WithStencil
<1> HIDE DEF faces, valid
<1> QED
  BY <1>3, <1>4, StencilFits, SetSound

LEMMA StencilOpSeparateSound ==
    ASSUME Fits(fixed), NEW face, NEW fail, NEW depthFail, NEW pass,
           StencilOpSeparate(face, fail, depthFail, pass)
    PROVE  SettingSound
<1> DEFINE new(s) == [s EXCEPT !.fail = fail, !.depthFail = depthFail, !.pass = pass]
           faces == [f \in Faces |-> IF f \in Named(face) THEN new(fixed.stencil[f])
                                       ELSE fixed.stencil[f]]
           after == [fixed EXCEPT !.stencil = faces]
           valid == Named(face) # {} /\ {fail, depthFail, pass} \subseteq Operations
<1>2. valid => \A s \in StencilStates : new(s) \in StencilStates
  BY DEF StencilStates
<1>3. valid => faces \in [Faces -> StencilStates]
  <2> HIDE DEF new
  <2> QED
    BY <1>2 DEF Fits, FixedStates
<1>4. Set(valid, "INVALID_ENUM", after, "PIPELINE")
  BY DEF StencilOpSeparate, WithStencil
<1> HIDE DEF faces, valid
<1> QED
  BY <1>3, <1>4, StencilFits, SetSound

(* Every call that sets state.                                              *)
LEMMA NextFixedSound ==
    ASSUME Inputs, Fits(fixed), NextFixed
    PROVE  SettingSound
<1>0. ArgumentsAssumption
  BY DEF Inputs
<1>1. CASE SetRaster
  <2>1. CASE \E b \in Boxes : Viewport(b) \/ Scissor(b)
    BY <1>0, <2>1, ViewportSound, ScissorSound DEF ArgumentsAssumption
  <2>2. CASE \E p \in Pairs : DepthRange(p[1], p[2]) \/ PolygonOffset(p[1], p[2])
    <3>1. \A p \in Pairs : p[1] \in Float /\ p[2] \in Float
      BY <1>0 DEF ArgumentsAssumption
    <3> QED
      BY <2>2, <3>1, DepthRangeSound, PolygonOffsetSound
  <2>3. CASE \E x \in Numbers : LineWidth(x) \/ SampleCoverage(x, TRUE)
    <3>1. PICK x \in Numbers : LineWidth(x) \/ SampleCoverage(x, TRUE)
      BY <2>3
    <3>2. x \in Float
      BY <1>0 DEF ArgumentsAssumption
    <3> QED
      BY <3>1, <3>2, LineWidthSound, SampleCoverageSound
  <2>4. CASE \E t \in {"MIPMAP", "DERIVATIVE"}, m \in {"NICEST", "LINEAR"} : Hint(t, m)
    BY <2>4, HintSound
  <2>5. CASE \E p \in {"PACK", "UNPACK"}, n \in {3, 8} : PixelStore(p, n)
    BY <2>5, PixelStoreSound
  <2> QED
    BY <1>1, <2>1, <2>2, <2>3, <2>4, <2>5, EnableSound, CullFaceSound, FrontFaceSound
       DEF SetRaster
<1>2. CASE SetTests
  <2>1. \A s \in StencilFuncs : s[2] \in Int /\ s[3] \in Int
    BY <1>0 DEF ArgumentsAssumption
  <2>2. CASE \E d \in Numbers : ClearDepth(d)
    BY <1>0, <2>2, ClearDepthSound DEF ArgumentsAssumption
  <2>3. CASE \E s \in StencilFuncs : ClearStencil(s[2])
    BY <2>1, <2>3, ClearStencilSound
  <2>4. CASE \E f \in {"FRONT", "FRONT_AND_BACK", "LEFT"}, s \in StencilFuncs :
                StencilFuncSeparate(f, s[1], s[2], s[3]) \/ StencilMaskSeparate(f, s[3])
    BY <2>1, <2>4, StencilFuncSeparateSound, StencilMaskSeparateSound
  <2> QED
    BY <1>2, <2>2, <2>3, <2>4, EnableSound, DepthFuncSound, DepthMaskSound,
       StencilOpSeparateSound DEF SetTests
<1>3. CASE SetColors
  <2>1. CASE \E f \in BlendFuncs : BlendFuncSeparate(f)
    BY <2>1, BlendFuncSeparateSound
  <2>2. CASE \E e \in BlendEquations : BlendEquationSeparate(e)
    BY <2>2, BlendEquationSeparateSound
  <2>3. CASE \E c \in Colors : BlendColor(c) \/ ClearColor(c)
    BY <1>0, <2>3, BlendColorSound, ClearColorSound DEF ArgumentsAssumption
  <2>4. CASE \E m \in ColorMasks : ColorMask(m)
    BY <1>0, <2>4, ColorMaskSound DEF ArgumentsAssumption
  <2> QED
    BY <1>3, <2>1, <2>2, <2>3, <2>4, EnableSound, EnableExtensionSound DEF SetColors
<1> QED
  BY <1>1, <1>2, <1>3 DEF NextFixed

-----------------------------------------------------------------------------
(***************************************************************************)
(* What the last call told the device is what the present state says: a    *)
(* call that changes the state comes between two commands.                 *)
(***************************************************************************)
DrawLast == \E mode \in Modes : Accepted(mode) /\ command = DrawCommand(mode)
ClearLast ==
    \E mask \in SUBSET {"COLOR", "DEPTH", "STENCIL"} :
       /\ HasTarget
       /\ command = ClearCommand(fixed, "SCISSOR_TEST" \in enabled, Target, mask)
EmbeddingLast ==
    /\ surface # None
    /\ command = [ClearCommand(EmbeddingState, FALSE, EmbeddingTarget,
                                 {"COLOR", "DEPTH", "STENCIL"}) EXCEPT !.kind = "EMBEDDING"]
CommandCurrent == command = None \/ DrawLast \/ ClearLast \/ EmbeddingLast

TargetsType ==
    /\ surface = None \/ (surface \in Surfaces /\ ValidSurface(surface))
    /\ bound \in UserTargets \cup {None} /\ drawBack \in BOOLEAN
    /\ callbacks \in Devices /\ stores \in Programs

DrawingInv == Inputs /\ Fits(fixed) /\ TargetsType /\ CommandCurrent

StateSame == UNCHANGED <<enabled, fixed, surface, drawBack, bound, callbacks, stores>>

(* The same state says the same of the next command.                        *)
LEMMA TargetSame ==
    ASSUME UNCHANGED <<surface, drawBack, bound>>
    PROVE  HasTarget' = HasTarget /\ Target' = Target
  BY DEF HasTarget, Target, DefaultTarget, AlphaHidden

LEMMA KeySame ==
    ASSUME StateSame, NEW mode
    PROVE  Key(mode)' = Key(mode)
  BY DEF StateSame, Key, DepthTested, StencilTested, Target, DefaultTarget, AlphaHidden,
         PipelineDepthFormat, Constants, EffectiveMask, LogicalMask

LEMMA OutputsSame ==
    ASSUME StateSame
    PROVE  /\ Outputs' = Outputs /\ Luminant' = Luminant /\ Rewritable' = Rewritable
<1>1. Luminant' = Luminant
  BY DEF StateSame, Luminant, Target, DefaultTarget, AlphaHidden
<1>2. stores' = stores
  BY DEF StateSame
<1>3. Rewritable' = Rewritable
  BY <1>2 DEF Rewritable
<1>4. Replicated' = Replicated
  BY <1>2 DEF Replicated
<1> QED
  BY <1>1, <1>2, <1>3, <1>4 DEF Outputs

LEMMA DrawSame ==
    ASSUME StateSame, NEW mode
    PROVE  DrawCommand(mode)' = DrawCommand(mode) /\ Accepted(mode)' = Accepted(mode)
<1>1. RasterState' = RasterState
  BY DEF StateSame, RasterState, Target, DefaultTarget, AlphaHidden, RasterCallback,
         Clipped
<1>2. NativeDescriptor(Key(mode))' = NativeDescriptor(Key(mode))
  BY KeySame DEF NativeDescriptor, UsesConstant
<1>3. /\ DepthTested' = DepthTested /\ StencilTested' = StencilTested
      /\ HasTarget' = HasTarget /\ Target' = Target
  BY TargetSame DEF StateSame, DepthTested, StencilTested
<1>4. DrawCommand(mode)' = DrawCommand(mode)
  BY <1>1, <1>2, <1>3, OutputsSame DEF DrawCommand
<1>5. Creatable(Key(mode))' = Creatable(Key(mode))
  BY KeySame, OutputsSame DEF StateSame, Creatable, UsesConstant
<1>6. DrawStateSupported' = DrawStateSupported
  BY <1>3 DEF StateSame, DrawStateSupported, PassSupported, LegacySupported, Separate,
              RasterCallback, EffectiveMask, LogicalMask
<1> QED
  BY <1>3, <1>4, <1>5, <1>6 DEF Accepted

LEMMA ClearSame ==
    ASSUME StateSame, NEW mask
    PROVE  /\ ClearCommand(fixed, "SCISSOR_TEST" \in enabled, Target, mask)'
              = ClearCommand(fixed, "SCISSOR_TEST" \in enabled, Target, mask)
           /\ ClearCommand(EmbeddingState, FALSE, EmbeddingTarget, mask)'
              = ClearCommand(EmbeddingState, FALSE, EmbeddingTarget, mask)
  BY DEF StateSame, ClearCommand, EmbeddingState, EmbeddingTarget, Target, DefaultTarget,
         AlphaHidden

(* The target has the type of a framebuffer object.                         *)
Resolved == [format : STRING, logical : Logical, depth : DepthFormats \cup {None},
             stencil : DepthFormats \cup {None}, combined : BOOLEAN, writes : BOOLEAN,
             width : 1 .. MaxSize, height : 1 .. MaxSize]

LEMMA DefaultTargetType ==
    ASSUME Inputs, TargetsType, surface # None, NEW writes \in BOOLEAN
    PROVE  DefaultTarget(surface, writes) \in Resolved
<1>1. /\ surface.format \in STRING /\ surface.depthFormat \in DepthFormats \cup {None}
      /\ surface.width \in 1 .. MaxSize /\ surface.height \in 1 .. MaxSize
  BY DEF Inputs, TargetsType, TargetsAssumption, ValidSurface
<1> QED
  BY <1>1 DEF DefaultTarget, Resolved, Logical, DepthFormats

LEMMA TargetType ==
    ASSUME Inputs, TargetsType, HasTarget
    PROVE  Target \in Resolved
<1>1. CASE bound # None
  BY <1>1 DEF Inputs, TargetsType, TargetsAssumption, Target, Resolved
<1>2. CASE bound = None
  BY <1>2, DefaultTargetType DEF TargetsType, Target, HasTarget
<1> QED
  BY <1>1, <1>2

-----------------------------------------------------------------------------
(* The invariant: initially, and through every action.                      *)
LEMMA PairType == ASSUME NEW S, NEW a \in S, NEW b \in S PROVE <<a, b>> \in [1 .. 2 -> S]
  OBVIOUS

LEMMA QuadrupleType ==
    ASSUME NEW S, NEW a \in S, NEW b \in S, NEW c \in S, NEW d \in S
    PROVE  <<a, b, c, d>> \in [1 .. 4 -> S]
  OBVIOUS

LEMMA InitialFits == ASSUME Inputs PROVE Fits(InitialFixed)
<1>1. InitialStencil \in StencilStates
  BY DEF Inputs, NumbersAssumption, InitialStencil, StencilStates, Comparisons, Operations
<1>2. [f \in Faces |-> InitialStencil] \in [Faces -> StencilStates]
  BY <1>1
<1>3. One \in Int /\ 0 \in Int /\ 0 \in Float
  BY DEF Inputs, NumbersAssumption, Float
<1>4. /\ <<0, 0, 0, 0>> \in [1 .. 4 -> Int] /\ <<0, 0, 0, 0>> \in Color
      /\ <<0, One>> \in [1 .. 2 -> Int] /\ <<0, 0>> \in [1 .. 2 -> Int]
      /\ <<One, FALSE>> \in Int \X BOOLEAN
  BY <1>3, PairType, QuadrupleType DEF Color
<1>5. {"ONE", "ZERO"} \subseteq SourceFactors /\ "FUNC_ADD" \in AllEquations
  BY DEF SourceFactors, Factors, AllEquations
<1>6. /\ <<"ONE", "ZERO", "ONE", "ZERO">> \in [1 .. 4 -> SourceFactors]
      /\ <<"FUNC_ADD", "FUNC_ADD">> \in [1 .. 2 -> AllEquations]
  BY <1>5, PairType, QuadrupleType
<1>7. InitialFixed \in FixedStates
  <2> QED
    BY <1>2, <1>3, <1>4, <1>6
       DEF InitialFixed, FixedStates, Faces, Comparisons, Float, Channels, Hints
<1> QED
  BY <1>7 DEF InitialFixed, Fits

LEMMA SizedFits ==
    ASSUME NEW f, Fits(f), NEW w \in Int, NEW h \in Int
    PROVE  Fits([f EXCEPT !.viewport = <<0, 0, w, h>>, !.sized = TRUE])
<1>1. <<0, 0, w, h>> \in [1 .. 4 -> Int]
  OBVIOUS
<1> QED
  BY <1>1 DEF Fits, FixedStates

LEMMA CommandsInit == Inputs /\ DrawingInit => DrawingInv
<1> SUFFICES ASSUME Inputs, DrawingInit PROVE DrawingInv
  OBVIOUS
<1>1. TargetsType
  BY DEF DrawingInit, TargetsType
<1>2. Fits(fixed)
  <2>1. surface # None => surface.width \in Int /\ surface.height \in Int
    BY <1>1 DEF TargetsType, ValidSurface
  <2> QED
    BY <2>1, InitialFits, SizedFits DEF DrawingInit
<1>3. CommandCurrent
  BY DEF DrawingInit, CommandCurrent
<1> QED
  BY <1>1, <1>2, <1>3 DEF DrawingInv

LEMMA SetStateKeeps == ASSUME DrawingInv, SetState PROVE DrawingInv'
<1>1. TargetsType' /\ CommandCurrent'
  BY DEF DrawingInv, TargetsType, CommandCurrent, SetState, ValidSurface
<1>2. Fits(fixed)'
  BY NextFixedSound DEF DrawingInv, SetState, SettingSound
<1> QED
  BY <1>1, <1>2 DEF DrawingInv, Inputs

LEMMA SetTargetKeeps == ASSUME DrawingInv, SetTarget PROVE DrawingInv'
<1>1. TargetsType' /\ Fits(fixed)'
  <2>0. Fits(fixed)
    BY DEF DrawingInv
  <2>1. CASE \E s \in Surfaces \cup {None} : SetDefaultFramebuffer(s)
    <3>1. PICK s \in Surfaces \cup {None} : SetDefaultFramebuffer(s)
      BY <2>1
    <3>2. TargetsType'
      BY <3>1 DEF DrawingInv, TargetsType, SetDefaultFramebuffer, ValidSurface
    <3>3. fixed' # fixed => s.width \in Int /\ s.height \in Int
                            /\ fixed' = [fixed EXCEPT !.viewport = <<0, 0, s.width, s.height>>,
                                                      !.sized = TRUE]
      BY <3>1 DEF SetDefaultFramebuffer, ValidSurface
    <3>4. CASE fixed' = fixed
      BY <2>0, <3>2, <3>4
    <3>5. CASE fixed' # fixed
      <4>1. Fits([fixed EXCEPT !.viewport = <<0, 0, s.width, s.height>>, !.sized = TRUE])
        BY <2>0, <3>3, <3>5, SizedFits
      <4> QED
        BY <3>2, <3>3, <3>5, <4>1 DEF Fits
    <3> QED
      BY <3>4, <3>5
  <2>2. CASE \E t \in UserTargets \cup {None} : BindFramebuffer(t)
    BY <2>2 DEF DrawingInv, TargetsType, BindFramebuffer, ValidSurface
  <2>3. CASE \E on \in BOOLEAN : DrawBuffers(on)
    BY <2>3 DEF DrawingInv, TargetsType, DrawBuffers, ValidSurface
  <2> QED
    BY <2>1, <2>2, <2>3 DEF SetTarget
<1>2. CommandCurrent'
  BY DEF CommandCurrent, SetTarget, SetDefaultFramebuffer, BindFramebuffer, DrawBuffers
<1> QED
  BY <1>1, <1>2 DEF DrawingInv, Inputs

LEMMA StateSameKeeps ==
    ASSUME DrawingInv, StateSame, CommandCurrent'
    PROVE  DrawingInv'
  BY DEF DrawingInv, StateSame, TargetsType, Inputs, ValidSurface

LEMMA DrawKeeps == ASSUME DrawingInv, Draw PROVE DrawingInv'
<1>1. PICK mode : DrawArrays(mode)
  BY DEF Draw
<1>2. StateSame
  BY <1>1 DEF DrawArrays, StateSame
<1>3. command' = None \/ (mode \in Modes /\ Accepted(mode) /\ command' = DrawCommand(mode))
  BY <1>1 DEF DrawArrays, Unsubmitted
<1>4. CommandCurrent'
  BY <1>2, <1>3, DrawSame DEF CommandCurrent, DrawLast
<1> QED
  BY <1>2, <1>4, StateSameKeeps

LEMMA ClearPlanesKeeps == ASSUME DrawingInv, ClearPlanes PROVE DrawingInv'
<1>1. PICK mask : Clear(mask)
  BY DEF ClearPlanes
<1>2. StateSame
  BY <1>1 DEF Clear, StateSame
<1>3. \/ command' = None
      \/ /\ mask \in SUBSET {"COLOR", "DEPTH", "STENCIL"} /\ HasTarget
         /\ command' = ClearCommand(fixed, "SCISSOR_TEST" \in enabled, Target, mask)
  BY <1>1 DEF Clear, SubmitClear, Unsubmitted
<1>4. HasTarget' = HasTarget
  BY <1>2, TargetSame DEF StateSame
<1>5. CommandCurrent'
  BY <1>2, <1>3, <1>4, ClearSame DEF CommandCurrent, ClearLast
<1> QED
  BY <1>2, <1>5, StateSameKeeps

LEMMA EmbeddingClearKeeps == ASSUME DrawingInv, EmbeddingClear PROVE DrawingInv'
<1>1. StateSame
  BY DEF EmbeddingClear, StateSame
<1>2. \/ command' = None
      \/ /\ surface # None
         /\ command' = [ClearCommand(EmbeddingState, FALSE, EmbeddingTarget,
                                       {"COLOR", "DEPTH", "STENCIL"}) EXCEPT !.kind = "EMBEDDING"]
  BY DEF EmbeddingClear
<1>3. surface' = surface
  BY <1>1 DEF StateSame
<1>4. CommandCurrent'
  BY <1>1, <1>2, <1>3, ClearSame DEF CommandCurrent, EmbeddingLast
<1> QED
  BY <1>1, <1>4, StateSameKeeps

LEMMA CommandsNext == DrawingInv /\ [DrawingNext]_drawingVars => DrawingInv'
<1> SUFFICES ASSUME DrawingInv, [DrawingNext]_drawingVars PROVE DrawingInv'
  OBVIOUS
<1>1. CASE UNCHANGED drawingVars
  <2>1. StateSame /\ command' = command
    BY <1>1 DEF drawingVars, fixedVars, StateSame
  <2>2. surface' = surface /\ HasTarget' = HasTarget
    BY <2>1, TargetSame DEF StateSame
  <2>3. CommandCurrent'
    BY <2>1, <2>2, DrawSame, ClearSame DEF CommandCurrent, DrawLast, ClearLast, EmbeddingLast,
                                                DrawingInv
  <2> QED
    BY <2>1, <2>3, StateSameKeeps
<1> QED
  BY <1>1, SetStateKeeps, SetTargetKeeps, DrawKeeps, ClearPlanesKeeps, EmbeddingClearKeeps
     DEF DrawingNext

THEOREM DrawingInvHolds == DrawingSpec => []DrawingInv
<1>1. DrawingInit => DrawingInv
  BY CommandsInit, InputsHold
<1> QED
  BY <1>1, CommandsNext, PTL DEF DrawingSpec

-----------------------------------------------------------------------------
(***************************************************************************)
(* Regions.                                                                *)
(***************************************************************************)
LEMMA Kinds ==
    ASSUME DrawingInv, command # None
    PROVE  /\ command.kind = "DRAW" => DrawLast
           /\ command.kind = "CLEAR" => ClearLast
           /\ command.kind \notin {"CLEAR", "DRAW"} => EmbeddingLast
<1>1. DrawLast => command.kind = "DRAW"
  BY DEF DrawLast, DrawCommand
<1>2. ClearLast => command.kind = "CLEAR"
  BY DEF ClearLast, ClearCommand
<1>3. EmbeddingLast => command.kind = "EMBEDDING"
  BY DEF EmbeddingLast, ClearCommand
<1> QED
  BY <1>1, <1>2, <1>3 DEF DrawingInv, CommandCurrent

Whole(t) == <<0, 0, t.width, t.height>>

(* One side of a box, cut to a target of n pixels.                          *)
LEMMA SideExact ==
    ASSUME NEW a \in Int, NEW b \in Nat, NEW n \in Nat,
           NEW low, low = Within(a, 0, n), NEW high, high = Within(a + b, 0, n),
           NEW size, size = IF high < low THEN 0 ELSE high - low
    PROVE  /\ low \in Int /\ size \in Int
           /\ \A p \in 0 .. n - 1 : p \in low .. low + size - 1 <=> p \in a .. a + b - 1
  BY DEF Within

(* The scissor box cut to the target holds the pixels of the target that    *)
(* the box holds, for boxes anywhere.                                       *)
LEMMA ClippedExact ==
    ASSUME Target \in Resolved, NEW box \in [1 .. 4 -> Int], box[3] >= 0, box[4] >= 0
    PROVE  /\ Clipped(box, Target) \in [1 .. 4 -> Int]
           /\ Pixels(Clipped(box, Target))
              = {x \in Pixels(Whole(Target)) : x \in Pixels(box)}
<1> DEFINE w == Target.width
           h == Target.height
           c == Clipped(box, Target)
<1>1. w \in Nat /\ h \in Nat
  BY DEF Resolved
<1>2. /\ box[1] \in Int /\ box[2] \in Int /\ box[3] \in Nat /\ box[4] \in Nat
  OBVIOUS
<1>4. /\ c[1] = Within(box[1], 0, w) /\ c[2] = Within(box[2], 0, h)
      /\ c[3] = IF Within(box[1] + box[3], 0, w) < c[1] THEN 0
                ELSE Within(box[1] + box[3], 0, w) - c[1]
      /\ c[4] = IF Within(box[2] + box[4], 0, h) < c[2] THEN 0
                ELSE Within(box[2] + box[4], 0, h) - c[2]
      /\ c = <<c[1], c[2], c[3], c[4]>>
  BY DEF Clipped
<1>5. /\ c[1] \in Int /\ c[3] \in Int
      /\ \A p \in 0 .. w - 1 : p \in c[1] .. c[1] + c[3] - 1
                               <=> p \in box[1] .. box[1] + box[3] - 1
  <2> HIDE DEF w, h, c
  <2> QED
    BY <1>1, <1>2, <1>4, SideExact
<1>6. /\ c[2] \in Int /\ c[4] \in Int
      /\ \A p \in 0 .. h - 1 : p \in c[2] .. c[2] + c[4] - 1
                               <=> p \in box[2] .. box[2] + box[4] - 1
  <2> HIDE DEF w, h, c
  <2> QED
    BY <1>1, <1>2, <1>4, SideExact
<1>7. c \in [1 .. 4 -> Int]
  <2> HIDE DEF c
  <2> QED
    BY <1>4, <1>5, <1>6, QuadrupleType
<1>8. \A q \in [1 .. 4 -> Int] :
          Pixels(q) = {p \in (0 .. w - 1) \X (0 .. h - 1) :
                            /\ p[1] \in q[1] .. q[1] + q[3] - 1
                            /\ p[2] \in q[2] .. q[2] + q[4] - 1}
  BY DEF Pixels
<1>9. Pixels(Whole(Target)) = (0 .. w - 1) \X (0 .. h - 1)
  BY <1>1 DEF Pixels, Whole
<1>10. Pixels(c) = {x \in Pixels(Whole(Target)) : x \in Pixels(box)}
  <2> HIDE DEF c, w, h
  <2> QED
    BY <1>5, <1>6, <1>7, <1>8, <1>9
<1> QED
  BY <1>7, <1>10

LEMMA WholeExact == Pixels(Whole(Target)) = {x \in Pixels(Whole(Target)) : TRUE}
  OBVIOUS

(* What a device without the raster callbacks may be asked.                 *)
LEMMA RasterSound ==
    ASSUME DrawingInv, NEW mode, Accepted(mode), command = DrawCommand(mode)
    PROVE  /\ DeviceRaster.scissor = IF "SCISSOR_TEST" \in enabled
                                       THEN Clipped(fixed.scissor, Target) ELSE None
           /\ fixed.sized => DeviceRaster.viewport = fixed.viewport
           /\ DeviceRaster.dither = ("DITHER" \in enabled)
           /\ RasterCallback => RasterAsStated
<1>1. command.raster = RasterState
  BY DEF DrawCommand
<1>2. Target \in Resolved /\ fixed.scissor \in [1 .. 4 -> Int] /\ fixed.scissor[3] >= 0
      /\ fixed.scissor[4] >= 0
  BY TargetType DEF DrawingInv, Fits, FixedStates, Accepted
<1>3. Clipped(fixed.scissor, Target) \in [1 .. 4 -> Int]
  BY <1>2, ClippedExact
<1>4. DrawStateSupported
  BY DEF Accepted
<1>5. CASE RasterCallback
  <2> DEFINE s == IF "SCISSOR_TEST" \in enabled THEN Clipped(fixed.scissor, Target) ELSE None
             d == IF "raster_v2" \in callbacks THEN "DITHER" \in enabled ELSE TRUE
             fill == "POLYGON_OFFSET_FILL" \in enabled
             sampled == "SAMPLE_COVERAGE" \in enabled
             o == <<fill, fixed.offset[1], fixed.offset[2]>>
             v == <<sampled, fixed.coverage[1], fixed.coverage[2]>>
             r == [viewport |-> fixed.viewport, depthRange |-> fixed.depthRange, offset |-> o,
                   lineWidth |-> fixed.lineWidth, coverage |-> v, scissor |-> s, dither |-> d]
  <2>1. RasterState = r
    BY <1>5 DEF RasterState
  <2>2. s \in [1 .. 4 -> Int] \cup {None} /\ d \in BOOLEAN
    <3>1. s \in [1 .. 4 -> Int] \cup {None}
      BY <1>3
    <3>2. CASE "raster_v2" \in callbacks
      <4>1. d = ("DITHER" \in enabled)
        BY <3>2
      <4>2. ("DITHER" \in enabled) \in BOOLEAN
        OBVIOUS
      <4> QED
        BY ONLY <3>1, <4>1, <4>2
    <3>3. CASE "raster_v2" \notin callbacks
      BY <3>1, <3>3
    <3> QED
      BY <3>2, <3>3
  <2>3. o \in BOOLEAN \X Int \X Int /\ v \in BOOLEAN \X Int \X BOOLEAN
    <3>1. /\ fixed.offset[1] \in Int /\ fixed.offset[2] \in Int
          /\ fixed.coverage[1] \in Int /\ fixed.coverage[2] \in BOOLEAN
      BY DEF DrawingInv, Fits, FixedStates
    <3>2. (fill = TRUE \/ fill = FALSE) /\ (sampled = TRUE \/ sampled = FALSE)
      OBVIOUS
    <3> HIDE DEF fill, sampled
    <3> QED
      BY <3>1, <3>2
  <2>4. fixed.viewport \in [1 .. 4 -> Int] /\ fixed.depthRange \in [1 .. 2 -> Int]
        /\ fixed.lineWidth \in Int
    BY DEF DrawingInv, Fits, FixedStates
  <2>5. r # None
    <3> HIDE DEF s, d, o, v
    <3>1. r \in [viewport : [1 .. 4 -> Int], depthRange : [1 .. 2 -> Int],
                 offset : BOOLEAN \X Int \X Int, lineWidth : Int,
                 coverage : BOOLEAN \X Int \X BOOLEAN,
                 scissor : [1 .. 4 -> Int] \cup {None}, dither : BOOLEAN]
      BY <2>2, <2>3, <2>4
    <3> QED
      BY <3>1 DEF DrawingInv, Inputs, NoneAssumption
  <2>6. DeviceRaster = r
    <3> HIDE DEF r
    <3> QED
      BY <1>1, <2>1, <2>5 DEF DeviceRaster
  <2>7. d = ("DITHER" \in enabled)
    BY <1>4 DEF DrawStateSupported
  <2>8. RasterAsStated
    <3>1. /\ DeviceRaster.depthRange = fixed.depthRange /\ DeviceRaster.lineWidth = fixed.lineWidth
          /\ DeviceRaster.offset = o /\ DeviceRaster.coverage = v
      <4> HIDE DEF s, d, o, v
      <4> QED
        BY <2>6
    <3>2. (fill => o = <<TRUE, fixed.offset[1], fixed.offset[2]>>) /\ (~fill => ~o[1])
      BY Zenon
    <3>3. (sampled => v = <<TRUE, fixed.coverage[1], fixed.coverage[2]>>) /\ (~sampled => ~v[1])
      BY Zenon
    <3>4. /\ fill => DeviceRaster.offset = <<TRUE, fixed.offset[1], fixed.offset[2]>>
          /\ ~fill => ~DeviceRaster.offset[1]
      <4> HIDE DEF s, d, o, v, r, fill
      <4> QED
        BY <3>1, <3>2, Zenon
    <3>5. /\ sampled => DeviceRaster.coverage = <<TRUE, fixed.coverage[1], fixed.coverage[2]>>
          /\ ~sampled => ~DeviceRaster.coverage[1]
      <4> HIDE DEF s, d, o, v, r, sampled
      <4> QED
        BY <3>1, <3>3, Zenon
    <3> HIDE DEF s, d, o, v, r
    <3> QED
      BY <3>1, <3>4, <3>5, Zenon DEF RasterAsStated
  <2> QED
    BY <2>6, <2>7, <2>8
<1>6. CASE ~RasterCallback
  <2>1. RasterState = None
    BY <1>6 DEF RasterState
  <2>2. /\ DeviceRaster.viewport = <<0, 0, Target.width, Target.height>>
        /\ DeviceRaster.scissor = None /\ DeviceRaster.dither = TRUE
    BY <1>1, <2>1 DEF DeviceRaster
  <2>3. /\ "SCISSOR_TEST" \notin enabled /\ "DITHER" \in enabled
        /\ fixed.sized => fixed.viewport = <<0, 0, Target.width, Target.height>>
    BY <1>4, <1>6 DEF DrawStateSupported, RasterCallback
  <2> QED
    BY <1>6, <2>2, <2>3
<1> QED
  BY <1>5, <1>6

LEMMA DrawingInvRegions == DrawingInv => RegionsExact
<1> SUFFICES ASSUME DrawingInv PROVE RegionsExact
  OBVIOUS
<1> DEFINE cut == Clipped(fixed.scissor, Target)
           stated == {x \in Pixels(<<0, 0, Target.width, Target.height>>) :
                         "SCISSOR_TEST" \in enabled => x \in Pixels(fixed.scissor)}
<1>1. fixed.scissor \in [1 .. 4 -> Int] /\ fixed.scissor[3] >= 0 /\ fixed.scissor[4] >= 0
  BY DEF DrawingInv, Fits, FixedStates
<1>2. ASSUME HasTarget, NEW region,
             region = IF "SCISSOR_TEST" \in enabled THEN cut ELSE None
      PROVE  (IF region = None THEN Pixels(<<0, 0, Target.width, Target.height>>)
              ELSE Pixels(region)) = stated
  <2>1. Target \in Resolved
    BY <1>2, TargetType DEF DrawingInv
  <2>2. /\ cut \in [1 .. 4 -> Int]
        /\ Pixels(cut) = {x \in Pixels(Whole(Target)) : x \in Pixels(fixed.scissor)}
    BY <1>1, <2>1, ClippedExact
  <2>3. cut # None
    <3> HIDE DEF cut
    <3> QED
      BY <2>2 DEF DrawingInv, Inputs, NoneAssumption
  <2> HIDE DEF cut
  <2> QED
    BY <1>2, <2>2, <2>3 DEF Whole
<1>3. IsDraw =>
         /\ (IF DeviceRaster.scissor = None
             THEN Pixels(<<0, 0, Target.width, Target.height>>)
             ELSE Pixels(DeviceRaster.scissor)) = stated
         /\ fixed.sized => DeviceRaster.viewport = fixed.viewport
         /\ DeviceRaster.dither = ("DITHER" \in enabled)
  <2> HAVE IsDraw
  <2>1. PICK mode \in Modes : Accepted(mode) /\ command = DrawCommand(mode)
    BY Kinds DEF IsDraw, DrawLast
  <2>2. HasTarget
    BY <2>1 DEF Accepted
  <2> HIDE DEF cut, stated
  <2> QED
    BY <1>2, <2>1, <2>2, RasterSound DEF cut
<1>4. command # None /\ command.kind = "CLEAR" =>
         (IF command.region = None THEN Pixels(<<0, 0, Target.width, Target.height>>)
          ELSE Pixels(command.region)) = stated
  <2> HAVE command # None /\ command.kind = "CLEAR"
  <2>1. HasTarget /\ command.region = IF "SCISSOR_TEST" \in enabled THEN cut ELSE None
    BY Kinds DEF ClearCommand, ClearLast
  <2> HIDE DEF cut, stated
  <2> QED
    BY <1>2, <2>1
<1>5. command # None /\ command.kind = "EMBEDDING" => command.region = None
  BY Kinds DEF ClearCommand, EmbeddingLast
<1> QED
  BY <1>3, <1>4, <1>5 DEF RegionsExact

THEOREM RegionsExactHolds == DrawingSpec => []RegionsExact
  BY DrawingInvHolds, DrawingInvRegions, PTL

-----------------------------------------------------------------------------
LEMMA FullDevice == DrawingInv => FullDeviceDraws
<1> SUFFICES ASSUME DrawingInv, callbacks = Optional, HasTarget, ~DrawIsNoop,
                    NEW mode \in Modes
             PROVE  \/ Accepted(mode)
                    \/ "CULL_FACE" \in enabled /\ fixed.cullMode = "FRONT_AND_BACK"
                    \/ EffectiveMask(fixed, Target) = {} /\ ~DepthTested /\ ~StencilTested
                    \/ Luminant /\ ~Rewritable
  BY DEF FullDeviceDraws
<1>1. DrawStateSupported
  BY DEF DrawStateSupported, PassSupported, RasterCallback, Optional
<1>2. Target \in Resolved
  BY TargetType DEF DrawingInv
<1>3. PipelineDepthFormat = None => ~DepthTested /\ ~StencilTested
  BY DEF PipelineDepthFormat, DepthTested, StencilTested, DrawingInv, Inputs,
         NoneAssumption, DepthFormats
<1>4. Key(mode).cull = "FRONT_AND_BACK" =>
          "CULL_FACE" \in enabled /\ fixed.cullMode = "FRONT_AND_BACK"
  BY DEF Key, DrawingInv, Inputs, NoneAssumption
<1>5. Key(mode).mask = EffectiveMask(fixed, Target)
      /\ Key(mode).depthFormat = PipelineDepthFormat
  BY DEF Key
<1>6. \/ Creatable(Key(mode))
      \/ Luminant /\ ~Rewritable
      \/ Key(mode).cull = "FRONT_AND_BACK"
      \/ Key(mode).mask = {} /\ Key(mode).depthFormat = None
  BY DEF Creatable, Optional
<1> QED
  BY <1>1, <1>3, <1>4, <1>5, <1>6 DEF Accepted

(* A device that has every callback refuses a draw for three reasons only,  *)
(* and for no other state the calls can set: both faces culled while a test *)
(* is on, no color and no plane, a shader that stores the luminance twice.  *)
THEOREM FullDeviceDrawsHolds == DrawingSpec => []FullDeviceDraws
  BY DrawingInvHolds, FullDevice, PTL

-----------------------------------------------------------------------------
(***************************************************************************)
(* Channels: the physical ones that keep a logical one are written exactly *)
(* when the mask asks for it.                                              *)
(***************************************************************************)
LEMMA Positions ==
    /\ Position("R") = 1 /\ Position("G") = 2 /\ Position("B") = 3 /\ Position("A") = 4
<1> DEFINE names == <<"R", "G", "B", "A">>
<1>1. /\ names[1] = "R" /\ names[2] = "G" /\ names[3] = "B" /\ names[4] = "A"
      /\ \A i \in 1 .. 4 : i = 1 \/ i = 2 \/ i = 3 \/ i = 4
  OBVIOUS
<1>2. \A c, k : k \in 1 .. 4 /\ names[k] = c /\ (\A i \in 1 .. 4 : names[i] = c => i = k)
                => Position(c) = k
  BY DEF Position
<1> HIDE DEF names
<1> QED
  BY <1>1, <1>2

LEMMA MaskExact ==
    ASSUME Target \in Resolved, Fits(fixed), NEW mask, mask = EffectiveMask(fixed, Target)
    PROVE  /\ mask \subseteq UNION {Lanes(c) : c \in LogicalChannels(Target.logical)}
           /\ \A c \in LogicalChannels(Target.logical) : \A lane \in Lanes(c) :
                 (lane \in mask) = Requested(c)
<1>1. /\ fixed.colorMask \subseteq {"R", "G", "B", "A"} /\ Target.writes \in BOOLEAN
      /\ Target.logical \in Logical
  BY DEF Fits, FixedStates, Resolved, Channels
<1>2. ASSUME NEW c \in LogicalChannels(Target.logical), NEW lane \in Lanes(c)
      PROVE  lane \in mask <=> Requested(c)
  BY <1>1, <1>2 DEF EffectiveMask, LogicalMask, LogicalChannels, Lanes, Luminant,
                    Requested, Logical, Channels
<1>3. mask \subseteq UNION {Lanes(c) : c \in LogicalChannels(Target.logical)}
  <2> SUFFICES ASSUME NEW lane \in mask
               PROVE  \E c \in LogicalChannels(Target.logical) : lane \in Lanes(c)
    OBVIOUS
  <2> QED
    BY <1>1 DEF EffectiveMask, LogicalMask, LogicalChannels, Lanes, Luminant,
                Logical, Channels
<1>4. ASSUME NEW c \in LogicalChannels(Target.logical), NEW lane \in Lanes(c)
      PROVE  (lane \in mask) = Requested(c)
  BY <1>2, <1>4 DEF Requested
<1> QED
  BY <1>3, <1>4

-----------------------------------------------------------------------------
(* Clears.                                                                  *)
LEMMA ClearValues ==
    ASSUME Target \in Resolved, Fits(fixed),
           NEW c \in LogicalChannels(Target.logical), NEW lane \in Lanes(c),
           Finite(fixed.clearColor[Position(c)])
    PROVE  ClearColors(fixed, Target)[Position(lane)]
           = Fitted(fixed.clearColor[Position(c)])
  BY Positions DEF ClearColors, LogicalChannels, Lanes, Luminant, Fitted, Channels,
                   Logical, Resolved

LEMMA DrawingInvClears == DrawingInv => ClearsAsStated
<1> SUFFICES ASSUME DrawingInv, IsClear
             PROVE  ClearsAsStated
  BY DEF ClearsAsStated
<1>1. command # None /\ command.kind # "DRAW"
  BY DEF IsClear
<1>2. CASE command.kind = "CLEAR"
  <2>1. PICK mask \in SUBSET {"COLOR", "DEPTH", "STENCIL"} :
           /\ HasTarget
           /\ command = ClearCommand(fixed, "SCISSOR_TEST" \in enabled, Target, mask)
    BY <1>1, <1>2, Kinds DEF ClearLast
  <2>2. Target \in Resolved /\ Fits(fixed)
    BY <2>1, TargetType DEF DrawingInv
  <2>3. command.color # None =>
           /\ command.color.channels = EffectiveMask(fixed, Target)
           /\ command.color.values = ClearColors(fixed, Target)
    BY <2>1 DEF ClearCommand
  <2>4. command.depth # None =>
           /\ Target.depth # None /\ fixed.depthMask
           /\ command.depth = IF Finite(fixed.clearDepth) THEN Unit(fixed.clearDepth) ELSE 0
    BY <2>1 DEF ClearCommand
  <2>5. command.stencil # None =>
           /\ Target.stencil # None
           /\ command.stencil = <<fixed.clearStencil, fixed.stencil["FRONT"].write>>
    BY <2>1 DEF ClearCommand
  <2>6. (IF Finite(fixed.clearDepth) THEN Unit(fixed.clearDepth) ELSE 0) \in 0 .. One
    <3>1. fixed.clearDepth \in Float /\ 0 \in 0 .. One
      BY DEF DrawingInv, Fits, FixedStates, Inputs, NumbersAssumption
    <3>2. Finite(fixed.clearDepth) => Unit(fixed.clearDepth) \in 0 .. One
      <4> HAVE Finite(fixed.clearDepth)
      <4>1. fixed.clearDepth \in Int
        BY <3>1, FiniteInt
      <4> QED
        BY <4>1, UnitRange DEF DrawingInv, Inputs, NumbersAssumption
    <3> QED
      BY <3>1, <3>2
  <2>7. fixed.clearDepth \in 0 .. One =>
           Finite(fixed.clearDepth) /\ Unit(fixed.clearDepth) = fixed.clearDepth
    BY DEF DrawingInv, Inputs, NumbersAssumption, Finite, Unit, Within
  <2>8. command.depth # None =>
           /\ Target.depth # None /\ fixed.depthMask
           /\ command.depth \in 0 .. One
           /\ fixed.clearDepth \in 0 .. One => command.depth = fixed.clearDepth
    BY <2>4, <2>6, <2>7
  <2>9. command.color # None =>
           /\ command.color.channels
                \subseteq UNION {Lanes(c) : c \in LogicalChannels(Target.logical)}
           /\ \A c \in LogicalChannels(Target.logical) : \A lane \in Lanes(c) :
                /\ (lane \in command.color.channels) = Requested(c)
                /\ Finite(fixed.clearColor[Position(c)]) =>
                      command.color.values[Position(lane)]
                        = Fitted(fixed.clearColor[Position(c)])
    BY <2>2, <2>3, MaskExact, ClearValues
  <2> QED
    BY <1>2, <2>5, <2>8, <2>9 DEF ClearsAsStated
<1>3. CASE command.kind # "CLEAR"
  <2> DEFINE alpha == IF AlphaHidden(surface) THEN One ELSE 0
             f == EmbeddingState
             t == EmbeddingTarget
             c == ClearCommand(f, FALSE, t, {"COLOR", "DEPTH", "STENCIL"})
  <2>1. surface # None /\ command = [c EXCEPT !.kind = "EMBEDDING"]
    BY <1>1, <1>3, Kinds DEF EmbeddingLast
  <2>2. command.color = c.color /\ command.depth = c.depth /\ command.stencil = c.stencil
    BY <2>1 DEF ClearCommand
  <2>3. /\ f.colorMask = Channels /\ f.depthMask = TRUE /\ f.clearColor = <<0, 0, 0, alpha>>
        /\ f.clearDepth = One /\ f.clearStencil = 0 /\ f.stencil["FRONT"].write = StencilMax
    BY DEF DrawingInv, Fits, FixedStates, EmbeddingState, Faces, StencilStates
  <2>4. t.writes = TRUE /\ t.logical = "RGBA"
    BY DEF EmbeddingTarget, DefaultTarget
  <2>5. EffectiveMask(f, t) = Channels
    BY <2>3, <2>4 DEF EffectiveMask, LogicalMask
  <2>6. One \in Nat \ {0} /\ NotFinite \notin Int /\ alpha \in 0 .. One
    BY DEF DrawingInv, Inputs, NumbersAssumption
  <2>7. ClearColors(f, t) = <<0, 0, 0, alpha>>
    <3>1. \A x \in 0 .. One : Finite(x) /\ Unit(x) = x
      BY <2>6 DEF Finite, Unit, Within
    <3>2. [i \in 1 .. 4 |-> IF Finite(<<0, 0, 0, alpha>>[i])
                            THEN Unit(<<0, 0, 0, alpha>>[i]) ELSE 0] = <<0, 0, 0, alpha>>
      <4> HIDE DEF alpha
      <4>1. \A i \in 1 .. 4 : <<0, 0, 0, alpha>>[i] \in 0 .. One
        BY <2>6
      <4> QED
        BY <3>1, <4>1
    <3> HIDE DEF alpha, f, t
    <3> QED
      BY <2>3, <2>4, <3>2 DEF ClearColors
  <2>8. c.color = [channels |-> EffectiveMask(f, t), values |-> ClearColors(f, t)]
    BY DEF ClearCommand
  <2>9. c.depth \in {None, One}
    <3>1. Finite(One) /\ Unit(One) = One
      BY <2>6 DEF Finite, Unit, Within
    <3> HIDE DEF f, t
    <3> QED
      BY <2>3, <3>1 DEF ClearCommand
  <2>10. c.stencil \in {None, <<0, StencilMax>>}
    <3> HIDE DEF f, t
    <3> QED
      BY <2>3 DEF ClearCommand
  <2> HIDE DEF c, f, t, alpha
  <2>11. command.color = [channels |-> Channels, values |-> <<0, 0, 0, alpha>>]
    BY <2>2, <2>5, <2>7, <2>8
  <2> QED
    BY <1>3, <2>2, <2>9, <2>10, <2>11 DEF ClearsAsStated, alpha
<1> QED
  BY <1>2, <1>3

THEOREM ClearsAsStatedHolds == DrawingSpec => []ClearsAsStated
  BY DrawingInvHolds, DrawingInvClears, PTL

-----------------------------------------------------------------------------
(***************************************************************************)
(* Pipelines of draws.                                                     *)
(***************************************************************************)
(* The least of some numbers, and the greatest of some up to n.             *)
LEMMA Least ==
    ASSUME NEW T \in SUBSET Nat, T # {}
    PROVE  \E m \in T : \A k \in T : m <= k
<1>1. \E x \in T : \A y \in T : <<y, x>> \notin OpToRel(<, Nat)
  BY NatLessThanWellFounded, WFMin
<1>2. \A x, y \in Nat : x < y => <<x, y>> \in OpToRel(<, Nat)
  BY Zenon DEF OpToRel
<1>3. \A x \in T : x \in Nat
  OBVIOUS
<1>4. \E x \in T : \A y \in T : ~(y < x)
  BY <1>1, <1>2, <1>3, Zenon
<1> QED
  BY <1>3, <1>4

LEMMA Greatest ==
    ASSUME NEW n \in Nat, NEW T \in SUBSET (1 .. n), T # {}
    PROVE  \E m \in T : \A k \in T : k <= m
<1> DEFINE Down == {n - i : i \in T}
<1>1. Down \in SUBSET Nat 
  OBVIOUS
<1>5. Down # {}
  OBVIOUS
<1>2. PICK d \in Down : \A k \in Down : d <= k
  <2> HIDE DEF Down
  <2> QED BY <1>1, <1>5, Least
<1>3. PICK m \in T : d = n - m
  BY <1>2
<1>4. \A k \in T : n - k \in Down
  OBVIOUS
<1> QED
  BY <1>2, <1>3, <1>4

(* What is stored last in a component is one of its stores.                 *)
LEMMA StoredSomewhere ==
    ASSUME NEW seq, Len(seq) \in Nat, NEW c,
           NEW k \in 1 .. Len(seq), seq[k][1] = c
    PROVE  \E i \in 1 .. Len(seq) :
              /\ seq[i][1] = c /\ \A j \in 1 .. Len(seq) : seq[j][1] = c => j <= i
              /\ StoredLast(seq, c) = seq[i][2]
<1> DEFINE at == {i \in 1 .. Len(seq) : seq[i][1] = c}
           Last(i) == \A j \in at : j <= i
           chosen == CHOOSE i \in at : Last(i)
<1>1. at \in SUBSET (1 .. Len(seq)) /\ at # {}
  OBVIOUS
<1>2. \E i \in at : Last(i)
  <2> HIDE DEF at
  <2> QED
    BY <1>1, Greatest
<1>3. chosen \in at /\ Last(chosen)
  <2> HIDE DEF at, Last
  <2> QED
    BY <1>2
<1>4. StoredLast(seq, c) = seq[chosen][2]
  BY <1>1 DEF StoredLast
<1> HIDE DEF chosen
<1> QED
  BY <1>3, <1>4

LEMMA NotStored ==
    ASSUME NEW seq, NEW c, \A i \in 1 .. Len(seq) : seq[i][1] # c
    PROVE  StoredLast(seq, c) = None
  BY DEF StoredLast

(* The rewritten program stores the red value wherever it stored a color,   *)
(* and the alpha it stored.                                                 *)
LEMMA ReplicatedStores ==
    ASSUME stores \in Seq(Channels \X STRING), Rewritable
    PROVE  /\ \A lane \in {"R", "G", "B"} : StoredLast(stores, lane) # None =>
                  StoredLast(Replicated, lane) = StoredLast(stores, "R")
           /\ StoredLast(Replicated, "A") = StoredLast(stores, "A")
<1> DEFINE n == Len(stores)
           reds == {i \in 1 .. n : stores[i][1] = "R"}
           red == stores[CHOOSE i \in 1 .. n : stores[i][1] = "R"][2]
           new == [i \in 1 .. n |-> IF stores[i][1] \in {"G", "B"} THEN <<stores[i][1], red>>
                                    ELSE stores[i]]
<1>1. n \in Nat /\ \A i \in 1 .. n : stores[i] \in Channels \X STRING
  OBVIOUS
<1>2. Replicated = new
  BY DEF Replicated
<1>3. Len(new) = n
  <2> HIDE DEF n, red
  <2>1. \A i \in 1 .. n : new[i] = new[i]
    OBVIOUS
  <2> QED
    BY <1>1
<1>4. \A i \in 1 .. n : /\ new[i][1] = stores[i][1]
                        /\ new[i][2] = IF stores[i][1] \in {"G", "B"} THEN red ELSE stores[i][2]
  <2> HIDE DEF red, n
  <2> QED
    BY <1>1
<1>5. \A i, j \in reds : i = j
  BY DEF Rewritable
<1>6. \A r \in reds : red = stores[r][2]
  <2> SUFFICES ASSUME NEW r \in reds PROVE red = stores[r][2]
    OBVIOUS
  <2>1. (CHOOSE i \in 1 .. n : stores[i][1] = "R") \in reds
    OBVIOUS
  <2> HIDE DEF reds
  <2>2. (CHOOSE i \in 1 .. n : stores[i][1] = "R") = r
    BY <1>5, <2>1
  <2> QED
    BY <2>2
<1>7. \A i \in 1 .. n : stores[i][1] \in {"G", "B"} => reds # {}
  BY DEF Rewritable
<1> HIDE DEF red, new
<1>8. ASSUME NEW lane \in {"R", "G", "B"}, StoredLast(stores, lane) # None
      PROVE  StoredLast(new, lane) = StoredLast(stores, "R")
  <2>1. PICK k \in 1 .. n : stores[k][1] = lane
    BY <1>8, NotStored
  <2>2. PICK r \in 1 .. n : r \in reds
    BY <1>7, <2>1
  <2>3. PICK i \in 1 .. n : stores[i][1] = "R" /\ StoredLast(stores, "R") = stores[i][2]
    BY <1>1, <2>2, StoredSomewhere
  <2>4. PICK j \in 1 .. n : new[j][1] = lane /\ StoredLast(new, lane) = new[j][2]
    BY <1>1, <1>3, <1>4, <2>1, StoredSomewhere
  <2>5. new[j][2] = red
    BY <1>4, <1>6, <2>4
  <2>6. stores[i][2] = red
    BY <1>6, <2>3
  <2> QED
    BY <2>3, <2>4, <2>5, <2>6
<1>9. StoredLast(new, "A") = StoredLast(stores, "A")
  <2>1. CASE \E k \in 1 .. n : stores[k][1] = "A"
    <3>1. PICK k \in 1 .. n : stores[k][1] = "A"
      BY <2>1
    <3>2. PICK i \in 1 .. n : /\ stores[i][1] = "A" /\ StoredLast(stores, "A") = stores[i][2]
                              /\ \A j \in 1 .. n : stores[j][1] = "A" => j <= i
      BY <1>1, <3>1, StoredSomewhere
    <3>3. PICK m \in 1 .. n : /\ new[m][1] = "A" /\ StoredLast(new, "A") = new[m][2]
                              /\ \A j \in 1 .. n : new[j][1] = "A" => j <= m
      <4>1. Len(new) \in Nat /\ k \in 1 .. Len(new) /\ new[k][1] = "A"
        BY <1>1, <1>3, <1>4, <3>1
      <4>2. \E m \in 1 .. Len(new) :
               /\ new[m][1] = "A" /\ \A j \in 1 .. Len(new) : new[j][1] = "A" => j <= m
               /\ StoredLast(new, "A") = new[m][2]
        BY <4>1, StoredSomewhere
      <4> QED
        BY <1>3, <4>2
    <3>4. i = m
      BY <1>1, <1>4, <3>2, <3>3
    <3> QED
      BY <1>4, <3>2, <3>3, <3>4
  <2>2. CASE \A k \in 1 .. n : stores[k][1] # "A"
    <3>1. \A k \in 1 .. n : new[k][1] # "A"
      BY <1>4, <2>2
    <3> QED
      BY <1>3, <2>2, <3>1, NotStored
  <2> QED
    BY <2>1, <2>2
<1> QED
  BY <1>2, <1>8, <1>9

LEMMA DrawnOutputs ==
    ASSUME DrawingInv, HasTarget, Luminant => Rewritable,
           NEW c \in LogicalChannels(Target.logical), NEW lane \in Lanes(c),
           StoredLast(stores, lane) # None
    PROVE  StoredLast(Outputs, lane) = StoredLast(stores, c)
<1>1. stores \in Seq(Channels \X STRING)
  BY DEF DrawingInv, TargetsType, Inputs, TargetsAssumption
<1>2. CASE Luminant
  <2>1. c = "R" \/ c = "A"
    BY <1>2 DEF Luminant, LogicalChannels
  <2>2. (lane \in {"R", "G", "B"} /\ c = "R") \/ (lane = "A" /\ c = "A")
    <3>1. CASE c = "R"
      BY <1>2, <3>1 DEF Lanes
    <3>2. CASE c = "A"
      BY <1>2, <3>2 DEF Lanes
    <3> QED
      BY <2>1, <3>1, <3>2
  <2> QED
    BY <1>1, <1>2, <2>2, ReplicatedStores DEF Outputs
<1>3. CASE ~Luminant
  BY <1>3 DEF Outputs, Lanes
<1> QED
  BY <1>2, <1>3

LEMMA DrawnConstants ==
    ASSUME DrawingInv, HasTarget,
           NEW c \in LogicalChannels(Target.logical), NEW lane \in Lanes(c)
    PROVE  /\ Constants(Target.logical, Target.format)[Position(lane)]
              = Fitted(fixed.blendColor[Position(c)])
<1>1. Target.logical \in Logical
  BY TargetType DEF DrawingInv, Resolved
<1> QED
  BY <1>1, Positions DEF Constants, LogicalChannels, Lanes, Luminant, Fitted,
                         Channels, Logical

LEMMA ConstantsType ==
    ASSUME DrawingInv
    PROVE  Constants(Target.logical, Target.format) # None
<1> DEFINE c == fixed.blendColor
           red == Target.logical \in {"LUMINANCE", "LUMINANCE_ALPHA"}
           g == IF red THEN c[1] ELSE c[2]
           b == IF red THEN c[1] ELSE c[3]
           chosen == <<c[1], g, b, c[4]>>
<1>1. c[1] \in Int /\ g \in Int /\ b \in Int /\ c[4] \in Int
  BY DEF DrawingInv, Fits, FixedStates
<1> HIDE DEF g, b, c
<1>2. chosen \in [1 .. 4 -> Int]
  BY <1>1, QuadrupleType
<1> HIDE DEF chosen
<1>3. \A i \in 1 .. 4 : Unit(chosen[i]) \in Int
  BY <1>2, UnitRange DEF DrawingInv
<1>4. [i \in 1 .. 4 |-> Unit(chosen[i])] \in [1 .. 4 -> Int]
  BY <1>3
<1>5. Constants(Target.logical, Target.format) \in [1 .. 4 -> Int]
  BY <1>2, <1>4 DEF Constants, chosen, g, b, c, red
<1> QED
  BY <1>5 DEF DrawingInv, Inputs, NoneAssumption

LEMMA DrawnTests ==
    ASSUME DrawingInv, NEW mode, NEW p, p = NativeDescriptor(Key(mode))
    PROVE  /\ DeviceDepth(p) = IF "DEPTH_TEST" \in enabled /\ Target.depth # None
                                 THEN <<fixed.depthFunc, fixed.depthMask>>
                                 ELSE <<"ALWAYS", FALSE>>
           /\ DeviceStencil(p) = IF "STENCIL_TEST" \in enabled /\ Target.stencil # None
                                   THEN fixed.stencil ELSE None
           /\ p.depthCompare # None \/ p.stencil # None => DepthTested \/ StencilTested
<1> DEFINE front == fixed.stencil["FRONT"]
           back == fixed.stencil["BACK"]
<1>1. /\ fixed.depthFunc \in Comparisons /\ fixed.depthMask \in BOOLEAN
      /\ fixed.stencil \in [Faces -> StencilStates]
  BY DEF DrawingInv, Fits, FixedStates
<1>2. fixed.depthFunc # None /\ "ALWAYS" # None
  BY <1>1 DEF DrawingInv, Inputs, NoneAssumption, Comparisons
<1>3. front # None /\ back # None /\ fixed.stencil = [f \in Faces |-> fixed.stencil[f]]
  BY <1>1 DEF DrawingInv, Inputs, NoneAssumption, Faces
<1>4. /\ p.stencil = (IF StencilTested THEN front ELSE None)
      /\ p.back = (IF StencilTested /\ back # front THEN back ELSE None)
      /\ p.depthWrite = (DepthTested /\ fixed.depthMask)
  BY DEF NativeDescriptor, Key
<1>8. /\ DepthTested => p.depthCompare = fixed.depthFunc
      /\ ~DepthTested => p.depthCompare = None \/ p.depthCompare = "ALWAYS"
      /\ ~DepthTested /\ ~StencilTested => p.depthCompare = None
  <2>0. p.depthCompare = IF DepthTested THEN fixed.depthFunc
                         ELSE IF StencilTested /\ PipelineDepthFormat # "S8" THEN "ALWAYS"
                         ELSE None
    BY DEF NativeDescriptor, Key
  <2>1. CASE DepthTested
    BY <2>0, <2>1
  <2>2. CASE ~DepthTested /\ StencilTested /\ PipelineDepthFormat # "S8"
    BY <2>0, <2>2
  <2>3. CASE ~DepthTested /\ ~(StencilTested /\ PipelineDepthFormat # "S8")
    BY <2>0, <2>3
  <2> QED
    BY <2>1, <2>2, <2>3
<1>5. DeviceStencil(p) = IF StencilTested THEN fixed.stencil ELSE None
  <2>1. CASE ~StencilTested
    BY <1>4, <2>1 DEF DeviceStencil
  <2>2. CASE StencilTested
    <3>1. /\ p.stencil = front /\ p.stencil # None
          /\ \A f \in Faces : (IF f = "BACK" /\ p.back # None THEN p.back ELSE p.stencil)
                                = fixed.stencil[f]
      BY <1>3, <1>4, <2>2 DEF Faces
    <3>2. [f \in Faces |-> IF f = "BACK" /\ p.back # None THEN p.back ELSE p.stencil]
          = fixed.stencil
      BY <1>3, <3>1
    <3> QED
      BY <2>2, <3>1, <3>2 DEF DeviceStencil
  <2> QED
    BY <2>1, <2>2
<1>6. DeviceDepth(p) = IF DepthTested THEN <<fixed.depthFunc, fixed.depthMask>>
                         ELSE <<"ALWAYS", FALSE>>
  <2>1. DepthTested => p.depthWrite = fixed.depthMask
    BY <1>1, <1>4
  <2>2. ~DepthTested => p.depthWrite = FALSE
    BY <1>4
  <2> QED
    BY <1>2, <1>8, <2>1, <2>2 DEF DeviceDepth
<1>7. p.depthCompare # None \/ p.stencil # None => DepthTested \/ StencilTested
  BY <1>4, <1>8
<1> QED
  BY <1>5, <1>6, <1>7 DEF DepthTested, StencilTested

LEMMA DrawingInvDraws == DrawingInv => DrawsAsStated
<1> SUFFICES ASSUME DrawingInv, IsDraw PROVE DrawsAsStated
  BY DEF DrawsAsStated
<1>1. PICK mode \in Modes : Accepted(mode) /\ command = DrawCommand(mode)
  BY Kinds DEF IsDraw, DrawLast
<1> DEFINE key == Key(mode)
           p == NativeDescriptor(key)
<1>2. /\ command.pipeline = p /\ command.outputs = Outputs
      /\ command.planes = IF ~DepthTested /\ ~StencilTested THEN {}
                          ELSE {q \in {"DEPTH", "STENCIL"} :
                                 (IF q = "DEPTH" THEN Target.depth ELSE Target.stencil) # None}
  BY <1>1 DEF DrawCommand
<1>3. HasTarget /\ (Luminant => Rewritable) /\ Target \in Resolved /\ Fits(fixed)
  BY <1>1, TargetType DEF Accepted, Creatable, DrawingInv
<1>4. /\ p.mask = EffectiveMask(fixed, Target) /\ p.front = fixed.frontFace
      /\ p.cull = IF "CULL_FACE" \in enabled THEN fixed.cullMode ELSE None
      /\ p.blend = IF "BLEND" \in enabled THEN <<fixed.blendFunc, fixed.blendEquation>> ELSE None
      /\ p.constants = IF UsesConstant(key)
                       THEN Constants(Target.logical, Target.format) ELSE None
      /\ key.blend = p.blend
  BY DEF NativeDescriptor, Key
<1>5. DepthTested \/ StencilTested => command.planes # {}
  BY <1>2 DEF DepthTested, StencilTested
<1>6. "BLEND" \in enabled => <<fixed.blendFunc, fixed.blendEquation>> # None
  <2>1. <<fixed.blendFunc, fixed.blendEquation>>
           \in [1 .. 4 -> SourceFactors] \X [1 .. 2 -> AllEquations]
    BY <1>3 DEF Fits, FixedStates
  <2> QED
    BY <2>1 DEF DrawingInv, Inputs, NoneAssumption
<1>7. "BLEND" \in enabled /\ (\E i \in 1 .. 4 : fixed.blendFunc[i] \in ConstantFactors) =>
          p.constants # None
  <2> HIDE DEF key, p
  <2> QED
    BY <1>4, <1>6, ConstantsType DEF UsesConstant
<1>8. /\ DeviceDepth(p) = IF "DEPTH_TEST" \in enabled /\ Target.depth # None
                            THEN <<fixed.depthFunc, fixed.depthMask>> ELSE <<"ALWAYS", FALSE>>
      /\ DeviceStencil(p) = IF "STENCIL_TEST" \in enabled /\ Target.stencil # None
                              THEN fixed.stencil ELSE None
      /\ p.depthCompare # None \/ p.stencil # None => command.planes # {}
  BY <1>5, DrawnTests
<1> HIDE DEF p, key
<1>9. /\ p.mask \subseteq UNION {Lanes(c) : c \in LogicalChannels(Target.logical)}
      /\ \A c \in LogicalChannels(Target.logical) : \A lane \in Lanes(c) :
            (lane \in p.mask) = Requested(c)
  BY <1>3, <1>4, MaskExact
<1>10. \A c \in LogicalChannels(Target.logical) : \A lane \in Lanes(c) :
          /\ StoredLast(stores, lane) # None =>
                StoredLast(Outputs, lane) = StoredLast(stores, c)
          /\ p.constants # None =>
                p.constants[Position(lane)] = Fitted(fixed.blendColor[Position(c)])
  BY <1>3, <1>4, DrawnOutputs, DrawnConstants
<1>11. RasterCallback => RasterAsStated
  BY <1>1, RasterSound
<1> QED
  BY <1>2, <1>4, <1>7, <1>8, <1>9, <1>10, <1>11 DEF DrawsAsStated

THEOREM DrawsAsStatedHolds == DrawingSpec => []DrawsAsStated
  BY DrawingInvHolds, DrawingInvDraws, PTL

-----------------------------------------------------------------------------
(***************************************************************************)
(* What changes the next draw is marked.                                   *)
(***************************************************************************)
(* The fields a pipeline and a raster state are made of determine them.     *)
LEMMA KeyDetermined ==
    ASSUME PipelineKept, Target' = Target, NEW mode
    PROVE  Key(mode)' = Key(mode)
<1>1. \A c : c # "SCISSOR_TEST" => (c \in enabled' <=> c \in enabled)
  BY DEF PipelineKept
<1>2. /\ ("DEPTH_TEST" \in enabled' <=> "DEPTH_TEST" \in enabled)
      /\ ("STENCIL_TEST" \in enabled' <=> "STENCIL_TEST" \in enabled)
      /\ ("BLEND" \in enabled' <=> "BLEND" \in enabled)
      /\ ("CULL_FACE" \in enabled' <=> "CULL_FACE" \in enabled)
  BY <1>1
<1>3. /\ fixed'.cullMode = fixed.cullMode /\ fixed'.frontFace = fixed.frontFace
      /\ fixed'.depthFunc = fixed.depthFunc /\ fixed'.depthMask = fixed.depthMask
      /\ fixed'.stencil = fixed.stencil /\ fixed'.blendFunc = fixed.blendFunc
      /\ fixed'.blendEquation = fixed.blendEquation /\ fixed'.blendColor = fixed.blendColor
      /\ fixed'.colorMask = fixed.colorMask
  BY DEF PipelineKept, PipelineFields
<1>4. (DepthTested' <=> DepthTested) /\ (StencilTested' <=> StencilTested)
  BY <1>2 DEF DepthTested, StencilTested
<1>5. PipelineDepthFormat' = PipelineDepthFormat
  BY <1>4 DEF PipelineDepthFormat
<1>6. Constants(Target.logical, Target.format)'
      = Constants(Target.logical, Target.format)
  BY <1>3 DEF Constants
<1>7. EffectiveMask(fixed, Target)' = EffectiveMask(fixed, Target)
  BY <1>3 DEF EffectiveMask
<1> QED
  BY <1>2, <1>3, <1>4, <1>5, <1>6, <1>7 DEF Key

LEMMA RasterDetermined ==
    ASSUME RasterKept, Target' = Target, callbacks' = callbacks
    PROVE  RasterState' = RasterState
<1>1. /\ fixed'.viewport = fixed.viewport /\ fixed'.scissor = fixed.scissor
      /\ fixed'.depthRange = fixed.depthRange /\ fixed'.lineWidth = fixed.lineWidth
      /\ fixed'.offset = fixed.offset /\ fixed'.coverage = fixed.coverage
      /\ enabled' = enabled
  BY DEF RasterKept, RasterFields
<1> QED
  BY <1>1 DEF RasterState, RasterCallback

(* Nothing of what a draw is made of changed without its mark.              *)
MarkedWhenChanged ==
    /\ {"PIPELINE", "FRAMEBUFFER"} \cap dirty' = {} => PipelineKept /\ Target' = Target
    /\ {"PIPELINE", "FRAMEBUFFER", "VIEWPORT"} \cap dirty' = {} =>
          RasterKept /\ Target' = Target /\ callbacks' = callbacks

LEMMA StateSameMarks == ASSUME StateSame PROVE MarkedWhenChanged
  BY TargetSame DEF StateSame, MarkedWhenChanged, PipelineKept, RasterKept

LEMMA SetTargetMarks == ASSUME DrawingInv, SetTarget PROVE MarkedWhenChanged
<1>1. enabled' = enabled /\ callbacks' = callbacks
  BY DEF SetTarget, SetDefaultFramebuffer, BindFramebuffer, DrawBuffers
<1>2. CASE \E s \in Surfaces \cup {None} : SetDefaultFramebuffer(s)
  <2>1. PICK s \in Surfaces \cup {None} : SetDefaultFramebuffer(s)
    BY <1>2
  <2>2. "FRAMEBUFFER" \in dirty' \/ (surface' = surface /\ fixed' = fixed)
    BY <2>1 DEF SetDefaultFramebuffer
  <2>3. drawBack' = drawBack /\ bound' = bound
    BY <2>1 DEF SetDefaultFramebuffer
  <2> QED
    BY <1>1, <2>2, <2>3, TargetSame DEF MarkedWhenChanged, PipelineKept, RasterKept
<1>3. CASE \E t \in UserTargets \cup {None} : BindFramebuffer(t)
  BY <1>1, <1>3, TargetSame DEF BindFramebuffer, MarkedWhenChanged, PipelineKept, RasterKept
<1>4. CASE \E on \in BOOLEAN : DrawBuffers(on)
  BY <1>1, <1>4, TargetSame DEF DrawBuffers, MarkedWhenChanged, PipelineKept, RasterKept
<1> QED
  BY <1>2, <1>3, <1>4 DEF SetTarget

LEMMA SetStateMarks == ASSUME DrawingInv, SetState PROVE MarkedWhenChanged
<1>1. SettingSound
  BY NextFixedSound DEF DrawingInv, SetState
<1>2. Target' = Target /\ callbacks' = callbacks
  BY TargetSame DEF SetState
<1> QED
  BY <1>1, <1>2 DEF SettingSound, MarkedWhenChanged

LEMMA NextMarks == ASSUME DrawingInv, [DrawingNext]_drawingVars PROVE MarkedWhenChanged
<1>1. Draw => StateSame
  BY DEF Draw, DrawArrays, StateSame
<1>2. ClearPlanes => StateSame
  BY DEF ClearPlanes, Clear, StateSame
<1>3. EmbeddingClear => StateSame
  BY DEF EmbeddingClear, StateSame
<1>4. UNCHANGED drawingVars => StateSame
  BY DEF drawingVars, fixedVars, StateSame
<1> QED
  BY <1>1, <1>2, <1>3, <1>4, StateSameMarks, SetTargetMarks, SetStateMarks DEF DrawingNext

LEMMA MarkedChanges ==
    ASSUME MarkedWhenChanged
    PROVE  /\ {"PIPELINE", "FRAMEBUFFER"} \cap dirty' = {} =>
                 \A mode \in Modes : Key(mode)' = Key(mode)
           /\ {"PIPELINE", "FRAMEBUFFER", "VIEWPORT"} \cap dirty' = {} =>
                 RasterState' = RasterState
  BY KeyDetermined, RasterDetermined DEF MarkedWhenChanged

(* A call that changes the pipeline key of the next draw marks PIPELINE or  *)
(* FRAMEBUFFER, and one that changes its raster state marks one of these or *)
(* VIEWPORT.                                                                *)
THEOREM ChangesMarkedHolds == DrawingSpec => ChangesMarked
<1>1. DrawingInv /\ [DrawingNext]_drawingVars =>
          [HasTarget /\ HasTarget' /\ command' = None =>
             /\ {"PIPELINE", "FRAMEBUFFER"} \cap dirty' = {} =>
                   \A mode \in Modes : Key(mode)' = Key(mode)
             /\ {"PIPELINE", "FRAMEBUFFER", "VIEWPORT"} \cap dirty' = {} =>
                   RasterState' = RasterState]_drawingVars
  BY NextMarks, MarkedChanges
<1> QED
  BY <1>1, DrawingInvHolds, PTL DEF DrawingSpec, ChangesMarked

-----------------------------------------------------------------------------
(* The half of ReportsTrue that says nothing of what is enabled.            *)
LEMMA DrawingInvPlanes == DrawingInv => PlanesReported
<1> SUFFICES ASSUME DrawingInv PROVE PlanesReported
  OBVIOUS
<1>1. command # None /\ command.kind = "EMBEDDING" =>
         /\ (command.depth # None) = (DepthBits > 0)
         /\ (command.stencil # None) = (StencilBits > 0)
  <2> HAVE command # None /\ command.kind = "EMBEDDING"
  <2> DEFINE f == EmbeddingState
             t == EmbeddingTarget
             c == ClearCommand(f, FALSE, t, {"COLOR", "DEPTH", "STENCIL"})
  <2>1. surface # None /\ command = [c EXCEPT !.kind = "EMBEDDING"]
    BY Kinds DEF EmbeddingLast
  <2>2. command.depth = c.depth /\ command.stencil = c.stencil
    BY <2>1 DEF ClearCommand
  <2>3. f.depthMask = TRUE /\ f.clearDepth = One
        /\ f.clearStencil = 0 /\ f.stencil["FRONT"].write = StencilMax
    BY DEF DrawingInv, Fits, FixedStates, EmbeddingState, Faces, StencilStates
  <2>4. /\ t.depth = (IF surface.flags = {} \/ "DEPTH" \in surface.flags
                      THEN surface.depthFormat ELSE None)
        /\ t.stencil = (IF (surface.flags = {} /\ surface.depthFormat = "D32S8")
                           \/ "STENCIL" \in surface.flags THEN surface.depthFormat ELSE None)
    BY DEF EmbeddingTarget, DefaultTarget
  <2>5. ValidSurface(surface) /\ "D32S8" # None
    BY <2>1 DEF DrawingInv, TargetsType, Inputs, NoneAssumption, DepthFormats
  <2>6. /\ One \in Int /\ Finite(One) /\ Unit(One) = One /\ One # None
        /\ <<0, StencilMax>> # None
    BY DEF DrawingInv, Inputs, NumbersAssumption, NoneAssumption, Finite, Unit, Within
  <2> HIDE DEF f, t
  <2>7. c.depth # None <=> t.depth # None
    BY <2>3, <2>6 DEF ClearCommand
  <2>8. c.stencil # None <=> t.stencil # None
    BY <2>3, <2>6 DEF ClearCommand
  <2> HIDE DEF c
  <2>9. DepthBits > 0 <=> t.depth # None
    BY <2>1, <2>4, <2>5 DEF DepthBits, ValidSurface
  <2>10. StencilBits > 0 <=> t.stencil # None
    BY <2>1, <2>4, <2>5 DEF StencilBits, ValidSurface
  <2> QED
    BY <2>2, <2>7, <2>8, <2>9, <2>10
<1>2. IsDraw /\ bound = None =>
         /\ DeviceStencil(command.pipeline) # None => StencilBits > 0
         /\ "DEPTH_TEST" \in enabled => (DepthBits > 0) = ("DEPTH" \in command.planes)
         /\ AlphaBits > 0 /\ "A" \in fixed.colorMask /\ drawBack =>
               "A" \in command.pipeline.mask
         /\ "A" \in command.pipeline.mask => ~AlphaHidden(surface)
  <2> HAVE IsDraw /\ bound = None
  <2>1. PICK mode \in Modes : Accepted(mode) /\ command = DrawCommand(mode)
    BY Kinds DEF IsDraw, DrawLast
  <2> DEFINE p == NativeDescriptor(Key(mode))
  <2>2. /\ command.pipeline = p
        /\ command.planes = IF ~DepthTested /\ ~StencilTested THEN {}
                            ELSE {q \in {"DEPTH", "STENCIL"} :
                                    (IF q = "DEPTH" THEN Target.depth ELSE Target.stencil)
                                    # None}
        /\ p.mask = EffectiveMask(fixed, Target)
    BY <2>1 DEF DrawCommand, NativeDescriptor, Key
  <2>3. surface # None /\ Target = DefaultTarget(surface, drawBack)
    BY <2>1 DEF Accepted, HasTarget, Target
  <2>4. ValidSurface(surface) /\ "D32S8" # None
    BY <2>3 DEF DrawingInv, TargetsType, Inputs, NoneAssumption, DepthFormats
  <2>5. /\ Target.depth = (IF surface.flags = {} \/ "DEPTH" \in surface.flags
                             THEN surface.depthFormat ELSE None)
        /\ Target.stencil = (IF (surface.flags = {} /\ surface.depthFormat = "D32S8")
                                  \/ "STENCIL" \in surface.flags
                               THEN surface.depthFormat ELSE None)
        /\ Target.logical = (IF AlphaHidden(surface) THEN "RGB" ELSE "RGBA")
        /\ Target.writes = drawBack
    BY <2>3 DEF DefaultTarget
  <2>6. DepthBits > 0 <=> Target.depth # None
    BY <2>3, <2>4, <2>5 DEF DepthBits, ValidSurface
  <2>7. StencilBits > 0 <=> Target.stencil # None
    BY <2>3, <2>4, <2>5 DEF StencilBits, ValidSurface
  <2>8. DeviceStencil(p) # None => StencilBits > 0
    BY <2>7, DrawnTests
  <2>9. "DEPTH_TEST" \in enabled => (DepthBits > 0 <=> "DEPTH" \in command.planes)
    BY <2>2, <2>6 DEF DepthTested
  <2>10. AlphaBits > 0 => ~AlphaHidden(surface)
    BY <2>3 DEF AlphaBits
  <2>11. /\ AlphaBits > 0 /\ "A" \in fixed.colorMask /\ drawBack => "A" \in p.mask
         /\ "A" \in p.mask => ~AlphaHidden(surface)
    BY <2>2, <2>5, <2>10 DEF EffectiveMask, LogicalMask
  <2> QED
    BY <2>2, <2>8, <2>9, <2>11
<1> QED
  BY <1>1, <1>2 DEF PlanesReported

-----------------------------------------------------------------------------
(***************************************************************************)
(* What a query reports, the call that sets it takes back: the other half  *)
(* of ReportsTrue, of every step of such a call.  It needs the ranges the  *)
(* calls leave their fields in, some of which depend on the gates that     *)
(* have been opened: an equation of a gate, a color that was not clamped.  *)
(***************************************************************************)
NumbersFit(f) ==
    /\ {f.viewport[3], f.viewport[4]} \subseteq 0 .. MaxSize
    /\ {f.depthRange[1], f.depthRange[2], f.coverage[1]} \subseteq 0 .. One
    /\ f.lineWidth \in One .. MaxWidth /\ f.clearStencil \in 0 .. StencilMax
BlendingFits(f, open) ==
    /\ {f.blendFunc[2], f.blendFunc[4]} \subseteq Factors
    /\ {f.blendEquation[1], f.blendEquation[2]} \cap {"MIN", "MAX"} # {} =>
          "blend_minmax" \in open
    /\ {"float_color_buffer", "half_float_color_buffer"} \cap open = {} =>
          \A i \in 1 .. 4 : f.blendColor[i] \in 0 .. One
Restorable(f, open) == NumbersFit(f) /\ BlendingFits(f, open)

(* The fields this is about.                                                *)
NumberFields(f) == <<f.viewport, f.depthRange, f.coverage, f.lineWidth, f.clearStencil>>
BlendFields(f) == <<f.blendFunc, f.blendEquation, f.blendColor>>

(* Other fields do not matter, and a gate that is opened refuses nothing.   *)
LEMMA RestorableSame ==
    ASSUME NEW f, NEW open, Restorable(f, open), NEW g, NEW more, open \subseteq more,
           NumberFields(g) = NumberFields(f), BlendFields(g) = BlendFields(f)
    PROVE  Restorable(g, more)
  BY DEF Restorable, NumbersFit, BlendingFits, NumberFields, BlendFields

LEMMA SetRestorable ==
    ASSUME Restorable(fixed, gates), NEW valid, NEW code, NEW after, NEW bit,
           Set(valid, code, after, bit) \/ Keep(valid, code, after),
           valid => Restorable(after, gates)
    PROVE  Restorable(fixed, gates)'
<1>1. gates' = gates /\ (fixed' = fixed \/ (valid /\ fixed' = after))
  BY DEF Set, Keep, Refused
<1> QED
  BY <1>1

RangesKept ==
    /\ gates \subseteq gates'
    /\ NumberFields(fixed') = NumberFields(fixed) /\ BlendFields(fixed') = BlendFields(fixed)

(* The calls about fields of no such range.                                 *)
LEMMA OthersKeepRanges ==
    ASSUME Fits(fixed), NEW a, NEW b,
           \/ FrontFace(a) \/ CullFace(a) \/ DepthFunc(a) \/ DepthMask(a) \/ ColorMask(a)
           \/ PolygonOffset(a, b) \/ ClearColor(a) \/ ClearDepth(a) \/ Hint(a, b)
           \/ PixelStore(a, b) \/ Enable(a) \/ Disable(a) \/ EnableExtension(a)
    PROVE  RangesKept
<1>0. fixed \in FixedStates
  BY DEF Fits
<1>1. CASE FrontFace(a)
  BY <1>0, <1>1 DEF FrontFace, Set, Refused, RangesKept, FixedStates,
                   NumberFields, BlendFields
<1>2. CASE CullFace(a)
  BY <1>0, <1>2 DEF CullFace, Set, Refused, RangesKept, FixedStates,
                   NumberFields, BlendFields
<1>3. CASE DepthFunc(a)
  BY <1>0, <1>3 DEF DepthFunc, Set, Refused, RangesKept, FixedStates,
                   NumberFields, BlendFields
<1>4. CASE DepthMask(a)
  BY <1>0, <1>4 DEF DepthMask, Set, Refused, RangesKept, FixedStates,
                   NumberFields, BlendFields
<1>5. CASE ColorMask(a)
  BY <1>0, <1>5 DEF ColorMask, Set, Refused, RangesKept, FixedStates,
                   NumberFields, BlendFields
<1>6. CASE PolygonOffset(a, b)
  BY <1>0, <1>6 DEF PolygonOffset, Set, Refused, RangesKept, FixedStates,
                   NumberFields, BlendFields
<1>7. CASE ClearColor(a)
  BY <1>0, <1>7 DEF ClearColor, Keep, Refused, RangesKept, FixedStates,
                   NumberFields, BlendFields
<1>8. CASE ClearDepth(a)
  BY <1>0, <1>8 DEF ClearDepth, Keep, Refused, RangesKept, FixedStates,
                   NumberFields, BlendFields
<1>9. CASE Hint(a, b)
  BY <1>0, <1>9 DEF Hint, Keep, Refused, RangesKept, FixedStates,
                   NumberFields, BlendFields
<1>10. CASE PixelStore(a, b)
  BY <1>0, <1>10 DEF PixelStore, Keep, Refused, RangesKept, FixedStates,
                   NumberFields, BlendFields
<1>11. CASE Enable(a) \/ Disable(a) \/ EnableExtension(a)
  BY <1>0, <1>11 DEF Enable, Disable, EnableExtension, RangesKept, FixedStates,
                   NumberFields, BlendFields
<1> QED
  BY <1>1, <1>2, <1>3, <1>4, <1>5, <1>6, <1>7, <1>8, <1>9, <1>10, <1>11

LEMMA StencilKeepsRanges ==
    ASSUME Fits(fixed), NEW valid, NEW code, NEW x,
           Set(valid, code, [fixed EXCEPT !.stencil = x], "PIPELINE")
    PROVE  RangesKept
<1>1. gates' = gates /\ (fixed' = fixed \/ fixed' = [fixed EXCEPT !.stencil = x])
  BY DEF Set, Refused
<1> QED
  BY <1>1 DEF RangesKept, Fits, FixedStates, NumberFields, BlendFields

LEMMA StencilMaskSeparateKeepsRanges ==
    ASSUME Fits(fixed), NEW face, NEW mask,
           StencilMaskSeparate(face, mask)
    PROVE  RangesKept
<1> DEFINE new(s) == [s EXCEPT !.write = Planes(mask)]
           faces == [f \in Faces |-> IF f \in Named(face) THEN new(fixed.stencil[f])
                                       ELSE fixed.stencil[f]]
           after == [fixed EXCEPT !.stencil = faces]
           valid == Named(face) # {}
<1>1. Set(valid, "INVALID_ENUM", after, "PIPELINE")
  BY DEF StencilMaskSeparate, WithStencil
<1> HIDE DEF faces, valid
<1> QED
  BY <1>1, StencilKeepsRanges

LEMMA StencilFuncSeparateKeepsRanges ==
    ASSUME Fits(fixed), NEW face, NEW func, NEW reference, NEW mask,
           StencilFuncSeparate(face, func, reference, mask)
    PROVE  RangesKept
<1> DEFINE new(s) == [s EXCEPT !.func = func, !.mask = Planes(mask),
                               !.ref = Within(reference, 0, StencilMax)]
           faces == [f \in Faces |-> IF f \in Named(face) THEN new(fixed.stencil[f])
                                       ELSE fixed.stencil[f]]
           after == [fixed EXCEPT !.stencil = faces]
           valid == Named(face) # {} /\ func \in Comparisons
<1>1. Set(valid, "INVALID_ENUM", after, "PIPELINE")
  BY DEF StencilFuncSeparate, WithStencil
<1> HIDE DEF faces, valid
<1> QED
  BY <1>1, StencilKeepsRanges

LEMMA StencilOpSeparateKeepsRanges ==
    ASSUME Fits(fixed), NEW face, NEW fail, NEW depthFail, NEW pass,
           StencilOpSeparate(face, fail, depthFail, pass)
    PROVE  RangesKept
<1> DEFINE new(s) == [s EXCEPT !.fail = fail, !.depthFail = depthFail, !.pass = pass]
           faces == [f \in Faces |-> IF f \in Named(face) THEN new(fixed.stencil[f])
                                       ELSE fixed.stencil[f]]
           after == [fixed EXCEPT !.stencil = faces]
           valid == Named(face) # {} /\ {fail, depthFail, pass} \subseteq Operations
<1>1. Set(valid, "INVALID_ENUM", after, "PIPELINE")
  BY DEF StencilOpSeparate, WithStencil
<1> HIDE DEF faces, valid
<1> QED
  BY <1>1, StencilKeepsRanges

(* The calls about the fields themselves: each leaves its field in range.   *)
LEMMA UnitWithin ==
    ASSUME Inputs, NEW x \in Float, Finite(x)
    PROVE  Unit(x) \in 0 .. One
  BY FiniteInt, UnitRange

LEMMA BoxesRestorable ==
    ASSUME Fits(fixed), Restorable(fixed, gates), NEW box, Viewport(box) \/ Scissor(box)
    PROVE  Restorable(fixed, gates)'
<1>0. fixed \in FixedStates
  BY DEF Fits
<1>1. CASE Viewport(box)
  <2> DEFINE after == [fixed EXCEPT !.viewport = box, !.sized = TRUE]
  <2>1. box[3] \in 0 .. MaxSize /\ box[4] \in 0 .. MaxSize => Restorable(after, gates)
    BY <1>0 DEF Restorable, NumbersFit, BlendingFits, FixedStates
  <2>2. /\ gates' = gates
        /\ fixed' = fixed \/ (/\ box[3] \in 0 .. MaxSize /\ box[4] \in 0 .. MaxSize
                              /\ fixed' = after)
    BY <1>1 DEF Viewport, Refused
  <2> HIDE DEF after
  <2> QED
    BY <2>1, <2>2
<1>2. CASE Scissor(box)
  <2>1. RangesKept
    BY <1>0, <1>2 DEF Scissor, Refused, RangesKept, FixedStates, NumberFields, BlendFields
  <2> QED
    BY <2>1, RestorableSame DEF RangesKept
<1> QED
  BY <1>1, <1>2

LEMMA DepthRangeRestorable ==
    ASSUME Inputs, Fits(fixed), Restorable(fixed, gates),
           NEW near \in Float, NEW far \in Float, DepthRange(near, far)
    PROVE  Restorable(fixed, gates)'
<1> DEFINE after == [fixed EXCEPT !.depthRange = <<Unit(near), Unit(far)>>]
           valid == Finite(near) /\ Finite(far)
<1>1. valid => Unit(near) \in 0 .. One /\ Unit(far) \in 0 .. One
  BY UnitWithin
<1>2. valid => Restorable(after, gates)
  BY <1>1 DEF Restorable, NumbersFit, BlendingFits, Fits, FixedStates
<1>3. Set(valid, "INVALID_VALUE", after, "VIEWPORT")
  BY DEF DepthRange
<1> HIDE DEF after, valid
<1> QED
  BY <1>2, <1>3, SetRestorable

LEMMA SampleCoverageRestorable ==
    ASSUME Inputs, Fits(fixed), Restorable(fixed, gates),
           NEW value \in Float, NEW invert, SampleCoverage(value, invert)
    PROVE  Restorable(fixed, gates)'
<1> DEFINE after == [fixed EXCEPT !.coverage = <<Unit(value), invert>>]
           valid == Finite(value)
<1>1. valid => Unit(value) \in 0 .. One
  BY UnitWithin
<1>2. valid => Restorable(after, gates)
  BY <1>1 DEF Restorable, NumbersFit, BlendingFits, Fits, FixedStates
<1>3. Set(valid, "INVALID_VALUE", after, "PIPELINE")
  BY DEF SampleCoverage
<1> HIDE DEF after, valid
<1> QED
  BY <1>2, <1>3, SetRestorable

LEMMA LineWidthRestorable ==
    ASSUME Fits(fixed), Restorable(fixed, gates), NEW width, LineWidth(width)
    PROVE  Restorable(fixed, gates)'
<1> DEFINE after == [fixed EXCEPT !.lineWidth = width]
           valid == Finite(width) /\ width \in One .. MaxWidth
<1>1. valid => Restorable(after, gates)
  BY DEF Restorable, NumbersFit, BlendingFits, Fits, FixedStates
<1>2. Set(valid, "INVALID_VALUE", after, "PIPELINE")
  BY DEF LineWidth
<1> HIDE DEF after, valid
<1> QED
  BY <1>1, <1>2, SetRestorable

LEMMA ClearStencilRestorable ==
    ASSUME Inputs, Fits(fixed), Restorable(fixed, gates), NEW s \in Int, ClearStencil(s)
    PROVE  Restorable(fixed, gates)'
<1> DEFINE after == [fixed EXCEPT !.clearStencil = Within(s, 0, StencilMax)]
<1>1. Within(s, 0, StencilMax) \in 0 .. StencilMax
  BY DEF Within, Inputs, NumbersAssumption
<1>2. Restorable(after, gates)
  BY <1>1 DEF Restorable, NumbersFit, BlendingFits, Fits, FixedStates
<1>3. Keep(TRUE, "NO_ERROR", after)
  BY DEF ClearStencil
<1> HIDE DEF after
<1> QED
  BY <1>2, <1>3, SetRestorable

LEMMA BlendFuncRestorable ==
    ASSUME Fits(fixed), Restorable(fixed, gates), NEW f, BlendFuncSeparate(f)
    PROVE  Restorable(fixed, gates)'
<1> DEFINE after == [fixed EXCEPT !.blendFunc = f]
           valid == {f[1], f[3]} \subseteq SourceFactors /\ {f[2], f[4]} \subseteq Factors
<1>1. valid => Restorable(after, gates)
  BY DEF Restorable, NumbersFit, BlendingFits, Fits, FixedStates
<1>2. Set(valid, "INVALID_ENUM", after, "PIPELINE")
  BY DEF BlendFuncSeparate
<1> HIDE DEF after, valid
<1> QED
  BY <1>1, <1>2, SetRestorable

LEMMA BlendEquationRestorable ==
    ASSUME Fits(fixed), Restorable(fixed, gates), NEW e, BlendEquationSeparate(e)
    PROVE  Restorable(fixed, gates)'
<1> DEFINE after == [fixed EXCEPT !.blendEquation = e]
           valid == {e[1], e[2]} \subseteq Equations
<1>1. valid /\ {e[1], e[2]} \cap {"MIN", "MAX"} # {} => "blend_minmax" \in gates
  BY DEF Equations
<1>2. valid => Restorable(after, gates)
  BY <1>1 DEF Restorable, NumbersFit, BlendingFits, Fits, FixedStates
<1>3. Set(valid, "INVALID_ENUM", after, "PIPELINE")
  BY DEF BlendEquationSeparate
<1> HIDE DEF after, valid
<1> QED
  BY <1>2, <1>3, SetRestorable

LEMMA BlendColorRestorable ==
    ASSUME Inputs, Fits(fixed), Restorable(fixed, gates), NEW c \in Color, BlendColor(c)
    PROVE  Restorable(fixed, gates)'
<1> DEFINE valid == \A i \in 1 .. 4 : Finite(c[i])
           clamped == {"float_color_buffer", "half_float_color_buffer"} \cap gates = {}
           kept == IF clamped THEN [i \in 1 .. 4 |-> Unit(c[i])] ELSE c
           after == [fixed EXCEPT !.blendColor = kept]
<1>1. valid => \A i \in 1 .. 4 : Unit(c[i]) \in 0 .. One
  BY UnitWithin DEF Color
<1>2. valid => (clamped => \A i \in 1 .. 4 : kept[i] \in 0 .. One)
  BY <1>1
<1>3. valid => Restorable(after, gates)
  <2> HIDE DEF kept
  <2> QED
    BY <1>2 DEF Restorable, NumbersFit, BlendingFits, Fits, FixedStates
<1>4. Set(valid, "INVALID_VALUE", after, "PIPELINE")
  BY DEF BlendColor
<1> HIDE DEF after, valid, kept
<1> QED
  BY <1>3, <1>4, SetRestorable

LEMMA NextFixedRestorable ==
    ASSUME Inputs, Fits(fixed), Restorable(fixed, gates), NextFixed
    PROVE  Restorable(fixed, gates)'
<1>0. ArgumentsAssumption
  BY DEF Inputs
<1>1. RangesKept => Restorable(fixed, gates)'
  BY RestorableSame DEF RangesKept
<1>2. CASE SetRaster
  <2>1. CASE \E b \in Boxes : Viewport(b) \/ Scissor(b)
    BY <2>1, BoxesRestorable
  <2>2. CASE \E p \in Pairs : DepthRange(p[1], p[2]) \/ PolygonOffset(p[1], p[2])
    <3>1. \A p \in Pairs : p[1] \in Float /\ p[2] \in Float
      BY <1>0 DEF ArgumentsAssumption
    <3> QED
      BY <1>1, <2>2, <3>1, DepthRangeRestorable, OthersKeepRanges
  <2>3. CASE \E x \in Numbers : LineWidth(x) \/ SampleCoverage(x, TRUE)
    <3>1. \A x \in Numbers : x \in Float
      BY <1>0 DEF ArgumentsAssumption
    <3> QED
      BY <2>3, <3>1, LineWidthRestorable, SampleCoverageRestorable
  <2> QED
    BY <1>1, <1>2, <2>1, <2>2, <2>3, OthersKeepRanges DEF SetRaster
<1>3. CASE SetTests
  <2>1. CASE \E s \in StencilFuncs : ClearStencil(s[2])
    <3>1. \A s \in StencilFuncs : s[2] \in Int
      BY <1>0 DEF ArgumentsAssumption
    <3> QED
      BY <2>1, <3>1, ClearStencilRestorable
  <2>2. CASE \E f \in {"FRONT", "FRONT_AND_BACK", "LEFT"} :
               \/ \E s \in StencilFuncs : StencilFuncSeparate(f, s[1], s[2], s[3])
               \/ \E s \in StencilFuncs : StencilMaskSeparate(f, s[3])
               \/ \E s \in StencilOps : StencilOpSeparate(f, s[1], s[2], s[3])
    BY <1>1, <2>2, StencilFuncSeparateKeepsRanges, StencilMaskSeparateKeepsRanges,
       StencilOpSeparateKeepsRanges
  <2> QED
    BY <1>1, <1>3, <2>1, <2>2, OthersKeepRanges DEF SetTests
<1>4. CASE SetColors
  <2>1. CASE \E f \in BlendFuncs : BlendFuncSeparate(f)
    BY <2>1, BlendFuncRestorable
  <2>2. CASE \E e \in BlendEquations : BlendEquationSeparate(e)
    BY <2>2, BlendEquationRestorable
  <2>3. CASE \E c \in Colors : BlendColor(c) \/ ClearColor(c)
    <3>1. \A c \in Colors : c \in Color
      BY <1>0 DEF ArgumentsAssumption
    <3> QED
      BY <1>1, <2>3, <3>1, BlendColorRestorable, OthersKeepRanges
  <2> QED
    BY <1>1, <1>4, <2>1, <2>2, <2>3, OthersKeepRanges DEF SetColors
<1> QED
  BY <1>2, <1>3, <1>4 DEF NextFixed

LEMMA InitRestorable ==
    ASSUME DrawingInv, DrawingInit
    PROVE  Restorable(fixed, gates)
<1>1. /\ One \in Nat \ {0} /\ One \in 0 .. One /\ One \in One .. MaxWidth
      /\ 0 \in 0 .. MaxSize /\ 0 \in 0 .. One /\ 0 \in 0 .. StencilMax
  BY DEF DrawingInv, Inputs, NumbersAssumption
<1>2. Restorable(InitialFixed, {})
  BY <1>1 DEF Restorable, NumbersFit, BlendingFits, InitialFixed, Factors
<1>3. InitialFixed \in FixedStates
  BY InitialFits DEF DrawingInv, Fits
<1>4. CASE surface = None
  BY <1>2, <1>4 DEF DrawingInit
<1>5. CASE surface # None
  <2>1. surface.width \in 0 .. MaxSize /\ surface.height \in 0 .. MaxSize
    BY <1>5 DEF DrawingInv, TargetsType, ValidSurface
  <2>2. gates = {} /\ fixed = [InitialFixed EXCEPT
                                !.viewport = <<0, 0, surface.width, surface.height>>,
                                !.sized = TRUE]
    BY <1>5 DEF DrawingInit
  <2> QED
    BY <1>2, <1>3, <2>1, <2>2 DEF Restorable, NumbersFit, BlendingFits, FixedStates
<1> QED
  BY <1>4, <1>5

LEMMA SurfaceRestorable ==
    ASSUME Fits(fixed), Restorable(fixed, gates), NEW s, SetDefaultFramebuffer(s)
    PROVE  Restorable(fixed, gates)'
<1> DEFINE after == [fixed EXCEPT !.viewport = <<0, 0, s.width, s.height>>, !.sized = TRUE]
<1>1. ValidSurface(s) => s.width \in 0 .. MaxSize /\ s.height \in 0 .. MaxSize
  BY DEF ValidSurface
<1>2. ValidSurface(s) => Restorable(after, gates)
  BY <1>1 DEF Restorable, NumbersFit, BlendingFits, Fits, FixedStates
<1>3. gates' = gates /\ (fixed' = fixed \/ (ValidSurface(s) /\ fixed' = after))
  BY DEF SetDefaultFramebuffer
<1> HIDE DEF after
<1> QED
  BY <1>2, <1>3

LEMMA StepRestorable ==
    ASSUME DrawingInv, Restorable(fixed, gates), [DrawingNext]_drawingVars
    PROVE  Restorable(fixed, gates)'
<1>1. CASE SetState
  BY <1>1, NextFixedRestorable DEF DrawingInv, SetState
<1>2. CASE SetTarget
  <2>1. CASE \E s \in Surfaces \cup {None} : SetDefaultFramebuffer(s)
    BY <2>1, SurfaceRestorable DEF DrawingInv
  <2>2. CASE UNCHANGED <<fixed, gates>>
    BY <2>2
  <2> QED
    BY <1>2, <2>1, <2>2 DEF SetTarget, BindFramebuffer, DrawBuffers
<1>3. CASE UNCHANGED <<fixed, gates>>
  BY <1>3
<1>4. Draw => UNCHANGED <<fixed, gates>>
  BY DEF Draw, DrawArrays
<1>5. ClearPlanes => UNCHANGED <<fixed, gates>>
  BY DEF ClearPlanes, Clear
<1>6. EmbeddingClear => UNCHANGED <<fixed, gates>>
  BY DEF EmbeddingClear
<1>7. UNCHANGED drawingVars => UNCHANGED <<fixed, gates>>
  BY DEF drawingVars, fixedVars
<1> QED
  BY <1>1, <1>2, <1>3, <1>4, <1>5, <1>6, <1>7 DEF DrawingNext

(* A step of a call that is given what its query reports: it records no     *)
(* error and changes nothing, but for the viewport, which it pins.          *)
ReportedTakenBack ==
    LET i == ReportedIntegers
        r == ReportedFloats
        Of(f) == i.stencil[f]
    IN  /\ \A c \in enabled : Enable(c) => Kept
        /\ \A c \in Capabilities \ enabled : Disable(c) => Kept
        /\ Viewport(i.viewport) =>
              error' = "NO_ERROR" /\ fixed' = [fixed EXCEPT !.sized = TRUE] /\ UNCHANGED enabled
        /\ Scissor(i.scissor) \/ CullFace(i.cullMode) \/ FrontFace(i.frontFace) => Kept
        /\ DepthFunc(i.depthFunc) \/ DepthMask(i.depthMask) => Kept
        /\ ColorMask({c \in Channels : i.colorMask[c]}) => Kept
        /\ BlendFuncSeparate(i.blendFunc) \/ BlendEquationSeparate(i.blendEquation) => Kept
        /\ BlendColor(r.blendColor) => Kept
        /\ DepthRange(r.depthRange[1], r.depthRange[2]) => Kept
        /\ PolygonOffset(r.offset[1], r.offset[2]) => Kept
        /\ LineWidth(r.lineWidth) \/ SampleCoverage(r.coverage, i.invert) => Kept
        /\ ClearColor(r.clearColor) \/ ClearDepth(r.clearDepth) => Kept
        /\ ClearStencil(r.clearStencil) => Kept
        /\ PixelStore("PACK", i.packing) \/ PixelStore("UNPACK", i.unpacking) => Kept
        /\ i.hint # None /\ Hint("DERIVATIVE", i.hint) => Kept
        /\ \A f \in Faces :
              /\ StencilFuncSeparate(f, Of(f).func, Of(f).ref, Of(f).mask) => Kept
              /\ StencilMaskSeparate(f, Of(f).write) => Kept
              /\ StencilOpSeparate(f, Of(f).fail, Of(f).depthFail, Of(f).pass) => Kept

LEMMA SetKept ==
    ASSUME NEW valid, NEW code, NEW after, NEW bit,
           Set(valid, code, after, bit) \/ Keep(valid, code, after), valid, after = fixed
    PROVE  Kept
  BY DEF Set, Keep, Kept

LEMMA WithinSame ==
    ASSUME NEW high \in Nat, NEW x \in 0 .. high
    PROVE  Within(x, 0, high) = x
  BY DEF Within

LEMMA UnitSame ==
    ASSUME Inputs, NEW x \in 0 .. One
    PROVE  Unit(x) = x /\ Finite(x)
  BY WithinSame DEF Unit, Finite, Inputs, NumbersAssumption

(* What is in a field already, put there again.                             *)
LEMMA SameFixed ==
    ASSUME Fits(fixed)
    PROVE  /\ [fixed EXCEPT !.cullMode = fixed.cullMode] = fixed
           /\ [fixed EXCEPT !.depthFunc = fixed.depthFunc] = fixed
           /\ [fixed EXCEPT !.scissor = fixed.scissor] = fixed
           /\ [fixed EXCEPT !.blendFunc = fixed.blendFunc] = fixed
           /\ [fixed EXCEPT !.blendEquation = fixed.blendEquation] = fixed
           /\ [fixed EXCEPT !.blendColor = fixed.blendColor] = fixed
           /\ [fixed EXCEPT !.depthRange = fixed.depthRange] = fixed
           /\ [fixed EXCEPT !.lineWidth = fixed.lineWidth] = fixed
           /\ [fixed EXCEPT !.coverage = fixed.coverage] = fixed
           /\ [fixed EXCEPT !.clearStencil = fixed.clearStencil] = fixed
           /\ [fixed EXCEPT !.stencil = fixed.stencil] = fixed
           /\ [fixed EXCEPT !.frontFace = fixed.frontFace] = fixed
           /\ [fixed EXCEPT !.depthMask = fixed.depthMask] = fixed
           /\ [fixed EXCEPT !.colorMask = fixed.colorMask] = fixed
           /\ [fixed EXCEPT !.offset = fixed.offset] = fixed
           /\ [fixed EXCEPT !.clearColor = fixed.clearColor] = fixed
           /\ [fixed EXCEPT !.clearDepth = fixed.clearDepth] = fixed
           /\ [fixed EXCEPT !.packing = fixed.packing] = fixed
           /\ [fixed EXCEPT !.unpacking = fixed.unpacking] = fixed
           /\ [fixed EXCEPT !.hint = fixed.hint] = fixed
  BY DEF Fits, FixedStates

LEMMA PlainTakenBack ==
    ASSUME Fits(fixed), Restorable(fixed, gates),
           \/ CullFace(fixed.cullMode) \/ DepthFunc(fixed.depthFunc) \/ Scissor(fixed.scissor)
           \/ BlendFuncSeparate(fixed.blendFunc) \/ BlendEquationSeparate(fixed.blendEquation)
           \/ LineWidth(fixed.lineWidth)
    PROVE  Kept
<1>1. CASE CullFace(fixed.cullMode)
  <2>1. fixed.cullMode \in Faces \cup {"FRONT_AND_BACK"}
    BY DEF Fits, FixedStates
  <2> QED
    BY <1>1, <2>1, SetKept, SameFixed DEF CullFace
<1>2. CASE DepthFunc(fixed.depthFunc)
  <2>1. fixed.depthFunc \in Comparisons
    BY DEF Fits, FixedStates
  <2> QED
    BY <1>2, <2>1, SetKept, SameFixed DEF DepthFunc
<1>3. CASE Scissor(fixed.scissor)
  <2>1. fixed.scissor[3] >= 0 /\ fixed.scissor[4] >= 0
    BY DEF Fits
  <2> QED
    BY <1>3, <2>1, SameFixed DEF Scissor, Kept
<1>4. CASE BlendFuncSeparate(fixed.blendFunc)
  <2>1. /\ {fixed.blendFunc[1], fixed.blendFunc[3]} \subseteq SourceFactors
        /\ {fixed.blendFunc[2], fixed.blendFunc[4]} \subseteq Factors
    BY DEF Fits, FixedStates, Restorable, BlendingFits
  <2> QED
    BY <1>4, <2>1, SetKept, SameFixed DEF BlendFuncSeparate
<1>5. CASE BlendEquationSeparate(fixed.blendEquation)
  <2>1. /\ {fixed.blendEquation[1], fixed.blendEquation[2]} \subseteq AllEquations
    BY DEF Fits, FixedStates
  <2>2. {fixed.blendEquation[1], fixed.blendEquation[2]} \subseteq Equations
    BY <2>1 DEF Restorable, BlendingFits, Equations
  <2> QED
    BY <1>5, <2>2, SetKept, SameFixed DEF BlendEquationSeparate
<1>6. CASE LineWidth(fixed.lineWidth)
  <2>1. Finite(fixed.lineWidth) /\ fixed.lineWidth \in One .. MaxWidth
    BY NumbersAssumption DEF Restorable, NumbersFit, Finite
  <2> QED
    BY <1>6, <2>1, SetKept, SameFixed DEF LineWidth
<1> QED
  BY <1>1, <1>2, <1>3, <1>4, <1>5, <1>6

(* The calls that store what they are given, and the capabilities.          *)
LEMMA StoredTakenBack ==
    ASSUME Inputs, Fits(fixed),
           \/ FrontFace(fixed.frontFace) \/ DepthMask(fixed.depthMask)
           \/ ColorMask(fixed.colorMask) \/ PolygonOffset(fixed.offset[1], fixed.offset[2])
           \/ ClearColor(fixed.clearColor) \/ ClearDepth(fixed.clearDepth)
           \/ PixelStore("PACK", fixed.packing) \/ PixelStore("UNPACK", fixed.unpacking)
           \/ Hint("DERIVATIVE", fixed.hint) /\ "standard_derivatives" \in gates
           \/ \E c \in enabled : Enable(c)
           \/ \E c \in Capabilities \ enabled : Disable(c)
    PROVE  Kept
<1>0. /\ fixed.frontFace \in {"CW", "CCW"} /\ fixed.hint \in Hints
      /\ fixed.packing \in {1, 2, 4, 8} /\ fixed.unpacking \in {1, 2, 4, 8}
      /\ fixed.offset = <<fixed.offset[1], fixed.offset[2]>>
      /\ fixed.offset[1] \in Int /\ fixed.offset[2] \in Int
  <2>1. fixed.offset \in Int \X Int
    BY DEF Fits, FixedStates
  <2> QED
    BY <2>1 DEF Fits, FixedStates
<1>1. CASE FrontFace(fixed.frontFace)
  <2>1. Set(fixed.frontFace \in {"CW", "CCW"}, "INVALID_ENUM",
            [fixed EXCEPT !.frontFace = fixed.frontFace], "PIPELINE")
    BY <1>1 DEF FrontFace
  <2>2. [fixed EXCEPT !.frontFace = fixed.frontFace] = fixed
    BY SameFixed
  <2>3. fixed.frontFace \in {"CW", "CCW"}
    BY <1>0
  <2> QED
    BY <2>1, <2>2, <2>3, SetKept
<1>2. CASE DepthMask(fixed.depthMask)
  BY <1>2, SetKept, SameFixed DEF DepthMask
<1>3. CASE ColorMask(fixed.colorMask)
  BY <1>3, SetKept, SameFixed DEF ColorMask
<1>4. CASE PolygonOffset(fixed.offset[1], fixed.offset[2])
  <2>1. Finite(fixed.offset[1]) /\ Finite(fixed.offset[2])
    BY <1>0 DEF Finite, Inputs, NumbersAssumption
  <2> QED
    BY <1>0, <1>4, <2>1, SetKept, SameFixed DEF PolygonOffset
<1>5. CASE ClearColor(fixed.clearColor) \/ ClearDepth(fixed.clearDepth)
  BY <1>5, SetKept, SameFixed DEF ClearColor, ClearDepth
<1>6. CASE PixelStore("PACK", fixed.packing) \/ PixelStore("UNPACK", fixed.unpacking)
  <2>1. CASE PixelStore("PACK", fixed.packing)
    BY <1>0, <2>1, SetKept, SameFixed DEF PixelStore
  <2>2. CASE PixelStore("UNPACK", fixed.unpacking)
    BY <1>0, <2>2, SetKept, SameFixed DEF PixelStore
  <2> QED
    BY <1>6, <2>1, <2>2
<1>7. CASE Hint("DERIVATIVE", fixed.hint) /\ "standard_derivatives" \in gates
  BY <1>0, <1>7, SetKept, SameFixed DEF Hint
<1>8. CASE \E c \in enabled : Enable(c)
  BY <1>8 DEF Enable, Kept
<1>9. CASE \E c \in Capabilities \ enabled : Disable(c)
  BY <1>9 DEF Disable, Kept
<1> QED
  BY <1>1, <1>2, <1>3, <1>4, <1>5, <1>6, <1>7, <1>8, <1>9

(* The calls that clamp: what was clamped is not changed by clamping it.    *)
LEMMA ClampedTakenBack ==
    ASSUME Inputs, Fits(fixed), Restorable(fixed, gates),
           \/ BlendColor(fixed.blendColor)
           \/ DepthRange(fixed.depthRange[1], fixed.depthRange[2])
           \/ SampleCoverage(fixed.coverage[1], fixed.coverage[2])
           \/ ClearStencil(fixed.clearStencil)
    PROVE  Kept
<1>1. CASE BlendColor(fixed.blendColor)
  <2> DEFINE c == fixed.blendColor
             clamped == {"float_color_buffer", "half_float_color_buffer"} \cap gates = {}
             kept == IF clamped THEN [i \in 1 .. 4 |-> Unit(c[i])] ELSE c
  <2>1. c \in [1 .. 4 -> Int]
    BY DEF Fits, FixedStates
  <2>2. clamped => \A i \in 1 .. 4 : Unit(c[i]) = c[i]
    BY UnitSame DEF Restorable, BlendingFits
  <2>3. kept = c
    BY <2>1, <2>2
  <2>4. \A i \in 1 .. 4 : Finite(c[i])
    BY <2>1 DEF Finite, Inputs, NumbersAssumption
  <2>5. Set(\A i \in 1 .. 4 : Finite(c[i]), "INVALID_VALUE",
            [fixed EXCEPT !.blendColor = kept], "PIPELINE")
    BY <1>1 DEF BlendColor
  <2> HIDE DEF kept
  <2>6. [fixed EXCEPT !.blendColor = kept] = fixed
    BY <2>3, SameFixed
  <2> QED
    BY <2>4, <2>5, <2>6, SetKept
<1>2. CASE DepthRange(fixed.depthRange[1], fixed.depthRange[2])
  <2> DEFINE near == fixed.depthRange[1]
             far == fixed.depthRange[2]
  <2>1. fixed.depthRange = <<near, far>>
    BY DEF Fits, FixedStates
  <2>2. Unit(near) = near /\ Unit(far) = far /\ Finite(near) /\ Finite(far)
    BY UnitSame DEF Restorable, NumbersFit
  <2>3. [fixed EXCEPT !.depthRange = <<Unit(near), Unit(far)>>] = fixed
    BY <2>1, <2>2, SameFixed
  <2> QED
    BY <1>2, <2>2, <2>3, SetKept DEF DepthRange
<1>3. CASE SampleCoverage(fixed.coverage[1], fixed.coverage[2])
  <2> DEFINE value == fixed.coverage[1]
             invert == fixed.coverage[2]
  <2>1. fixed.coverage = <<value, invert>>
    BY DEF Fits, FixedStates
  <2>2. Unit(value) = value /\ Finite(value)
    BY UnitSame DEF Restorable, NumbersFit
  <2>3. [fixed EXCEPT !.coverage = <<Unit(value), invert>>] = fixed
    BY <2>1, <2>2, SameFixed
  <2> QED
    BY <1>3, <2>2, <2>3, SetKept DEF SampleCoverage
<1>4. CASE ClearStencil(fixed.clearStencil)
  <2>1. Within(fixed.clearStencil, 0, StencilMax) = fixed.clearStencil
    BY WithinSame DEF Restorable, NumbersFit, Inputs, NumbersAssumption
  <2>2. [fixed EXCEPT !.clearStencil = Within(fixed.clearStencil, 0, StencilMax)] = fixed
    BY <2>1, SameFixed
  <2> QED
    BY <1>4, <2>2, SetKept DEF ClearStencil
<1> QED
  BY <1>1, <1>2, <1>3, <1>4

LEMMA StencilTakenBack ==
    ASSUME Inputs, Fits(fixed), NEW face \in Faces, NEW s, s = fixed.stencil[face],
           \/ StencilFuncSeparate(face, s.func, s.ref, s.mask)
           \/ StencilMaskSeparate(face, s.write)
           \/ StencilOpSeparate(face, s.fail, s.depthFail, s.pass)
    PROVE  Kept
<1>0. /\ s \in StencilStates /\ fixed.stencil \in [Faces -> StencilStates]
      /\ Named(face) = {face}
  BY DEF Fits, FixedStates, Named, Faces
<1>1. CASE StencilFuncSeparate(face, s.func, s.ref, s.mask)
  <2> DEFINE new(t) == [t EXCEPT !.func = s.func, !.mask = Planes(s.mask),
                                 !.ref = Within(s.ref, 0, StencilMax)]
             faces == [f \in Faces |-> IF f \in Named(face) THEN new(fixed.stencil[f])
                                         ELSE fixed.stencil[f]]
             valid == Named(face) # {} /\ s.func \in Comparisons
  <2>1. Within(s.ref, 0, StencilMax) = s.ref /\ Planes(s.mask) = s.mask
    BY <1>0, WithinSame, PlanesSame DEF StencilStates, Inputs, NumbersAssumption
  <2>2. new(s) = s
    BY <1>0, <2>1 DEF StencilStates
  <2>3. faces = fixed.stencil
    <3> HIDE DEF new
    <3> QED
      BY <1>0, <2>2
  <2>4. valid
    BY <1>0 DEF StencilStates
  <2>5. Set(valid, "INVALID_ENUM", [fixed EXCEPT !.stencil = faces], "PIPELINE")
    BY <1>1 DEF StencilFuncSeparate, WithStencil
  <2> HIDE DEF faces, valid
  <2> QED
    BY <2>3, <2>4, <2>5, SameFixed, SetKept
<1>2. CASE StencilOpSeparate(face, s.fail, s.depthFail, s.pass)
  <2> DEFINE new(t) == [t EXCEPT !.fail = s.fail, !.depthFail = s.depthFail, !.pass = s.pass]
             faces == [f \in Faces |-> IF f \in Named(face) THEN new(fixed.stencil[f])
                                         ELSE fixed.stencil[f]]
             valid == Named(face) # {} /\ {s.fail, s.depthFail, s.pass} \subseteq Operations
  <2>2. new(s) = s
    BY <1>0 DEF StencilStates
  <2>3. faces = fixed.stencil
    <3> HIDE DEF new
    <3> QED
      BY <1>0, <2>2
  <2>4. valid
    BY <1>0 DEF StencilStates
  <2>5. Set(valid, "INVALID_ENUM", [fixed EXCEPT !.stencil = faces], "PIPELINE")
    BY <1>2 DEF StencilOpSeparate, WithStencil
  <2> HIDE DEF faces, valid
  <2> QED
    BY <2>3, <2>4, <2>5, SameFixed, SetKept
<1>3. CASE StencilMaskSeparate(face, s.write)
  <2> DEFINE new(t) == [t EXCEPT !.write = Planes(s.write)]
             faces == [f \in Faces |-> IF f \in Named(face) THEN new(fixed.stencil[f])
                                         ELSE fixed.stencil[f]]
             valid == Named(face) # {}
  <2>1. Planes(s.write) = s.write
    BY <1>0, PlanesSame DEF StencilStates
  <2>2. new(s) = s
    BY <1>0, <2>1 DEF StencilStates
  <2>3. faces = fixed.stencil
    <3> HIDE DEF new
    <3> QED
      BY <1>0, <2>2
  <2>4. valid
    BY <1>0
  <2>5. Set(valid, "INVALID_ENUM", [fixed EXCEPT !.stencil = faces], "PIPELINE")
    BY <1>3 DEF StencilMaskSeparate, WithStencil
  <2> HIDE DEF faces, valid
  <2> QED
    BY <2>3, <2>4, <2>5, SameFixed, SetKept
<1> QED
  BY <1>1, <1>2, <1>3

LEMMA DrawingInvTakesBack ==
    ASSUME DrawingInv, Restorable(fixed, gates)
    PROVE  ReportedTakenBack
<1>0. Inputs /\ Fits(fixed)
  BY DEF DrawingInv
<1>1. Viewport(fixed.viewport) =>
        error' = "NO_ERROR" /\ fixed' = [fixed EXCEPT !.sized = TRUE] /\ UNCHANGED enabled
  <2>1. fixed.viewport[3] \in 0 .. MaxSize /\ fixed.viewport[4] \in 0 .. MaxSize
    BY <1>0 DEF Restorable, NumbersFit
  <2>2. [fixed EXCEPT !.viewport = fixed.viewport, !.sized = TRUE] = [fixed EXCEPT !.sized = TRUE]
    BY <1>0 DEF Fits, FixedStates
  <2> QED
    BY <2>1, <2>2 DEF Viewport
<1>2. \A f \in Faces :
        /\ StencilFuncSeparate(f, fixed.stencil[f].func, fixed.stencil[f].ref,
                               fixed.stencil[f].mask) => Kept
        /\ StencilMaskSeparate(f, fixed.stencil[f].write) => Kept
        /\ StencilOpSeparate(f, fixed.stencil[f].fail, fixed.stencil[f].depthFail,
                             fixed.stencil[f].pass) => Kept
  BY <1>0, StencilTakenBack
<1>3. {c \in Channels : [x \in Channels |-> x \in fixed.colorMask][c]} = fixed.colorMask
  BY <1>0 DEF Fits, FixedStates
<1>4. /\ \A c \in enabled : Enable(c) => Kept
      /\ \A c \in Capabilities \ enabled : Disable(c) => Kept
      /\ FrontFace(fixed.frontFace) \/ DepthMask(fixed.depthMask) => Kept
      /\ ColorMask({c \in Channels : [x \in Channels |-> x \in fixed.colorMask][c]}) => Kept
      /\ PolygonOffset(fixed.offset[1], fixed.offset[2]) => Kept
      /\ ClearColor(fixed.clearColor) \/ ClearDepth(fixed.clearDepth) => Kept
      /\ PixelStore("PACK", fixed.packing) \/ PixelStore("UNPACK", fixed.unpacking) => Kept
      /\ "standard_derivatives" \in gates /\ Hint("DERIVATIVE", fixed.hint) => Kept
  BY <1>0, <1>3, StoredTakenBack
<1>5. /\ Scissor(fixed.scissor) \/ CullFace(fixed.cullMode) \/ DepthFunc(fixed.depthFunc) => Kept
      /\ BlendFuncSeparate(fixed.blendFunc) \/ BlendEquationSeparate(fixed.blendEquation) => Kept
      /\ LineWidth(fixed.lineWidth) => Kept
  BY <1>0, PlainTakenBack
<1>6. /\ BlendColor(fixed.blendColor) => Kept
      /\ DepthRange(fixed.depthRange[1], fixed.depthRange[2]) => Kept
      /\ SampleCoverage(fixed.coverage[1], fixed.coverage[2]) => Kept
      /\ ClearStencil(fixed.clearStencil) => Kept
  BY <1>0, ClampedTakenBack
<1> QED
  BY <1>1, <1>2, <1>4, <1>5, <1>6 DEF ReportedTakenBack, ReportedIntegers, ReportedFloats

(* The depth, stencil and alpha bits that a page is told of the default     *)
(* framebuffer are those of the planes its draws test and write and the     *)
(* clear of the embedding reaches; and a call that is given what the query  *)
(* of its state reports takes it without an error and without a change, but *)
(* for the viewport, which it pins.  This is ReportsTrue, but for the       *)
(* statement that those calls are enabled.                                  *)
THEOREM ReportsHold ==
    DrawingSpec => []PlanesReported /\ [][ReportedTakenBack]_drawingVars
<1>1. DrawingInv /\ DrawingInit => Restorable(fixed, gates)
  BY InitRestorable
<1>2. DrawingInv /\ Restorable(fixed, gates) /\ [DrawingNext]_drawingVars
        => Restorable(fixed, gates)'
  BY StepRestorable
<1>3. DrawingInv /\ Restorable(fixed, gates) => [ReportedTakenBack]_drawingVars
  BY DrawingInvTakesBack
<1> QED
  BY <1>1, <1>2, <1>3, DrawingInvHolds, DrawingInvPlanes, PTL DEF DrawingSpec
=============================================================================
