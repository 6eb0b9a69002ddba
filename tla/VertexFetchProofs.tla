-------------------------- MODULE VertexFetchProofs --------------------------
(***************************************************************************)
(* Proofs about VertexFetch: the cache of validated ranges is fresh, and   *)
(* the check of the last element keeps every fetch inside its buffer.      *)
(***************************************************************************)
EXTENDS VertexFetch, TLAPS

-----------------------------------------------------------------------------
(* Arithmetic.                                                              *)

(* A product with a common factor grows with the other one.                 *)
LEMMA ProductGrows ==
    ASSUME NEW m \in Nat, NEW n \in Nat, NEW s \in Nat, m <= n
    PROVE  m * s <= n * s
<1>1. PICK d \in Nat : n = m + d
  BY n - m \in Nat, n = m + (n - m)
<1>2. (m + d) * s = m * s + d * s
  OBVIOUS
<1>3. d * s >= 0
  OBVIOUS
<1> QED
  BY <1>1, <1>2, <1>3

(* What the guard of the check says: the product is bounded.                *)
LEMMA QuotientBounds ==
    ASSUME NEW s \in Nat, NEW x \in Int, NEW e \in Nat \ {0}, s <= x \div e
    PROVE  e * s <= x
<1> DEFINE q == x \div e
<1>1. q \in Int /\ e * q <= x
  OBVIOUS
<1>2. q \in Nat
  BY <1>1
<1>3. s * e <= q * e
  BY <1>2, ProductGrows
<1> QED
  BY <1>1, <1>2, <1>3

(* The converse: a bounded product passes the guard.                        *)
LEMMA QuotientReached ==
    ASSUME NEW s \in Nat, NEW x \in Int, NEW e \in Nat \ {0}, e * s <= x
    PROVE  s <= x \div e
<1> DEFINE q == x \div e
<1>1. q \in Int /\ x < e * (q + 1)
  OBVIOUS
<1> HIDE DEF q
<1>2. ASSUME q + 1 <= s PROVE FALSE
  <2>1. q + 1 \in Nat
    <3>1. CASE q + 1 < 0
      <4>1. e * s \in Nat /\ x \in Nat
        OBVIOUS
      <4>2. q >= 0
        BY <4>1 DEF q
      <4> QED
        BY <1>1, <3>1, <4>2
    <3> QED
      BY <1>1, <3>1
  <2>2. (q + 1) * e <= s * e
    BY <1>2, <2>1, ProductGrows
  <2> QED
    BY <1>1, <2>1, <2>2
<1> QED
  BY <1>1, <1>2 DEF q

(* Integer division preserves the order.                                    *)
LEMMA QuotientGrows ==
    ASSUME NEW m \in Nat, NEW n \in Nat, NEW d \in Nat \ {0}, m <= n
    PROVE  m \div d <= n \div d /\ m \div d \in Nat
  OBVIOUS

(* A number below the modulus is its own remainder.                         *)
LEMMA RemainderSame ==
    ASSUME NEW x \in Nat, NEW m \in Nat, x <= m
    PROVE  x % (m + 1) = x
  OBVIOUS

(* An element that passes the check in 64 bits ends inside the buffer, and  *)
(* so does every element before it.                                         *)
LEMMA ElementsBefore ==
    ASSUME NEW start \in Nat, NEW bytes \in Nat, NEW stride \in Nat, NEW end \in Nat,
           NEW last \in Nat, NEW n \in Nat, n <= last,
           NEW limit \in Nat, start + bytes <= limit,
           last # 0 => stride <= (limit - start - bytes) \div last,
           (start + last * stride + bytes) % (limit + 1) <= end
    PROVE  start + n * stride + bytes <= end
<1>1. last * stride \in Nat /\ n * stride \in Nat
  OBVIOUS
<1>2. n * stride <= last * stride
  BY ProductGrows
<1>3. start + last * stride + bytes <= limit
  <2>1. CASE last = 0
    BY <2>1
  <2>2. CASE last # 0
    <3>1. last * stride <= limit - start - bytes
      BY <2>2, QuotientBounds
    <3> HIDE <2>2
    <3> QED
      BY <3>1, <1>1
  <2> QED
    BY <2>1, <2>2
<1>4. (start + last * stride + bytes) % (limit + 1) = start + last * stride + bytes
  <2> DEFINE x == start + last * stride + bytes
  <2>1. x \in Nat /\ x <= limit
    BY <1>1, <1>3
  <2> HIDE DEF x
  <2>2. x % (limit + 1) = x
    BY <2>1, RemainderSame
  <2> QED
    BY <2>2 DEF x
<1> QED
  BY <1>1, <1>2, <1>4

-----------------------------------------------------------------------------
(* The layout of a draw.                                                    *)

Format == [buffer : Buffers \cup {None}, offset : 0 .. Max32, bytes : 0 .. 4, width : 0 .. 4,
           stride : 0 .. MaxStride, divisor : 0 .. Max32, value : Values \cup {None}]

LEMMA LimitsAreNumbers ==
    /\ CacheSize \in Nat \ {0} /\ MaxGeneration \in Nat \ {0}
    /\ MaxStride \in Nat /\ Max32 \in Nat /\ Max64 \in Nat /\ Max32 + 4 <= Max64
  BY LimitsAssumption

(* A program reads attributes there are, in widths there are.               *)
LEMMA NeededTyped ==
    ASSUME TypeOK
    PROVE  DOMAIN Needed \subseteq Attribs /\ \A i \in DOMAIN Needed : Needed[i] \in 1 .. 4
<1>1. DOMAIN reads \subseteq Attribs /\ \A i \in DOMAIN reads : reads[i] \in 1 .. 4
  BY DEF TypeOK, Input
<1>2. DOMAIN Input0 \subseteq Attribs /\ \A i \in DOMAIN Input0 : Input0[i] \in 1 .. 4
  BY DEF TypeOK, Input0, Attrib, Attributes
<1> QED
  BY <1>1, <1>2 DEF Needed

(* Where an attribute that resolves is fetched, no component lies beyond    *)
(* what 32 bits reach.                                                      *)
LEMMA FetchedTyped ==
    ASSUME TypeOK, NEW i \in Attribs, NEW width \in 1 .. 4,
           Resolvable(Attrib(i), width), Attrib(i).enabled
    PROVE  /\ Fetched(Attrib(i), width) \in Format
           /\ Fetched(Attrib(i), width).buffer # None
           /\ Fetched(Attrib(i), width).offset + width * Fetched(Attrib(i), width).bytes <= Max32
<1> DEFINE a == Attrib(i)
<1>1. a \in Attributes
  BY DEF TypeOK, Attrib
<1>2. /\ a.size \in 1 .. 4 /\ a.bytes \in {1, 2, 4} /\ a.stride \in 0 .. MaxStride
      /\ a.offset \in 0 .. Max64 /\ a.divisor \in 0 .. Max32
      /\ a.buffer \in Buffers \cup {None}
  BY <1>1 DEF Attributes
<1>3. /\ a.buffer # None /\ a.offset <= Max32 /\ a.offset + width * a.bytes <= Max32
      /\ EffectiveStride(a) <= MaxStride
  BY DEF Resolvable
<1>4. EffectiveStride(a) \in 0 .. MaxStride
  BY <1>2, <1>3, LimitsAreNumbers DEF EffectiveStride
<1> HIDE DEF a
<1>5. a.offset \in 0 .. Max32
  BY <1>2, <1>3, LimitsAreNumbers
<1>6. Fetched(a, width) \in Format
  BY <1>2, <1>4, <1>5 DEF Fetched, Format
<1> QED
  BY <1>3, <1>6 DEF Fetched, a

LEMMA ConstantTyped ==
    ASSUME NEW v \in Values
    PROVE  Constant(v) \in Format /\ Constant(v).buffer = None
  BY LimitsAreNumbers DEF Constant, Format

(* Every attribute of a layout that resolves has its format.                *)
LEMMA LayoutTyped ==
    ASSUME TypeOK, Resolves
    PROVE  /\ Layout \in Layouts /\ DOMAIN Layout \subseteq Attribs
           /\ \A i \in DOMAIN Layout :
                 /\ Layout[i] \in Format
                 /\ Layout[i].buffer # None =>
                       /\ Layout[i].offset + Layout[i].width * Layout[i].bytes <= Max32
                       /\ Layout[i].width \in 1 .. 4
<1>1. DOMAIN Layout = DOMAIN Needed /\ DOMAIN Needed \subseteq Attribs
  BY NeededTyped DEF Layout
<1>2. ASSUME NEW i \in DOMAIN Needed
      PROVE  /\ Layout[i] \in Format
             /\ Layout[i].buffer # None =>
                   /\ Layout[i].offset + Layout[i].width * Layout[i].bytes <= Max32
                   /\ Layout[i].width \in 1 .. 4
  <2>1. i \in Attribs /\ Needed[i] \in 1 .. 4 /\ Resolvable(Attrib(i), Needed[i])
    BY NeededTyped DEF Resolves
  <2>2. CASE Attrib(i).enabled
    <3>1. Layout[i] = Fetched(Attrib(i), Needed[i])
      BY <2>2 DEF Layout
    <3>2. Layout[i].width = Needed[i]
      BY <3>1 DEF Fetched
    <3> QED
      BY <2>1, <2>2, <3>1, <3>2, FetchedTyped
  <2>3. CASE ~Attrib(i).enabled
    <3>1. Layout[i] = Constant(value[i])
      BY <2>3 DEF Layout
    <3>2. value[i] \in Values
      BY <2>1 DEF TypeOK
    <3> QED
      BY <3>1, <3>2, ConstantTyped
  <2> QED
    BY <2>2, <2>3
<1>3. Layout \in [DOMAIN Needed -> Format]
  BY <1>2 DEF Layout
<1>4. Layout \in Layouts
  BY <1>1, <1>3 DEF Layouts, Format
<1> QED
  BY <1>1, <1>2, <1>4

-----------------------------------------------------------------------------
(* A range that validates is fetched inside: of every vertex and instance.  *)

LEMMA RangeTyped ==
    ASSUME NEW range \in Ranges
    PROVE  /\ range.first \in Nat /\ range.count \in Nat \ {0} /\ range.instances \in Nat \ {0}
           /\ LastVertex(range) \in Nat
  BY InputsAssumption, LimitsAreNumbers DEF Range, LastVertex

(* No element up to the last one is outside when the last one fits.         *)
LEMMA FitsInside ==
    ASSUME TypeOK, NEW range \in Ranges, NEW fetch \in Format, fetch.buffer # None,
           fetch.offset + fetch.width * fetch.bytes <= Max32,
           Fits(range, fetch), LastElement(range, fetch) \in Nat,
           NEW n \in Nat, n <= LastElement(range, fetch)
    PROVE  Inside(fetch, n)
<1> DEFINE last == LastElement(range, fetch)
<1>1. /\ fetch.buffer \in Buffers /\ fetch.offset \in Nat /\ fetch.bytes \in Nat /\ fetch.bytes <= 4
      /\ fetch.width \in Nat /\ fetch.stride \in Nat
  BY LimitsAreNumbers DEF Format
<1>2. size[fetch.buffer] \in Nat /\ size[fetch.buffer] # None
  BY <1>1, LimitsAreNumbers DEF TypeOK, Fits
<1>3. ASSUME NEW c \in 0 .. fetch.width - 1
      PROVE  fetch.offset + c * fetch.bytes + n * fetch.stride + fetch.bytes <= size[fetch.buffer]
  <2> DEFINE start == fetch.offset + c * fetch.bytes
  <2>1. c \in Nat /\ c + 1 \in Nat /\ c + 1 <= fetch.width
    BY <1>1
  <2>2. (c + 1) * fetch.bytes <= fetch.width * fetch.bytes
    BY <1>1, <2>1, ProductGrows
  <2>3. (c + 1) * fetch.bytes = c * fetch.bytes + fetch.bytes /\ c * fetch.bytes \in Nat
    BY <1>1, <2>1
  <2>4. fetch.width * fetch.bytes \in Nat
    BY <1>1
  <2>5. start \in Nat /\ start + fetch.bytes <= Max64
    BY <1>1, <2>2, <2>3, <2>4, LimitsAreNumbers
  <2>6. /\ last # 0 => fetch.stride <= (Max64 - start - fetch.bytes) \div last
        /\ (start + last * fetch.stride + fetch.bytes) % (Max64 + 1) <= size[fetch.buffer]
    BY DEF Fits, NoOverflow, End
  <2> HIDE DEF start, last
  <2>7. last \in Nat /\ n <= last
    BY DEF last
  <2>8. start + n * fetch.stride + fetch.bytes <= size[fetch.buffer]
    BY <1>1, <1>2, <2>5, <2>6, <2>7, LimitsAreNumbers, ElementsBefore
  <2> QED
    BY <2>8 DEF start
<1> QED
  BY <1>2, <1>3 DEF Inside

LEMMA FitsFetchesInside ==
    ASSUME TypeOK, NEW range \in Ranges, NEW fetch \in Format, fetch.buffer # None,
           fetch.offset + fetch.width * fetch.bytes <= Max32, Fits(range, fetch)
    PROVE  FetchesInside(range, fetch)
<1>1. fetch.divisor \in Nat
  BY LimitsAreNumbers DEF Format
<1>2. CASE fetch.divisor = 0
  <2>1. LastElement(range, fetch) = range.first + range.count - 1
    BY <1>2 DEF LastElement, LastVertex
  <2>2. ASSUME NEW n \in 0 .. range.count - 1
        PROVE  Inside(fetch, range.first + n)
    <3>1. range.first + n \in Nat /\ range.first + n <= LastElement(range, fetch)
          /\ LastElement(range, fetch) \in Nat
      BY <2>1, RangeTyped
    <3> QED
      BY <3>1, FitsInside
  <2> QED
    BY <1>2, <2>2 DEF FetchesInside
<1>3. CASE fetch.divisor # 0
  <2>1. LastElement(range, fetch) = (range.instances - 1) \div fetch.divisor
    BY <1>3 DEF LastElement
  <2>2. ASSUME NEW n \in 0 .. range.instances - 1
        PROVE  Inside(fetch, n \div fetch.divisor)
    <3>1. n \in Nat /\ range.instances - 1 \in Nat /\ n <= range.instances - 1
      BY RangeTyped
    <3>2. n \div fetch.divisor <= LastElement(range, fetch) /\ n \div fetch.divisor \in Nat
      BY <1>1, <1>3, <2>1, <3>1, QuotientGrows
    <3>3. LastElement(range, fetch) \in Nat
      BY <1>1, <1>3, <2>1, <3>1, QuotientGrows
    <3> QED
      BY <3>2, <3>3, FitsInside
  <2> QED
    BY <1>3, <2>2 DEF FetchesInside
<1> QED
  BY <1>2, <1>3

LEMMA ValidatesInside ==
    ASSUME TypeOK, NEW range \in Ranges, Validates(range),
           NEW i \in DOMAIN Layout, Layout[i].buffer # None
    PROVE  FetchesInside(range, Layout[i])
<1>1. Resolves
  BY DEF Validates
<1>2. /\ Layout[i] \in Format
      /\ Layout[i].offset + Layout[i].width * Layout[i].bytes <= Max32
  BY <1>1, LayoutTyped
<1>3. Layout # <<>>
  OBVIOUS
<1>4. Fits(range, Layout[i])
  BY <1>3 DEF Validates
<1> QED
  BY <1>2, <1>4, FitsFetchesInside

(* The last element a range fetches is the one that decides.                *)
LEMMA LastDecides ==
    ASSUME NEW range \in Ranges, NEW fetch \in Format, FetchesInside(range, fetch)
    PROVE  LastElement(range, fetch) \in Nat /\ Inside(fetch, LastElement(range, fetch))
<1>1. fetch.divisor \in Nat
  BY LimitsAreNumbers DEF Format
<1>2. CASE fetch.divisor = 0
  <2>1. range.count - 1 \in 0 .. range.count - 1
    BY RangeTyped
  <2>2. LastElement(range, fetch) = range.first + (range.count - 1)
    BY <1>2, RangeTyped DEF LastElement, LastVertex
  <2> QED
    BY <1>2, <2>1, <2>2, RangeTyped DEF FetchesInside
<1>3. CASE fetch.divisor # 0
  <2>1. range.instances - 1 \in 0 .. range.instances - 1 /\ range.instances - 1 \in Nat
    BY RangeTyped
  <2>2. LastElement(range, fetch) = (range.instances - 1) \div fetch.divisor
    BY <1>3 DEF LastElement
  <2>3. LastElement(range, fetch) \in Nat
    BY <1>1, <1>3, <2>1, <2>2, QuotientGrows
  <2> QED
    BY <1>3, <2>1, <2>2, <2>3 DEF FetchesInside
<1> QED
  BY <1>1, <1>2, <1>3

(* An element that ends inside passes the check in 64 bits: neither its     *)
(* product nor its sum wraps.                                               *)
LEMMA ElementPasses ==
    ASSUME NEW start \in Nat, NEW bytes \in Nat, NEW stride \in Nat, NEW last \in Nat,
           NEW end \in Nat, NEW limit \in Nat, end <= limit, start + last * stride + bytes <= end
    PROVE  /\ last # 0 => stride <= (limit - start - bytes) \div last
           /\ (start + last * stride + bytes) % (limit + 1) <= end
<1> DEFINE product == last * stride
<1>1. product \in Nat
  OBVIOUS
<1>2. last # 0 => stride <= (limit - start - bytes) \div last
  <2> SUFFICES ASSUME last # 0 PROVE stride <= (limit - start - bytes) \div last
    OBVIOUS
  <2>1. product <= limit - start - bytes
    <3> HIDE DEF product
    <3>1. start + product + bytes <= end
      BY DEF product
    <3> QED
      BY <1>1, <3>1
  <2> QED
    BY <2>1, QuotientReached
<1>3. (start + product + bytes) % (limit + 1) <= end
  <2>1. start + product + bytes <= end
    OBVIOUS
  <2> HIDE DEF product
  <2>2. start + product + bytes \in Nat /\ start + product + bytes <= limit
    BY <1>1, <2>1
  <2> DEFINE x == start + product + bytes
  <2> HIDE DEF x
  <2>3. x % (limit + 1) = x
    BY <2>2, RemainderSame DEF x
  <2> QED
    BY <2>1, <2>3 DEF x
<1> QED
  BY <1>2, <1>3

LEMMA InsideFits ==
    ASSUME TypeOK, NEW range \in Ranges, NEW fetch \in Format,
           fetch.buffer # None, size[fetch.buffer] # 0, FetchesInside(range, fetch)
    PROVE  Fits(range, fetch)
<1> DEFINE last == LastElement(range, fetch)
<1>1. last \in Nat /\ Inside(fetch, last)
  BY LastDecides
<1>2. /\ fetch.buffer \in Buffers /\ fetch.offset \in Nat /\ fetch.bytes \in Nat
      /\ fetch.width \in Nat /\ fetch.stride \in Nat
  BY LimitsAreNumbers DEF Format
<1>3. size[fetch.buffer] # None /\ size[fetch.buffer] \in Nat /\ size[fetch.buffer] <= Max64
  BY <1>1, <1>2, LimitsAreNumbers DEF Inside, TypeOK
<1>4. ASSUME NEW c \in 0 .. fetch.width - 1
      PROVE  NoOverflow(fetch, c, last) /\ End(fetch, c, last) <= size[fetch.buffer]
  <2> DEFINE start == fetch.offset + c * fetch.bytes
  <2>1. start \in Nat
    BY <1>2
  <2>2. start + last * fetch.stride + fetch.bytes <= size[fetch.buffer]
    BY <1>1 DEF Inside
  <2> HIDE DEF last, start
  <2>3. /\ last # 0 => fetch.stride <= (Max64 - start - fetch.bytes) \div last
        /\ (start + last * fetch.stride + fetch.bytes) % (Max64 + 1) <= size[fetch.buffer]
    BY <1>1, <1>2, <1>3, <2>1, <2>2, LimitsAreNumbers, ElementPasses
  <2> QED
    BY <2>3 DEF NoOverflow, End, start
<1> QED
  BY <1>3, <1>4 DEF Fits

(* A buffer that is fetched from inside is not empty.                       *)
LEMMA FetchesSomething ==
    ASSUME TypeOK, NEW range \in Ranges, NEW fetch \in Format, fetch.buffer # None,
           fetch.width \in 1 .. 4, fetch.bytes # 0, FetchesInside(range, fetch)
    PROVE  size[fetch.buffer] # 0
<1> DEFINE last == LastElement(range, fetch)
<1>1. last \in Nat /\ Inside(fetch, last)
  BY LastDecides
<1>2. fetch.offset \in Nat /\ fetch.bytes \in Nat \ {0} /\ fetch.stride \in Nat
  BY LimitsAreNumbers DEF Format
<1> HIDE DEF last
<1>3. fetch.offset + 0 * fetch.bytes + last * fetch.stride + fetch.bytes <= size[fetch.buffer]
  BY <1>1 DEF Inside
<1>4. last * fetch.stride \in Nat
  BY <1>1, <1>2
<1> QED
  BY <1>2, <1>3, <1>4

-----------------------------------------------------------------------------
(* The inductive invariant.                                                 *)

(* Nothing in the cache was validated later than now.                       *)
PastGenerations == \A i \in Slots : cache[i] # None => cache[i].generation <= generation

Inv == TypeOK /\ PastGenerations /\ CacheFresh /\ DrawsInside

CacheType ==
    /\ generation \in 1 .. MaxGeneration /\ next \in Slots
    /\ cache \in [Slots -> {None} \cup
          [generation : 1 .. MaxGeneration, range : Ranges, layout : Layouts]]
StateType ==
    /\ size \in [Buffers -> 0 .. Max64 \cup {None}]
    /\ arrays \in [Arrays -> [Attribs -> Attributes]]
    /\ bound \in Arrays
    /\ value \in [Attribs -> Values]
    /\ program \in {"none", "linked", "broken"}
    /\ reads \in Input
IssuedType == issued \in {None} \cup [range : Ranges, layout : Layouts]

LEMMA TypeParts == TypeOK <=> StateType /\ CacheType /\ IssuedType
  BY DEF TypeOK, StateType, CacheType, IssuedType

(* After a call that marks, no entry of the cache is of this generation.    *)
Forgotten == \A i \in Slots : cache[i] # None => cache[i].generation # generation

LEMMA MarkDirtyForgets ==
    ASSUME TypeOK, PastGenerations, MarkDirty
    PROVE  CacheType' /\ PastGenerations' /\ Forgotten'
<1>1. CASE generation = MaxGeneration
  BY <1>1, LimitsAreNumbers DEF MarkDirty, CacheType, PastGenerations, Forgotten, Slots
<1>2. CASE generation # MaxGeneration
  <2>1. generation' = generation + 1 /\ cache' = cache /\ next' = next
    BY <1>2 DEF MarkDirty
  <2>2. generation' \in 1 .. MaxGeneration
    BY <1>2, <2>1, LimitsAreNumbers DEF TypeOK
  <2>3. \A i \in Slots : cache[i] # None =>
            cache[i].generation \in Nat /\ cache[i].generation <= generation
    BY LimitsAreNumbers DEF TypeOK, PastGenerations
  <2>4. PastGenerations' /\ Forgotten'
    BY <2>1, <2>3 DEF PastGenerations, Forgotten, TypeOK
  <2> QED
    BY <2>1, <2>2, <2>4 DEF CacheType, TypeOK
<1> QED
  BY <1>1, <1>2

(* What the calls write has its type.                                       *)
LEMMA EditTyped ==
    ASSUME TypeOK, NEW i \in Attribs, NEW attrib \in Attributes, Edit(i, attrib)
    PROVE  arrays' \in [Arrays -> [Attribs -> Attributes]]
  BY DEF TypeOK, Edit

LEMMA AttribTyped ==
    ASSUME TypeOK, NEW i \in Attribs
    PROVE  /\ Attrib(i) \in Attributes
           /\ \A enabled \in BOOLEAN : [Attrib(i) EXCEPT !.enabled = enabled] \in Attributes
           /\ \A divisor \in Divisors : [Attrib(i) EXCEPT !.divisor = divisor] \in Attributes
<1>1. Attrib(i) \in Attributes
  BY DEF TypeOK, Attrib
<1> QED
  BY <1>1, InputsAssumption DEF Attributes

LEMMA UnsetTyped == Unset \in Attributes
  BY LimitsAreNumbers DEF Unset, Attributes

LEMMA DetachedTyped ==
    ASSUME NEW a \in Attributes, NEW b \in Buffers
    PROVE  Detached(a, b) \in Attributes
<1> DEFINE a1 == [a EXCEPT !.enabled = FALSE]
           a2 == [a1 EXCEPT !.buffer = None]
           a3 == [a2 EXCEPT !.stride = 0]
           a4 == [a3 EXCEPT !.offset = 0]
<1>1. a1 \in Attributes
  BY DEF Attributes
<1> HIDE DEF a1
<1>2. a2 \in Attributes
  BY <1>1 DEF Attributes
<1> HIDE DEF a2
<1>3. a3 \in Attributes
  BY <1>2, LimitsAreNumbers DEF Attributes
<1> HIDE DEF a3
<1>4. a4 \in Attributes
  BY <1>3, LimitsAreNumbers DEF Attributes
<1>5. [a EXCEPT !.enabled = FALSE, !.buffer = None, !.stride = 0, !.offset = 0] = a4
  BY DEF a1, a2, a3
<1> QED
  BY <1>4, <1>5 DEF Detached

(* A step of the application that changes what draws read keeps the types,  *)
(* and marks unless it is a new buffer or a failed link.                    *)
LEMMA ChangeTyped ==
    ASSUME TypeOK, Change
    PROVE  StateType'
<1> USE DEF StateType
<1>1. ASSUME NEW i \in Attribs, NEW enabled \in BOOLEAN, EnableVertexAttribArray(i, enabled)
      PROVE  StateType'
  BY <1>1, AttribTyped, EditTyped DEF EnableVertexAttribArray, TypeOK
<1>2. ASSUME NEW i \in Attribs, NEW b \in Buffers, NEW p \in Pointers, VertexAttribPointer(i, b, p)
      PROVE  StateType'
  <2> DEFINE a == [enabled |-> Attrib(i).enabled, buffer |-> b, size |-> p.size, bytes |-> p.bytes,
                   stride |-> p.stride, offset |-> p.offset, divisor |-> Attrib(i).divisor]
  <2>1. p \in Pointer
    BY InputsAssumption
  <2>2. a \in Attributes
    BY <2>1, AttribTyped DEF Pointer, Attributes
  <2> HIDE DEF a
  <2>3. Edit(i, a) /\ UNCHANGED <<size, bound, value, program, reads>>
    BY <1>2 DEF VertexAttribPointer, a
  <2> QED
    BY <2>2, <2>3, EditTyped DEF TypeOK
<1>3. ASSUME NEW i \in Attribs, NEW divisor \in Divisors, VertexAttribDivisor(i, divisor)
      PROVE  StateType'
  BY <1>3, AttribTyped, EditTyped DEF VertexAttribDivisor, TypeOK
<1>4. ASSUME NEW i \in Attribs, NEW v \in Values, SetCurrent(i, v)
      PROVE  StateType'
  BY <1>4 DEF SetCurrent, TypeOK
<1>5. ASSUME NEW a \in Arrays, BindVertexArray(a)
      PROVE  StateType'
  BY <1>5 DEF BindVertexArray, TypeOK
<1>6. ASSUME NEW a \in Arrays, DeleteVertexArray(a)
      PROVE  StateType'
  BY <1>6, UnsetTyped, InputsAssumption DEF DeleteVertexArray, TypeOK
<1>7. ASSUME NEW b \in Buffers, GenBuffer(b)
      PROVE  StateType'
  BY <1>7, LimitsAreNumbers DEF GenBuffer, TypeOK
<1>8. ASSUME NEW b \in Buffers, DeleteBuffer(b)
      PROVE  StateType'
  <2>1. \A a \in Arrays, i \in Attribs : Detached(arrays[a][i], b) \in Attributes
    BY DetachedTyped DEF TypeOK
  <2> QED
    BY <1>8, <2>1 DEF DeleteBuffer, TypeOK
<1>9. ASSUME NEW b \in Buffers, NEW bytes \in Sizes, BufferData(b, bytes)
      PROVE  StateType'
  BY <1>9, InputsAssumption DEF BufferData, TypeOK
<1>10. ASSUME NEW used \in Inputs, UseProgram(used)
       PROVE  StateType'
  BY <1>10, InputsAssumption DEF UseProgram, TypeOK
<1>11. <<>> \in Input
  <2>1. <<>> \in [{} -> 1 .. 4]
    OBVIOUS
  <2> QED
    BY <2>1 DEF Input
<1>12. UseNone => StateType'
  BY <1>11 DEF UseNone, TypeOK
<1>13. LinkFails => StateType'
  BY <1>11 DEF LinkFails, TypeOK
<1>14. ChangeElsewhere => StateType'
  BY DEF ChangeElsewhere, stateVars, TypeOK
<1> QED
  BY <1>1, <1>2, <1>3, <1>4, <1>5, <1>6, <1>7, <1>8, <1>9, <1>10, <1>12, <1>13, <1>14 DEF Change

LEMMA ChangeMarks ==
    ASSUME Change
    PROVE  MarkDirty \/ (\E b \in Buffers : GenBuffer(b)) \/ (LinkFails /\ Clean)
  BY DEF Change, EnableVertexAttribArray, VertexAttribPointer, VertexAttribDivisor, SetCurrent,
         BindVertexArray, DeleteVertexArray, BufferData, DeleteBuffer, UseProgram, UseNone,
         LinkFails, ChangeElsewhere

(* A new buffer is nobody's: what validated before still does.              *)
LEMMA GenBufferKeeps ==
    ASSUME TypeOK, NEW b \in Buffers, GenBuffer(b), NEW range \in Ranges, Validates(range)
    PROVE  Layout' = Layout /\ Validates(range)'
<1>1. /\ arrays' = arrays /\ bound' = bound /\ value' = value
      /\ program' = program /\ reads' = reads
      /\ size[b] = None /\ size' = [size EXCEPT ![b] = 0]
  BY DEF GenBuffer
<1>2. \A x \in Buffers : size[x] # None => size'[x] = size[x]
  BY <1>1 DEF TypeOK
<1>3. \A i \in Attribs : Attrib(i)' = Attrib(i)
  BY <1>1 DEF Attrib
<1>4. Needed' = Needed /\ DOMAIN Needed \subseteq Attribs
  BY <1>1, <1>3, NeededTyped DEF Needed, Input0
<1>5. Layout' = Layout
  BY <1>1, <1>3, <1>4 DEF Layout, Fetched, Constant, EffectiveStride
<1>6. Resolves'
  <2>1. Resolves
    BY DEF Validates
  <2>2. \A i \in Attribs : Attrib(i).buffer \in Buffers \cup {None}
    BY AttribTyped DEF Attributes
  <2>3. ASSUME NEW i \in DOMAIN Needed
        PROVE  Resolvable(Attrib(i), Needed[i])'
    <3>1. Resolvable(Attrib(i), Needed[i]) /\ i \in Attribs
      BY <1>4, <2>1 DEF Resolves
    <3> QED
      BY <1>2, <1>3, <1>4, <2>2, <3>1 DEF Resolvable, EffectiveStride
  <2> QED
    BY <1>1, <1>4, <2>1, <2>3 DEF Resolves
<1>7. ASSUME NEW i \in DOMAIN Layout, Layout[i].buffer # None, Fits(range, Layout[i])
      PROVE  Fits(range, Layout[i])'
  <2>1. Layout[i].buffer \in Buffers
    BY <1>7, LayoutTyped DEF Format, Validates
  <2> DEFINE fetch == Layout[i]
  <2>2. size'[fetch.buffer] = size[fetch.buffer]
    BY <1>2, <1>7, <2>1 DEF Fits
  <2>3. fetch' = fetch
    BY <1>5
  <2> HIDE DEF fetch
  <2>4. Fits(range, fetch)'
    BY <1>7, <2>2, <2>3 DEF Fits, NoOverflow, End, LastElement, LastVertex, fetch
  <2> QED
    BY <2>4 DEF fetch
<1> QED
  BY <1>5, <1>6, <1>7 DEF Validates, Indexable, LastVertex

-----------------------------------------------------------------------------
(* The invariant holds at first and is kept by every step.                  *)

LEMMA InitInv == Init => Inv
<1> SUFFICES ASSUME Init PROVE Inv
  OBVIOUS
<1>1. StateType
  <2>1. <<>> \in [{} -> 1 .. 4]
    OBVIOUS
  <2> QED
    BY <2>1, UnsetTyped, InputsAssumption DEF Init, StateType, Input
<1>2. CacheType /\ IssuedType
  BY LimitsAreNumbers DEF Init, CacheType, IssuedType, Slots
<1> QED
  BY <1>1, <1>2, TypeParts DEF Init, Inv, PastGenerations, CacheFresh, DrawsInside

(* Freshness of one entry, with its range by name.                          *)
Fresh(i, range) ==
    cache[i] # None /\ cache[i].generation = generation /\ cache[i].range = range
    /\ program # "broken" => cache[i].layout = Layout /\ Validates(range)

LEMMA FreshEntries == CacheFresh <=> \A i \in Slots : \A range : Fresh(i, range)
  BY DEF CacheFresh, Fresh

LEMMA FreshEntriesNext == CacheFresh' <=> \A i \in Slots : \A range : Fresh(i, range)'
<1>1. (CacheFresh <=> \A i \in Slots : \A range : Fresh(i, range))'
  BY FreshEntries, PTL
<1>2. Slots' = Slots
  BY DEF Slots
<1> QED
  BY <1>1, <1>2

(* Calls that change what draws read.                                       *)
LEMMA ChangeKeepsInv ==
    ASSUME Inv, Change, issued' = None
    PROVE  Inv'
<1>1. TypeOK /\ PastGenerations /\ CacheFresh
  BY DEF Inv
<1>2. StateType' /\ IssuedType' /\ DrawsInside'
  BY <1>1, ChangeTyped DEF IssuedType, DrawsInside
<1>3. CASE MarkDirty
  <2>1. CacheType' /\ PastGenerations' /\ Forgotten'
    BY <1>1, <1>3, MarkDirtyForgets
  <2>2. CacheFresh'
    BY <2>1 DEF CacheFresh, Forgotten
  <2>3. TypeOK'
    BY <1>2, <2>1 DEF TypeOK, StateType, CacheType, IssuedType
  <2> QED
    BY <1>2, <2>1, <2>2, <2>3 DEF Inv
<1>4. ASSUME Clean
      PROVE  CacheType' /\ PastGenerations'
  BY <1>1, <1>4 DEF Clean, TypeOK, CacheType, PastGenerations
<1>5. CASE \E b \in Buffers : GenBuffer(b)
  <2>1. PICK b \in Buffers : GenBuffer(b)
    BY <1>5
  <2>2. Clean /\ program' = program
    BY <2>1 DEF GenBuffer
  <2>3. ASSUME NEW i \in Slots, NEW range
        PROVE  Fresh(i, range)'
    <3>1. SUFFICES ASSUME cache'[i] # None, cache'[i].generation = generation',
                          cache'[i].range = range, program' # "broken"
                   PROVE  cache'[i].layout = Layout' /\ Validates(range)'
      BY DEF Fresh
    <3>2. /\ cache' = cache /\ cache[i] # None /\ cache[i].generation = generation
          /\ cache[i].range = range /\ program # "broken"
      BY <2>2, <3>1 DEF Clean
    <3>3. cache[i].layout = Layout /\ Validates(range)
      BY <1>1, <3>2, FreshEntries DEF Fresh
    <3>4. range \in Ranges
      BY <1>1, <3>2 DEF TypeOK
    <3>5. Layout' = Layout /\ Validates(range)'
      BY <1>1, <2>1, <3>3, <3>4, GenBufferKeeps
    <3> QED
      BY <3>2, <3>3, <3>5
  <2>4. CacheFresh'
    BY <2>3, FreshEntriesNext
  <2>5. TypeOK'
    BY <1>2, <1>4, <2>2 DEF TypeOK, StateType, CacheType, IssuedType
  <2> QED
    BY <1>2, <1>4, <2>2, <2>4, <2>5 DEF Inv
<1>6. CASE LinkFails /\ Clean
  <2>1. CacheFresh'
    BY <1>6 DEF LinkFails, CacheFresh
  <2>2. TypeOK'
    BY <1>2, <1>4, <1>6 DEF TypeOK, StateType, CacheType, IssuedType
  <2> QED
    BY <1>2, <1>4, <1>6, <2>1, <2>2 DEF Inv
<1> QED
  BY <1>3, <1>5, <1>6, ChangeMarks

(* A draw reads the state and does not change it.                           *)
LEMMA SameState ==
    ASSUME UNCHANGED stateVars
    PROVE  /\ Layout' = Layout /\ (StateType => StateType')
           /\ \A range : Validates(range)' <=> Validates(range)
           /\ \A range, fetch : FetchesInside(range, fetch)' <=> FetchesInside(range, fetch)
<1>1. /\ size' = size /\ arrays' = arrays /\ bound' = bound
      /\ value' = value /\ program' = program /\ reads' = reads
  BY DEF stateVars
<1>2. Layout' = Layout /\ Needed' = Needed
  BY <1>1 DEF Layout, Needed, Input0, Attrib
<1> QED
  BY <1>1, <1>2 DEF StateType, Validates, Resolves, Resolvable, Attrib, Fits, FetchesInside, Inside

LEMMA DrawCachedKeepsInv ==
    ASSUME Inv, NEW range \in Ranges, DrawCached(range)
    PROVE  Inv'
<1>1. TypeOK /\ PastGenerations /\ CacheFresh
  BY DEF Inv
<1>2. UNCHANGED stateVars /\ UNCHANGED <<generation, cache, next>>
  BY DEF DrawCached
<1>3. StateType' /\ CacheType' /\ PastGenerations'
  BY <1>1, <1>2, SameState DEF TypeOK, StateType, CacheType, PastGenerations
<1>4. ASSUME NEW i \in Slots, NEW other
      PROVE  Fresh(i, other)'
  <2>1. Fresh(i, other) /\ program' = program
    BY <1>1, <1>2, FreshEntries DEF stateVars
  <2> QED
    BY <1>2, <2>1, SameState DEF Fresh
<1>5. \/ issued' = None
      \/ /\ issued' = [range |-> range, layout |-> Layout]
         /\ Validates(range) /\ Layout \in Layouts
  <2>1. CASE issued' = None
    BY <2>1
  <2>2. CASE issued' # None
    <3>1. PICK i \in Hits(range) : program = "linked"
                                    /\ issued' = [range |-> range, layout |-> cache[i].layout]
      BY <2>2 DEF DrawCached
    <3>2. /\ i \in Slots /\ cache[i] # None /\ cache[i].generation = generation
          /\ cache[i].range = range
      BY DEF Hits
    <3>3. cache[i].layout = Layout /\ Validates(range)
      BY <1>1, <3>1, <3>2, FreshEntries DEF Fresh
    <3>4. cache[i].layout \in Layouts
      BY <1>1, <3>2 DEF TypeOK
    <3> QED
      BY <3>1, <3>3, <3>4
  <2> QED
    BY <2>1, <2>2
<1>6. IssuedType'
  BY <1>5 DEF IssuedType
<1>7. DrawsInside'
  <2>1. ASSUME issued' = [range |-> range, layout |-> Layout], Validates(range),
               NEW i \in DOMAIN Layout, Layout[i].buffer # None
        PROVE  FetchesInside(range, Layout[i])
    BY <1>1, <2>1, ValidatesInside
  <2> QED
    BY <1>2, <1>5, <2>1, SameState DEF DrawsInside, FetchesInside, Inside, stateVars
<1> QED
  BY <1>3, <1>4, <1>6, <1>7, FreshEntriesNext DEF Inv, TypeOK, StateType, CacheType, IssuedType

LEMMA DrawValidatedKeepsInv ==
    ASSUME Inv, NEW range \in Ranges, DrawValidated(range)
    PROVE  Inv'
<1>1. TypeOK /\ PastGenerations /\ CacheFresh
  BY DEF Inv
<1>2. UNCHANGED stateVars /\ generation' = generation /\ Validates(range)
  BY DEF DrawValidated
<1>3. Layout \in Layouts /\ Resolves /\ program # "broken"
  BY <1>1, <1>2, LayoutTyped DEF Validates, Resolves
<1>4. ASSUME Layout = <<>>
      PROVE  CacheType' /\ PastGenerations' /\ \A i \in Slots : \A other : Fresh(i, other)'
  <2>1. UNCHANGED <<cache, next>>
    BY <1>4 DEF DrawValidated
  <2>2. CacheType' /\ PastGenerations'
    BY <1>1, <1>2, <2>1 DEF TypeOK, CacheType, PastGenerations
  <2>3. ASSUME NEW i \in Slots, NEW other
        PROVE  Fresh(i, other)'
    <3>1. Fresh(i, other) /\ program' = program
      BY <1>1, <1>2, FreshEntries DEF stateVars
    <3> QED
      BY <1>2, <2>1, <3>1, SameState DEF Fresh
  <2> QED
    BY <2>2, <2>3
<1>5. ASSUME Layout # <<>>
      PROVE  CacheType' /\ PastGenerations' /\ \A i \in Slots : \A other : Fresh(i, other)'
  <2> DEFINE place == next % CacheSize
  <2>1. /\ cache' = [cache EXCEPT ![place] = Entry(range)]
        /\ next' = (place + 1) % CacheSize
    BY <1>5 DEF DrawValidated
  <2>2. place \in Slots /\ next' \in Slots
    BY <1>1, <2>1, LimitsAreNumbers DEF TypeOK, Slots
  <2>3. Entry(range) \in [generation : 1 .. MaxGeneration, range : Ranges, layout : Layouts]
    BY <1>1, <1>3 DEF TypeOK, Entry
  <2> HIDE DEF place
  <2>4. CacheType'
    BY <1>1, <1>2, <2>1, <2>2, <2>3 DEF TypeOK, CacheType
  <2>5. PastGenerations'
    BY <1>1, <1>2, <2>1, <2>2, LimitsAreNumbers DEF TypeOK, PastGenerations, Entry
  <2>6. ASSUME NEW i \in Slots, NEW other
        PROVE  Fresh(i, other)'
    <3>1. Fresh(i, other) /\ program' = program
      BY <1>1, <1>2, FreshEntries DEF stateVars
    <3>2. CASE i = place
      <4>1. cache'[i] = Entry(range)
        BY <1>1, <2>1, <2>2, <3>2 DEF TypeOK
      <4> QED
        BY <1>2, <4>1, SameState DEF Fresh, Entry
    <3>3. CASE i # place
      <4>1. cache'[i] = cache[i]
        BY <1>1, <2>1, <3>3 DEF TypeOK
      <4> QED
        BY <1>2, <3>1, <4>1, SameState DEF Fresh
    <3> QED
      BY <3>2, <3>3
  <2> QED
    BY <2>4, <2>5, <2>6
<1>6. \/ issued' = None
      \/ issued' = [range |-> range, layout |-> Layout]
  BY DEF DrawValidated
<1>7. IssuedType' /\ StateType'
  BY <1>1, <1>2, <1>3, <1>6, SameState DEF IssuedType, TypeOK, StateType
<1>8. DrawsInside'
  <2>1. ASSUME NEW i \in DOMAIN Layout, Layout[i].buffer # None
        PROVE  FetchesInside(range, Layout[i])
    BY <1>1, <1>2, <2>1, ValidatesInside
  <2> QED
    BY <1>2, <1>6, <2>1, SameState DEF DrawsInside, FetchesInside, Inside, stateVars
<1> QED
  BY <1>4, <1>5, <1>7, <1>8, FreshEntriesNext DEF Inv, TypeOK, StateType, CacheType, IssuedType

LEMMA UnchangedKeepsInv ==
    ASSUME Inv, UNCHANGED stateVars, UNCHANGED <<generation, cache, next>>,
           issued' = None \/ issued' = issued
    PROVE  Inv'
<1>1. TypeOK /\ PastGenerations /\ CacheFresh /\ DrawsInside
  BY DEF Inv
<1>2. StateType' /\ CacheType' /\ IssuedType' /\ PastGenerations'
  BY <1>1, SameState DEF TypeOK, StateType, CacheType, IssuedType, PastGenerations
<1>3. ASSUME NEW i \in Slots, NEW other
      PROVE  Fresh(i, other)'
  <2>1. Fresh(i, other) /\ program' = program
    BY <1>1, FreshEntries DEF stateVars
  <2> QED
    BY <2>1, SameState DEF Fresh
<1>4. DrawsInside'
  BY <1>1 DEF DrawsInside, FetchesInside, Inside, stateVars
<1> QED
  BY <1>2, <1>3, <1>4, FreshEntriesNext DEF Inv, TypeOK, StateType, CacheType, IssuedType

LEMMA NextKeepsInv == Inv /\ [Next]_vars => Inv'
<1> SUFFICES ASSUME Inv, [Next]_vars PROVE Inv'
  OBVIOUS
<1>1. CASE Change /\ issued' = None
  BY <1>1, ChangeKeepsInv
<1>2. ASSUME NEW range \in Ranges, DrawCached(range) PROVE Inv'
  BY <1>2, DrawCachedKeepsInv
<1>3. ASSUME NEW range \in Ranges, DrawValidated(range) PROVE Inv'
  BY <1>3, DrawValidatedKeepsInv
<1>4. ASSUME NEW range \in Ranges, DrawRejected(range) PROVE Inv'
  BY <1>4, UnchangedKeepsInv DEF DrawRejected
<1>5. CASE UNCHANGED vars
  BY <1>5, UnchangedKeepsInv DEF vars, stateVars
<1> QED
  BY <1>1, <1>2, <1>3, <1>4, <1>5 DEF Next

(* The inductive invariant holds in every reachable state.                  *)
THEOREM InvariantHolds == Spec => []Inv
  BY InitInv, NextKeepsInv, PTL DEF Spec

(* Every variable keeps its type; the generation never becomes 0.           *)
THEOREM TypeCorrect == Spec => []TypeOK
<1>1. Inv => TypeOK
  BY DEF Inv
<1> QED
  BY InvariantHolds, <1>1, PTL

(* A range found in the cache would validate again, with the same layout,   *)
(* for any number of calls and of turns of the generation.                  *)
THEOREM CacheFreshHolds == Spec => []CacheFresh
<1>1. Inv => CacheFresh
  BY DEF Inv
<1> QED
  BY InvariantHolds, <1>1, PTL

(* No draw fetches outside of a buffer, for all words, strides and ranges.  *)
THEOREM DrawsInsideHolds == Spec => []DrawsInside
<1>1. Inv => DrawsInside
  BY DEF Inv
<1> QED
  BY InvariantHolds, <1>1, PTL

(* An attribute resolves unless one of the reasons keeps it from doing so.  *)
LEMMA ResolvableExact ==
    ASSUME TypeOK, NEW i \in DOMAIN Needed, Attrib(i).enabled
    PROVE  Resolvable(Attrib(i), Needed[i]) <=> ~(Unsourced(i) \/ Unaddressable(i))
<1> DEFINE a == Attrib(i)
           w == Needed[i]
<1>1. w \in 1 .. 4 /\ a \in Attributes
  BY NeededTyped DEF TypeOK, Attrib
<1>2. /\ a.size \in 1 .. 4 /\ a.bytes \in {1, 2, 4} /\ a.stride \in Nat /\ a.offset \in Nat
  BY <1>1, LimitsAreNumbers DEF Attributes
<1>3. EffectiveStride(a) \in Nat
  BY <1>2 DEF EffectiveStride
<1>4. a.size * a.bytes \in Nat
  BY <1>2
<1> HIDE DEF a, w
<1>5. (a.offset <= Max32 /\ a.offset + w * a.bytes <= Max32)
      <=> \A c \in 0 .. w - 1 : a.offset + c * a.bytes + a.bytes <= Max32
  <2>1. w - 1 \in 0 .. w - 1 /\ w * a.bytes = (w - 1) * a.bytes + a.bytes
    BY <1>1, <1>2
  <2>2. \A c \in 0 .. w - 1 : c * a.bytes + a.bytes <= w * a.bytes /\ c * a.bytes \in Nat
    BY <1>1, <1>2
  <2>3. (w - 1) * a.bytes \in Nat /\ w * a.bytes \in Nat
    BY <1>1, <1>2
  <2>4. ASSUME a.offset + w * a.bytes <= Max32, NEW c \in 0 .. w - 1
        PROVE  a.offset + c * a.bytes + a.bytes <= Max32
    <3> DEFINE part == c * a.bytes
               whole == w * a.bytes
    <3>1. part \in Nat /\ whole \in Nat /\ part + a.bytes <= whole
      BY <2>2, <2>3
    <3>2. a.offset + whole <= Max32
      BY <2>4
    <3> HIDE DEF part, whole
    <3>3. a.offset + part + a.bytes <= Max32
      BY <1>2, <3>1, <3>2, LimitsAreNumbers
    <3> QED
      BY <3>3 DEF part
  <2>5. ASSUME \A c \in 0 .. w - 1 : a.offset + c * a.bytes + a.bytes <= Max32
        PROVE  a.offset + w * a.bytes <= Max32 /\ a.offset <= Max32
    <3> DEFINE part == (w - 1) * a.bytes
               whole == w * a.bytes
    <3>1. part \in Nat /\ whole \in Nat /\ whole = part + a.bytes
      BY <2>1, <2>3
    <3>2. a.offset + part + a.bytes <= Max32
      BY <2>1, <2>5
    <3> HIDE DEF part, whole
    <3>3. a.offset + whole <= Max32 /\ a.offset <= Max32
      BY <1>2, <3>1, <3>2, LimitsAreNumbers
    <3> QED
      BY <3>3 DEF whole
  <2> QED
    BY <2>4, <2>5
<1>6. (EffectiveStride(a) <= MaxStride /\ EffectiveStride(a) >= a.size * a.bytes)
      <=> EffectiveStride(a) \in a.size * a.bytes .. MaxStride
  BY <1>3, <1>4, LimitsAreNumbers
<1>7. Unaddressable(i)
      <=> \/ ~(a.offset <= Max32 /\ a.offset + w * a.bytes <= Max32)
          \/ EffectiveStride(a) \notin a.size * a.bytes .. MaxStride
  <2>1. \A c \in 0 .. w - 1 : (a.offset + c * a.bytes + a.bytes > Max32)
                              <=> ~(a.offset + c * a.bytes + a.bytes <= Max32)
    BY <1>1, <1>2, LimitsAreNumbers
  <2> QED
    BY <1>5, <2>1 DEF Unaddressable, a, w
<1>8. (a.size < w) <=> ~(w <= a.size)
  BY <1>1, <1>2
<1>9. a.enabled
  BY DEF a
<1>10. Resolvable(a, w)
       <=> /\ ~(a.buffer = None \/ size[a.buffer] = None \/ a.size < w)
           /\ a.offset <= Max32 /\ a.offset + w * a.bytes <= Max32
           /\ EffectiveStride(a) <= MaxStride /\ EffectiveStride(a) >= a.size * a.bytes
  BY <1>8, <1>9 DEF Resolvable
<1> QED
  BY <1>6, <1>7, <1>10 DEF Unsourced, a, w

(* Some vertex has no 32-bit index just when the last one has none.         *)
LEMMA IndexableExact ==
    ASSUME NEW range \in Ranges
    PROVE  Indexable(range) <=> ~\E v \in range.first .. LastVertex(range) : v > Max32
<1>1. LastVertex(range) \in range.first .. LastVertex(range)
  BY RangeTyped DEF LastVertex
<1>2. \A v \in range.first .. LastVertex(range) : v > Max32 => LastVertex(range) > Max32
  BY RangeTyped, LimitsAreNumbers
<1> QED
  BY <1>1, <1>2, RangeTyped, LimitsAreNumbers DEF Indexable

(* A draw is refused exactly for one of the stated reasons: resolving the   *)
(* layout and checking the last element, in 64 bits that do not wrap,       *)
(* decide about every vertex, instance and component                        *)
(* (ringl_resolve_vertex_layout, ringl_validate_vertex_fetch_instanced).    *)
THEOREM RefusesExactlyHolds == Spec => []RefusesExactly
<1>1. Inv => RefusesExactly
  <2> SUFFICES ASSUME TypeOK, NEW range \in Ranges
               PROVE  Validates(range) <=> ~Refusable(range)
    BY DEF Inv, RefusesExactly, Refused
  <2>1. DOMAIN Layout = DOMAIN Needed /\ DOMAIN Needed \subseteq Attribs
    BY NeededTyped DEF Layout
  <2>2. \A i \in DOMAIN Needed :
           Layout[i] = IF Attrib(i).enabled THEN Fetched(Attrib(i), Needed[i]) ELSE Constant(value[i])
    BY DEF Layout
  <2>3. Layout = <<>> <=> DOMAIN Needed = {}
    BY <2>1 DEF Layout
  <2>4. ASSUME Validates(range) PROVE ~Refusable(range)
    <3>1. Resolves
      BY <2>4 DEF Validates
    <3>2. DOMAIN Needed # {} => Indexable(range)
      BY <2>3, <2>4 DEF Validates
    <3>3. ASSUME NEW i \in DOMAIN Needed, Attrib(i).enabled
          PROVE  /\ ~(Unsourced(i) \/ Unaddressable(i))
                 /\ FetchesInside(range, Fetched(Attrib(i), Needed[i]))
      <4>1. Resolvable(Attrib(i), Needed[i])
        BY <3>1 DEF Resolves
      <4>2. Layout[i] = Fetched(Attrib(i), Needed[i]) /\ i \in DOMAIN Layout
        BY <2>1, <2>2, <3>3
      <4>3. Layout[i].buffer # None
        BY <3>3, <4>1, <4>2 DEF Resolvable, Fetched
      <4> QED
        BY <2>4, <3>3, <4>1, <4>2, <4>3, ResolvableExact, ValidatesInside
    <3> QED
      BY <3>1, <3>2, <3>3, IndexableExact DEF Refusable, Resolves
  <2>5. ASSUME ~Refusable(range) PROVE Validates(range)
    <3>1. program # "broken" /\ (DOMAIN Needed # {} => Indexable(range))
      BY <2>5, IndexableExact DEF Refusable
    <3>2. ASSUME NEW i \in DOMAIN Needed, Attrib(i).enabled
          PROVE  /\ Resolvable(Attrib(i), Needed[i])
                 /\ FetchesInside(range, Fetched(Attrib(i), Needed[i]))
      BY <2>5, <3>2, ResolvableExact DEF Refusable
    <3>3. Resolves
      <4>1. \A i \in DOMAIN Needed : ~Attrib(i).enabled => Resolvable(Attrib(i), Needed[i])
        BY DEF Resolvable
      <4> QED
        BY <3>1, <3>2, <4>1 DEF Resolves
    <3>4. ASSUME NEW i \in DOMAIN Layout, Layout[i].buffer # None PROVE Fits(range, Layout[i])
      <4>1. Attrib(i).enabled
        BY <2>1, <2>2, <3>4 DEF Constant
      <4>2. Layout[i] = Fetched(Attrib(i), Needed[i]) /\ i \in DOMAIN Needed
        BY <2>1, <2>2, <4>1
      <4>3. FetchesInside(range, Layout[i]) /\ Layout[i] \in Format
        BY <3>2, <3>3, <4>1, <4>2, LayoutTyped
      <4>4. Needed[i] \in 1 .. 4 /\ Layout[i].width = Needed[i]
        BY <4>2, NeededTyped DEF Fetched
      <4>5. Layout[i].bytes # 0
        <5>1. i \in Attribs
          BY <2>1, <4>2
        <5> QED
          BY <4>2, <5>1 DEF Fetched, Attrib, TypeOK, Attributes
      <4>6. size[Layout[i].buffer] # 0
        BY <3>4, <4>3, <4>4, <4>5, FetchesSomething
      <4> QED
        BY <3>4, <4>3, <4>6, InsideFits
    <3> QED
      BY <2>3, <3>1, <3>3, <3>4 DEF Validates
  <2> QED
    BY <2>4, <2>5
<1> QED
  BY InvariantHolds, <1>1, PTL
=============================================================================
