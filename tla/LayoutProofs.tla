---------------------------- MODULE LayoutProofs ----------------------------
(***************************************************************************)
(* What the word arithmetic of aligned-buffer computes, for every width of *)
(* the word, every header and every alignment.                             *)
(***************************************************************************)
EXTENDS Layout, DataLemmas

-----------------------------------------------------------------------------
(* Padding.                                                                *)

\* padding_needed_for is the least padding that aligns what comes next, also
\* where the sum it starts from wraps around (for sizes whose rounding stays in
\* the word, as every layout's does).
THEOREM PaddingAligns ==
    ASSUME NEW size \in Nat, NEW align \in Nat \ {0}, size + align <= Word
    PROVE  LET pad == PaddingNeededFor(size, align) IN
           /\ pad \in 0 .. align - 1
           /\ (size + pad) % align = 0
           /\ \A p \in 0 .. align - 1 : (size + p) % align = 0 => pad <= p
<1> DEFINE x == size + align - 1
           q == x \div align
           r == x % align
           pad == PaddingNeededFor(size, align)
<1>1. TagBit \in Nat /\ x \in Nat /\ x < Word /\ Word \in Nat \ {0}
  BY LayoutAssumption DEF Word
<1>2. q \in Int /\ r \in 0 .. align - 1 /\ x = align * q + r
  BY <1>1, DivMod
<1>3. x % Word = x
  BY <1>1, ModBelow
<1>4. x - r - size = align - 1 - r /\ x - r - size \in 0 .. Word - 1
  BY <1>1, <1>2
<1>5. pad = x - r - size
  BY <1>1, <1>3, <1>4, ModBelow DEF PaddingNeededFor
<1>6. pad \in 0 .. align - 1
  BY <1>2, <1>4, <1>5
<1>7. size + pad = align * q + 0
  BY <1>1, <1>2, <1>5
<1>8. (size + pad) % align = 0
  BY <1>2, <1>7, ModUnique
<1>9. ASSUME NEW p \in 0 .. align - 1, (size + p) % align = 0
      PROVE  pad <= p
  <2>1. size + pad \in Int /\ p - pad \in Int /\ size + p = (size + pad) + (p - pad)
    BY <1>6
  <2>2. (p - pad) % align = 0
    BY <1>8, <1>9, <2>1, ModAddMultiple
  <2>3. CASE p < pad
    <3>1. p - pad = align * (-1) + (p - pad + align) /\ p - pad + align \in 0 .. align - 1
      BY <1>6, <2>3
    <3>2. (p - pad) % align = p - pad + align
      BY <3>1, ModUnique
    <3> QED
      BY <1>6, <2>2, <3>2
  <2> QED
    BY <1>6, <2>3
<1> QED
  BY <1>6, <1>8, <1>9

\* The one case PaddingAligns leaves out: when rounding up leaves the word, the
\* padding takes the size to 0, as padding_needed_for's comment says.
THEOREM PaddingWraps ==
    ASSUME NEW size \in 0 .. Word - 1, NEW align \in 1 .. Word, size + align > Word
    PROVE  /\ PaddingNeededFor(size, align) = Word - size
           /\ (size + PaddingNeededFor(size, align)) % Word = 0
<1> DEFINE over == size + align - 1 - Word
<1>1. /\ Word \in Nat \ {0} /\ align \in Nat \ {0} /\ size \in 1 .. Word - 1
      /\ over \in 0 .. align - 1 /\ over \in 0 .. Word - 1
  BY LayoutAssumption DEF Word
<1>2. size + align - 1 = Word * 1 + over
  BY <1>1
<1> HIDE DEF over
<1>3. (size + align - 1) % Word = over /\ over % align = over
  BY <1>1, <1>2, ModUnique, ModBelow
<1>4. over - (over % align) - size = Word * (-1) + (Word - size)
  BY <1>1, <1>3
<1>5. Word - size \in 0 .. Word - 1 /\ -1 \in Int
  BY <1>1
<1>6. (Word * (-1) + (Word - size)) % Word = Word - size
  BY <1>1, <1>5, ModUnique
<1>7. PaddingNeededFor(size, align) = Word - size
  BY <1>3, <1>4, <1>6 DEF PaddingNeededFor
<1>8. size + (Word - size) = Word * 1 + 0 /\ 0 \in 0 .. Word - 1
  BY <1>1
<1>9. (size + (Word - size)) % Word = 0
  BY <1>1, <1>8, ModUnique
<1> QED
  BY <1>7, <1>9

-----------------------------------------------------------------------------
(* The layout of a buffer.                                                 *)

\* The header's padding, and the range of the offset.
LEMMA Offset ==
    /\ BUFFER_OFFSET \in Nat
    /\ HeaderSize <= BUFFER_OFFSET /\ BUFFER_OFFSET < HeaderSize + ALIGNMENT
    /\ BUFFER_OFFSET % ALIGNMENT = 0
    /\ LayoutAlign \in Nat \ {0} /\ ALIGNMENT <= LayoutAlign
<1>1. /\ LayoutAlign \in Nat \ {0} /\ ALIGNMENT <= LayoutAlign /\ HeaderAlign <= LayoutAlign
      /\ TagBit \in Nat /\ HeaderSize \in Nat /\ ALIGNMENT \in Nat \ {0}
  BY LayoutAssumption DEF LayoutAlign, Larger
<1>2. HeaderSize + ALIGNMENT <= Word
  BY <1>1, LayoutAssumption DEF Word
<1>3. /\ PaddingNeededFor(HeaderSize, ALIGNMENT) \in 0 .. ALIGNMENT - 1
      /\ (HeaderSize + PaddingNeededFor(HeaderSize, ALIGNMENT)) % ALIGNMENT = 0
  BY <1>1, <1>2, PaddingAligns
<1> QED
  BY <1>1, <1>3 DEF BUFFER_OFFSET, ExtendOffset

\* layout() succeeds for the sizes up to Limit and for no other: no addition in
\* it wraps for a size it accepts.
THEOREM LimitIsExact ==
    ASSUME NEW n \in Nat
    PROVE  HasLayout(n) <=> n <= Limit
<1>1. /\ TagBit \in Nat /\ HeaderSize \in Nat /\ ALIGNMENT \in Nat \ {0}
      /\ HeaderSize + 2 * LayoutAlign < TagBit
  BY LayoutAssumption
<1>2. CanExtend(HeaderSize, HeaderAlign, n, ALIGNMENT)
      <=> /\ BUFFER_OFFSET < Word
          /\ BUFFER_OFFSET + n < Word
          /\ BUFFER_OFFSET + n <= TagBit - LayoutAlign
  BY DEF CanExtend, BUFFER_OFFSET, IsLayout, LayoutAlign
<1>3. IsLayout(n, ALIGNMENT) <=> n <= TagBit - ALIGNMENT
  BY DEF IsLayout
<1> QED
  BY <1>1, <1>2, <1>3, Offset DEF HasLayout, Limit, Word

\* A capacity that has a layout leaves the tag bit alone, its double stays in
\* the word (grow_amortized computes it unchecked), and there is room for one
\* byte at least.
THEOREM CapacityFitsWord ==
    /\ Limit \in 1 .. MAX_VALUE
    /\ \A cap \in 0 .. Limit : 2 * cap < Word
BY Offset, LayoutAssumption DEF Limit, MAX_VALUE, Word

\* remaining_mut subtracts the length from MAX_CAPACITY unchecked: no buffer is
\* that long where the layout's alignment passes what MAX_CAPACITY sets aside.
THEOREM RemainingDoesNotWrap ==
    ASSUME Reserved < LayoutAlign
    PROVE  Limit <= MAX_CAPACITY
BY Offset, LayoutAssumption DEF Limit, MAX_CAPACITY, MAX_VALUE

\* The bytes of a buffer are aligned to ALIGNMENT when the allocator aligns
\* the block to its layout, and so is what is archived in them at a multiple of
\* ALIGNMENT, as the serializers of the buffers do.
THEOREM BytesAreAligned ==
    ASSUME NEW block \in Nat, block % LayoutAlign = 0,
           NEW pos \in Nat, pos % ALIGNMENT = 0
    PROVE  (block + BUFFER_OFFSET + pos) % ALIGNMENT = 0
<1>1. ALIGNMENT \in Nat \ {0} /\ LayoutAlign % ALIGNMENT = 0
  BY LayoutAssumption
<1>2. LayoutAlign \in Nat \ {0} /\ BUFFER_OFFSET \in Nat /\ BUFFER_OFFSET % ALIGNMENT = 0
  BY Offset
<1>3. block \in Int /\ BUFFER_OFFSET \in Int /\ pos \in Int
  BY <1>2
<1>4. block % ALIGNMENT = 0
  BY <1>1, <1>2, <1>3, ModTrans
<1>5. (block + BUFFER_OFFSET) % ALIGNMENT = 0
  <2>1. (block + BUFFER_OFFSET) % ALIGNMENT = BUFFER_OFFSET % ALIGNMENT
    BY <1>1, <1>3, <1>4, ModAddMultiple
  <2> QED
    BY <1>2, <2>1
<1>6. block + BUFFER_OFFSET \in Int
  BY <1>3
<1>7. (block + BUFFER_OFFSET + pos) % ALIGNMENT = pos % ALIGNMENT
  BY <1>1, <1>3, <1>5, <1>6, ModAddMultiple
<1> QED
  BY <1>7

-----------------------------------------------------------------------------
(* The tagged word.                                                        *)

\* What new stores comes back: the value and the flag.
THEOREM TagRoundTrip ==
    ASSUME NEW v \in 0 .. MAX_VALUE, NEW allocated \in BOOLEAN
    PROVE  /\ TaggedCap(v, allocated) = v + (IF allocated THEN TagBit ELSE 0)
           /\ TaggedCap(v, allocated) \in 0 .. Word - 1
           /\ Value(TaggedCap(v, allocated)) = v
           /\ IsAllocated(TaggedCap(v, allocated)) <=> allocated
<1>1. TagBit \in Nat \ {0} /\ v \in 0 .. TagBit - 1
  BY LayoutAssumption, Offset DEF MAX_VALUE
<1>2. v % TagBit = v /\ 0 % TagBit = 0 /\ (TagBit - 1) % TagBit = TagBit - 1
  BY <1>1, ModBelow
<1>3. TagBit % TagBit = 0
  <2>1. TagBit = TagBit * 1 + 0
    BY <1>1
  <2> QED
    BY <1>1, <2>1, ModUnique
<1>4. WithValue(Zero, v) = v
  BY <1>1, <1>2 DEF WithValue, Value, Zero
<1>5. CASE allocated
  <2>1. (TagBit - 1) + 1 = TagBit
    BY <1>1
  <2>2. TaggedCap(v, allocated) = v + TagBit
    BY <1>1, <1>2, <1>3, <1>4, <1>5, <2>1 DEF TaggedCap, WithAllocated, Value
  <2>3. v + TagBit = TagBit * 1 + v
    BY <1>1
  <2>4. Value(v + TagBit) = v
    BY <1>1, <2>3, ModUnique DEF Value
  <2>5. v + TagBit >= TagBit /\ v + TagBit \in 0 .. Word - 1
    BY <1>1 DEF Word
  <2>6. IsAllocated(TaggedCap(v, allocated)) = allocated
    BY <1>5, <2>2, <2>5 DEF IsAllocated
  <2>7. v + (IF allocated THEN TagBit ELSE 0) = v + TagBit
    BY <1>5
  <2> QED
    BY <2>2, <2>4, <2>5, <2>6, <2>7
<1>6. CASE ~allocated
  <2>1. TaggedCap(v, allocated) = v
    BY <1>1, <1>2, <1>4, <1>6 DEF TaggedCap, WithAllocated, Value
  <2> QED
    BY <1>1, <1>2, <1>6, <2>1 DEF IsAllocated, Word, Value
<1> QED
  BY <1>5, <1>6

\* with_value keeps the tag, whatever the word held.
THEOREM WithValueKeepsTag ==
    ASSUME NEW w \in 0 .. Word - 1, NEW v \in 0 .. MAX_VALUE
    PROVE  WithValue(w, v) = TaggedCap(v, IsAllocated(w))
<1>1. TagBit \in Nat \ {0} /\ v \in 0 .. TagBit - 1 /\ v % TagBit = v
  BY LayoutAssumption, Offset, ModBelow DEF MAX_VALUE
<1>2. IsAllocated(w) \in BOOLEAN
  BY DEF IsAllocated
<1>3. TaggedCap(v, IsAllocated(w)) = v + (IF IsAllocated(w) THEN TagBit ELSE 0)
  BY <1>2, TagRoundTrip
<1>4. CASE IsAllocated(w)
  <2>1. w = TagBit * 1 + (w - TagBit) /\ w - TagBit \in 0 .. TagBit - 1
    BY <1>1, <1>4 DEF IsAllocated, Word
  <2>2. Value(w) = w - TagBit
    BY <1>1, <2>1, ModUnique DEF Value
  <2> QED
    BY <1>1, <1>3, <1>4, <2>2 DEF WithValue
<1>5. CASE ~IsAllocated(w)
  <2>1. w \in 0 .. TagBit - 1
    BY <1>1, <1>5 DEF IsAllocated
  <2>2. Value(w) = w
    BY <1>1, <2>1, ModBelow DEF Value
  <2> QED
    BY <1>1, <1>3, <1>5, <2>2 DEF WithValue
<1> QED
  BY <1>4, <1>5
=============================================================================
