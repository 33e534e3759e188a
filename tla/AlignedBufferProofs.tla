------------------------ MODULE AlignedBufferProofs ------------------------
(***************************************************************************)
(* The type invariant of AlignedBuffer, LayoutFits, and that buffers are   *)
(* strings of bytes (ByteStrings), for any handles, blocks, header,        *)
(* alignment, word and slack of the allocator.                             *)
(*                                                                         *)
(* The words are Layout's: beside the lemmas of its proofs nothing here    *)
(* looks inside a tagged capacity.                                         *)
(***************************************************************************)
EXTENDS AlignedBuffer, LayoutProofs, FiniteSetTheorems

-----------------------------------------------------------------------------
(* Words and requests.                                                     *)

LEMMA Limits ==
    /\ TagBit \in Nat \ {0} /\ Word = 2 * TagBit /\ MAX_VALUE = TagBit - 1
    /\ Limit \in 1 .. MAX_VALUE
BY LayoutAssumption, CapacityFitsWord, Offset DEF Word, MAX_VALUE

LEMMA WordsMade ==
    ASSUME NEW v \in 0 .. Limit, NEW a \in BOOLEAN
    PROVE  /\ TaggedCap(v, a) \in 0 .. Word - 1
           /\ Value(TaggedCap(v, a)) = v
           /\ IsAllocated(TaggedCap(v, a)) <=> a
<1>1. v \in 0 .. MAX_VALUE
  BY Limits
<1> QED
  BY <1>1, TagRoundTrip

LEMMA ZeroWord ==
    /\ Zero \in 0 .. Word - 1 /\ Value(Zero) = 0 /\ ~IsAllocated(Zero)
    /\ TaggedCap(0, FALSE) = Zero
<1>1. 0 \in 0 .. MAX_VALUE /\ 0 \in 0 .. Limit /\ FALSE \in BOOLEAN
  BY Limits
<1>2. PICK w \in 0 .. Word - 1 : w = TaggedCap(0, FALSE) /\ Value(w) = 0 /\ ~IsAllocated(w)
  BY <1>1, WordsMade
<1>3. w % TagBit = 0 /\ ~(w >= TagBit)
  BY <1>2 DEF Value, IsAllocated
<1>4. w \in 0 .. TagBit - 1 /\ TagBit \in Nat \ {0}
  BY <1>3, Limits
<1>5. w = 0
  BY <1>3, <1>4, ModBelow
<1>6. TaggedCap(0, FALSE) = Zero
  BY <1>2, <1>5 DEF Zero
<1> QED
  BY <1>2, <1>6

LEMMA WordsChanged ==
    ASSUME NEW w \in 0 .. Word - 1, NEW v \in 0 .. Limit
    PROVE  /\ WithValue(w, v) \in 0 .. Word - 1
           /\ Value(WithValue(w, v)) = v
           /\ IsAllocated(WithValue(w, v)) <=> IsAllocated(w)
           /\ ~IsAllocated(w) /\ v = 0 => WithValue(w, v) = Zero
<1>1. v \in 0 .. MAX_VALUE /\ IsAllocated(w) \in BOOLEAN
  BY Limits DEF IsAllocated
<1>2. WithValue(w, v) = TaggedCap(v, IsAllocated(w))
  BY <1>1, WithValueKeepsTag
<1>3. ~IsAllocated(w) /\ v = 0 => WithValue(w, v) = Zero
  BY <1>1, <1>2, ZeroWord
<1> QED
  BY <1>1, <1>2, <1>3, WordsMade

\* What alloc and realloc let through is within the limit, and what they get has
\* a layout too.
LEMMA Asked ==
    ASSUME NEW n \in Nat, Obtainable(n)
    PROVE  n <= Limit
BY LimitIsExact DEF Obtainable

LEMMA RoomsHaveRoom ==
    ASSUME NEW h, NEW n \in 1 .. Limit, NEW r \in Rooms(h, n)
    PROVE  /\ r.blk \in Blocks /\ (r.blk = buf[h] \/ r.blk \notin live)
           /\ r.cap \in n .. Limit /\ r.cap \in 0 .. Limit /\ r.cap > 0
           /\ r.cap \in n .. r.cap /\ n .. r.cap \subseteq 0 .. Limit
<1>1. /\ r.blk \in Blocks /\ (r.blk = buf[h] \/ r.blk \notin live)
      /\ r.cap \in n .. Smaller(n + MaxSlack, Limit)
  BY DEF Rooms
<1>2. r.cap \in n .. Limit
  BY <1>1, Limits, BufferAssumption DEF Smaller
<1> QED
  BY <1>1, <1>2, Limits

-----------------------------------------------------------------------------
(* Bytes.                                                                  *)

Cells == Bytes \cup {Junk}

LEMMA Lengths ==
    ASSUME NEW S, NEW n \in Nat, NEW s \in [1 .. n -> S]
    PROVE  s \in Seq(S) /\ Len(s) = n
<1>1. s \in Seq(S) /\ DOMAIN s = 1 .. n
  BY SeqDef
<1>2. DOMAIN s = 1 .. Len(s) /\ Len(s) \in Nat
  BY <1>1, LenProperties
<1> QED
  BY <1>1, <1>2

LEMMA Strung ==
    ASSUME NEW s \in Strings
    PROVE  s \in Seq(Bytes) /\ Len(s) = 2
BY Lengths DEF Strings

LEMMA One ==
    ASSUME NEW x \in Bytes
    PROVE  <<x>> \in Seq(Bytes) /\ Len(<<x>>) = 1
OBVIOUS

LEMMA CarriedCells ==
    ASSUME data \in [Blocks -> Seq(Cells)], NEW h, Allocated(h) => buf[h] \in Blocks,
           NEW c \in Nat
    PROVE  Carried(h, c) \in Seq(Cells) /\ Len(Carried(h, c)) = c
<1> DEFINE old == IF Allocated(h) THEN data[buf[h]] ELSE <<>>
<1>1. old \in Seq(Cells)
  BY Empty
<1>2. \A i \in 1 .. Len(old) : old[i] \in Cells
  BY <1>1, LenProperties, ElementOfSeq
<1>3. Len(old) \in Nat
  BY <1>1, LenProperties
<1> HIDE DEF old
<1>4. \A i \in 1 .. c : (IF i <= Len(old) THEN old[i] ELSE Junk) \in Cells
  BY <1>2, <1>3 DEF Cells
<1>5. [i \in 1 .. c |-> IF i <= Len(old) THEN old[i] ELSE Junk] \in [1 .. c -> Cells]
  BY <1>4
<1>6. Carried(h, c) \in [1 .. c -> Cells]
  BY <1>5 DEF Carried, old
<1> QED
  BY <1>6, Lengths

LEMMA WrittenCells ==
    ASSUME NEW v \in Seq(Cells), NEW n \in Nat, NEW s \in Seq(Bytes)
    PROVE  Written(v, n, s) \in Seq(Cells) /\ Len(Written(v, n, s)) = Len(v)
<1>1. DOMAIN v = 1 .. Len(v) /\ Len(v) \in Nat /\ \A i \in DOMAIN v : v[i] \in Cells
  BY LenProperties, ElementOfSeq
<1>2. Len(s) \in Nat /\ \A i \in 1 .. Len(s) : s[i] \in Bytes
  BY LenProperties, ElementOfSeq
<1>3. \A i \in DOMAIN v : i \in n + 1 .. n + Len(s) => i - n \in 1 .. Len(s)
  BY <1>1, <1>2
<1>4. \A i \in DOMAIN v : (IF i \in n + 1 .. n + Len(s) THEN s[i - n] ELSE v[i]) \in Cells
  BY <1>1, <1>2, <1>3 DEF Cells
<1>5. Written(v, n, s) \in [1 .. Len(v) -> Cells]
  BY <1>1, <1>4 DEF Written
<1> QED
  BY <1>1, <1>5, Lengths

-----------------------------------------------------------------------------
(* The invariant.                                                          *)

Refs(b) == {h \in Handles : buf[h] = b}

Types ==
    /\ kind \in [Handles -> {"none", "unique", "shared"}]
    /\ buf \in [Handles -> Blocks \cup {NoBlock}]
    /\ cap_or_len \in [Handles -> 0 .. Word - 1]
    /\ len \in [Handles -> 0 .. Limit]
    /\ live \in SUBSET Blocks
    /\ ref_count \in [Blocks -> Nat]
    /\ alloc_size \in [Blocks -> 0 .. Limit]
    /\ fit \in [Blocks -> SUBSET (0 .. Limit)]
    /\ data \in [Blocks -> Seq(Cells)]
    /\ panicked \in BOOLEAN

\* The word of a handle: the tag says whether there is a block.
WordFine(h) ==
    /\ Allocated(h) <=> buf[h] # NoBlock
    /\ CapOrLen(h) \in 0 .. Limit
    /\ ~Allocated(h) => cap_or_len[h] = Zero

PlaceFine(h) ==
    /\ buf[h] \in Blocks => buf[h] \in live
    /\ kind[h] = "none" => buf[h] = NoBlock
    /\ kind[h] # "unique" \/ buf[h] = NoBlock => len[h] = 0

\* What the word says of the block, and that a unique buffer is counted once.
SizeFine(h) ==
    buf[h] \in Blocks =>
        /\ kind[h] = "unique" => /\ CapOrLen(h) = alloc_size[buf[h]]
                                 /\ len[h] <= CapOrLen(h)
                                 /\ ref_count[buf[h]] = 1
        /\ kind[h] = "shared" => CapOrLen(h) <= alloc_size[buf[h]]

HandleFine(h) == WordFine(h) /\ PlaceFine(h) /\ SizeFine(h)

BlockFine(b) ==
    /\ ref_count[b] = Cardinality(Refs(b))
    /\ b \in live => /\ alloc_size[b] \in fit[b] /\ alloc_size[b] > 0
                     /\ Len(data[b]) = alloc_size[b] /\ ref_count[b] > 0

IInv ==
    /\ Types
    /\ \A h \in Handles : HandleFine(h)
    /\ \A b \in Blocks : BlockFine(b)

LEMMA RefsFinite ==
    ASSUME NEW b
    PROVE  IsFiniteSet(Refs(b)) /\ Cardinality(Refs(b)) \in 0 .. Cardinality(Handles)
<1>1. Refs(b) \in SUBSET Handles /\ IsFiniteSet(Handles)
  BY BufferAssumption DEF Refs
<1> QED
  BY <1>1, FS_Subset, FS_CardinalityType

\* A handle whose block counts one has it to itself.
LEMMA Alone ==
    ASSUME IInv, NEW h \in Handles, buf[h] \in Blocks, ref_count[buf[h]] = 1
    PROVE  Refs(buf[h]) = {h} /\ \A g \in Handles : buf[g] = buf[h] => g = h
<1>1. h \in Refs(buf[h]) /\ Cardinality(Refs(buf[h])) = 1
  BY DEF IInv, BlockFine, Refs
<1>2. PICK x : Refs(buf[h]) = {x}
  BY <1>1, RefsFinite, FS_Singleton
<1>3. Refs(buf[h]) = {h}
  BY <1>1, <1>2
<1> QED
  BY <1>3 DEF Refs

-----------------------------------------------------------------------------
(* Steps that leave the blocks where they are.                             *)

LEMMA InPlace ==
    ASSUME IInv, NEW h \in Handles,
           NEW k \in {"none", "unique", "shared"}, NEW w \in 0 .. Word - 1, NEW x \in 0 .. Limit,
           UNCHANGED <<buf, live, ref_count, alloc_size, fit>>,
           data' \in [Blocks -> Seq(Cells)], \A b \in Blocks : Len(data'[b]) = Len(data[b]),
           panicked' \in BOOLEAN,
           kind' = [kind EXCEPT ![h] = k],
           cap_or_len' = [cap_or_len EXCEPT ![h] = w],
           len' = [len EXCEPT ![h] = x],
           HandleFine(h)'
    PROVE  IInv'
<1>1. Types'
  BY DEF IInv, Types
<1>2. ASSUME NEW g \in Handles, g # h PROVE HandleFine(g)'
  <2>1. kind'[g] = kind[g] /\ cap_or_len'[g] = cap_or_len[g] /\ len'[g] = len[g]
    BY <1>2 DEF IInv, Types
  <2>2. HandleFine(g)
    BY DEF IInv
  <2> QED BY <2>1, <2>2 DEF HandleFine, WordFine, PlaceFine, SizeFine, Allocated, CapOrLen
<1>3. \A b \in Blocks : BlockFine(b)'
  BY DEF IInv, BlockFine, Refs
<1> QED
  BY <1>1, <1>2, <1>3 DEF IInv

-----------------------------------------------------------------------------
(* Steps that move, free, share or let go of a block.                      *)

\* alloc, realloc: the handle ends up alone on a block that has room.
LEMMA Settled ==
    ASSUME IInv, NEW h \in Handles, kind[h] # "shared",
           NEW n \in 1 .. Limit, NEW r \in Rooms(h, n), NEW v \in Seq(Cells),
           Settle(h, n, r, v), Len(v) = r.cap,
           NEW x \in 0 .. Limit, x <= r.cap,
           kind' = [kind EXCEPT ![h] = "unique"], len' = [len EXCEPT ![h] = x],
           panicked' = panicked
    PROVE  IInv'
<1>1. /\ r.blk \in Blocks /\ (r.blk = buf[h] \/ r.blk \notin live)
      /\ r.cap \in 0 .. Limit /\ r.cap > 0
      /\ r.cap \in n .. r.cap /\ n .. r.cap \subseteq 0 .. Limit
  BY RoomsHaveRoom
<1>2. Types /\ HandleFine(h) /\ r.blk # NoBlock
  BY <1>1, BufferAssumption DEF IInv
<1>3. /\ Allocated(h) <=> buf[h] \in Blocks
      /\ Allocated(h) => ref_count[buf[h]] = 1 /\ Refs(buf[h]) = {h}
  <2>1. buf[h] \in Blocks <=> buf[h] # NoBlock
    BY <1>2, BufferAssumption DEF Types
  <2>2. buf[h] \in Blocks => kind[h] = "unique" /\ ref_count[buf[h]] = 1
    BY <1>2, <2>1 DEF HandleFine, PlaceFine, SizeFine, Types
  <2> QED BY <1>2, <2>1, <2>2, Alone DEF HandleFine, WordFine
<1>4. /\ buf' = [buf EXCEPT ![h] = r.blk]
      /\ live' = (live \ {buf[h]}) \cup {r.blk}
      /\ \A b \in Blocks :
           /\ ref_count'[b] = IF b = r.blk THEN 1 ELSE IF b = buf[h] THEN 0 ELSE ref_count[b]
           /\ alloc_size'[b] = IF b = r.blk THEN r.cap ELSE IF b = buf[h] THEN 0 ELSE alloc_size[b]
           /\ fit'[b] = IF b = r.blk THEN n .. r.cap ELSE IF b = buf[h] THEN {} ELSE fit[b]
           /\ data'[b] = IF b = r.blk THEN v ELSE IF b = buf[h] THEN <<>> ELSE data[b]
  BY <1>3 DEF Settle
<1>5. PICK w \in 0 .. Word - 1 : /\ cap_or_len' = [cap_or_len EXCEPT ![h] = w]
                                /\ Value(w) = r.cap /\ IsAllocated(w)
  <2>1. /\ WithValue(cap_or_len[h], r.cap) \in 0 .. Word - 1
        /\ Value(WithValue(cap_or_len[h], r.cap)) = r.cap
        /\ Allocated(h) => IsAllocated(WithValue(cap_or_len[h], r.cap))
    BY <1>1, <1>2, WordsChanged DEF Types, Allocated
  <2>2. /\ TaggedCap(r.cap, TRUE) \in 0 .. Word - 1
        /\ Value(TaggedCap(r.cap, TRUE)) = r.cap /\ IsAllocated(TaggedCap(r.cap, TRUE))
    BY <1>1, WordsMade
  <2> QED BY <2>1, <2>2 DEF Settle
<1>6. Types'
  <2>1. /\ ref_count' = [b \in Blocks |-> ref_count'[b]]
        /\ alloc_size' = [b \in Blocks |-> alloc_size'[b]]
        /\ fit' = [b \in Blocks |-> fit'[b]]
    BY DEF Settle
  <2>2. /\ ref_count' \in [Blocks -> Nat]
        /\ alloc_size' \in [Blocks -> 0 .. Limit]
    <3>1. 0 \in 0 .. Limit
      BY Limits
    <3>2. \A b \in Blocks : ref_count[b] \in Nat /\ alloc_size[b] \in 0 .. Limit
      BY <1>2 DEF Types
    <3>3. \A b \in Blocks : ref_count'[b] \in Nat
      BY <1>4, <3>2
    <3>4. \A b \in Blocks : alloc_size'[b] \in 0 .. Limit
      BY <1>1, <1>4, <3>1, <3>2
    <3> QED BY <2>1, <3>3, <3>4
  <2>3. fit' \in [Blocks -> SUBSET (0 .. Limit)]
    BY <1>1, <1>2, <1>4, <2>1 DEF Types
  <2>4. data' \in [Blocks -> Seq(Cells)]
    BY <1>2, Empty DEF Settle, Types
  <2>5. kind' \in [Handles -> {"none", "unique", "shared"}] /\ len' \in [Handles -> 0 .. Limit]
    BY <1>2 DEF Types
  <2>6. buf' \in [Handles -> Blocks \cup {NoBlock}] /\ live' \in SUBSET Blocks
        /\ cap_or_len' \in [Handles -> 0 .. Word - 1] /\ panicked' \in BOOLEAN
    BY <1>1, <1>2, <1>4, <1>5 DEF Types
  <2> QED BY <2>2, <2>3, <2>4, <2>5, <2>6 DEF Types
<1>7. /\ buf'[h] = r.blk /\ cap_or_len'[h] = w /\ kind'[h] = "unique" /\ len'[h] = x
      /\ \A g \in Handles : g # h => /\ buf'[g] = buf[g] /\ cap_or_len'[g] = cap_or_len[g]
                                     /\ kind'[g] = kind[g] /\ len'[g] = len[g]
  BY <1>2, <1>4, <1>5 DEF Types
<1>8. HandleFine(h)'
  BY <1>1, <1>2, <1>4, <1>5, <1>7
  DEF HandleFine, WordFine, PlaceFine, SizeFine, Allocated, CapOrLen
<1>9. \A g \in Handles : g # h /\ buf[g] \in Blocks => buf[g] # r.blk /\ buf[g] # buf[h]
  <2>1. ASSUME NEW g \in Handles, g # h, buf[g] \in Blocks
        PROVE  buf[g] # buf[h] /\ buf[g] \in live
    BY <1>3, <2>1 DEF IInv, HandleFine, PlaceFine, Refs
  <2> QED BY <1>1, <2>1
<1>10. ASSUME NEW g \in Handles, g # h PROVE HandleFine(g)'
  <2>1. HandleFine(g)
    BY DEF IInv
  <2>2. buf[g] \in Blocks => /\ ref_count'[buf[g]] = ref_count[buf[g]]
                             /\ alloc_size'[buf[g]] = alloc_size[buf[g]]
                             /\ buf[g] \in live => buf[g] \in live'
    BY <1>4, <1>9, <1>10
  <2> QED BY <1>7, <1>10, <2>1, <2>2
          DEF HandleFine, WordFine, PlaceFine, SizeFine, Allocated, CapOrLen
<1>11. ASSUME NEW b \in Blocks PROVE BlockFine(b)'
  <2>1. CASE b = r.blk
    <3>1. Refs(b)' = {h}
      BY <1>7, <1>9, <2>1 DEF Refs
    <3>2. Cardinality({h}) = 1 /\ ref_count'[b] = 1
      BY <1>1, <1>4, <2>1, FS_Singleton
    <3>3. alloc_size'[b] \in fit'[b] /\ alloc_size'[b] > 0 /\ Len(data'[b]) = alloc_size'[b]
      BY <1>1, <1>4, <2>1
    <3> QED BY <3>1, <3>2, <3>3 DEF BlockFine
  <2>2. CASE b # r.blk /\ b = buf[h]
    <3>1. Refs(b)' = {}
      BY <1>7, <1>9, <2>2 DEF Refs
    <3> QED BY <1>4, <2>2, <3>1, FS_EmptySet DEF BlockFine
  <2>3. CASE b # r.blk /\ b # buf[h]
    <3>1. Refs(b)' = Refs(b)
      BY <1>7, <2>3 DEF Refs
    <3> QED BY <1>4, <2>3, <3>1 DEF IInv, BlockFine
  <2> QED BY <2>1, <2>2, <2>3
<1> QED
  BY <1>6, <1>8, <1>10, <1>11 DEF IInv

\* The block of its only handle is freed.
LEMMA FreedAlone ==
    ASSUME IInv, NEW h \in Handles, buf[h] \in Blocks, ref_count[buf[h]] = 1,
           Freed(buf[h]), NEW k \in {"none", "unique"},
           kind' = [kind EXCEPT ![h] = k], buf' = [buf EXCEPT ![h] = NoBlock],
           cap_or_len' = [cap_or_len EXCEPT ![h] = Zero], len' = [len EXCEPT ![h] = 0],
           panicked' = panicked
    PROVE  IInv'
<1>1. Types /\ NoBlock \notin Blocks
  BY BufferAssumption DEF IInv
<1>2. Types'
  <2>1. data' \in [Blocks -> Seq(Cells)]
    BY <1>1, Empty DEF Freed, Types
  <2>2. ref_count' \in [Blocks -> Nat] /\ alloc_size' \in [Blocks -> 0 .. Limit]
    BY <1>1, Limits DEF Freed, Types
  <2>3. fit' \in [Blocks -> SUBSET (0 .. Limit)] /\ live' \in SUBSET Blocks
    BY <1>1 DEF Freed, Types
  <2>4. len' \in [Handles -> 0 .. Limit] /\ cap_or_len' \in [Handles -> 0 .. Word - 1]
    BY <1>1, Limits, ZeroWord DEF Types
  <2> QED BY <1>1, <2>1, <2>2, <2>3, <2>4 DEF Types
<1>3. /\ buf'[h] = NoBlock /\ cap_or_len'[h] = Zero /\ kind'[h] = k /\ len'[h] = 0
      /\ \A g \in Handles : g # h => /\ buf'[g] = buf[g] /\ cap_or_len'[g] = cap_or_len[g]
                                     /\ kind'[g] = kind[g] /\ len'[g] = len[g]
  BY <1>1 DEF Types
<1>4. /\ live' = live \ {buf[h]} /\ ref_count'[buf[h]] = 0
      /\ \A b \in Blocks : b # buf[h] => /\ ref_count'[b] = ref_count[b] /\ fit'[b] = fit[b]
                                         /\ alloc_size'[b] = alloc_size[b] /\ data'[b] = data[b]
  BY <1>1 DEF Freed, Types
<1>5. \A g \in Handles : g # h => buf[g] # buf[h]
  BY Alone
<1>6. HandleFine(h)'
  BY <1>1, <1>3, ZeroWord, Limits
  DEF HandleFine, WordFine, PlaceFine, SizeFine, Allocated, CapOrLen
<1>7. ASSUME NEW g \in Handles, g # h PROVE HandleFine(g)'
  <2>1. HandleFine(g)
    BY DEF IInv
  <2> QED BY <1>3, <1>4, <1>5, <1>7, <2>1
          DEF HandleFine, WordFine, PlaceFine, SizeFine, Allocated, CapOrLen
<1>8. ASSUME NEW b \in Blocks PROVE BlockFine(b)'
  <2>1. CASE b = buf[h]
    <3>1. Refs(b)' = {}
      BY <1>1, <1>3, <1>5, <2>1 DEF Refs
    <3> QED BY <1>4, <2>1, <3>1, FS_EmptySet DEF BlockFine
  <2>2. CASE b # buf[h]
    <3>1. Refs(b)' = Refs(b)
      BY <1>1, <1>3, <2>2 DEF Refs
    <3> QED BY <1>4, <2>2, <3>1 DEF IInv, BlockFine
  <2> QED BY <2>1, <2>2
<1> QED
  BY <1>2, <1>6, <1>7, <1>8 DEF IInv

LEMMA CloneStep ==
    ASSUME IInv, NEW h \in Handles, NEW g \in Handles, Clone(h, g)
    PROVE  IInv'
<1>1. Types /\ HandleFine(h) /\ HandleFine(g) /\ NoBlock \notin Blocks /\ buf[g] = NoBlock /\ g # h
  BY BufferAssumption DEF IInv, Clone, HandleFine, PlaceFine
<1>2. /\ buf'[g] = buf[h] /\ cap_or_len'[g] = cap_or_len[h] /\ kind'[g] = "shared"
      /\ len' = len /\ len[g] = 0 /\ kind[h] = "shared"
      /\ \A f \in Handles : f # g => /\ buf'[f] = buf[f] /\ cap_or_len'[f] = cap_or_len[f]
                                     /\ kind'[f] = kind[f]
  BY <1>1 DEF Clone, Types, HandleFine, PlaceFine
<1>3. /\ live' = live /\ alloc_size' = alloc_size /\ fit' = fit /\ data' = data /\ panicked' = panicked
      /\ \A b \in Blocks : ref_count'[b] = ref_count[b] + IF b = buf[h] THEN 1 ELSE 0
  BY DEF Clone
<1>4. Types'
  <2>1. ref_count' = [b \in Blocks |-> ref_count[b] + IF b = buf[h] THEN 1 ELSE 0]
    BY DEF Clone
  <2>2. ref_count' \in [Blocks -> Nat]
    BY <1>1, <2>1 DEF Types
  <2> QED BY <1>1, <1>2, <1>3, <2>2 DEF Clone, Types
<1>5. \A f \in Handles : kind[f] = "unique" /\ buf[f] \in Blocks => buf[f] # buf[h]
  BY <1>2, Alone DEF IInv, HandleFine, SizeFine
<1>6. HandleFine(g)'
  BY <1>1, <1>2, <1>3 DEF HandleFine, WordFine, PlaceFine, SizeFine, Allocated, CapOrLen
<1>7. ASSUME NEW f \in Handles, f # g PROVE HandleFine(f)'
  <2>1. HandleFine(f)
    BY DEF IInv
  <2>2. kind[f] = "unique" /\ buf[f] \in Blocks => ref_count'[buf[f]] = ref_count[buf[f]]
    BY <1>1, <1>3, <1>5 DEF Types
  <2> QED BY <1>2, <1>3, <1>7, <2>1, <2>2
          DEF HandleFine, WordFine, PlaceFine, SizeFine, Allocated, CapOrLen
<1>8. ASSUME NEW b \in Blocks PROVE BlockFine(b)'
  <2>1. CASE b = buf[h]
    <3>1. Refs(b)' = Refs(b) \cup {g} /\ g \notin Refs(b)
      BY <1>1, <1>2, <2>1 DEF Refs
    <3>2. Cardinality(Refs(b)') = Cardinality(Refs(b)) + 1
      BY <3>1, RefsFinite, FS_AddElement
    <3>3. ref_count'[b] = ref_count[b] + 1 /\ ref_count[b] \in Nat /\ ref_count'[b] > 0
      BY <1>1, <1>3, <2>1 DEF Types
    <3> QED BY <1>3, <3>2, <3>3 DEF IInv, BlockFine
  <2>2. CASE b # buf[h]
    <3>1. Refs(b)' = Refs(b)
      BY <1>1, <1>2, <2>2 DEF Refs
    <3>2. ref_count'[b] = ref_count[b]
      BY <1>1, <1>3, <2>2 DEF Types
    <3> QED BY <1>3, <3>1, <3>2 DEF IInv, BlockFine
  <2> QED BY <2>1, <2>2
<1> QED
  BY <1>4, <1>6, <1>7, <1>8 DEF IInv

LEMMA DropOneStep ==
    ASSUME IInv, NEW h \in Handles, DropOneOfMany(h)
    PROVE  IInv'
<1>1. Types /\ HandleFine(h) /\ NoBlock \notin Blocks /\ buf[h] \in Blocks /\ ref_count[buf[h]] # 1
  BY BufferAssumption DEF IInv, DropOneOfMany, IsLast, HandleFine, WordFine, Types
<1>2. /\ buf'[h] = NoBlock /\ cap_or_len'[h] = Zero /\ kind'[h] = "none" /\ len'[h] = 0
      /\ \A g \in Handles : g # h => /\ buf'[g] = buf[g] /\ cap_or_len'[g] = cap_or_len[g]
                                     /\ kind'[g] = kind[g] /\ len'[g] = len[g]
  BY <1>1 DEF DropOneOfMany, Leaves, Types
<1>3. /\ live' = live /\ alloc_size' = alloc_size /\ fit' = fit /\ data' = data /\ panicked' = panicked
      /\ ref_count' = [ref_count EXCEPT ![buf[h]] = @ - 1]
  BY DEF DropOneOfMany, Leaves
<1>4. PICK c \in Blocks : c = buf[h]
  BY <1>1
<1>5. Refs(c)' = Refs(c) \ {h} /\ h \in Refs(c)
  BY <1>1, <1>4, <1>2 DEF Refs, Types
<1>6. Cardinality(Refs(c)') = Cardinality(Refs(c)) - 1
  BY <1>5, RefsFinite, FS_RemoveElement
<1>7. Cardinality(Refs(c)) # 0
  BY <1>5, RefsFinite, FS_EmptySet
<1>8. ref_count[c] = Cardinality(Refs(c))
  BY DEF IInv, BlockFine
<1>9. /\ ref_count'[c] = ref_count[c] - 1 /\ ref_count[c] - 1 \in Nat
      /\ \A b \in Blocks : b # c => ref_count'[b] = ref_count[b]
  BY <1>1, <1>3, <1>7, <1>8, <1>4 DEF Types
<1>10. Types'
  <2>1. ref_count' \in [Blocks -> Nat]
    BY <1>1, <1>3, <1>9, <1>4 DEF Types
  <2>2. /\ len' \in [Handles -> 0 .. Limit] /\ cap_or_len' \in [Handles -> 0 .. Word - 1]
        /\ kind' \in [Handles -> {"none", "unique", "shared"}]
        /\ buf' \in [Handles -> Blocks \cup {NoBlock}]
    BY <1>1, Limits, ZeroWord DEF DropOneOfMany, Leaves, Types
  <2> QED BY <1>1, <1>3, <2>1, <2>2 DEF Types
<1>11. HandleFine(h)'
  BY <1>1, <1>2, ZeroWord, Limits
  DEF HandleFine, WordFine, PlaceFine, SizeFine, Allocated, CapOrLen
<1>12. ASSUME NEW g \in Handles, g # h PROVE HandleFine(g)'
  <2>1. HandleFine(g)
    BY DEF IInv
  <2>2. kind[g] = "unique" /\ buf[g] \in Blocks => buf[g] # buf[h]
    BY <1>1, <2>1 DEF HandleFine, SizeFine
  <2> QED BY <1>2, <1>3, <1>9, <1>12, <1>4, <2>1, <2>2
          DEF HandleFine, WordFine, PlaceFine, SizeFine, Allocated, CapOrLen
<1>13. ASSUME NEW b \in Blocks PROVE BlockFine(b)'
  <2>1. CASE b = c
    <3>0. ref_count[c] \in Nat /\ ref_count[c] # 1
      BY <1>1, <1>4 DEF Types
    <3>1. ref_count'[b] > 0
      BY <1>9, <2>1, <3>0
    <3> QED BY <1>3, <1>6, <1>8, <1>9, <2>1, <3>1 DEF IInv, BlockFine
  <2>2. CASE b # c
    <3>1. Refs(b)' = Refs(b)
      BY <1>1, <1>2, <1>4, <2>2 DEF Refs
    <3> QED BY <1>3, <1>9, <2>2, <3>1 DEF IInv, BlockFine
  <2> QED BY <2>1, <2>2
<1> QED
  BY <1>10, <1>11, <1>12, <1>13 DEF IInv

-----------------------------------------------------------------------------
(* Requests for room.                                                      *)

LEMMA HandleFacts ==
    ASSUME IInv, NEW h \in Handles
    PROVE  /\ kind[h] \in {"none", "unique", "shared"} /\ cap_or_len[h] \in 0 .. Word - 1
           /\ CapOrLen(h) \in 0 .. Limit /\ len[h] \in 0 .. Limit
           /\ buf[h] \in Blocks \/ buf[h] = NoBlock
           /\ buf[h] \in Blocks <=> Allocated(h)
           /\ ~Allocated(h) => CapOrLen(h) = 0 /\ len[h] = 0 /\ cap_or_len[h] = Zero
           /\ kind[h] = "none" => ~Allocated(h)
           /\ kind[h] = "unique" => len[h] <= CapOrLen(h)
           /\ kind[h] = "unique" /\ Allocated(h) =>
                CapOrLen(h) = alloc_size[buf[h]] /\ ref_count[buf[h]] = 1
           /\ kind[h] = "shared" => len[h] = 0
           /\ kind[h] = "shared" /\ Allocated(h) => CapOrLen(h) <= alloc_size[buf[h]]
           /\ Allocated(h) => buf[h] \in live /\ alloc_size[buf[h]] \in 0 .. Limit
<1>1. Types /\ HandleFine(h) /\ NoBlock \notin Blocks
  BY BufferAssumption DEF IInv
<1>2. ~Allocated(h) => CapOrLen(h) = 0
  BY <1>1, ZeroWord DEF HandleFine, WordFine, CapOrLen
<1> QED
  BY <1>1, <1>2, Limits DEF HandleFine, WordFine, PlaceFine, SizeFine, Types

LEMMA AmortizedNeed ==
    ASSUME IInv, NEW h \in Handles, NEW k \in Nat
    PROVE  Amortized(h, k) \in Nat \ {0} /\ len[h] + k <= Amortized(h, k)
<1>1. PICK c \in Nat, n \in Nat : c = CapOrLen(h) /\ n = len[h]
  BY HandleFacts, Limits
<1>2. (2 * c) % Word \in Nat
  BY Limits, DivMod
<1>3. MinNonZeroCap \in Nat \ {0}
  BY BufferAssumption, Limits
<1>4. Larger(MinNonZeroCap, Larger((2 * c) % Word, n + k)) \in Nat \ {0}
      /\ n + k <= Larger(MinNonZeroCap, Larger((2 * c) % Word, n + k))
  BY <1>2, <1>3 DEF Larger
<1> QED
  BY <1>1, <1>4 DEF Amortized

\* needs_to_grow does not wrap: where it says no, there is room.
LEMMA NoGrowth ==
    ASSUME IInv, NEW h \in Handles, kind[h] = "unique", NEW k \in Nat \ {0},
           ~NeedsToGrow(h, k)
    PROVE  Allocated(h) /\ len[h] + k <= CapOrLen(h)
<1>1. PICK c \in 0 .. Limit, n \in 0 .. Limit : c = CapOrLen(h) /\ n = len[h] /\ n <= c
  BY HandleFacts
<1>2. n <= c
  BY <1>1
<1>3. Word \in Nat \ {0} /\ c - n \in 0 .. Word - 1
  BY <1>2, Limits
<1>4. (c - n) % Word = c - n
  BY <1>3, ModBelow
<1>5. n + k <= c
  BY <1>1, <1>3, <1>4 DEF NeedsToGrow
<1>6. c # 0
  BY <1>5
<1> QED
  BY <1>1, <1>5, <1>6, HandleFacts

\* A growing call: reserve, write behind the length, move the length.
LEMMA Grown ==
    ASSUME IInv, NEW h \in Handles, kind[h] # "shared",
           NEW n \in Nat \ {0}, Obtainable(n),
           NEW r \in Rooms(h, n), NEW s \in Seq(Bytes), len[h] + Len(s) <= r.cap,
           Settle(h, n, r, Written(Carried(h, r.cap), len[h], s)),
           kind' = [kind EXCEPT ![h] = "unique"], len' = [len EXCEPT ![h] = @ + Len(s)],
           panicked' = panicked
    PROVE  IInv'
<1>1. n \in 1 .. Limit
  BY Asked, Limits
<1>2. r.cap \in 0 .. Limit /\ len[h] \in Nat /\ Len(s) \in Nat
  BY <1>1, RoomsHaveRoom, HandleFacts, Limits, LenProperties
<1>3. /\ r.cap \in Nat /\ data \in [Blocks -> Seq(Cells)]
      /\ Allocated(h) => buf[h] \in Blocks
  BY <1>2, Limits, HandleFacts DEF IInv, Types
<1>4. Carried(h, r.cap) \in Seq(Cells) /\ Len(Carried(h, r.cap)) = r.cap
  BY <1>3, CarriedCells
<1>5. /\ Written(Carried(h, r.cap), len[h], s) \in Seq(Cells)
      /\ Len(Written(Carried(h, r.cap), len[h], s)) = r.cap
  BY <1>2, <1>4, WrittenCells
<1>6. PICK x \in 0 .. Limit : x = len[h] + Len(s)
  BY <1>2, Limits
<1>7. len' = [len EXCEPT ![h] = x] /\ x <= r.cap
  BY <1>6
<1> QED
  BY <1>1, <1>5, <1>7, Settled

\* A call that only asks for room, or gives some back.
LEMMA Resized ==
    ASSUME IInv, NEW h \in Handles, kind[h] # "shared",
           NEW n \in Nat \ {0}, Obtainable(n),
           NEW r \in Rooms(h, n), len[h] <= n,
           Settle(h, n, r, Carried(h, r.cap)),
           kind' = [kind EXCEPT ![h] = "unique"], len' = len, panicked' = panicked
    PROVE  IInv'
<1>1. n \in 1 .. Limit
  BY Asked, Limits
<1>2. r.cap \in n .. Limit /\ r.cap \in Nat /\ len[h] \in 0 .. Limit
  BY <1>1, RoomsHaveRoom, HandleFacts, Limits
<1>3. Carried(h, r.cap) \in Seq(Cells) /\ Len(Carried(h, r.cap)) = r.cap
  BY <1>2, HandleFacts, CarriedCells DEF IInv, Types
<1>4. PICK x \in 0 .. Limit : x = len[h] /\ x <= r.cap
  BY <1>1, <1>2, Limits
<1>5. len' = [len EXCEPT ![h] = x]
  BY <1>4 DEF IInv, Types
<1> QED
  BY <1>1, <1>3, <1>4, <1>5, Settled

\* A call that writes where there is room.
LEMMA WrittenInPlace ==
    ASSUME IInv, NEW h \in Handles, kind[h] = "unique", Allocated(h),
           NEW s \in Seq(Bytes), len[h] + Len(s) <= CapOrLen(h),
           data' = [data EXCEPT ![buf[h]] = Written(@, len[h], s)],
           len' = [len EXCEPT ![h] = @ + Len(s)],
           UNCHANGED <<kind, buf, cap_or_len, live, ref_count, alloc_size, fit, panicked>>
    PROVE  IInv'
<1>1. /\ len[h] \in Nat /\ Len(s) \in Nat /\ CapOrLen(h) \in 0 .. Limit
      /\ cap_or_len[h] \in 0 .. Word - 1 /\ Limit \in Nat
  BY HandleFacts, Limits, LenProperties
<1>2. data' \in [Blocks -> Seq(Cells)] /\ \A b \in Blocks : Len(data'[b]) = Len(data[b])
  BY <1>1, HandleFacts, WrittenCells DEF IInv, Types
<1>3. PICK x \in 0 .. Limit : x = len[h] + Len(s) /\ x <= CapOrLen(h)
  BY <1>1
<1>4. len' = [len EXCEPT ![h] = x] /\ len'[h] = x
  BY <1>3 DEF IInv, Types
<1>5. /\ kind' = [kind EXCEPT ![h] = "unique"] /\ cap_or_len' = [cap_or_len EXCEPT ![h] = cap_or_len[h]]
      /\ panicked' \in BOOLEAN
  BY DEF IInv, Types
<1>6. HandleFine(h)'
  BY <1>3, <1>4, HandleFacts
  DEF IInv, HandleFine, WordFine, PlaceFine, SizeFine, Allocated, CapOrLen
<1> QED
  BY <1>1, <1>2, <1>4, <1>5, <1>6, InPlace

-----------------------------------------------------------------------------
(* The actions.                                                            *)

LEMMA Starts == Init => IInv
<1> SUFFICES ASSUME Init PROVE IInv
  OBVIOUS
<1>1. Types
  <2>1. 0 \in 0 .. Limit
    BY Limits
  <2>2. data \in [Blocks -> Seq(Cells)]
    BY Empty DEF Init
  <2> QED BY <2>1, <2>2, ZeroWord DEF Init, Types
<1>2. ASSUME NEW h \in Handles PROVE HandleFine(h)
  <2>1. /\ kind[h] = "none" /\ buf[h] = NoBlock /\ NoBlock \notin Blocks
        /\ cap_or_len[h] = Zero /\ len[h] = 0
    BY BufferAssumption DEF Init
  <2> QED BY <2>1, ZeroWord, Limits
          DEF HandleFine, WordFine, PlaceFine, SizeFine, Allocated, CapOrLen
<1>3. ASSUME NEW b \in Blocks PROVE BlockFine(b)
  <2>1. Refs(b) = {}
    BY BufferAssumption DEF Init, Refs
  <2> QED BY <2>1, FS_EmptySet DEF Init, BlockFine
<1> QED
  BY <1>1, <1>2, <1>3 DEF IInv

LEMMA ReserveStep ==
    ASSUME IInv, NEW h \in Handles, NEW k \in Nat \ {0}, NEW n \in Nat \ {0},
           len[h] + k <= n, Reserve(h, k, n)
    PROVE  IInv'
<1>1. PICK r \in Rooms(h, n) : Settle(h, n, r, Carried(h, r.cap))
  BY DEF Reserve
<1>2. /\ kind[h] = "unique" /\ Obtainable(n) /\ len' = len /\ panicked' = panicked
      /\ kind' = [kind EXCEPT ![h] = "unique"]
  BY DEF Reserve, IInv, Types
<1>3. len[h] <= n
  BY HandleFacts, Limits
<1> QED
  BY <1>1, <1>2, <1>3, Resized

LEMMA ExtendStep ==
    ASSUME IInv, NEW h \in Handles, NEW s \in Seq(Bytes), Len(s) > 0, Extend(h, s)
    PROVE  IInv'
<1>1. Len(s) \in Nat \ {0}
  BY LenProperties
<1>2. CASE ~NeedsToGrow(h, Len(s))
  <2>1. Allocated(h) /\ len[h] + Len(s) <= CapOrLen(h)
    BY <1>1, <1>2, NoGrowth DEF Extend
  <2> QED BY <1>2, <2>1, WrittenInPlace DEF Extend
<1>3. CASE NeedsToGrow(h, Len(s))
  <2>1. PICK n \in Nat \ {0} : n = Amortized(h, Len(s)) /\ len[h] + Len(s) <= n
    BY <1>1, AmortizedNeed
  <2>2. PICK r \in Rooms(h, n) : Settle(h, n, r, Written(Carried(h, r.cap), len[h], s))
    BY <1>3, <2>1 DEF Extend
  <2>3. /\ kind[h] = "unique" /\ Obtainable(n) /\ len' = [len EXCEPT ![h] = @ + Len(s)]
        /\ kind' = [kind EXCEPT ![h] = "unique"] /\ panicked' = panicked
    BY <1>3, <2>1 DEF Extend, IInv, Types
  <2>4. r.cap \in n .. Limit /\ len[h] \in Nat
    BY <2>3, Asked, RoomsHaveRoom, HandleFacts, Limits
  <2>5. len[h] + Len(s) <= r.cap
    BY <1>1, <2>1, <2>4, Limits
  <2> QED BY <2>2, <2>3, <2>5, Grown
<1> QED
  BY <1>2, <1>3

LEMMA ChunkStep ==
    ASSUME IInv, NEW h \in Handles, ChunkMut(h)
    PROVE  IInv'
BY AmortizedNeed, ReserveStep, BufferAssumption DEF ChunkMut, ReserveAmortized

\* A byte of the block is written, counted or not.
LEMMA ByteStep ==
    ASSUME IInv, NEW h \in Handles, NEW i \in Nat, NEW y \in Bytes,
           data' = [data EXCEPT ![buf[h]][i] = y],
           UNCHANGED <<handleVars, live, ref_count, alloc_size, fit, panicked>>
    PROVE  IInv'
<1>1. data' \in [Blocks -> Seq(Cells)] /\ \A b \in Blocks : Len(data'[b]) = Len(data[b])
  <2>1. ASSUME NEW t \in Seq(Cells)
        PROVE  [t EXCEPT ![i] = y] \in Seq(Cells) /\ Len([t EXCEPT ![i] = y]) = Len(t)
    <3>1. t \in [1 .. Len(t) -> Cells] /\ Len(t) \in Nat
      BY LenProperties
    <3>2. [t EXCEPT ![i] = y] \in [1 .. Len(t) -> Cells]
      BY <3>1 DEF Cells
    <3> QED BY <3>1, <3>2, Lengths
  <2> QED BY <2>1 DEF IInv, Types
<1>2. /\ UNCHANGED <<buf, live, ref_count, alloc_size, fit, kind, cap_or_len, len, panicked>>
      /\ kind' = [kind EXCEPT ![h] = kind[h]] /\ len' = [len EXCEPT ![h] = len[h]]
      /\ cap_or_len' = [cap_or_len EXCEPT ![h] = cap_or_len[h]] /\ panicked' \in BOOLEAN
  BY DEF handleVars, IInv, Types
<1>3. HandleFine(h)'
  BY <1>2 DEF IInv, HandleFine, WordFine, PlaceFine, SizeFine, Allocated, CapOrLen
<1>4. /\ kind[h] \in {"none", "unique", "shared"} /\ cap_or_len[h] \in 0 .. Word - 1
      /\ len[h] \in 0 .. Limit
  BY HandleFacts
<1> QED
  BY <1>1, <1>2, <1>3, <1>4, InPlace

LEMMA AdvanceStep ==
    ASSUME IInv, NEW h \in Handles, NEW k \in Nat \ {0}, AdvanceMut(h, k)
    PROVE  IInv'
<1>1. PICK x \in 0 .. Limit : x = len[h] + k /\ x <= CapOrLen(h)
  BY HandleFacts, Limits DEF AdvanceMut
<1>2. Types /\ HandleFine(h) /\ NoBlock \notin Blocks
  BY BufferAssumption DEF IInv
<1>3. /\ kind[h] = "unique" /\ kind' = [kind EXCEPT ![h] = "unique"] /\ len' = [len EXCEPT ![h] = x]
      /\ cap_or_len' = [cap_or_len EXCEPT ![h] = cap_or_len[h]]
      /\ UNCHANGED <<buf, live, ref_count, alloc_size, fit, data, panicked>>
  BY <1>1, <1>2 DEF AdvanceMut, blockVars, Types
<1>4. /\ kind'[h] = "unique" /\ cap_or_len'[h] = cap_or_len[h] /\ len'[h] = x
      /\ data' \in [Blocks -> Seq(Cells)] /\ panicked' \in BOOLEAN
  BY <1>2, <1>3 DEF Types
<1>5. Allocated(h)
  BY <1>1, HandleFacts, Limits
<1>6. HandleFine(h)'
  BY <1>1, <1>2, <1>3, <1>4, <1>5, HandleFacts, Limits
  DEF HandleFine, WordFine, PlaceFine, SizeFine, Allocated, CapOrLen
<1> QED
  BY <1>3, <1>4, <1>6, HandleFacts, InPlace

LEMMA ShrinkStep ==
    ASSUME IInv, NEW h \in Handles, NEW min \in Nat, ShrinkTo(h, min)
    PROVE  IInv'
<1>1. PICK n \in Nat : n = Larger(len[h], min) /\ len[h] <= n
  <2>1. len[h] \in Nat
    BY HandleFacts, Limits
  <2> QED BY <2>1 DEF Larger
<1>2. /\ kind[h] = "unique" /\ CapOrLen(h) > n /\ len' = len /\ panicked' = panicked
      /\ kind' = [kind EXCEPT ![h] = "unique"] /\ len[h] \in Nat /\ CapOrLen(h) \in Nat
  BY <1>1, HandleFacts, Limits DEF ShrinkTo, IInv, Types
<1>3. CASE n = 0
  <2>1. Freed(buf[h]) /\ buf' = [buf EXCEPT ![h] = NoBlock] /\ cap_or_len' = [cap_or_len EXCEPT ![h] = Zero]
    BY <1>1, <1>3 DEF ShrinkTo
  <2>2. CapOrLen(h) # 0 /\ len[h] = 0
    BY <1>1, <1>2, <1>3
  <2>3. buf[h] \in Blocks /\ ref_count[buf[h]] = 1
    BY <1>2, <2>2, HandleFacts
  <2>4. len' = [len EXCEPT ![h] = 0]
    BY <1>2, <2>2 DEF IInv, Types
  <2> QED BY <1>2, <2>1, <2>3, <2>4, FreedAlone
<1>4. CASE n # 0
  <2>1. Obtainable(n) /\ \E r \in Rooms(h, n) : Settle(h, n, r, Carried(h, r.cap))
    BY <1>1, <1>4 DEF ShrinkTo
  <2> QED BY <1>1, <1>2, <1>4, <2>1, Resized
<1> QED
  BY <1>3, <1>4

\* The calls that change a handle's kind, word or length and nothing else.
LEMMA HandleSteps ==
    ASSUME IInv, NEW h \in Handles,
           \/ New(h) \/ \E n \in 0 .. Limit : Truncate(h, n)
           \/ IntoShared(h) \/ AskRefCount(h) \/ TryUnique(h)
           \/ DropUnallocated(h) \/ DropLastAndReuse(h)
    PROVE  IInv'
<1> DEFINE Still == /\ UNCHANGED <<buf, live, ref_count, alloc_size, fit>>
                    /\ data' = data /\ panicked' \in BOOLEAN
           Handle(k, w, x) == /\ kind' = [kind EXCEPT ![h] = k]
                              /\ cap_or_len' = [cap_or_len EXCEPT ![h] = w]
                              /\ len' = [len EXCEPT ![h] = x]
<1>1. Types /\ HandleFine(h) /\ NoBlock \notin Blocks /\ 0 \in 0 .. Limit
  BY BufferAssumption, Limits DEF IInv
<1>2. /\ kind = [kind EXCEPT ![h] = kind[h]] /\ len = [len EXCEPT ![h] = len[h]]
      /\ cap_or_len = [cap_or_len EXCEPT ![h] = cap_or_len[h]]
      /\ data \in [Blocks -> Seq(Cells)] /\ panicked \in BOOLEAN
  BY <1>1 DEF Types
<1>3. ASSUME NEW k \in {"none", "unique", "shared"}, NEW w \in 0 .. Word - 1,
             NEW x \in 0 .. Limit, Still, Handle(k, w, x)
      PROVE  /\ kind'[h] = k /\ cap_or_len'[h] = w /\ len'[h] = x /\ buf'[h] = buf[h]
             /\ live' = live /\ ref_count' = ref_count /\ alloc_size' = alloc_size
  BY <1>1, <1>3 DEF Types
<1>4. ASSUME NEW k \in {"none", "unique", "shared"}, NEW w \in 0 .. Word - 1,
             NEW x \in 0 .. Limit, Still, Handle(k, w, x), HandleFine(h)'
      PROVE  IInv'
  BY <1>2, <1>4, InPlace
<1>5. CASE New(h)
  <2>1. Still /\ Handle("unique", cap_or_len[h], len[h])
    BY <1>2, <1>5 DEF New, blockVars
  <2>2. HandleFine(h)'
    BY <1>1, <1>3, <1>5, <2>1, HandleFacts
    DEF New, HandleFine, WordFine, PlaceFine, SizeFine, Allocated, CapOrLen
  <2> QED BY <1>4, <2>1, <2>2, HandleFacts
<1>6. ASSUME NEW n \in 0 .. Limit, Truncate(h, n) PROVE IInv'
  <2>1. PICK x \in 0 .. Limit : x = Smaller(n, len[h]) /\ x <= len[h] /\ (len[h] = 0 => x = 0)
    BY HandleFacts, Limits DEF Smaller
  <2>2. Still /\ Handle("unique", cap_or_len[h], x) /\ kind[h] = "unique"
    BY <1>2, <1>6, <2>1 DEF Truncate, blockVars
  <2>3. HandleFine(h)'
    BY <1>1, <1>3, <2>1, <2>2, HandleFacts, Limits
    DEF HandleFine, WordFine, PlaceFine, SizeFine, Allocated, CapOrLen
  <2> QED BY <1>4, <2>2, <2>3, HandleFacts
<1>7. CASE IntoShared(h)
  <2>1. PICK w \in 0 .. Word - 1 :
           /\ w = WithValue(cap_or_len[h], len[h]) /\ Value(w) = len[h]
           /\ IsAllocated(w) <=> Allocated(h)
           /\ ~IsAllocated(w) => w = Zero
    BY HandleFacts, WordsChanged DEF Allocated
  <2>2. Still /\ Handle("shared", w, 0) /\ kind[h] = "unique"
    BY <1>2, <1>7, <2>1 DEF IntoShared, blockVars
  <2>3. /\ kind'[h] = "shared" /\ cap_or_len'[h] = w /\ len'[h] = 0 /\ buf'[h] = buf[h]
        /\ live' = live /\ ref_count' = ref_count /\ alloc_size' = alloc_size
    BY <1>1, <1>3, <2>2
  <2>4. WordFine(h)'
    BY <1>1, <2>1, <2>2, <2>3, HandleFacts DEF WordFine, Allocated, CapOrLen
  <2>5. PlaceFine(h)'
    BY <1>1, <2>2, <2>3, HandleFacts DEF PlaceFine
  <2>6. SizeFine(h)'
    BY <1>1, <2>1, <2>2, <2>3, HandleFacts, Limits DEF SizeFine, CapOrLen
  <2>7. HandleFine(h)'
    BY <2>4, <2>5, <2>6 DEF HandleFine
  <2> QED BY <1>1, <1>4, <2>2, <2>7
<1>8. CASE AskRefCount(h)
  <2>1. Still /\ Handle(kind[h], cap_or_len[h], len[h])
    BY <1>2, <1>8 DEF AskRefCount, RefCountPanics, handleVars, blockVars
  <2>2. HandleFine(h)'
    BY <1>1, <1>8
    DEF AskRefCount, handleVars, blockVars, HandleFine, WordFine, PlaceFine, SizeFine, Allocated, CapOrLen
  <2> QED BY <1>4, <2>1, <2>2, HandleFacts
<1>9. CASE TryUnique(h) /\ RefCountPanics(h)
  <2>1. Still /\ Handle("none", cap_or_len[h], len[h]) /\ ~Allocated(h)
    BY <1>2, <1>9 DEF TryUnique, RefCountPanics, blockVars
  <2>2. HandleFine(h)'
    BY <1>1, <1>3, <2>1, HandleFacts
    DEF HandleFine, WordFine, PlaceFine, SizeFine, Allocated, CapOrLen
  <2> QED BY <1>4, <2>1, <2>2, HandleFacts
<1>10. CASE TryUnique(h) /\ ~RefCountPanics(h) /\ ~Allocated(h)
  <2>1. Still /\ Handle("unique", cap_or_len[h], CapOrLen(h)) /\ CapOrLen(h) = 0
    BY <1>2, <1>10, HandleFacts DEF TryUnique, blockVars
  <2>2. HandleFine(h)'
    BY <1>1, <1>3, <1>10, <2>1, HandleFacts
    DEF HandleFine, WordFine, PlaceFine, SizeFine, Allocated, CapOrLen
  <2> QED BY <1>4, <2>1, <2>2, HandleFacts
<1>11. CASE TryUnique(h) /\ ~RefCountPanics(h) /\ Allocated(h)
  <2>1. PICK w \in 0 .. Word - 1 : /\ w = TaggedCap(alloc_size[buf[h]], TRUE)
                                 /\ Value(w) = alloc_size[buf[h]] /\ IsAllocated(w)
    BY <1>11, HandleFacts, WordsMade
  <2>2. Still /\ Handle("unique", w, CapOrLen(h)) /\ kind[h] = "shared" /\ ref_count[buf[h]] = 1
    BY <1>2, <1>11, <2>1 DEF TryUnique, blockVars
  <2>3. /\ kind'[h] = "unique" /\ cap_or_len'[h] = w /\ len'[h] = CapOrLen(h) /\ buf'[h] = buf[h]
        /\ live' = live /\ ref_count' = ref_count /\ alloc_size' = alloc_size
    BY <1>3, <2>2, HandleFacts
  <2>4. PICK c \in 0 .. Limit, z \in 0 .. Limit :
           /\ c = CapOrLen(h) /\ z = alloc_size[buf[h]] /\ c <= z
           /\ cap_or_len'[h] = w /\ len'[h] = c /\ Value(w) = z /\ IsAllocated(w)
    BY <1>11, <2>1, <2>2, <2>3, HandleFacts
  <2>5. WordFine(h)'
    <3>1. buf[h] # NoBlock
      BY <1>11, HandleFacts, BufferAssumption
    <3>2. IsAllocated(cap_or_len'[h]) /\ Value(cap_or_len'[h]) \in 0 .. Limit
      BY <2>4
    <3> QED BY <2>3, <3>1, <3>2 DEF WordFine, Allocated, CapOrLen
  <2>6. PlaceFine(h)'
    BY <1>1, <1>11, <2>2, <2>3, HandleFacts DEF PlaceFine
  <2>7. SizeFine(h)'
    BY <2>2, <2>3, <2>4, Limits DEF SizeFine, CapOrLen
  <2>8. HandleFine(h)'
    BY <2>5, <2>6, <2>7 DEF HandleFine
  <2> QED BY <1>4, <2>2, <2>8, HandleFacts
<1>12. CASE DropUnallocated(h)
  <2>1. buf = [buf EXCEPT ![h] = NoBlock] /\ ~Allocated(h)
    BY <1>1, <1>12, HandleFacts DEF DropUnallocated, Types
  <2>2. Still /\ Handle("none", Zero, 0)
    BY <1>2, <1>12, <2>1 DEF DropUnallocated, Leaves, blockVars
  <2>3. HandleFine(h)'
    BY <1>1, <1>3, <2>1, <2>2, HandleFacts, ZeroWord
    DEF HandleFine, WordFine, PlaceFine, SizeFine, Allocated, CapOrLen
  <2> QED BY <1>1, <1>4, <2>2, <2>3, ZeroWord
<1>13. CASE DropLastAndReuse(h)
  <2>1. PICK w \in 0 .. Word - 1 : /\ w = TaggedCap(alloc_size[buf[h]], TRUE)
                                 /\ Value(w) = alloc_size[buf[h]] /\ IsAllocated(w)
    BY <1>13, HandleFacts, WordsMade DEF DropLastAndReuse, IsLast
  <2>2. Still /\ Handle("unique", w, 0) /\ Allocated(h) /\ ref_count[buf[h]] = 1
    BY <1>2, <1>13, <2>1 DEF DropLastAndReuse, IsLast, blockVars
  <2>3. /\ kind'[h] = "unique" /\ cap_or_len'[h] = w /\ len'[h] = 0 /\ buf'[h] = buf[h]
        /\ live' = live /\ ref_count' = ref_count /\ alloc_size' = alloc_size
    BY <1>1, <1>3, <2>2
  <2>4. WordFine(h)'
    <3>1. buf[h] # NoBlock /\ alloc_size[buf[h]] \in 0 .. Limit
      BY <2>2, HandleFacts, BufferAssumption
    <3>2. IsAllocated(cap_or_len'[h]) /\ Value(cap_or_len'[h]) \in 0 .. Limit
      BY <2>1, <2>3, <3>1
    <3> QED BY <2>3, <3>1, <3>2 DEF WordFine, Allocated, CapOrLen
  <2>5. PlaceFine(h)'
    BY <1>1, <2>2, <2>3, HandleFacts DEF PlaceFine
  <2>6. 0 <= alloc_size[buf[h]]
    BY <2>2, HandleFacts, Limits
  <2>7. SizeFine(h)'
    BY <2>1, <2>2, <2>3, <2>6 DEF SizeFine, CapOrLen
  <2>8. HandleFine(h)'
    BY <2>4, <2>5, <2>7 DEF HandleFine
  <2> QED BY <1>1, <1>4, <2>2, <2>8
<1> QED
  BY <1>5, <1>6, <1>7, <1>8, <1>9, <1>10, <1>11, <1>12, <1>13

LEMMA CallKeeps ==
    ASSUME IInv, NEW h \in Handles, HandleNext(h)
    PROVE  IInv'
<1>1. \A n \in 1 .. Word - 1 : n \in Nat \ {0}
  BY Limits
<1>2. ASSUME NEW n \in 1 .. Word - 1, WithCapacity(h, n) PROVE IInv'
  <2>1. PICK r \in Rooms(h, n) : Settle(h, n, r, Carried(h, r.cap))
    BY <1>2 DEF WithCapacity
  <2>2. /\ kind[h] = "none" /\ Obtainable(n) /\ len' = len /\ panicked' = panicked
        /\ kind' = [kind EXCEPT ![h] = "unique"]
    BY <1>2 DEF WithCapacity
  <2>3. len[h] <= n
    BY <1>1, <2>2, HandleFacts
  <2> QED BY <1>1, <2>1, <2>2, <2>3, Resized
<1>3. ASSUME NEW k \in 1 .. Word - 1, ReserveAmortized(h, k) PROVE IInv'
  BY <1>1, <1>3, AmortizedNeed, ReserveStep DEF ReserveAmortized
<1>4. ASSUME NEW k \in 1 .. Word - 1, ReserveExact(h, k) PROVE IInv'
  <2>1. k \in Nat \ {0} /\ len[h] \in Nat
    BY <1>1, HandleFacts, Limits
  <2>2. Exact(h, k) \in Nat \ {0} /\ len[h] + k <= Exact(h, k)
    BY <2>1 DEF Exact
  <2> QED BY <1>4, <2>1, <2>2, ReserveStep DEF ReserveExact
<1>5. ASSUME NEW s \in Strings, Extend(h, s) PROVE IInv'
  <2>1. s \in Seq(Bytes) /\ Len(s) > 0
    BY Strung
  <2> QED BY <1>5, <2>1, ExtendStep
<1>6. ASSUME NEW y \in Bytes, ExtendByOne(h, y) PROVE IInv'
  <2>1. <<y>> \in Seq(Bytes) /\ Len(<<y>>) > 0
    BY One
  <2> QED BY <1>6, <2>1, ExtendStep DEF ExtendByOne
<1>7. ASSUME NEW n \in 0 .. Limit, ShrinkTo(h, n) PROVE IInv'
  BY <1>7, Limits, ShrinkStep
<1>8. ASSUME NEW i \in 1 .. Limit, NEW y \in Bytes, Overwrite(h, i, y) \/ WriteChunk(h, i, y)
      PROVE  IInv'
  BY <1>8, Limits, ByteStep DEF Overwrite, WriteChunk
<1>9. ASSUME NEW g \in Handles, Clone(h, g) PROVE IInv'
  BY <1>9, CloneStep
<1>10. CASE DropOneOfMany(h)
  BY <1>10, DropOneStep
<1>11. CASE DropLast(h)
  <2>1. buf[h] \in Blocks /\ ref_count[buf[h]] = 1
    BY <1>11, HandleFacts DEF DropLast, IsLast
  <2> QED BY <1>11, <2>1, FreedAlone DEF DropLast, Leaves
<1>12. ASSUME \/ New(h) \/ \E n \in 0 .. Limit : Truncate(h, n)
              \/ IntoShared(h) \/ AskRefCount(h) \/ TryUnique(h)
              \/ DropUnallocated(h) \/ DropLastAndReuse(h)
       PROVE  IInv'
  BY <1>12, HandleSteps
<1>13. ASSUME NEW k \in 1 .. Limit, AdvanceMut(h, k) PROVE IInv'
  BY <1>13, Limits, AdvanceStep
<1> QED BY <1>2, <1>3, <1>4, <1>5, <1>6, <1>7, <1>8, <1>9, <1>10, <1>11, <1>12, <1>13,
           ChunkStep DEF HandleNext

LEMMA Preserved == IInv /\ [Next]_vars => IInv'
<1> SUFFICES ASSUME IInv, [Next]_vars PROVE IInv'
  OBVIOUS
<1>1. CASE UNCHANGED vars
  <2>1. Types'
    BY <1>1 DEF vars, handleVars, blockVars, IInv, Types
  <2>2. \A h \in Handles : HandleFine(h)'
    BY <1>1 DEF vars, handleVars, blockVars, IInv, HandleFine, WordFine, PlaceFine, SizeFine,
                Allocated, CapOrLen
  <2>3. \A b \in Blocks : BlockFine(b)'
    BY <1>1 DEF vars, handleVars, blockVars, IInv, BlockFine, Refs
  <2> QED BY <2>1, <2>2, <2>3 DEF IInv
<1> QED
  BY <1>1, CallKeeps DEF Next

LEMMA Invariant == Spec => []IInv
BY Starts, Preserved, PTL DEF Spec

\* The type invariant: no capacity, length or count leaves its range, and the
\* bytes of a block are bytes.
THEOREM TypesInvariant == Spec => []TypeOK
<1>1. IInv => TypeOK
  <2>1. ASSUME IInv PROVE ref_count \in [Blocks -> 0 .. Cardinality(Handles)]
    BY <2>1, RefsFinite DEF IInv, Types, BlockFine
  <2>2. ASSUME IInv PROVE \A b \in Blocks : data[b] \in Seq(Bytes \cup {Junk})
    BY <2>2 DEF IInv, Types, Cells
  <2> QED BY <2>1, <2>2 DEF IInv, Types, TypeOK
<1> QED
  BY <1>1, Invariant, PTL

LEMMA BlocksHold == IInv => BlocksAreOwned
<1> SUFFICES ASSUME IInv, NEW b \in Blocks
             PROVE  /\ b \in live <=> Refs(b) # {}
                    /\ ref_count[b] = Cardinality(Refs(b))
  BY DEF BlocksAreOwned, Refs
<1>1. ref_count[b] = Cardinality(Refs(b)) /\ (b \in live => ref_count[b] > 0)
  BY DEF IInv, BlockFine
<1>2. b \in live => Refs(b) # {}
  BY <1>1, FS_EmptySet
<1>3. Refs(b) # {} => b \in live
  BY DEF Refs, IInv, HandleFine, PlaceFine
<1> QED
  BY <1>1, <1>2, <1>3

\* No block is lost and none is freed under a handle: a block is allocated as long
\* as handles point to it, and counts them.
THEOREM BlocksInvariant == Spec => []BlocksAreOwned
BY Invariant, BlocksHold, PTL

LEMMA LayoutHolds == IInv => LayoutFits
<1> SUFFICES ASSUME IInv PROVE LayoutFits
  OBVIOUS
<1>1. ASSUME NEW h \in Handles
      PROVE  /\ Allocated(h) <=> buf[h] # NoBlock
             /\ Allocated(h) /\ kind[h] = "unique" =>
                  CapOrLen(h) \in fit[buf[h]] /\ CapOrLen(h) = alloc_size[buf[h]]
             /\ ~Allocated(h) => cap_or_len[h] = Zero /\ len[h] = 0
             /\ Allocated(h) => LenOf(h) <= alloc_size[buf[h]]
  <2>1. Allocated(h) <=> buf[h] # NoBlock
    BY DEF IInv, HandleFine, WordFine
  <2>2. Allocated(h) => alloc_size[buf[h]] \in fit[buf[h]]
    BY HandleFacts DEF IInv, BlockFine
  <2> QED BY <2>1, <2>2, HandleFacts DEF LenOf
<1>2. \A b \in live : alloc_size[b] \in fit[b] /\ alloc_size[b] > 0
  BY DEF IInv, Types, BlockFine
<1> QED
  BY <1>1, <1>2 DEF LayoutFits

\* Whatever a handle went through, the layout computed from its capacity, or from
\* the header at the last drop, fits the memory the allocator gave, its length
\* stays within it, and the tag says whether there is a block.
THEOREM LayoutInvariant == Spec => []LayoutFits
BY LayoutHolds, Invariant, PTL

-----------------------------------------------------------------------------
(* What the handles show.                                                  *)

LEMMA Prefix ==
    ASSUME NEW s \in Seq(Cells), NEW n \in 0 .. Len(s)
    PROVE  /\ SubSeq(s, 1, n) \in Seq(Cells) /\ Len(SubSeq(s, 1, n)) = n
           /\ \A i \in 1 .. n : SubSeq(s, 1, n)[i] = s[i]
<1>1. Len(s) \in Nat /\ \A i \in 1 .. n : s[i] \in Cells
  BY LenProperties, ElementOfSeq
<1>2. /\ SubSeq(s, 1, n) \in Seq(Cells)
      /\ Len(SubSeq(s, 1, n)) = IF 1 <= n THEN n - 1 + 1 ELSE 0
      /\ \A i \in 1 .. n - 1 + 1 : SubSeq(s, 1, n)[i] = s[1 + i - 1]
  BY <1>1, SubSeqProperties
<1> QED
  BY <1>1, <1>2

LEMMA SamePrefix ==
    ASSUME NEW s \in Seq(Cells), NEW t \in Seq(Cells), NEW n \in 0 .. Len(s),
           n <= Len(t), \A i \in 1 .. n : s[i] = t[i]
    PROVE  SubSeq(s, 1, n) = SubSeq(t, 1, n)
<1>1. n \in 0 .. Len(t)
  BY LenProperties
<1> QED
  BY <1>1, Prefix, SeqEqual

LEMMA PrefixOfPrefix ==
    ASSUME NEW s \in Seq(Cells), NEW n \in 0 .. Len(s), NEW m \in 0 .. n
    PROVE  SubSeq(SubSeq(s, 1, n), 1, m) = SubSeq(s, 1, m)
<1>1. PICK t \in Seq(Cells) : t = SubSeq(s, 1, n) /\ Len(t) = n /\ \A i \in 1 .. n : t[i] = s[i]
  BY Prefix
<1>2. m \in 0 .. Len(t) /\ m <= Len(s) /\ \A i \in 1 .. m : t[i] = s[i]
  BY <1>1, LenProperties
<1> QED
  BY <1>1, <1>2, SamePrefix

\* Writing behind a prefix appends to it.
LEMMA PrefixOfWritten ==
    ASSUME NEW v \in Seq(Cells), NEW n \in Nat, NEW s \in Seq(Bytes), n + Len(s) <= Len(v)
    PROVE  SubSeq(Written(v, n, s), 1, n + Len(s)) = SubSeq(v, 1, n) \o s
<1>1. s \in Seq(Cells) /\ Len(s) \in Nat /\ Len(v) \in Nat /\ DOMAIN v = 1 .. Len(v)
  BY SeqMonotonic, LenProperties DEF Cells
<1>2. PICK k \in Nat, m \in Nat : k = Len(s) /\ m = Len(v) /\ n + k <= m
  BY <1>1
<1>3. PICK w \in Seq(Cells) : w = Written(v, n, s) /\ Len(w) = m
  BY <1>2, WrittenCells
<1>4. n + k \in 0 .. Len(w) /\ n \in 0 .. Len(v)
  BY <1>2, <1>3
<1>5. PICK a \in Seq(Cells) : /\ a = SubSeq(w, 1, n + k) /\ Len(a) = n + k
                              /\ \A i \in 1 .. n + k : a[i] = w[i]
  BY <1>4, Prefix
<1>6. PICK b \in Seq(Cells) : /\ b = SubSeq(v, 1, n) /\ Len(b) = n
                              /\ \A i \in 1 .. n : b[i] = v[i]
  BY <1>4, Prefix
<1>7. /\ b \o s \in Seq(Cells) /\ Len(b \o s) = Len(b) + Len(s)
      /\ \A i \in 1 .. Len(b) + Len(s) : (b \o s)[i] = IF i <= Len(b) THEN b[i] ELSE s[i - Len(b)]
  BY <1>1, ConcatProperties
<1>8. Len(b \o s) = n + k /\ \A i \in 1 .. n + k : (b \o s)[i] = IF i <= n THEN b[i] ELSE s[i - n]
  BY <1>2, <1>6, <1>7
<1>9. \A i \in 1 .. n + k : w[i] = IF i \in n + 1 .. n + k THEN s[i - n] ELSE v[i]
  BY <1>1, <1>2, <1>3 DEF Written
<1>10. \A i \in 1 .. n + k : (i <= n <=> i \notin n + 1 .. n + k) /\ (i <= n => i \in 1 .. n)
  OBVIOUS
<1>11. \A i \in 1 .. n + k : a[i] = (b \o s)[i]
  BY <1>5, <1>6, <1>8, <1>9, <1>10
<1>12. a = b \o s
  BY <1>5, <1>7, <1>8, <1>11, SeqEqual
<1> QED
  BY <1>2, <1>3, <1>5, <1>6, <1>12

\* A handle shows a prefix of its block.
LEMMA Shown ==
    ASSUME IInv, NEW h \in Handles
    PROVE  /\ LenOf(h) \in Nat /\ BytesOf(h) \in Seq(Cells) /\ Len(BytesOf(h)) = LenOf(h)
           /\ Allocated(h) => /\ data[buf[h]] \in Seq(Cells)
                              /\ LenOf(h) \in 0 .. Len(data[buf[h]])
                              /\ Len(data[buf[h]]) = alloc_size[buf[h]]
                              /\ BytesOf(h) = SubSeq(data[buf[h]], 1, LenOf(h))
           /\ ~Allocated(h) => LenOf(h) = 0 /\ BytesOf(h) = <<>>
<1>1. LenOf(h) \in Nat
  BY HandleFacts, Limits DEF LenOf
<1>2. CASE Allocated(h)
  <2>1. data[buf[h]] \in Seq(Cells) /\ Len(data[buf[h]]) = alloc_size[buf[h]]
    BY <1>2, HandleFacts DEF IInv, Types, BlockFine
  <2>2. LenOf(h) <= alloc_size[buf[h]] /\ alloc_size[buf[h]] \in Nat
    BY <1>2, HandleFacts, Limits DEF LenOf
  <2>3. LenOf(h) \in 0 .. Len(data[buf[h]])
    BY <1>1, <2>1, <2>2
  <2> QED BY <1>1, <1>2, <2>1, <2>3, Prefix DEF BytesOf
<1>3. CASE ~Allocated(h)
  BY <1>1, <1>3, HandleFacts, Empty DEF LenOf, BytesOf
<1> QED
  BY <1>2, <1>3

\* A block that moves shows what it showed.
LEMMA CarriedShows ==
    ASSUME IInv, NEW h \in Handles, NEW c \in Nat, NEW n \in 0 .. LenOf(h), n <= c
    PROVE  /\ Carried(h, c) \in Seq(Cells) /\ Len(Carried(h, c)) = c
           /\ SubSeq(Carried(h, c), 1, n) = SubSeq(BytesOf(h), 1, n)
<1>1. /\ Carried(h, c) \in Seq(Cells) /\ Len(Carried(h, c)) = c
      /\ n \in 0 .. c /\ LenOf(h) \in Nat
  BY HandleFacts, CarriedCells, Shown DEF IInv, Types
<1>2. CASE ~Allocated(h)
  <2>1. n < 1
    BY <1>2, Shown
  <2> QED BY <1>1, <2>1, SubSeqEmpty
<1>3. CASE Allocated(h)
  <2>1. PICK d \in Seq(Cells) : d = data[buf[h]] /\ LenOf(h) \in 0 .. Len(d) /\ Len(d) \in Nat
    BY <1>3, Shown, LenProperties
  <2>2. n \in 0 .. Len(d)
    BY <1>1, <2>1
  <2>3. \A i \in 1 .. n : i \in 1 .. c /\ i <= Len(d)
    BY <1>1, <2>2, <2>1
  <2>4. \A i \in 1 .. n : Carried(h, c)[i] = d[i]
    BY <1>3, <2>1, <2>3 DEF Carried
  <2>5. SubSeq(Carried(h, c), 1, n) = SubSeq(d, 1, n)
    BY <1>1, <2>2, <2>4, SamePrefix
  <2>6. SubSeq(BytesOf(h), 1, n) = SubSeq(d, 1, n)
    BY <1>1, <1>3, <2>1, Shown, PrefixOfPrefix
  <2> QED BY <1>1, <2>5, <2>6
<1> QED
  BY <1>2, <1>3

\* h comes to show v, and the others show what they did.
Shows(h, v) ==
    /\ BytesOf(h)' = v
    /\ \A g \in Handles : g # h => BytesOf(g)' = BytesOf(g)

LEMMA ShowsOther ==
    ASSUME IInv, NEW g \in Handles,
           kind'[g] = kind[g], buf'[g] = buf[g], cap_or_len'[g] = cap_or_len[g], len'[g] = len[g],
           buf[g] \in Blocks => data'[buf[g]] = data[buf[g]]
    PROVE  BytesOf(g)' = BytesOf(g)
<1>1. buf[g] \in Blocks <=> Allocated(g)
  BY HandleFacts
<1> QED
  BY <1>1 DEF BytesOf, LenOf, Allocated, CapOrLen

LEMMA ShowsLen ==
    ASSUME IInv, NEW h \in Handles, kind[h] # "shared"
    PROVE  LenOf(h) = len[h] /\ SubSeq(BytesOf(h), 1, len[h]) = BytesOf(h)
<1>1. LenOf(h) = len[h]
  BY HandleFacts DEF LenOf
<1> QED
  BY <1>1, Shown, SubSeqFull

LEMMA ShowsNothing ==
    ASSUME IInv, NEW h \in Handles, LenOf(h) = 0
    PROVE  BytesOf(h) = <<>>
BY Shown, EmptySeq

LEMMA SettleShows ==
    ASSUME IInv, NEW h \in Handles, kind[h] # "shared",
           NEW n \in 1 .. Limit, NEW r \in Rooms(h, n), NEW v \in Seq(Cells),
           Settle(h, n, r, v), NEW x \in Nat,
           kind' = [kind EXCEPT ![h] = "unique"], len' = [len EXCEPT ![h] = x]
    PROVE  Shows(h, SubSeq(v, 1, x))
<1>1. /\ r.blk \in Blocks /\ (r.blk = buf[h] \/ r.blk \notin live) /\ r.cap \in 0 .. Limit
  BY RoomsHaveRoom
<1>2. /\ buf' = [buf EXCEPT ![h] = r.blk]
      /\ \A b \in Blocks : data'[b] = IF b = r.blk THEN v ELSE IF b = buf[h] THEN <<>> ELSE data[b]
      /\ cap_or_len' = [cap_or_len EXCEPT
           ![h] = IF Allocated(h) THEN WithValue(cap_or_len[h], r.cap) ELSE TaggedCap(r.cap, TRUE)]
  BY DEF Settle
<1>3. /\ kind'[h] = "unique" /\ len'[h] = x /\ buf'[h] = r.blk /\ data'[r.blk] = v
      /\ \A g \in Handles : g # h => /\ kind'[g] = kind[g] /\ buf'[g] = buf[g]
                                     /\ cap_or_len'[g] = cap_or_len[g] /\ len'[g] = len[g]
  BY <1>1, <1>2 DEF IInv, Types
<1>4. IsAllocated(cap_or_len'[h])
  <2>1. cap_or_len[h] \in 0 .. Word - 1
    BY HandleFacts
  <2>2. Allocated(h) => IsAllocated(WithValue(cap_or_len[h], r.cap))
    BY <1>1, <2>1, WordsChanged DEF Allocated
  <2>3. IsAllocated(TaggedCap(r.cap, TRUE))
    BY <1>1, WordsMade
  <2>4. cap_or_len'[h] = IF Allocated(h) THEN WithValue(cap_or_len[h], r.cap) ELSE TaggedCap(r.cap, TRUE)
    BY <1>2 DEF IInv, Types
  <2> QED BY <2>2, <2>3, <2>4
<1>5. BytesOf(h)' = SubSeq(v, 1, x)
  BY <1>3, <1>4 DEF BytesOf, LenOf, Allocated
<1>6. ASSUME NEW g \in Handles, g # h PROVE BytesOf(g)' = BytesOf(g)
  <2>1. ASSUME buf[g] \in Blocks PROVE data'[buf[g]] = data[buf[g]]
    <3>1. buf[g] # buf[h]
      BY <1>6, <2>1, HandleFacts, Alone
    <3>2. buf[g] # r.blk
      BY <1>1, <2>1, <3>1, HandleFacts
    <3> QED BY <1>2, <2>1, <3>1, <3>2
  <2> QED BY <1>3, <1>6, <2>1, ShowsOther
<1> QED
  BY <1>5, <1>6 DEF Shows

LEMMA GrownShows ==
    ASSUME IInv, NEW h \in Handles, kind[h] # "shared",
           NEW n \in Nat \ {0}, Obtainable(n),
           NEW r \in Rooms(h, n), NEW s \in Seq(Bytes), len[h] + Len(s) <= r.cap,
           Settle(h, n, r, Written(Carried(h, r.cap), len[h], s)),
           kind' = [kind EXCEPT ![h] = "unique"], len' = [len EXCEPT ![h] = @ + Len(s)]
    PROVE  Shows(h, BytesOf(h) \o s)
<1>1. n \in 1 .. Limit /\ r.cap \in Nat /\ len[h] \in Nat /\ Len(s) \in Nat /\ len[h] <= r.cap
  <2>1. n \in 1 .. Limit
    BY Asked, Limits
  <2>2. r.cap \in Nat /\ len[h] \in Nat /\ Len(s) \in Nat
    BY <2>1, RoomsHaveRoom, HandleFacts, Limits, LenProperties
  <2> QED BY <2>1, <2>2
<1>2. PICK x \in Nat, l \in Nat : x = len[h] + Len(s) /\ l = len[h]
  BY <1>1
<1>3. l \in 0 .. LenOf(h) /\ l <= r.cap /\ LenOf(h) = l
  BY <1>1, <1>2, ShowsLen
<1>4. PICK c \in Seq(Cells) : /\ c = Carried(h, r.cap) /\ Len(c) = r.cap
                              /\ SubSeq(c, 1, l) = SubSeq(BytesOf(h), 1, l)
  BY <1>1, <1>3, CarriedShows
<1>5. Written(c, l, s) \in Seq(Cells)
  BY WrittenCells
<1>6. Shows(h, SubSeq(Written(c, l, s), 1, x))
  BY <1>1, <1>2, <1>4, <1>5, SettleShows
<1>7. l + Len(s) <= Len(c)
  BY <1>2, <1>4
<1>8. SubSeq(Written(c, l, s), 1, l + Len(s)) = SubSeq(c, 1, l) \o s
  BY <1>7, PrefixOfWritten
<1>9. SubSeq(c, 1, l) = BytesOf(h)
  BY <1>2, <1>4, ShowsLen
<1> QED
  BY <1>2, <1>6, <1>8, <1>9

LEMMA ResizedShows ==
    ASSUME IInv, NEW h \in Handles, kind[h] # "shared",
           NEW n \in Nat \ {0}, Obtainable(n),
           NEW r \in Rooms(h, n), len[h] <= n,
           Settle(h, n, r, Carried(h, r.cap)),
           kind' = [kind EXCEPT ![h] = "unique"], len' = len
    PROVE  Shows(h, BytesOf(h))
<1>1. n \in 1 .. Limit
  BY Asked, Limits
<1>2. r.cap \in Nat /\ len[h] \in Nat /\ len[h] <= r.cap
  BY <1>1, RoomsHaveRoom, HandleFacts, Limits
<1>3. PICK l \in Nat : l = len[h] /\ l \in 0 .. LenOf(h) /\ l <= r.cap
  BY <1>2, ShowsLen
<1>4. PICK c \in Seq(Cells) : /\ c = Carried(h, r.cap)
                              /\ SubSeq(c, 1, l) = SubSeq(BytesOf(h), 1, l)
  BY <1>2, <1>3, CarriedShows
<1>5. len' = [len EXCEPT ![h] = l]
  BY <1>3 DEF IInv, Types
<1>6. Shows(h, SubSeq(c, 1, l))
  BY <1>1, <1>4, <1>5, SettleShows
<1>7. SubSeq(c, 1, l) = BytesOf(h)
  BY <1>3, <1>4, ShowsLen
<1> QED
  BY <1>6, <1>7

LEMMA WrittenShows ==
    ASSUME IInv, NEW h \in Handles, kind[h] = "unique", Allocated(h),
           NEW s \in Seq(Bytes), len[h] + Len(s) <= CapOrLen(h),
           data' = [data EXCEPT ![buf[h]] = Written(@, len[h], s)],
           len' = [len EXCEPT ![h] = @ + Len(s)],
           UNCHANGED <<kind, buf, cap_or_len>>
    PROVE  Shows(h, BytesOf(h) \o s)
<1>1. PICK d \in Seq(Cells), l \in Nat : d = data[buf[h]] /\ l = len[h] /\ Len(d) = CapOrLen(h)
  <2>1. data[buf[h]] \in Seq(Cells) /\ Len(data[buf[h]]) = alloc_size[buf[h]]
    BY Shown
  <2>2. CapOrLen(h) = alloc_size[buf[h]] /\ len[h] \in Nat
    BY HandleFacts, Limits
  <2> QED BY <2>1, <2>2
<1>2. PICK x \in Nat : x = l + Len(s) /\ x <= Len(d)
  BY <1>1, LenProperties
<1>3. data'[buf[h]] = Written(d, l, s) /\ len'[h] = x /\ kind'[h] = "unique" /\ IsAllocated(cap_or_len'[h])
      /\ buf'[h] = buf[h]
  BY <1>1, <1>2, HandleFacts DEF IInv, Types, Allocated
<1>4. BytesOf(h)' = SubSeq(Written(d, l, s), 1, x)
  BY <1>3 DEF BytesOf, LenOf, Allocated
<1>5. SubSeq(Written(d, l, s), 1, l + Len(s)) = SubSeq(d, 1, l) \o s
  BY <1>2, PrefixOfWritten
<1>6. SubSeq(d, 1, l) = BytesOf(h)
  BY <1>1, Shown, ShowsLen
<1>7. ASSUME NEW g \in Handles, g # h PROVE BytesOf(g)' = BytesOf(g)
  <2>1. ASSUME buf[g] \in Blocks PROVE data'[buf[g]] = data[buf[g]]
    <3>1. buf[g] # buf[h]
      BY <1>7, <2>1, HandleFacts, Alone
    <3> QED BY <2>1, <3>1 DEF IInv, Types
  <2>2. len'[g] = len[g]
    BY <1>7 DEF IInv, Types
  <2> QED BY <2>1, <2>2, ShowsOther
<1> QED
  BY <1>2, <1>4, <1>5, <1>6, <1>7 DEF Shows

-----------------------------------------------------------------------------
(* The refinement.  A call changes what its own handle shows, to what        *)
(* ByteStrings says; Shows turns into one of its steps.                      *)

LEMMA ShowsBecomes ==
    ASSUME NEW h \in Handles, NEW k, NEW v,
           kind' = [kind EXCEPT ![h] = k], Shows(h, v)
    PROVE  Values!Becomes(h, k, v)
<1>1. [g \in Handles |-> BytesOf(g)]' = [[g \in Handles |-> BytesOf(g)] EXCEPT ![h] = v]
  BY DEF Shows
<1> QED
  BY <1>1 DEF Values!Becomes

LEMMA ShowsStutter ==
    ASSUME NEW h \in Handles, kind' = kind, Shows(h, BytesOf(h))
    PROVE  UNCHANGED Values!valueVars
<1>1. [g \in Handles |-> BytesOf(g)]' = [g \in Handles |-> BytesOf(g)]
  BY DEF Shows
<1> QED
  BY <1>1 DEF Values!valueVars

\* The step changes one handle's own fields and, in blocks of others, nothing.
LEMMA OnlyThis ==
    ASSUME IInv, NEW h \in Handles, NEW v, BytesOf(h)' = v,
           \A g \in Handles : g # h =>
              /\ kind'[g] = kind[g] /\ buf'[g] = buf[g]
              /\ cap_or_len'[g] = cap_or_len[g] /\ len'[g] = len[g]
              /\ buf[g] \in Blocks => data'[buf[g]] = data[buf[g]]
    PROVE  Shows(h, v)
BY ShowsOther DEF Shows

\* A handle that lets go of its block shows nothing.
LEMMA LeavesShow ==
    ASSUME IInv, NEW h \in Handles, NEW k, NEW x,
           kind' = [kind EXCEPT ![h] = k], buf' = [buf EXCEPT ![h] = NoBlock],
           cap_or_len' = [cap_or_len EXCEPT ![h] = Zero], len' = [len EXCEPT ![h] = x],
           \/ data' = data
           \/ /\ buf[h] \in Blocks /\ ref_count[buf[h]] = 1
              /\ data' = [data EXCEPT ![buf[h]] = <<>>]
    PROVE  Shows(h, <<>>)
<1>1. cap_or_len'[h] = Zero
  BY DEF IInv, Types
<1>2. BytesOf(h)' = <<>>
  BY <1>1, ZeroWord DEF BytesOf, Allocated
<1>3. ASSUME NEW g \in Handles, g # h
      PROVE  /\ kind'[g] = kind[g] /\ buf'[g] = buf[g]
             /\ cap_or_len'[g] = cap_or_len[g] /\ len'[g] = len[g]
  BY <1>3 DEF IInv, Types
<1>4. ASSUME NEW g \in Handles, g # h, buf[g] \in Blocks PROVE data'[buf[g]] = data[buf[g]]
  <2>1. CASE data' = data
    BY <2>1
  <2>2. CASE /\ buf[h] \in Blocks /\ ref_count[buf[h]] = 1
             /\ data' = [data EXCEPT ![buf[h]] = <<>>]
    <3>1. buf[g] # buf[h]
      BY <1>4, <2>2, Alone
    <3> QED BY <1>4, <2>2, <3>1 DEF IInv, Types
  <2> QED BY <2>1, <2>2
<1> QED
  BY <1>2, <1>3, <1>4, OnlyThis

\* The fields change so that the handle shows n bytes of the block it had.
LEMMA SameBlockShows ==
    ASSUME IInv, NEW h \in Handles, NEW k, NEW w, NEW x, NEW n,
           kind' = [kind EXCEPT ![h] = k], cap_or_len' = [cap_or_len EXCEPT ![h] = w],
           len' = [len EXCEPT ![h] = x], UNCHANGED <<buf, data>>,
           IsAllocated(w) <=> Allocated(h),
           Allocated(h) => n = IF k = "unique" THEN x ELSE Value(w)
    PROVE  Shows(h, IF Allocated(h) THEN SubSeq(data[buf[h]], 1, n) ELSE <<>>)
<1>1. kind'[h] = k /\ cap_or_len'[h] = w /\ len'[h] = x /\ buf'[h] = buf[h] /\ data' = data
  BY DEF IInv, Types
<1>2. BytesOf(h)' = IF Allocated(h) THEN SubSeq(data[buf[h]], 1, n) ELSE <<>>
  BY <1>1 DEF BytesOf, LenOf, Allocated, CapOrLen
<1>3. \A g \in Handles : g # h =>
        /\ kind'[g] = kind[g] /\ buf'[g] = buf[g]
        /\ cap_or_len'[g] = cap_or_len[g] /\ len'[g] = len[g]
        /\ buf[g] \in Blocks => data'[buf[g]] = data[buf[g]]
  BY DEF IInv, Types
<1> QED
  BY <1>2, <1>3, OnlyThis

AbstractStep(h) == Values!CallOf(h) \/ UNCHANGED Values!valueVars

LEMMA ToExtend ==
    ASSUME IInv, NEW h \in Handles, kind[h] = "unique", kind' = [kind EXCEPT ![h] = "unique"],
           NEW s \in Seq(Bytes), Shows(h, BytesOf(h) \o s)
    PROVE  AbstractStep(h)
<1>1. PICK v \in Seq(Cells), n \in Nat : v = BytesOf(h) /\ n = Len(v)
  BY Shown, LenProperties
<1>2. PICK k \in Nat : k = Len(s) /\ s \in [1 .. k -> Bytes]
  BY LenProperties
<1>3. s \in Seq(Cells)
  BY SeqMonotonic DEF Cells
<1>4. Len(v \o s) = n + k
  BY <1>1, <1>2, <1>3, ConcatProperties
<1>5. Len(BytesOf(h)') - Len(BytesOf(h)) = k
  BY <1>1, <1>2, <1>4 DEF Shows
<1>6. Values!Becomes(h, "unique", BytesOf(h) \o s)
  BY ShowsBecomes
<1>7. Values!Extend(h)
  BY <1>2, <1>5, <1>6 DEF Values!Extend
<1> QED
  BY <1>7 DEF AbstractStep, Values!CallOf

LEMMA ReserveShows ==
    ASSUME IInv, NEW h \in Handles, NEW k \in Nat \ {0}, NEW n \in Nat \ {0},
           len[h] + k <= n, Reserve(h, k, n)
    PROVE  AbstractStep(h)
<1>1. PICK r \in Rooms(h, n) : Settle(h, n, r, Carried(h, r.cap))
  BY DEF Reserve
<1>2. /\ kind[h] = "unique" /\ Obtainable(n) /\ len' = len
      /\ kind' = [kind EXCEPT ![h] = "unique"] /\ kind' = kind
  BY DEF Reserve, IInv, Types
<1>3. len[h] <= n
  BY HandleFacts, Limits
<1> QED
  BY <1>1, <1>2, <1>3, ResizedShows, ShowsStutter DEF AbstractStep

LEMMA ExtendShows ==
    ASSUME IInv, NEW h \in Handles, NEW s \in Seq(Bytes), Len(s) > 0, Extend(h, s)
    PROVE  /\ kind[h] = "unique" /\ kind' = [kind EXCEPT ![h] = "unique"]
           /\ Shows(h, BytesOf(h) \o s)
<1>1. Len(s) \in Nat \ {0}
  BY LenProperties
<1>2. /\ kind[h] = "unique" /\ len' = [len EXCEPT ![h] = @ + Len(s)]
      /\ kind' = [kind EXCEPT ![h] = "unique"] /\ kind' = kind
  BY DEF Extend, IInv, Types
<1>3. CASE ~NeedsToGrow(h, Len(s))
  <2>1. Allocated(h) /\ len[h] + Len(s) <= CapOrLen(h)
    BY <1>1, <1>2, <1>3, NoGrowth
  <2>2. data' = [data EXCEPT ![buf[h]] = Written(@, len[h], s)] /\ UNCHANGED <<buf, cap_or_len>>
    BY <1>3 DEF Extend
  <2>3. Shows(h, BytesOf(h) \o s)
    BY <1>2, <2>1, <2>2, WrittenShows
  <2> QED BY <1>2, <2>3
<1>4. CASE NeedsToGrow(h, Len(s))
  <2>1. PICK n \in Nat \ {0} : n = Amortized(h, Len(s)) /\ len[h] + Len(s) <= n
    BY <1>1, AmortizedNeed
  <2>2. PICK r \in Rooms(h, n) : Settle(h, n, r, Written(Carried(h, r.cap), len[h], s))
    BY <1>4, <2>1 DEF Extend
  <2>3. Obtainable(n)
    BY <1>4, <2>1 DEF Extend
  <2>4. r.cap \in n .. Limit /\ len[h] \in Nat
    BY <2>3, Asked, RoomsHaveRoom, HandleFacts, Limits
  <2>5. len[h] + Len(s) <= r.cap
    BY <1>1, <2>1, <2>4, Limits
  <2>6. Shows(h, BytesOf(h) \o s)
    BY <1>2, <2>2, <2>3, <2>5, GrownShows
  <2> QED BY <1>2, <2>6
<1> QED
  BY <1>3, <1>4

LEMMA ChunkShows ==
    ASSUME IInv, NEW h \in Handles, ChunkMut(h)
    PROVE  AbstractStep(h)
BY AmortizedNeed, ReserveShows, BufferAssumption DEF ChunkMut, ReserveAmortized

\* What is written behind the length does not show.
LEMMA WriteChunkShows ==
    ASSUME IInv, NEW h \in Handles, NEW i \in Nat, NEW y \in Bytes, WriteChunk(h, i, y)
    PROVE  AbstractStep(h)
<1>1. /\ kind[h] = "unique" /\ i \in len[h] + 1 .. CapOrLen(h)
      /\ data' = [data EXCEPT ![buf[h]][i] = y]
      /\ UNCHANGED <<kind, buf, cap_or_len, len>>
  BY DEF WriteChunk, handleVars
<1>2. Allocated(h) /\ LenOf(h) = len[h]
  BY <1>1, HandleFacts, ShowsLen, Limits
<1>3. PICK d \in Seq(Cells), l \in Nat : /\ d = data[buf[h]] /\ l = len[h] /\ l \in 0 .. Len(d)
                                        /\ Len(d) = CapOrLen(h)
                                        /\ BytesOf(h) = SubSeq(d, 1, l)
  BY <1>1, <1>2, Shown, HandleFacts
<1>4. PICK e : e = [d EXCEPT ![i] = y]
  OBVIOUS
<1>5. i \in 1 .. Len(d) /\ i > l /\ y \in Cells
  BY <1>1, <1>3 DEF Cells
<1>6. /\ e \in Seq(Cells) /\ Len(e) = Len(d)
      /\ \A j \in 1 .. Len(d) : e[j] = IF j = i THEN y ELSE d[j]
  BY <1>4, <1>5, ExceptSeq
<1>7. \A j \in 1 .. l : d[j] = e[j]
  BY <1>3, <1>5, <1>6
<1>8. l <= Len(e)
  BY <1>3, <1>6
<1>9. SubSeq(d, 1, l) = SubSeq(e, 1, l)
  BY <1>3, <1>6, <1>7, <1>8, SamePrefix
<1>10. buf[h] \in Blocks /\ ref_count[buf[h]] = 1 /\ data'[buf[h]] = e
  BY <1>1, <1>2, <1>3, <1>4, HandleFacts DEF IInv, Types
<1>11. BytesOf(h)' = BytesOf(h)
  <2>1. BytesOf(h)' = SubSeq(e, 1, l)
    BY <1>1, <1>2, <1>3, <1>10 DEF BytesOf, LenOf, Allocated
  <2> QED BY <1>3, <1>9, <2>1
<1>12. \A g \in Handles : g # h =>
         /\ kind'[g] = kind[g] /\ buf'[g] = buf[g]
         /\ cap_or_len'[g] = cap_or_len[g] /\ len'[g] = len[g]
         /\ buf[g] \in Blocks => data'[buf[g]] = data[buf[g]]
  BY <1>1, <1>10, Alone DEF IInv, Types
<1>13. Shows(h, BytesOf(h))
  BY <1>11, <1>12, OnlyThis
<1> QED
  BY <1>1, <1>13, ShowsStutter DEF AbstractStep

\* The written bytes behind the length are appended.
LEMMA AdvanceShows ==
    ASSUME IInv, NEW h \in Handles, NEW k \in Nat \ {0}, AdvanceMut(h, k)
    PROVE  AbstractStep(h)
<1>1. /\ kind[h] = "unique" /\ len[h] + k <= CapOrLen(h)
      /\ \A i \in len[h] + 1 .. len[h] + k : data[buf[h]][i] # Junk
      /\ UNCHANGED <<buf, data>> /\ kind' = [kind EXCEPT ![h] = "unique"]
      /\ cap_or_len' = [cap_or_len EXCEPT ![h] = cap_or_len[h]]
  BY DEF AdvanceMut, blockVars, IInv, Types
<1>2. Allocated(h) /\ LenOf(h) = len[h]
  BY <1>1, HandleFacts, ShowsLen, Limits
<1>3. PICK d \in Seq(Cells), l \in Nat : /\ d = data[buf[h]] /\ l = len[h] /\ l \in 0 .. Len(d)
                                        /\ l + k <= Len(d)
                                        /\ BytesOf(h) = SubSeq(d, 1, l)
  BY <1>1, <1>2, Shown, HandleFacts
<1>4. DOMAIN d = 1 .. Len(d) /\ Len(d) \in Nat
  BY LenProperties
<1>5. PICK s : s = [j \in 1 .. k |-> d[l + j]]
  OBVIOUS
<1>6. s \in Seq(Bytes) /\ Len(s) = k
  <2>1. ASSUME NEW j \in 1 .. k PROVE d[l + j] \in Bytes
    <3>1. l + j \in 1 .. Len(d) /\ l + j \in l + 1 .. l + k
      BY <1>3, <1>4
    <3>2. d[l + j] \in Cells
      BY <3>1, ElementOfSeq
    <3>3. d[l + j] # Junk
      BY <1>1, <1>3, <3>1
    <3> QED BY <3>2, <3>3 DEF Cells
  <2>2. s \in [1 .. k -> Bytes]
    BY <1>5, <2>1
  <2> QED BY <2>2, Lengths
<1>7. Written(d, l, s) = d
  <2>1. d = [i \in DOMAIN d |-> d[i]]
    BY <1>4
  <2>2. ASSUME NEW i \in DOMAIN d, i \in l + 1 .. l + Len(s) PROVE s[i - l] = d[i]
    BY <1>4, <1>5, <1>6, <2>2
  <2> QED BY <2>1, <2>2 DEF Written
<1>8. SubSeq(d, 1, l + k) = BytesOf(h) \o s
  BY <1>3, <1>6, <1>7, PrefixOfWritten
<1>9. PICK x : x = l + k /\ len' = [len EXCEPT ![h] = x]
  BY <1>3 DEF AdvanceMut
<1>10. Shows(h, SubSeq(d, 1, x))
  BY <1>1, <1>2, <1>3, <1>9, SameBlockShows DEF Allocated
<1> QED
  BY <1>1, <1>6, <1>8, <1>9, <1>10, ToExtend

LEMMA ShrinkShows ==
    ASSUME IInv, NEW h \in Handles, NEW min \in Nat, ShrinkTo(h, min)
    PROVE  AbstractStep(h)
<1>1. PICK n \in Nat : n = Larger(len[h], min) /\ len[h] <= n
  <2>1. len[h] \in Nat
    BY HandleFacts, Limits
  <2> QED BY <2>1 DEF Larger
<1>2. /\ kind[h] = "unique" /\ CapOrLen(h) > n /\ len' = len
      /\ kind' = [kind EXCEPT ![h] = "unique"] /\ kind' = kind
      /\ len[h] \in Nat /\ CapOrLen(h) \in Nat
  BY <1>1, HandleFacts, Limits DEF ShrinkTo, IInv, Types
<1>3. CASE n = 0
  <2>1. Freed(buf[h]) /\ buf' = [buf EXCEPT ![h] = NoBlock] /\ cap_or_len' = [cap_or_len EXCEPT ![h] = Zero]
    BY <1>1, <1>3 DEF ShrinkTo
  <2>2. CapOrLen(h) # 0 /\ len[h] = 0
    BY <1>1, <1>2, <1>3
  <2>3. buf[h] \in Blocks /\ ref_count[buf[h]] = 1
    BY <1>2, <2>2, HandleFacts
  <2>4. len' = [len EXCEPT ![h] = 0]
    BY <1>2, <2>2 DEF IInv, Types
  <2>5. data' = [data EXCEPT ![buf[h]] = <<>>]
    BY <2>1 DEF Freed
  <2>6. Shows(h, <<>>)
    BY <1>2, <2>1, <2>3, <2>4, <2>5, LeavesShow
  <2>7. BytesOf(h) = <<>>
    BY <1>2, <2>2, ShowsLen, ShowsNothing
  <2> QED BY <1>2, <2>6, <2>7, ShowsStutter DEF AbstractStep
<1>4. CASE n # 0
  <2>1. Obtainable(n) /\ \E r \in Rooms(h, n) : Settle(h, n, r, Carried(h, r.cap))
    BY <1>1, <1>4 DEF ShrinkTo
  <2>2. Shows(h, BytesOf(h))
    BY <1>1, <1>2, <1>4, <2>1, ResizedShows
  <2> QED BY <1>2, <2>2, ShowsStutter DEF AbstractStep
<1> QED
  BY <1>3, <1>4

LEMMA ToCreate ==
    ASSUME NEW h \in Handles, kind' = [kind EXCEPT ![h] = "unique"], Shows(h, <<>>)
    PROVE  AbstractStep(h)
BY ShowsBecomes DEF AbstractStep, Values!CallOf, Values!Create

LEMMA ToDiscard ==
    ASSUME NEW h \in Handles, kind' = [kind EXCEPT ![h] = "none"], Shows(h, <<>>)
    PROVE  AbstractStep(h)
BY ShowsBecomes DEF AbstractStep, Values!CallOf, Values!Discard

LEMMA CreateShows ==
    ASSUME IInv, NEW h \in Handles,
           \/ New(h) \/ (\E n \in 1 .. Word - 1 : WithCapacity(h, n)) \/ DropLastAndReuse(h)
    PROVE  AbstractStep(h)
<1>1. CASE New(h)
  <2>1. /\ kind' = [kind EXCEPT ![h] = "unique"] /\ UNCHANGED <<buf, data>>
        /\ cap_or_len' = [cap_or_len EXCEPT ![h] = cap_or_len[h]]
        /\ len' = [len EXCEPT ![h] = len[h]] /\ ~Allocated(h)
    BY <1>1, HandleFacts DEF New, blockVars, IInv, Types
  <2>2. Shows(h, <<>>)
    BY <2>1, SameBlockShows DEF Allocated
  <2> QED BY <2>1, <2>2, ToCreate
<1>2. ASSUME NEW n \in 1 .. Word - 1, WithCapacity(h, n) PROVE AbstractStep(h)
  <2>1. PICK r \in Rooms(h, n) : Settle(h, n, r, Carried(h, r.cap))
    BY <1>2 DEF WithCapacity
  <2>2. /\ kind[h] = "none" /\ Obtainable(n) /\ len' = len
        /\ kind' = [kind EXCEPT ![h] = "unique"]
    BY <1>2 DEF WithCapacity
  <2>3. n \in Nat \ {0} /\ len[h] <= n /\ ~Allocated(h)
    BY <2>2, HandleFacts, Limits
  <2>4. Shows(h, BytesOf(h))
    BY <2>1, <2>2, <2>3, ResizedShows
  <2>5. BytesOf(h) = <<>>
    BY <2>3 DEF BytesOf
  <2> QED BY <2>2, <2>4, <2>5, ToCreate
<1>3. CASE DropLastAndReuse(h)
  <2>1. Allocated(h) /\ alloc_size[buf[h]] \in 0 .. Limit /\ data[buf[h]] \in Seq(Cells)
    BY <1>3, HandleFacts, Shown DEF DropLastAndReuse, IsLast
  <2>2. PICK w \in 0 .. Word - 1 : w = TaggedCap(alloc_size[buf[h]], TRUE) /\ IsAllocated(w)
    BY <2>1, WordsMade
  <2>3. /\ kind' = [kind EXCEPT ![h] = "unique"] /\ UNCHANGED <<buf, data>>
        /\ cap_or_len' = [cap_or_len EXCEPT ![h] = w] /\ len' = [len EXCEPT ![h] = 0]
    BY <1>3, <2>2 DEF DropLastAndReuse, blockVars
  <2>4. Shows(h, SubSeq(data[buf[h]], 1, 0))
    BY <2>1, <2>2, <2>3, SameBlockShows
  <2>5. SubSeq(data[buf[h]], 1, 0) = <<>>
    BY SubSeqEmpty
  <2> QED BY <2>3, <2>4, <2>5, ToCreate
<1> QED
  BY <1>1, <1>2, <1>3

LEMMA TruncateShows ==
    ASSUME IInv, NEW h \in Handles, NEW n \in 0 .. Limit, Truncate(h, n)
    PROVE  AbstractStep(h)
<1>1. PICK x \in Nat : x = Smaller(n, len[h]) /\ x <= len[h]
  BY HandleFacts, Limits DEF Smaller
<1>2. /\ kind[h] = "unique" /\ kind' = [kind EXCEPT ![h] = "unique"] /\ UNCHANGED <<buf, data>>
      /\ cap_or_len' = [cap_or_len EXCEPT ![h] = cap_or_len[h]] /\ len' = [len EXCEPT ![h] = x]
  BY <1>1 DEF Truncate, blockVars, IInv, Types
<1>3. LenOf(h) = len[h] /\ x \in 0 .. LenOf(h)
  BY <1>1, <1>2, ShowsLen, HandleFacts, Limits
<1>4. Shows(h, IF Allocated(h) THEN SubSeq(data[buf[h]], 1, x) ELSE <<>>)
  BY <1>2, SameBlockShows DEF Allocated
<1>5. (IF Allocated(h) THEN SubSeq(data[buf[h]], 1, x) ELSE <<>>) = SubSeq(BytesOf(h), 1, x)
  <2>1. CASE Allocated(h)
    <3>1. PICK d \in Seq(Cells), l \in Nat : /\ d = data[buf[h]] /\ l = LenOf(h) /\ l \in 0 .. Len(d)
                                            /\ BytesOf(h) = SubSeq(d, 1, l)
      BY <2>1, Shown
    <3>2. x \in 0 .. l
      BY <1>3, <3>1
    <3> QED BY <2>1, <3>1, <3>2, PrefixOfPrefix
  <2>2. CASE ~Allocated(h)
    <3>1. x < 1 /\ BytesOf(h) = <<>>
      BY <1>3, <2>2, Shown
    <3> QED BY <2>2, <3>1, SubSeqEmpty
  <2> QED BY <2>1, <2>2
<1>6. Values!Becomes(h, "unique", SubSeq(BytesOf(h), 1, x))
  BY <1>2, <1>4, <1>5, ShowsBecomes
<1>7. x \in 0 .. Len(BytesOf(h))
  BY <1>3, Shown
<1>8. Values!Cut(h)
  BY <1>2, <1>6, <1>7 DEF Values!Cut
<1> QED
  BY <1>8 DEF AbstractStep, Values!CallOf

LEMMA OverwriteShows ==
    ASSUME IInv, NEW h \in Handles, NEW i \in 1 .. Limit, NEW y \in Bytes, Overwrite(h, i, y)
    PROVE  AbstractStep(h)
<1>1. /\ kind[h] = "unique" /\ i \in 1 .. len[h]
      /\ data' = [data EXCEPT ![buf[h]][i] = y]
      /\ UNCHANGED <<kind, buf, cap_or_len, len>> /\ kind' = [kind EXCEPT ![h] = "unique"]
  BY DEF Overwrite, handleVars, IInv, Types
<1>2. Allocated(h) /\ LenOf(h) = len[h]
  BY <1>1, HandleFacts, ShowsLen
<1>3. PICK d \in Seq(Cells), l \in Nat : /\ d = data[buf[h]] /\ l = len[h] /\ l \in 0 .. Len(d)
                                        /\ BytesOf(h) = SubSeq(d, 1, l)
  BY <1>2, Shown
<1>4. PICK e : e = [d EXCEPT ![i] = y]
  OBVIOUS
<1>5. i \in 1 .. Len(d) /\ i \in 1 .. l /\ y \in Cells
  BY <1>1, <1>3 DEF Cells
<1>6. /\ e \in Seq(Cells) /\ Len(e) = Len(d)
      /\ \A j \in 1 .. Len(d) : e[j] = IF j = i THEN y ELSE d[j]
  BY <1>4, <1>5, ExceptSeq
<1>7. PICK p \in Seq(Cells) : /\ p = SubSeq(d, 1, l) /\ Len(p) = l
                              /\ \A j \in 1 .. l : p[j] = d[j]
  BY <1>3, Prefix
<1>8. PICK q \in Seq(Cells) : /\ q = SubSeq(e, 1, l) /\ Len(q) = l
                              /\ \A j \in 1 .. l : q[j] = e[j]
  <2>1. l \in 0 .. Len(e)
    BY <1>3, <1>6
  <2> QED BY <1>6, <2>1, Prefix
<1>9. PICK o : o = [p EXCEPT ![i] = y]
  OBVIOUS
<1>10. /\ o \in Seq(Cells) /\ Len(o) = l
       /\ \A j \in 1 .. l : o[j] = IF j = i THEN y ELSE p[j]
  <2>1. i \in 1 .. Len(p)
    BY <1>5, <1>7
  <2>2. /\ [p EXCEPT ![i] = y] \in Seq(Cells) /\ Len([p EXCEPT ![i] = y]) = Len(p)
        /\ \A j \in 1 .. Len(p) : [p EXCEPT ![i] = y][j] = IF j = i THEN y ELSE p[j]
    BY <1>5, <2>1, ExceptSeq
  <2>3. o \in Seq(Cells) /\ Len(o) = Len(p) /\ \A j \in 1 .. Len(p) : o[j] = IF j = i THEN y ELSE p[j]
    BY <1>9, <2>2
  <2> QED BY <1>7, <2>3
<1>11. ASSUME NEW j \in 1 .. l PROVE q[j] = o[j]
  <2>1. j \in 1 .. Len(d)
    BY <1>3, LenProperties
  <2>2. p[j] = d[j] /\ q[j] = e[j] /\ o[j] = IF j = i THEN y ELSE p[j]
    BY <1>7, <1>8, <1>10
  <2>3. e[j] = IF j = i THEN y ELSE d[j]
    BY <1>6, <2>1
  <2> QED BY <2>2, <2>3
<1>12. q = o
  BY <1>8, <1>10, <1>11, SeqEqual
<1>13. buf[h] \in Blocks /\ ref_count[buf[h]] = 1 /\ data'[buf[h]] = e
  BY <1>1, <1>2, <1>3, <1>4, HandleFacts DEF IInv, Types
<1>14. BytesOf(h)' = [BytesOf(h) EXCEPT ![i] = y]
  <2>1. BytesOf(h)' = SubSeq(e, 1, l)
    BY <1>1, <1>2, <1>3, <1>13 DEF BytesOf, LenOf, Allocated
  <2> QED BY <2>1, <1>3, <1>7, <1>8, <1>9, <1>12
<1>15. \A g \in Handles : g # h =>
         /\ kind'[g] = kind[g] /\ buf'[g] = buf[g]
         /\ cap_or_len'[g] = cap_or_len[g] /\ len'[g] = len[g]
         /\ buf[g] \in Blocks => data'[buf[g]] = data[buf[g]]
  BY <1>1, <1>13, Alone DEF IInv, Types
<1>16. Shows(h, [BytesOf(h) EXCEPT ![i] = y])
  BY <1>14, <1>15, OnlyThis
<1>17. Values!Becomes(h, "unique", [BytesOf(h) EXCEPT ![i] = y])
  BY <1>1, <1>16, ShowsBecomes
<1>18. i \in DOMAIN BytesOf(h)
  BY <1>3, <1>5, <1>7, LenProperties
<1>19. Values!Overwrite(h)
  BY <1>1, <1>17, <1>18 DEF Values!Overwrite
<1> QED
  BY <1>19 DEF AbstractStep, Values!CallOf

LEMMA IntoSharedShows ==
    ASSUME IInv, NEW h \in Handles, IntoShared(h)
    PROVE  AbstractStep(h)
<1>1. PICK w \in 0 .. Word - 1 : /\ w = WithValue(cap_or_len[h], len[h]) /\ Value(w) = len[h]
                                 /\ IsAllocated(w) <=> Allocated(h)
  BY HandleFacts, WordsChanged DEF Allocated
<1>2. /\ kind[h] = "unique" /\ kind' = [kind EXCEPT ![h] = "shared"] /\ UNCHANGED <<buf, data>>
      /\ cap_or_len' = [cap_or_len EXCEPT ![h] = w] /\ len' = [len EXCEPT ![h] = 0]
  BY <1>1 DEF IntoShared, blockVars, IInv, Types
<1>3. Shows(h, IF Allocated(h) THEN SubSeq(data[buf[h]], 1, len[h]) ELSE <<>>)
  BY <1>1, <1>2, SameBlockShows
<1>4. Shows(h, BytesOf(h))
  <2>1. BytesOf(h) = IF Allocated(h) THEN SubSeq(data[buf[h]], 1, len[h]) ELSE <<>>
    BY <1>2 DEF BytesOf, LenOf
  <2> QED BY <1>3, <2>1
<1>5. Values!Becomes(h, "shared", BytesOf(h))
  BY <1>2, <1>4, ShowsBecomes
<1>6. Values!Share(h)
  BY <1>2, <1>5 DEF Values!Share
<1> QED
  BY <1>6 DEF AbstractStep, Values!CallOf

LEMMA AskShows ==
    ASSUME IInv, NEW h \in Handles, AskRefCount(h)
    PROVE  AbstractStep(h)
<1>1. UNCHANGED <<kind, buf, cap_or_len, len, data>>
  BY DEF AskRefCount, handleVars, blockVars
<1>2. \A g \in Handles : BytesOf(g)' = BytesOf(g)
  BY <1>1, ShowsOther
<1>3. Shows(h, BytesOf(h))
  BY <1>2 DEF Shows
<1> QED
  BY <1>1, <1>3, ShowsStutter DEF AbstractStep

LEMMA TryUniqueShows ==
    ASSUME IInv, NEW h \in Handles, TryUnique(h)
    PROVE  AbstractStep(h)
<1>1. kind[h] = "shared" /\ UNCHANGED <<buf, data>>
  BY DEF TryUnique, blockVars
<1>2. CASE RefCountPanics(h)
  <2>1. /\ kind' = [kind EXCEPT ![h] = "none"] /\ ~Allocated(h)
        /\ cap_or_len' = [cap_or_len EXCEPT ![h] = cap_or_len[h]]
        /\ len' = [len EXCEPT ![h] = len[h]]
    BY <1>2 DEF TryUnique, RefCountPanics, IInv, Types
  <2>2. Shows(h, <<>>)
    BY <1>1, <2>1, SameBlockShows DEF Allocated
  <2> QED BY <2>1, <2>2, ToDiscard
<1>3. CASE ~RefCountPanics(h)
  <2>1. PICK w : /\ w = IF Allocated(h) THEN TaggedCap(alloc_size[buf[h]], TRUE) ELSE cap_or_len[h]
                 /\ IsAllocated(w) <=> Allocated(h)
    BY HandleFacts, WordsMade DEF Allocated
  <2>2. /\ kind' = [kind EXCEPT ![h] = "unique"] /\ cap_or_len' = [cap_or_len EXCEPT ![h] = w]
        /\ len' = [len EXCEPT ![h] = CapOrLen(h)]
    BY <1>3, <2>1 DEF TryUnique
  <2>3. Shows(h, IF Allocated(h) THEN SubSeq(data[buf[h]], 1, CapOrLen(h)) ELSE <<>>)
    BY <1>1, <2>1, <2>2, SameBlockShows
  <2>4. Shows(h, BytesOf(h))
    <3>1. BytesOf(h) = IF Allocated(h) THEN SubSeq(data[buf[h]], 1, CapOrLen(h)) ELSE <<>>
      BY <1>1 DEF BytesOf, LenOf
    <3> QED BY <2>3, <3>1
  <2>5. Values!Becomes(h, "unique", BytesOf(h))
    BY <2>2, <2>4, ShowsBecomes
  <2>6. Values!Unshare(h)
    BY <1>1, <2>5 DEF Values!Unshare
  <2> QED BY <2>6 DEF AbstractStep, Values!CallOf
<1> QED
  BY <1>2, <1>3

LEMMA CloneShowsSame ==
    ASSUME IInv, NEW h \in Handles, NEW g \in Handles, Clone(h, g)
    PROVE  /\ kind[h] = "shared" /\ kind[g] = "none" /\ kind' = [kind EXCEPT ![g] = "shared"]
           /\ Shows(g, BytesOf(h))
<1>1. /\ kind[h] = "shared" /\ kind[g] = "none" /\ kind' = [kind EXCEPT ![g] = "shared"]
      /\ buf' = [buf EXCEPT ![g] = buf[h]] /\ cap_or_len' = [cap_or_len EXCEPT ![g] = cap_or_len[h]]
      /\ len' = len /\ data' = data
  BY DEF Clone
<1>2. kind'[g] = "shared" /\ buf'[g] = buf[h] /\ cap_or_len'[g] = cap_or_len[h]
  BY <1>1 DEF IInv, Types
<1>3. BytesOf(g)' = BytesOf(h)
  BY <1>1, <1>2 DEF BytesOf, LenOf, Allocated, CapOrLen
<1>4. \A f \in Handles : f # g =>
        /\ kind'[f] = kind[f] /\ buf'[f] = buf[f]
        /\ cap_or_len'[f] = cap_or_len[f] /\ len'[f] = len[f]
        /\ buf[f] \in Blocks => data'[buf[f]] = data[buf[f]]
  BY <1>1 DEF IInv, Types
<1> QED
  BY <1>1, <1>3, <1>4, OnlyThis

LEMMA CloneShows ==
    ASSUME IInv, NEW h \in Handles, NEW g \in Handles, Clone(h, g)
    PROVE  AbstractStep(h)
<1>1. /\ kind[h] = "shared" /\ kind[g] = "none" /\ kind' = [kind EXCEPT ![g] = "shared"]
      /\ Shows(g, BytesOf(h))
  BY CloneShowsSame
<1>2. Values!Becomes(g, "shared", BytesOf(h))
  BY <1>1, ShowsBecomes
<1>3. Values!Copy(h, g)
  BY <1>1, <1>2 DEF Values!Copy
<1> QED
  BY <1>3 DEF AbstractStep, Values!CallOf

LEMMA DropShows ==
    ASSUME IInv, NEW h \in Handles, DropUnallocated(h) \/ DropOneOfMany(h) \/ DropLast(h)
    PROVE  AbstractStep(h)
<1>1. /\ kind' = [kind EXCEPT ![h] = "none"] /\ buf' = [buf EXCEPT ![h] = NoBlock]
      /\ cap_or_len' = [cap_or_len EXCEPT ![h] = Zero] /\ len' = [len EXCEPT ![h] = 0]
  BY DEF DropUnallocated, DropOneOfMany, DropLast, Leaves
<1>2. \/ data' = data
      \/ /\ buf[h] \in Blocks /\ ref_count[buf[h]] = 1
         /\ data' = [data EXCEPT ![buf[h]] = <<>>]
  BY HandleFacts DEF DropUnallocated, DropOneOfMany, DropLast, IsLast, Freed, blockVars
<1>3. Shows(h, <<>>)
  BY <1>1, <1>2, LeavesShow
<1> QED
  BY <1>1, <1>3, ToDiscard

LEMMA CallRefines ==
    ASSUME IInv, NEW h \in Handles, HandleNext(h)
    PROVE  AbstractStep(h)
<1>1. \A n \in 1 .. Word - 1 : n \in Nat \ {0}
  BY Limits
<1>2. ASSUME NEW k \in 1 .. Word - 1, ReserveAmortized(h, k) PROVE AbstractStep(h)
  BY <1>1, <1>2, AmortizedNeed, ReserveShows DEF ReserveAmortized
<1>3. ASSUME NEW k \in 1 .. Word - 1, ReserveExact(h, k) PROVE AbstractStep(h)
  <2>1. k \in Nat \ {0} /\ len[h] \in Nat
    BY <1>1, HandleFacts, Limits
  <2>2. Exact(h, k) \in Nat \ {0} /\ len[h] + k <= Exact(h, k)
    BY <2>1 DEF Exact
  <2> QED BY <1>3, <2>1, <2>2, ReserveShows DEF ReserveExact
<1>4. ASSUME NEW s \in Strings, Extend(h, s) PROVE AbstractStep(h)
  <2>1. s \in Seq(Bytes) /\ Len(s) > 0
    BY Strung
  <2> QED BY <1>4, <2>1, ExtendShows, ToExtend
<1>5. ASSUME NEW y \in Bytes, ExtendByOne(h, y) PROVE AbstractStep(h)
  <2>1. <<y>> \in Seq(Bytes) /\ Len(<<y>>) > 0
    BY One
  <2> QED BY <1>5, <2>1, ExtendShows, ToExtend DEF ExtendByOne
<1>6. ASSUME NEW n \in 0 .. Limit, ShrinkTo(h, n) PROVE AbstractStep(h)
  BY <1>6, Limits, ShrinkShows
<1>7. ASSUME NEW i \in 1 .. Limit, NEW y \in Bytes, WriteChunk(h, i, y) PROVE AbstractStep(h)
  BY <1>7, Limits, WriteChunkShows
<1>8. ASSUME NEW k \in 1 .. Limit, AdvanceMut(h, k) PROVE AbstractStep(h)
  BY <1>8, Limits, AdvanceShows
<1> QED
  BY <1>2, <1>3, <1>4, <1>5, <1>6, <1>7, <1>8, ChunkShows, CreateShows, TruncateShows, OverwriteShows,
     IntoSharedShows, AskShows, TryUniqueShows, CloneShows, DropShows DEF HandleNext

LEMMA StutterRefines ==
    ASSUME IInv, UNCHANGED vars
    PROVE  UNCHANGED Values!valueVars
<1>1. UNCHANGED <<kind, buf, cap_or_len, len, data>>
  BY DEF vars, handleVars, blockVars
<1>2. [g \in Handles |-> BytesOf(g)]' = [g \in Handles |-> BytesOf(g)]
  BY <1>1, ShowsOther
<1> QED
  BY <1>1, <1>2 DEF Values!valueVars

LEMMA StartsEmpty ==
    ASSUME Init
    PROVE  [h \in Handles |-> BytesOf(h)] = [h \in Handles |-> <<>>]
BY ZeroWord DEF Init, BytesOf, Allocated

LEMMA StepRefines == IInv /\ [Next]_vars => [Values!Next]_(Values!valueVars)
BY CallRefines, StutterRefines DEF Next, AbstractStep, Values!Next

\* Buffers are values: whatever is shared, moved, grown, recycled or dropped, what
\* a handle shows changes only as its own call says, and never by a call on
\* another handle to the same block.
THEOREM ValuesRefinement == Spec => ImplementsByteStrings
<1>1. Init => Values!Init
  BY StartsEmpty DEF Init, Values!Init
<1> QED
  BY <1>1, StepRefines, Invariant, PTL DEF Spec, ImplementsByteStrings, Values!Spec

-----------------------------------------------------------------------------
(* What ByteStrings says of the bytes, back in terms of the buffers.       *)

LEMMA BecomesShows ==
    ASSUME NEW h \in Handles, NEW k, NEW v, Values!Becomes(h, k, v)
    PROVE  kind' = [kind EXCEPT ![h] = k] /\ Shows(h, v)
<1>1. /\ kind' = [kind EXCEPT ![h] = k]
      /\ [g \in Handles |-> BytesOf(g)]' = [[g \in Handles |-> BytesOf(g)] EXCEPT ![h] = v]
  BY DEF Values!Becomes
<1>2. ASSUME NEW g \in Handles PROVE BytesOf(g)' = IF g = h THEN v ELSE BytesOf(g)
  <2>1. [f \in Handles |-> BytesOf(f)]'[g] = BytesOf(g)'
    OBVIOUS
  <2> QED BY <1>1, <2>1
<1> QED
  BY <1>1, <1>2 DEF Shows

LEMMA SilentShows ==
    ASSUME UNCHANGED Values!valueVars
    PROVE  kind' = kind /\ \A h \in Handles : BytesOf(h)' = BytesOf(h)
<1>1. /\ kind' = kind
      /\ [g \in Handles |-> BytesOf(g)]' = [g \in Handles |-> BytesOf(g)]
  BY DEF Values!valueVars
<1>2. ASSUME NEW g \in Handles PROVE BytesOf(g)' = BytesOf(g)
  <2>1. [f \in Handles |-> BytesOf(f)]'[g] = BytesOf(g)'
    OBVIOUS
  <2> QED BY <1>1, <2>1
<1> QED
  BY <1>1, <1>2

\* A call changes what one handle shows, its own or an unused one's.
LEMMA CallShows ==
    ASSUME NEW h \in Handles, AbstractStep(h)
    PROVE  \/ kind' = kind /\ \A g \in Handles : BytesOf(g)' = BytesOf(g)
           \/ \E f \in Handles : \E k, v :
                /\ f = h \/ kind[f] = "none"
                /\ kind' = [kind EXCEPT ![f] = k]
                /\ Shows(f, v)
<1>1. CASE UNCHANGED Values!valueVars
  BY <1>1, SilentShows
<1>2. CASE Values!CallOf(h)
  <2>1. PICK f \in Handles :
           /\ f = h \/ kind[f] = "none"
           /\ \E k, v : Values!Becomes(f, k, v)
    BY <1>2 DEF Values!CallOf, Values!Create, Values!Extend, Values!Cut, Values!Overwrite,
                Values!Share, Values!Unshare, Values!Discard, Values!Copy, Values!Join,
                Values!CopyPart
  <2> QED BY <2>1, BecomesShows
<1> QED
  BY <1>1, <1>2 DEF AbstractStep

LEMMA SharedSpared ==
    ASSUME IInv, NEW h \in Handles, AbstractStep(h),
           NEW g \in Handles, g # h, kind[g] = "shared"
    PROVE  kind'[g] = "shared" /\ BytesOf(g)' = BytesOf(g)
<1>1. kind \in [Handles -> {"none", "unique", "shared"}]
  BY DEF IInv, Types
<1>2. CASE kind' = kind /\ \A f \in Handles : BytesOf(f)' = BytesOf(f)
  BY <1>2
<1>3. ASSUME NEW f \in Handles, NEW k, NEW v, f = h \/ kind[f] = "none",
             kind' = [kind EXCEPT ![f] = k], Shows(f, v)
      PROVE  kind'[g] = "shared" /\ BytesOf(g)' = BytesOf(g)
  <2>1. f # g
    BY <1>3
  <2> QED BY <1>1, <1>3, <2>1 DEF Shows
<1> QED
  BY <1>2, <1>3, CallShows

LEMMA SharedStep ==
    ASSUME IInv, [Next]_vars, NEW g \in Handles, kind[g] = "shared", kind'[g] = "shared"
    PROVE  BytesOf(g)' = BytesOf(g)
<1>1. kind \in [Handles -> {"none", "unique", "shared"}]
  BY DEF IInv, Types
<1>2. CASE UNCHANGED Values!valueVars
  BY <1>2, SilentShows
<1>3. ASSUME NEW h \in Handles, g # h, AbstractStep(h) PROVE BytesOf(g)' = BytesOf(g)
  BY <1>3, SharedSpared
<1>4. ASSUME Values!CallOf(g) PROVE BytesOf(g)' = BytesOf(g)
  <2>1. ASSUME NEW f \in Handles, f # g, NEW k, NEW v, Values!Becomes(f, k, v)
        PROVE  BytesOf(g)' = BytesOf(g)
    BY <2>1, BecomesShows DEF Shows
  <2>2. \A v : ~Values!Becomes(g, "unique", v) /\ ~Values!Becomes(g, "none", v)
    BY <1>1, BecomesShows
  <2>3. ~Values!Share(g)
    BY DEF Values!Share
  <2>4. PICK f \in Handles : Values!Copy(g, f)
    BY <1>4, <2>2, <2>3
    DEF Values!CallOf, Values!Create, Values!Extend, Values!Cut, Values!Overwrite,
        Values!Unshare, Values!Discard, Values!Join, Values!CopyPart
  <2>5. kind[f] = "none" /\ Values!Becomes(f, "shared", BytesOf(g))
    BY <2>4 DEF Values!Copy
  <2> QED BY <2>1, <2>5
<1>5. ASSUME NEW h \in Handles, HandleNext(h) PROVE BytesOf(g)' = BytesOf(g)
  <2>1. AbstractStep(h)
    BY <1>5, CallRefines
  <2> QED BY <1>2, <1>3, <1>4, <2>1 DEF AbstractStep
<1> QED
  BY <1>2, <1>5, StutterRefines DEF Next

LEMMA SharedStays ==
    IInv /\ [Next]_vars =>
        [\A h \in Handles : kind[h] = "shared" /\ kind'[h] = "shared" => BytesOf(h)' = BytesOf(h)]_vars
BY SharedStep

\* A shared buffer is immutable: no call on any handle changes the bytes it shows,
\* though other handles to its block come, go, and become unique again.
THEOREM SharedImmutable == Spec => SharedIsImmutable
BY Invariant, SharedStays, PTL DEF Spec, SharedIsImmutable

AllWritten == \A h \in Handles : BytesOf(h) \in Seq(Bytes)
LengthsKnown == \A h \in Handles : Len(BytesOf(h)) \in Nat

LEMMA LengthsHold == IInv => LengthsKnown
BY Shown DEF LengthsKnown

\* No value of ByteStrings has other bytes than those that were written.
LEMMA WrittenKept ==
    ASSUME LengthsKnown, LengthsKnown', AllWritten, NEW h \in Handles, AbstractStep(h)
    PROVE  AllWritten'
<1>1. ASSUME NEW f \in Handles, NEW k, NEW v \in Seq(Bytes), Values!Becomes(f, k, v)
      PROVE  AllWritten'
  BY <1>1, BecomesShows DEF Shows, AllWritten
<1>2. <<>> \in Seq(Bytes) /\ BytesOf(h) \in Seq(Bytes)
  BY Empty DEF AllWritten
<1>3. CASE UNCHANGED Values!valueVars
  BY <1>3, SilentShows DEF AllWritten
<1>4. CASE Values!Create(h) \/ Values!Discard(h)
  BY <1>1, <1>2, <1>4 DEF Values!Create, Values!Discard
<1>5. CASE Values!Extend(h)
  <2>1. PICK n \in Int : n = Len(BytesOf(h)') - Len(BytesOf(h))
    BY DEF LengthsKnown
  <2>2. PICK s \in [1 .. n -> Bytes] : Values!Becomes(h, "unique", BytesOf(h) \o s)
    BY <1>5, <2>1 DEF Values!Extend
  <2>3. s \in Seq(Bytes)
    <3>1. CASE n \in Nat
      BY <3>1, SeqDef
    <3>2. CASE n \notin Nat
      <4>1. 1 .. n = 1 .. 0
        BY <2>1, <3>2
      <4> QED BY <4>1, SeqDef
    <3> QED BY <3>1, <3>2
  <2>4. BytesOf(h) \o s \in Seq(Bytes)
    BY <1>2, <2>3, ConcatProperties
  <2> QED BY <1>1, <2>2, <2>4
<1>6. CASE Values!Cut(h)
  <2>1. PICK n \in 0 .. Len(BytesOf(h)) : Values!Becomes(h, "unique", SubSeq(BytesOf(h), 1, n))
    BY <1>6 DEF Values!Cut
  <2>2. PICK t \in Seq(Bytes), l \in Nat : t = BytesOf(h) /\ l = Len(t)
    BY <1>2, LenProperties
  <2>3. SubSeq(t, 1, n) \in Seq(Bytes)
    <3>1. \A i \in 1 .. n : t[i] \in Bytes
      BY <2>1, <2>2, ElementOfSeq
    <3> QED BY <2>1, <2>2, <3>1, SubSeqProperties
  <2> QED BY <1>1, <2>1, <2>2, <2>3
<1>7. CASE Values!Overwrite(h)
  <2>1. PICK i \in DOMAIN BytesOf(h), x \in Bytes :
           Values!Becomes(h, "unique", [BytesOf(h) EXCEPT ![i] = x])
    BY <1>7 DEF Values!Overwrite
  <2>2. i \in 1 .. Len(BytesOf(h))
    BY <1>2, <2>1, LenProperties
  <2>3. [BytesOf(h) EXCEPT ![i] = x] \in Seq(Bytes)
    BY <1>2, <2>2, ExceptSeq
  <2> QED BY <1>1, <2>1, <2>3
<1>8. CASE Values!Share(h) \/ Values!Unshare(h)
  BY <1>1, <1>2, <1>8 DEF Values!Share, Values!Unshare
<1>9. ASSUME NEW g \in Handles, Values!Copy(h, g) \/ Values!Join(h, g) \/ Values!CopyPart(h, g)
      PROVE  AllWritten'
  <2>1. PICK t \in Seq(Bytes) : t = BytesOf(g)
    BY DEF AllWritten
  <2>2. CASE Values!Copy(h, g)
    BY <1>1, <1>2, <2>2 DEF Values!Copy
  <2>3. CASE Values!Join(h, g)
    <3>1. BytesOf(h) \o t \in Seq(Bytes)
      BY <1>2, ConcatProperties
    <3> QED BY <1>1, <2>1, <2>3, <3>1 DEF Values!Join
  <2>4. CASE Values!CopyPart(h, g)
    <3>1. PICK i \in 0 .. Len(t), j \in 0 .. Len(t) :
             Values!Becomes(h, "unique", SubSeq(t, i + 1, j))
      BY <2>1, <2>4 DEF Values!CopyPart
    <3>2. SubSeq(t, i + 1, j) \in Seq(Bytes)
      <4>1. Len(t) \in Nat
        BY LenProperties
      <4>2. \A l \in i + 1 .. j : t[l] \in Bytes
        BY <3>1, <4>1, ElementOfSeq
      <4> QED BY <3>1, <4>1, <4>2, SubSeqProperties
    <3> QED BY <1>1, <3>1, <3>2
  <2> QED BY <1>9, <2>2, <2>3, <2>4
<1> QED
  BY <1>3, <1>4, <1>5, <1>6, <1>7, <1>8, <1>9 DEF AbstractStep, Values!CallOf

\* No handle ever shows a byte nobody wrote, through capacity that is handed out,
\* copied by the allocator, left behind by an earlier owner, or uncovered by a
\* length that grows back.
THEOREM OnlyWritten == Spec => []AllWritten
<1>1. Init => AllWritten
  <2>1. ASSUME Init, NEW h \in Handles PROVE BytesOf(h) = <<>>
    BY <2>1, ZeroWord DEF Init, BytesOf, Allocated
  <2> QED BY <2>1, Empty DEF AllWritten
<1>2. ASSUME IInv, LengthsKnown, LengthsKnown', AllWritten, [Next]_vars
      PROVE  AllWritten'
  <2>1. CASE UNCHANGED vars
    BY <1>2, <2>1, StutterRefines, SilentShows DEF AllWritten
  <2>2. ASSUME NEW h \in Handles, HandleNext(h) PROVE AllWritten'
    BY <1>2, <2>2, CallRefines, WrittenKept
  <2> QED BY <1>2, <2>1, <2>2 DEF Next
<1> QED
  BY <1>1, <1>2, LengthsHold, Invariant, PTL DEF Spec
=============================================================================
