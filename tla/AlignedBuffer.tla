--------------------------- MODULE AlignedBuffer ---------------------------
(***************************************************************************)
(* The buffers of aligned-buffer as containers of bytes: capacities,       *)
(* lengths, growth, and the one word a handle uses for both.               *)
(*                                                                         *)
(* A unique buffer keeps its capacity in cap_or_len and its length beside  *)
(* it; into_shared overwrites the capacity with the length, try_unique     *)
(* gets it back from alloc_buffer_size in the header of the allocation.    *)
(* Who may do what when is RefCount's subject: here the handles of one     *)
(* program take turns, every call is one step, and what matters is which   *)
(* bytes a handle shows, what the allocator is told, and how calls fail.   *)
(*                                                                         *)
(* A capacity stands for the allocation of that many bytes and the header  *)
(* in front of them (Layout).                                              *)
(***************************************************************************)
EXTENDS Layout, FiniteSets, Sequences

CONSTANTS
    Handles,           \* the buffers the program can hold at once
    Blocks,            \* the allocations that can be out at once
    NoBlock,           \* the dangling pointer: the allocated tag is clear
    Bytes,             \* the values of a byte
    Junk,              \* a byte nobody has written
    MinNonZeroCap,     \* MIN_NON_ZERO_CAP, 8 in the code
    ChunkSize,         \* what chunk_mut reserves, 64 in the code
    MaxSlack,          \* how much more than asked the allocator may return
    DebugAssertions    \* whether debug_assert is compiled in

ASSUME BufferAssumption ==
    /\ IsFiniteSet(Handles)
    /\ NoBlock \notin Blocks
    /\ Junk \notin Bytes
    /\ MinNonZeroCap \in 1 .. Limit
    /\ ChunkSize \in Nat \ {0}
    /\ MaxSlack \in Nat
    /\ DebugAssertions \in BOOLEAN

VARIABLES
    kind,         \* per handle: none, unique or shared
    buf,          \* per handle: its block
    cap_or_len,   \* per handle: a tagged word, capacity or length
    len,          \* per handle: UniqueAlignedBuffer::len
    live,         \* the blocks that are allocated
    ref_count,    \* per block: in the header
    alloc_size,   \* per block: Header::alloc_buffer_size
    fit,          \* per block: the capacities whose layout fits it
    data,         \* per block: its bytes
    panicked      \* a debug assertion has failed

handleVars == <<kind, buf, cap_or_len, len>>
blockVars  == <<live, ref_count, alloc_size, fit, data>>
vars == <<handleVars, blockVars, panicked>>

Smaller(a, b) == IF a < b THEN a ELSE b

\* The two parts of a handle's word.
Allocated(h) == IsAllocated(cap_or_len[h])
CapOrLen(h) == Value(cap_or_len[h])

\* The number of bytes a handle shows, and these bytes.
LenOf(h) == IF kind[h] = "unique" THEN len[h] ELSE CapOrLen(h)
BytesOf(h) == IF Allocated(h) THEN SubSeq(data[buf[h]], 1, LenOf(h)) ELSE <<>>

Init ==
    /\ kind = [h \in Handles |-> "none"]
    /\ buf = [h \in Handles |-> NoBlock]
    /\ cap_or_len = [h \in Handles |-> Zero]
    /\ len = [h \in Handles |-> 0]
    /\ live = {}
    /\ ref_count = [b \in Blocks |-> 0]
    /\ alloc_size = [b \in Blocks |-> 0]
    /\ fit = [b \in Blocks |-> {}]
    /\ data = [b \in Blocks |-> <<>>]
    /\ panicked = FALSE

-----------------------------------------------------------------------------
(* Capacity.                                                               *)

\* needs_to_grow, with its wrapping subtraction.
NeedsToGrow(h, k) == k > (CapOrLen(h) - len[h]) % Word

\* What grow_amortized and grow_exact ask for once the sum has been checked; the
\* doubling is not.
Amortized(h, k) ==
    Larger(MinNonZeroCap, Larger((2 * CapOrLen(h)) % Word, len[h] + k))
Exact(h, k) == len[h] + k

\* The layouts alloc and realloc let through.
Obtainable(n) == HasLayout(n) /\ PassesGuard(n)

\* Where a handle can end up that asks for n bytes: alloc of a first block, a
\* grown or shrunk block in its place, or a new one with the old bytes copied.
Rooms(h, n) ==
    [blk : {b \in Blocks : b = buf[h] \/ b \notin live},
     cap : n .. Smaller(n + MaxSlack, Limit)]

\* The old bytes as far as they go, in a block of c bytes.
Carried(h, c) ==
    LET old == IF Allocated(h) THEN data[buf[h]] ELSE <<>>
    IN  [i \in 1 .. c |-> IF i <= Len(old) THEN old[i] ELSE Junk]

\* alloc and realloc once the allocator has answered: pointer, capacity and
\* header; v are the bytes of the block.
Settle(h, n, r, v) ==
    LET Blockwise(f, new, none) ==
            [b \in Blocks |-> IF b = r.blk THEN new
                              ELSE IF b = buf[h] THEN none ELSE f[b]]
    IN
    /\ buf' = [buf EXCEPT ![h] = r.blk]
    /\ cap_or_len' = [cap_or_len EXCEPT
                        ![h] = IF Allocated(h) THEN WithValue(cap_or_len[h], r.cap)
                                               ELSE TaggedCap(r.cap, TRUE)]
    /\ live' = (live \ {buf[h]}) \cup {r.blk}
    /\ ref_count' = Blockwise(ref_count, IF Allocated(h) THEN ref_count[buf[h]] ELSE 1, 0)
    /\ alloc_size' = Blockwise(alloc_size, r.cap, 0)
    /\ fit' = Blockwise(fit, n .. r.cap, {})
    /\ data' = Blockwise(data, v, <<>>)

-----------------------------------------------------------------------------
(* Slips this code could have made, one for each property below: no part   *)
(* of Next.                                                                *)

\* Mutant: into_shared leaves the capacity in the handle's word.
IntoSharedKeepsCap(h) ==
    /\ kind[h] = "unique"
    /\ kind' = [kind EXCEPT ![h] = "shared"]
    /\ len' = [len EXCEPT ![h] = 0]
    /\ UNCHANGED <<buf, cap_or_len, blockVars, panicked>>

\* Mutant: try_unique does not get the capacity back.
TryUniqueKeepsLen(h) ==
    /\ kind[h] = "shared"
    /\ Allocated(h) => ref_count[buf[h]] = 1
    /\ kind' = [kind EXCEPT ![h] = "unique"]
    /\ len' = [len EXCEPT ![h] = CapOrLen(h)]
    /\ UNCHANGED <<buf, cap_or_len, blockVars, panicked>>

\* Mutant: shared buffers have a DerefMut as well.
OverwriteShared(h, i, x) ==
    /\ kind[h] # "none"
    /\ i \in 1 .. LenOf(h)
    /\ data' = [data EXCEPT ![buf[h]][i] = x]
    /\ UNCHANGED <<handleVars, live, ref_count, alloc_size, fit, panicked>>

\* Mutant: shrinking to nothing forgets the block.
ShrinkForgetsBlock(h, min) ==
    /\ kind[h] = "unique"
    /\ CapOrLen(h) > Larger(len[h], min)
    /\ buf' = [buf EXCEPT ![h] = NoBlock]
    /\ cap_or_len' = [cap_or_len EXCEPT ![h] = Zero]
    /\ UNCHANGED <<kind, len, blockVars, panicked>>

\* Mutant: a clone counts itself and its original again.
CloneCountsTwice(h, g) ==
    /\ kind[h] = "shared" /\ kind[g] = "none"
    /\ kind' = [kind EXCEPT ![g] = "shared"]
    /\ buf' = [buf EXCEPT ![g] = buf[h]]
    /\ cap_or_len' = [cap_or_len EXCEPT ![g] = cap_or_len[h]]
    /\ ref_count' = [b \in Blocks |-> ref_count[b] + IF b = buf[h] THEN 2 ELSE 0]
    /\ UNCHANGED <<len, live, alloc_size, fit, data, panicked>>

-----------------------------------------------------------------------------
(* Unique buffers.                                                         *)

New(h) ==
    /\ kind[h] = "none"
    /\ kind' = [kind EXCEPT ![h] = "unique"]
    /\ UNCHANGED <<buf, cap_or_len, len, blockVars, panicked>>

\* with_capacity_in; for 0 it is New.  Here and below a call for which there is
\* no layout reports a capacity overflow, and one the allocator fails an
\* allocation error: neither has changed anything.
WithCapacity(h, n) ==
    /\ kind[h] = "none"
    /\ Obtainable(n)
    /\ kind' = [kind EXCEPT ![h] = "unique"]
    /\ \E r \in Rooms(h, n) : Settle(h, n, r, Carried(h, r.cap))
    /\ UNCHANGED <<len, panicked>>

\* reserve, try_reserve (amortized) and their exact twins, when n bytes are
\* asked for.
Reserve(h, k, n) ==
    /\ kind[h] = "unique"
    /\ NeedsToGrow(h, k)
    /\ len[h] + k < Word
    /\ Obtainable(n)
    /\ \E r \in Rooms(h, n) : Settle(h, n, r, Carried(h, r.cap))
    /\ UNCHANGED <<kind, len, panicked>>

ReserveAmortized(h, k) == Reserve(h, k, Amortized(h, k))
ReserveExact(h, k) == Reserve(h, k, Exact(h, k))

\* v with the bytes of s written from position n on.
Written(v, n, s) ==
    [i \in DOMAIN v |-> IF i \in n + 1 .. n + Len(s) THEN s[i - n] ELSE v[i]]

\* append, extend_from_slice, push, put_slice, put_bytes, the growing resize:
\* reserve if need be, write behind the length, move the length.
Extend(h, s) ==
    LET n == Amortized(h, Len(s)) IN
    /\ kind[h] = "unique"
    /\ \/ /\ ~NeedsToGrow(h, Len(s))
          /\ data' = [data EXCEPT ![buf[h]] = Written(@, len[h], s)]
          /\ UNCHANGED <<buf, cap_or_len, live, ref_count, alloc_size, fit>>
       \/ /\ NeedsToGrow(h, Len(s)) /\ Obtainable(n)
          /\ \E r \in Rooms(h, n) : Settle(h, n, r, Written(Carried(h, r.cap), len[h], s))
    /\ len' = [len EXCEPT ![h] = @ + Len(s)]
    /\ UNCHANGED <<kind, panicked>>

\* One byte of extend's iterator, or of write through BufMut's put_u8.  The bytes
\* before it are counted: a next() that panics leaves a buffer that shows them.
ExtendByOne(h, x) == Extend(h, <<x>>)

\* chunk_mut: a full buffer reserves ChunkSize first; one with room left is not
\* changed.  The rest of the capacity is handed out as the chunk.
ChunkMut(h) ==
    /\ CapOrLen(h) = len[h]
    /\ ReserveAmortized(h, ChunkSize)

\* A byte is written into the chunk: there is room for it, nothing counts it yet.
WriteChunk(h, i, x) ==
    /\ kind[h] = "unique"
    /\ i \in len[h] + 1 .. CapOrLen(h)
    /\ data' = [data EXCEPT ![buf[h]][i] = x]
    /\ UNCHANGED <<handleVars, live, ref_count, alloc_size, fit, panicked>>

\* advance_mut: asserts that the bytes are within the capacity, and panics with
\* nothing changed if not.  That they are written is what its caller, being
\* unsafe, promises.
AdvanceMut(h, k) ==
    /\ kind[h] = "unique"
    /\ len[h] + k <= CapOrLen(h)
    /\ \A i \in len[h] + 1 .. len[h] + k : data[buf[h]][i] # Junk
    /\ len' = [len EXCEPT ![h] = @ + k]
    /\ UNCHANGED <<kind, buf, cap_or_len, blockVars, panicked>>

\* truncate, clear, the shrinking resize: only the length changes.
Truncate(h, n) ==
    /\ kind[h] = "unique"
    /\ len' = [len EXCEPT ![h] = Smaller(n, @)]
    /\ UNCHANGED <<kind, buf, cap_or_len, blockVars, panicked>>

\* A byte is written through DerefMut.
Overwrite(h, i, x) ==
    /\ kind[h] = "unique"
    /\ i \in 1 .. len[h]
    /\ data' = [data EXCEPT ![buf[h]][i] = x]
    /\ UNCHANGED <<handleVars, live, ref_count, alloc_size, fit, panicked>>

\* A block is given back; the header it had is gone.
Freed(b) ==
    /\ live' = live \ {b}
    /\ ref_count' = [ref_count EXCEPT ![b] = 0]
    /\ alloc_size' = [alloc_size EXCEPT ![b] = 0]
    /\ fit' = [fit EXCEPT ![b] = {}]
    /\ data' = [data EXCEPT ![b] = <<>>]

\* shrink_to, and shrink_to_fit as shrink_to(0): nothing to do, give the block
\* back, or realloc.
ShrinkTo(h, min) ==
    LET n == Larger(len[h], min) IN
    /\ kind[h] = "unique"
    /\ CapOrLen(h) > n
    /\ IF n = 0
       THEN /\ Freed(buf[h])
            /\ buf' = [buf EXCEPT ![h] = NoBlock]
            /\ cap_or_len' = [cap_or_len EXCEPT ![h] = Zero]
       ELSE /\ Obtainable(n)
            /\ \E r \in Rooms(h, n) : Settle(h, n, r, Carried(h, r.cap))
    /\ UNCHANGED <<kind, len, panicked>>

-----------------------------------------------------------------------------
(* Shared buffers.                                                         *)

\* into_shared: reset_len.  The length moves into the handle's one word.
IntoShared(h) ==
    /\ kind[h] = "unique"
    /\ kind' = [kind EXCEPT ![h] = "shared"]
    /\ cap_or_len' = [cap_or_len EXCEPT ![h] = WithValue(@, len[h])]
    /\ len' = [len EXCEPT ![h] = 0]
    /\ UNCHANGED <<buf, blockVars, panicked>>

\* ref_count(): where debug builds assert that an unallocated buffer has a
\* length, which it never has.
RefCountPanics(h) == DebugAssertions /\ ~Allocated(h) /\ CapOrLen(h) = 0

AskRefCount(h) ==
    /\ kind[h] = "shared"
    /\ panicked' = (panicked \/ RefCountPanics(h))
    /\ UNCHANGED <<handleVars, blockVars>>

\* try_unique: is_unique asks ref_count first, and a panic there unwinds through
\* try_unique, which owns the handle; reset_cap gets the capacity back.
TryUnique(h) ==
    /\ kind[h] = "shared"
    /\ Allocated(h) => ref_count[buf[h]] = 1
    /\ IF RefCountPanics(h)
       THEN /\ kind' = [kind EXCEPT ![h] = "none"]
            /\ panicked' = TRUE
            /\ UNCHANGED <<cap_or_len, len>>
       ELSE /\ kind' = [kind EXCEPT ![h] = "unique"]
            /\ len' = [len EXCEPT ![h] = CapOrLen(h)]
            /\ cap_or_len' = [cap_or_len EXCEPT
                 ![h] = IF Allocated(h) THEN TaggedCap(alloc_size[buf[h]], TRUE) ELSE @]
            /\ UNCHANGED panicked
    /\ UNCHANGED <<buf, blockVars>>

\* clone: the same pointer and the same length, one more reference.
Clone(h, g) ==
    /\ kind[h] = "shared" /\ kind[g] = "none"
    /\ kind' = [kind EXCEPT ![g] = "shared"]
    /\ buf' = [buf EXCEPT ![g] = buf[h]]
    /\ cap_or_len' = [cap_or_len EXCEPT ![g] = cap_or_len[h]]
    /\ ref_count' = [b \in Blocks |-> ref_count[b] + IF b = buf[h] THEN 1 ELSE 0]
    /\ UNCHANGED <<len, live, alloc_size, fit, data, panicked>>

-----------------------------------------------------------------------------
(* Dropping either kind.                                                   *)

Leaves(h) ==
    /\ kind' = [kind EXCEPT ![h] = "none"]
    /\ buf' = [buf EXCEPT ![h] = NoBlock]
    /\ cap_or_len' = [cap_or_len EXCEPT ![h] = Zero]
    /\ len' = [len EXCEPT ![h] = 0]
    /\ UNCHANGED panicked

IsLast(h) == Allocated(h) /\ ref_count[buf[h]] = 1

DropUnallocated(h) ==
    /\ kind[h] # "none" /\ ~Allocated(h)
    /\ Leaves(h)
    /\ UNCHANGED blockVars

DropOneOfMany(h) ==
    /\ kind[h] # "none" /\ Allocated(h) /\ ~IsLast(h)
    /\ Leaves(h)
    /\ ref_count' = [ref_count EXCEPT ![buf[h]] = @ - 1]
    /\ UNCHANGED <<live, alloc_size, fit, data>>

DropLast(h) ==
    /\ kind[h] # "none" /\ IsLast(h)
    /\ Leaves(h)
    /\ Freed(buf[h])

\* The same where the allocator keeps the block, as the pool does: an empty
\* unique buffer with the capacity the header says.
DropLastAndReuse(h) ==
    /\ kind[h] # "none" /\ IsLast(h)
    /\ kind' = [kind EXCEPT ![h] = "unique"]
    /\ cap_or_len' = [cap_or_len EXCEPT ![h] = TaggedCap(alloc_size[buf[h]], TRUE)]
    /\ len' = [len EXCEPT ![h] = 0]
    /\ UNCHANGED <<buf, blockVars, panicked>>

-----------------------------------------------------------------------------
Strings == [1 .. 2 -> Bytes]

\* The calls on one handle.
HandleNext(h) ==
    \/ New(h)
    \/ \E n \in 1 .. Word - 1 : WithCapacity(h, n)
    \/ \E k \in 1 .. Word - 1 : ReserveAmortized(h, k) \/ ReserveExact(h, k)
    \/ \E s \in Strings : Extend(h, s)
    \/ \E x \in Bytes : ExtendByOne(h, x)
    \/ ChunkMut(h)
    \/ \E i \in 1 .. Limit, x \in Bytes : WriteChunk(h, i, x)
    \/ \E k \in 1 .. Limit : AdvanceMut(h, k)
    \/ \E n \in 0 .. Limit : Truncate(h, n) \/ ShrinkTo(h, n)
    \/ \E i \in 1 .. Limit, x \in Bytes : Overwrite(h, i, x)
    \/ IntoShared(h)
    \/ AskRefCount(h)
    \/ TryUnique(h)
    \/ \E g \in Handles : Clone(h, g)
    \/ DropUnallocated(h)
    \/ DropOneOfMany(h)
    \/ DropLast(h)
    \/ DropLastAndReuse(h)

Next == \E h \in Handles : HandleNext(h)

Spec == Init /\ [][Next]_vars

-----------------------------------------------------------------------------
(* What must be true.                                                      *)

TypeOK ==
    /\ kind \in [Handles -> {"none", "unique", "shared"}]
    /\ buf \in [Handles -> Blocks \cup {NoBlock}]
    /\ cap_or_len \in [Handles -> 0 .. Word - 1]
    /\ len \in [Handles -> 0 .. Limit]
    /\ live \in SUBSET Blocks
    /\ ref_count \in [Blocks -> 0 .. Cardinality(Handles)]
    /\ alloc_size \in [Blocks -> 0 .. Limit]
    /\ fit \in [Blocks -> SUBSET (0 .. Limit)]
    /\ \A b \in Blocks : data[b] \in Seq(Bytes \cup {Junk})
    /\ panicked \in BOOLEAN

\* Whatever a handle went through, shared and back, grown with slack, recycled,
\* the layout computed from its capacity, or from the header at the last drop,
\* fits the memory the allocator gave, and its length stays within it; the tag
\* says whether there is a block, and without one both parts are 0, as reset_cap
\* asserts.
LayoutFits ==
    /\ \A h \in Handles : Allocated(h) <=> buf[h] # NoBlock
    /\ \A h \in Handles : Allocated(h) /\ kind[h] = "unique" =>
         /\ CapOrLen(h) \in fit[buf[h]]
         /\ CapOrLen(h) = alloc_size[buf[h]]
    /\ \A h \in Handles : ~Allocated(h) => cap_or_len[h] = Zero /\ len[h] = 0
    /\ \A h \in Handles : Allocated(h) => LenOf(h) <= alloc_size[buf[h]]
    /\ \A b \in live : alloc_size[b] \in fit[b] /\ alloc_size[b] > 0

\* A block is allocated exactly as long as a handle points to it, and its header
\* counts these handles: no call that moves, shrinks, shares, recycles or drops a
\* buffer loses the block it leaves or gives back one another handle has.
BlocksAreOwned ==
    \A b \in Blocks :
        LET holders == {h \in Handles : buf[h] = b} IN
        /\ b \in live <=> holders # {}
        /\ ref_count[b] = Cardinality(holders)

\* The bytes of a shared buffer never change while it is shared, though handles to
\* the same block come, go, and become unique and writable again.
SharedIsImmutable ==
    [][\A h \in Handles : kind[h] = "shared" /\ kind'[h] = "shared" =>
         BytesOf(h)' = BytesOf(h)]_vars

\* Buffers are values: what a handle shows changes only by its own calls, a
\* shared one's never, and no handle ever shows a byte nobody wrote.
Values ==
    INSTANCE ByteStrings WITH value <- [h \in Handles |-> BytesOf(h)]

ImplementsByteStrings == Values!Spec

\* "if we've not allocated, this is basically an empty slice and we can treat
\* it as if it has no shared references": asking for the count never panics.
NoAssertionFails == ~panicked
=============================================================================
