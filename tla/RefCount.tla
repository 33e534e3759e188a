------------------------------ MODULE RefCount ------------------------------
(***************************************************************************)
(* The reference-counting protocol of aligned-buffer.                      *)
(*                                                                         *)
(* A RawAlignedBuffer is a handle: a pointer into an allocation and a tag  *)
(* bit that says whether the pointer is dangling.  The allocation starts   *)
(* with a header whose ref_count says how many handles point to it.  A     *)
(* UniqueAlignedBuffer is the handle in its "unique" phase (it may write   *)
(* the bytes), a SharedAlignedBuffer is the handle in its "shared" phase   *)
(* (it may read them, be cloned, and be counted).                          *)
(*                                                                         *)
(* Any number of threads run these operations at once.  An operation that  *)
(* touches ref_count is split at its atomic accesses: the handle it works  *)
(* on waits in an in-flight phase between two of them, and the thread that *)
(* owns such a handle does nothing else until the operation returns.       *)
(*                                                                         *)
(* The memory order of every access is part of the model.  unseen[b][t]    *)
(* holds the accesses to block b whose latest occurrence does not happen   *)
(* before the current point of thread t, rel[b] those that an Acquire of   *)
(* ref_count would not make visible, and stale[b] the threads that may     *)
(* still read an overwritten 1 in ref_count.                               *)
(***************************************************************************)
EXTENDS Integers, FiniteSets

CONSTANTS
    Threads,       \* the threads of the program
    Handles,       \* the RawAlignedBuffer values it can hold at once
    Blocks,        \* the allocations the allocator can have out at once
    NoBlock,       \* the pointer of a handle whose allocated tag is clear
    NoThread,      \* the owner of a handle that does not exist
    MaxRefcount,   \* MAX_REFCOUNT, isize::MAX in the code
    RefModulus,    \* the values of an AtomicUsize, 2^BITS
    MaxLeaks       \* how many handles the program may mem::forget

ASSUME ConstantsAssumption ==
    /\ IsFiniteSet(Threads)
    /\ IsFiniteSet(Handles)
    /\ NoBlock \notin Blocks
    /\ NoThread \notin Threads
    /\ MaxRefcount \in Nat \ {0}
    /\ RefModulus \in Nat
    /\ MaxLeaks \in Nat

\* "We racily saturate on the assumption that there aren't ~2 billion threads
\* incrementing the reference count at once."
ASSUME ThreadsAssumption ==
    MaxRefcount + 1 + Cardinality(Threads) < RefModulus

VARIABLES
    phase,       \* per handle: where it is in its life
    owner,       \* per handle: the thread that holds it
    buf,         \* per handle: the block its pointer points into
    live,        \* per block: allocated, not yet handed back
    ref_count,   \* per block: Header::ref_count
    unseen,      \* per block and thread: the accesses not ordered before it
    rel,         \* per block: the accesses ref_count's releases do not cover
    stale,       \* per block: threads that may load an overwritten 1
    aborted      \* the process has called abort()

handleVars == <<phase, owner, buf>>
orderVars  == <<unseen, rel, stale>>
vars == <<phase, owner, buf, live, ref_count, unseen, rel, stale, aborted>>

Kinds  == {"read", "write"}
Access == Threads \X Kinds

Resting  == {"unique", "shared"}             \* between two operations
InFlight == {"checked", "cloning", "overflow", "last", "acquired", "retired"}
Counted  == {"unique", "shared", "checked", "cloning", "overflow", "leaked"}
Dying    == {"last", "acquired", "retired"}  \* inside the last drop
Phases   == {"none", "leaked"} \cup Resting \cup InFlight

-----------------------------------------------------------------------------
(* The handles of a block, and the thread that may take a step.            *)

Refs(b) == {h \in Handles : phase[h] \in Counted /\ buf[h] = b}

Doomed(b) == {h \in Handles : phase[h] \in Dying /\ buf[h] = b}

\* The handles whose increment has passed the check against MAX_REFCOUNT.
Passed(b) == {h \in Refs(b) : phase[h] # "overflow"}

Leaked == {h \in Handles : phase[h] = "leaked"}

Idle(t) ==
    /\ ~aborted
    /\ \A h \in Handles : owner[h] = t => phase[h] \notin InFlight

Holds(t, h, p) == owner[h] = t /\ phase[h] = p

-----------------------------------------------------------------------------
(* Happens-before.  v is unseen[b]; t makes an access of kind k.           *)

Stamp(v, t, k) ==
    [u \in Threads |-> IF u = t THEN v[u] ELSE v[u] \cup {<<t, k>>}]

\* t learns of every access that is not in s.
Learn(v, t, s) == [v EXCEPT ![t] = @ \cap s]

\* A non-atomic access to the bytes or the header, or one no order is asked of.
Touch(t, b, k) ==
    /\ unseen' = [unseen EXCEPT ![b] = Stamp(@, t, k)]
    /\ rel' = [rel EXCEPT ![b] = @ \cup {<<t, k>>}]

\* load(Acquire) of the latest value: t learns what the releases cover.
LoadAcquire(t, b) ==
    /\ unseen' = [unseen EXCEPT ![b] = Stamp(Learn(@, t, rel[b]), t, "read")]
    /\ rel' = [rel EXCEPT ![b] = @ \cup {<<t, "read">>}]
    /\ stale' = [stale EXCEPT ![b] = @ \ {t}]

\* Who may still load a 1 after t replaced the value ref_count[b].
StaleAfterRMW(t, b) ==
    [stale EXCEPT ![b] = IF ref_count[b] = 1 THEN Threads \ {t} ELSE @ \ {t}]

\* fetch_add(1, Relaxed): continues every release sequence, releases nothing.
FetchAddRelaxed(t, b) ==
    /\ ref_count' = [ref_count EXCEPT ![b] = (@ + 1) % RefModulus]
    /\ Touch(t, b, "read")
    /\ stale' = StaleAfterRMW(t, b)

\* Mutant: the fetch_sub of drop is Relaxed and covers nothing.
FetchSubRelaxed(t, b) ==
    /\ ref_count' = [ref_count EXCEPT ![b] = (@ - 1) % RefModulus]
    /\ Touch(t, b, "read")
    /\ stale' = StaleAfterRMW(t, b)

\* Mutant: a drop that counts down twice, in a type without wrap-around.
FetchSubTwice(t, b) ==
    /\ ref_count' = [ref_count EXCEPT ![b] = @ - 2]
    /\ unseen' = [unseen EXCEPT ![b] = Stamp(@, t, "read")]
    /\ rel' = [rel EXCEPT ![b] = @ \cap unseen[b][t]]
    /\ stale' = StaleAfterRMW(t, b)

\* fetch_sub(1, Release): what t has seen is covered from now on.
FetchSubRelease(t, b) ==
    /\ ref_count' = [ref_count EXCEPT ![b] = (@ - 1) % RefModulus]
    /\ unseen' = [unseen EXCEPT ![b] = Stamp(@, t, "read")]
    /\ rel' = [rel EXCEPT ![b] = @ \cap unseen[b][t]]
    /\ stale' = StaleAfterRMW(t, b)

\* store(n, Release): starts a release sequence of its own.
StoreRelease(t, b, n) ==
    /\ ref_count' = [ref_count EXCEPT ![b] = n]
    /\ unseen' = [unseen EXCEPT ![b] = Stamp(@, t, "read")]
    /\ rel' = [rel EXCEPT ![b] = unseen[b][t]]
    /\ stale' = StaleAfterRMW(t, b)

\* What is known of a block t has just written the header of; the allocator
\* orders it after everything that was done to the memory before.
FreshUnseen(t) == [u \in Threads |-> IF u = t THEN {} ELSE {<<t, "write">>}]
NoneUnseen == [u \in Threads |-> {}]

-----------------------------------------------------------------------------
Init ==
    /\ phase = [h \in Handles |-> "none"]
    /\ owner = [h \in Handles |-> NoThread]
    /\ buf = [h \in Handles |-> NoBlock]
    /\ live = [b \in Blocks |-> FALSE]
    /\ ref_count = [b \in Blocks |-> 0]
    /\ unseen = [b \in Blocks |-> NoneUnseen]
    /\ rel = [b \in Blocks |-> {}]
    /\ stale = [b \in Blocks |-> {}]
    /\ aborted = FALSE

-----------------------------------------------------------------------------
(* Slips this code could have made, one for each property below: no part   *)
(* of Next.                                                                *)

\* Mutant: realloc sets up the moved header without its count.
ReallocMoveNoCount(t, h, c) ==
    LET b == buf[h] IN
    /\ Idle(t)
    /\ Holds(t, h, "unique")
    /\ b # NoBlock
    /\ ~live[c]
    /\ buf' = [buf EXCEPT ![h] = c]
    /\ live' = [live EXCEPT ![b] = FALSE, ![c] = TRUE]
    /\ ref_count' = [ref_count EXCEPT ![b] = 0]
    /\ unseen' = [unseen EXCEPT ![b] = NoneUnseen, ![c] = FreshUnseen(t)]
    /\ rel' = [rel EXCEPT ![b] = {}, ![c] = {<<t, "write">>}]
    /\ stale' = [stale EXCEPT ![b] = {}, ![c] = {}]
    /\ UNCHANGED <<phase, owner, aborted>>

\* Mutant: shrink to 0 retires the block and leaves the handle pointing to it.
ShrinkKeepsPointer(t, h, g) ==
    /\ Idle(t)
    /\ Holds(t, h, "unique")
    /\ buf[h] # NoBlock
    /\ phase[g] = "none"
    /\ phase' = [phase EXCEPT ![g] = "retired"]
    /\ owner' = [owner EXCEPT ![g] = t]
    /\ buf' = [buf EXCEPT ![g] = buf[h]]
    /\ UNCHANGED <<live, ref_count, orderVars, aborted>>

\* Mutant: a shared handle hands out mutable bytes too.
WriteShared(t, h) ==
    /\ Idle(t)
    /\ \E p \in Resting : Holds(t, h, p)
    /\ buf[h] # NoBlock
    /\ Touch(t, buf[h], "write")
    /\ UNCHANGED <<handleVars, live, ref_count, stale, aborted>>

\* Mutant: is_unique is ref_count() <= 2.
TryUniqueLoadTwo(t, h) ==
    LET b == buf[h] IN
    /\ Idle(t)
    /\ Holds(t, h, "shared")
    /\ b # NoBlock
    /\ ref_count[b] <= 2
    /\ LoadAcquire(t, b)
    /\ phase' = [phase EXCEPT ![h] = "checked"]
    /\ UNCHANGED <<owner, buf, live, ref_count, aborted>>

\* Mutant: the clone copies the pointer and counts nothing.
RefCloneUncounted(t, h, g) ==
    LET b == buf[h] IN
    /\ Idle(t)
    /\ Holds(t, h, "shared")
    /\ b # NoBlock
    /\ phase[g] = "none"
    /\ phase' = [phase EXCEPT ![g] = "cloning"]
    /\ owner' = [owner EXCEPT ![g] = t]
    /\ buf' = [buf EXCEPT ![g] = b]
    /\ UNCHANGED <<live, ref_count, orderVars, aborted>>

\* Mutant: the clone does not look at the old value.
RefCloneUnchecked(t, h, g) ==
    LET b == buf[h] IN
    /\ Idle(t)
    /\ Holds(t, h, "shared")
    /\ b # NoBlock
    /\ phase[g] = "none"
    /\ FetchAddRelaxed(t, b)
    /\ phase' = [phase EXCEPT ![g] = "cloning"]
    /\ owner' = [owner EXCEPT ![g] = t]
    /\ buf' = [buf EXCEPT ![g] = b]
    /\ UNCHANGED <<live, aborted>>

\* Mutant: drop takes fetch_sub for the new value, so the last one returns.
DropSubNewValue(t, h) ==
    LET b == buf[h] IN
    /\ Idle(t)
    /\ \E p \in Resting : Holds(t, h, p)
    /\ b # NoBlock
    /\ FetchSubRelease(t, b)
    /\ phase' = [phase EXCEPT ![h] = IF ref_count[b] # 0 THEN "none" ELSE "last"]
    /\ owner' = [owner EXCEPT ![h] = IF ref_count[b] # 0 THEN NoThread ELSE t]
    /\ buf' = [buf EXCEPT ![h] = IF ref_count[b] # 0 THEN NoBlock ELSE b]
    /\ UNCHANGED <<live, aborted>>

\* Mutant: the load after the last fetch_sub is Relaxed.
DropLoadRelaxed(t, h) ==
    /\ ~aborted
    /\ Holds(t, h, "last")
    /\ Touch(t, buf[h], "read")
    /\ phase' = [phase EXCEPT ![h] = "acquired"]
    /\ UNCHANGED <<owner, buf, live, ref_count, stale, aborted>>

\* Mutant: the last drop returns after its load.
DropLoadReturns(t, h) ==
    /\ ~aborted
    /\ Holds(t, h, "last")
    /\ LoadAcquire(t, buf[h])
    /\ phase' = [phase EXCEPT ![h] = "none"]
    /\ owner' = [owner EXCEPT ![h] = NoThread]
    /\ buf' = [buf EXCEPT ![h] = NoBlock]
    /\ UNCHANGED <<live, ref_count, aborted>>

-----------------------------------------------------------------------------
(* Creating, growing and shrinking a unique handle.                        *)

\* UniqueAlignedBuffer::new_in: a dangling pointer, nothing allocated.
New(t, h) ==
    /\ Idle(t)
    /\ phase[h] = "none"
    /\ phase' = [phase EXCEPT ![h] = "unique"]
    /\ owner' = [owner EXCEPT ![h] = t]
    /\ UNCHANGED <<buf, live, ref_count, orderVars, aborted>>

\* alloc: the first allocation of a unique handle, whose header starts at 1.
Alloc(t, h, b) ==
    /\ Idle(t)
    /\ Holds(t, h, "unique")
    /\ buf[h] = NoBlock
    /\ ~live[b]
    /\ buf' = [buf EXCEPT ![h] = b]
    /\ live' = [live EXCEPT ![b] = TRUE]
    /\ ref_count' = [ref_count EXCEPT ![b] = 1]
    /\ unseen' = [unseen EXCEPT ![b] = FreshUnseen(t)]
    /\ rel' = [rel EXCEPT ![b] = {<<t, "write">>}]
    /\ stale' = [stale EXCEPT ![b] = {}]
    /\ UNCHANGED <<phase, owner, aborted>>

\* realloc where the allocator moves the block: the old header is copied with
\* the bytes and the old block is given back.
ReallocMove(t, h, c) ==
    LET b == buf[h] IN
    /\ Idle(t)
    /\ Holds(t, h, "unique")
    /\ b # NoBlock
    /\ ~live[c]
    /\ buf' = [buf EXCEPT ![h] = c]
    /\ live' = [live EXCEPT ![b] = FALSE, ![c] = TRUE]
    /\ ref_count' = [ref_count EXCEPT ![b] = 0, ![c] = ref_count[b]]
    /\ unseen' = [unseen EXCEPT ![b] = NoneUnseen, ![c] = FreshUnseen(t)]
    /\ rel' = [rel EXCEPT ![b] = {}, ![c] = {<<t, "write">>}]
    /\ stale' = [stale EXCEPT ![b] = {}, ![c] = {}]
    /\ UNCHANGED <<phase, owner, aborted>>

\* shrink to capacity 0: the block goes to deallocate_buffer with its count
\* still 1 (g stands for it there), the handle becomes dangling.
ShrinkToEmpty(t, h, g) ==
    /\ Idle(t)
    /\ Holds(t, h, "unique")
    /\ buf[h] # NoBlock
    /\ phase[g] = "none"
    /\ phase' = [phase EXCEPT ![g] = "retired"]
    /\ owner' = [owner EXCEPT ![g] = t]
    /\ buf' = [buf EXCEPT ![g] = buf[h], ![h] = NoBlock]
    /\ UNCHANGED <<live, ref_count, orderVars, aborted>>

\* A write through a unique handle: bytes, or the header's alloc_buffer_size
\* when realloc grows or shrinks the block in place.
Write(t, h) ==
    /\ Idle(t)
    /\ Holds(t, h, "unique")
    /\ buf[h] # NoBlock
    /\ Touch(t, buf[h], "write")
    /\ UNCHANGED <<handleVars, live, ref_count, stale, aborted>>

\* A read of the bytes, or a ref_count() that is left with an older value.
Read(t, h) ==
    /\ Idle(t)
    /\ \E p \in Resting : Holds(t, h, p)
    /\ buf[h] # NoBlock
    /\ Touch(t, buf[h], "read")
    /\ UNCHANGED <<handleVars, live, ref_count, stale, aborted>>

-----------------------------------------------------------------------------
(* Sharing, asking for the count, and going back to unique.                *)

IntoShared(t, h) ==
    /\ Idle(t)
    /\ Holds(t, h, "unique")
    /\ phase' = [phase EXCEPT ![h] = "shared"]
    /\ UNCHANGED <<owner, buf, live, ref_count, orderVars, aborted>>

\* ref_count() or is_unique() of an allocated handle, and a try_unique that
\* fails: the latest count is loaded, the handle stays as it is.
LoadRefCount(t, h) ==
    /\ Idle(t)
    /\ Holds(t, h, "shared")
    /\ buf[h] # NoBlock
    /\ LoadAcquire(t, buf[h])
    /\ UNCHANGED <<handleVars, live, ref_count, aborted>>

\* The is_unique() of a try_unique that loads a 1: the latest one, or one that
\* was overwritten by an access that is not ordered before this load.
TryUniqueLoad(t, h) ==
    LET b == buf[h] IN
    /\ Idle(t)
    /\ Holds(t, h, "shared")
    /\ b # NoBlock
    /\ \/ ref_count[b] = 1 /\ LoadAcquire(t, b)
       \/ t \in stale[b] /\ Touch(t, b, "read") /\ UNCHANGED stale
    /\ phase' = [phase EXCEPT ![h] = "checked"]
    /\ UNCHANGED <<owner, buf, live, ref_count, aborted>>

\* reset_cap, which reads the header's alloc_buffer_size, and the new
\* UniqueAlignedBuffer.
ResetCap(t, h) ==
    /\ ~aborted
    /\ Holds(t, h, "checked")
    /\ Touch(t, buf[h], "read")
    /\ phase' = [phase EXCEPT ![h] = "unique"]
    /\ UNCHANGED <<owner, buf, live, ref_count, stale, aborted>>

\* try_unique of an unallocated handle: ref_count() answers 1 unasked.
TryUniqueEmpty(t, h) ==
    /\ Idle(t)
    /\ Holds(t, h, "shared")
    /\ buf[h] = NoBlock
    /\ phase' = [phase EXCEPT ![h] = "unique"]
    /\ UNCHANGED <<owner, buf, live, ref_count, orderVars, aborted>>

-----------------------------------------------------------------------------
(* ref_clone.                                                              *)

CloneEmpty(t, h, g) ==
    /\ Idle(t)
    /\ Holds(t, h, "shared")
    /\ buf[h] = NoBlock
    /\ phase[g] = "none"
    /\ phase' = [phase EXCEPT ![g] = "shared"]
    /\ owner' = [owner EXCEPT ![g] = t]
    /\ UNCHANGED <<buf, live, ref_count, orderVars, aborted>>

\* The fetch_add; whether the old value is too large is known, not acted on.
RefClone(t, h, g) ==
    LET b == buf[h] IN
    /\ Idle(t)
    /\ Holds(t, h, "shared")
    /\ b # NoBlock
    /\ phase[g] = "none"
    /\ FetchAddRelaxed(t, b)
    /\ phase' = [phase EXCEPT ![g] =
                   IF ref_count[b] > MaxRefcount THEN "overflow" ELSE "cloning"]
    /\ owner' = [owner EXCEPT ![g] = t]
    /\ buf' = [buf EXCEPT ![g] = b]
    /\ UNCHANGED <<live, aborted>>

CloneDone(t, g) ==
    /\ ~aborted
    /\ Holds(t, g, "cloning")
    /\ phase' = [phase EXCEPT ![g] = "shared"]
    /\ UNCHANGED <<owner, buf, live, ref_count, orderVars, aborted>>

Abort(t, g) ==
    /\ ~aborted
    /\ Holds(t, g, "overflow")
    /\ aborted' = TRUE
    /\ UNCHANGED <<handleVars, live, ref_count, orderVars>>

-----------------------------------------------------------------------------
(* drop.                                                                   *)

\* drop of an unallocated handle returns at once.
DropEmpty(t, h) ==
    /\ Idle(t)
    /\ \E p \in Resting : Holds(t, h, p)
    /\ buf[h] = NoBlock
    /\ phase' = [phase EXCEPT ![h] = "none"]
    /\ owner' = [owner EXCEPT ![h] = NoThread]
    /\ UNCHANGED <<buf, live, ref_count, orderVars, aborted>>

\* The fetch_sub, after which a handle that was not the last one is gone.
DropSub(t, h) ==
    LET b == buf[h] IN
    /\ Idle(t)
    /\ \E p \in Resting : Holds(t, h, p)
    /\ b # NoBlock
    /\ FetchSubRelease(t, b)
    /\ IF ref_count[b] # 1
       THEN /\ phase' = [phase EXCEPT ![h] = "none"]
            /\ owner' = [owner EXCEPT ![h] = NoThread]
            /\ buf' = [buf EXCEPT ![h] = NoBlock]
       ELSE /\ phase' = [phase EXCEPT ![h] = "last"]
            /\ UNCHANGED <<owner, buf>>
    /\ UNCHANGED <<live, aborted>>

DropLoad(t, h) ==
    /\ ~aborted
    /\ Holds(t, h, "last")
    /\ LoadAcquire(t, buf[h])
    /\ phase' = [phase EXCEPT ![h] = "acquired"]
    /\ UNCHANGED <<owner, buf, live, ref_count, aborted>>

\* The count is put back to 1, "a new buffer", for deallocate_buffer.
DropStore(t, h) ==
    /\ ~aborted
    /\ Holds(t, h, "acquired")
    /\ StoreRelease(t, buf[h], 1)
    /\ phase' = [phase EXCEPT ![h] = "retired"]
    /\ UNCHANGED <<owner, buf, live, aborted>>

\* BufferAllocator::deallocate_buffer, the default: the block is freed.
Deallocate(t, h) ==
    LET b == buf[h] IN
    /\ ~aborted
    /\ Holds(t, h, "retired")
    /\ phase' = [phase EXCEPT ![h] = "none"]
    /\ owner' = [owner EXCEPT ![h] = NoThread]
    /\ buf' = [buf EXCEPT ![h] = NoBlock]
    /\ live' = [live EXCEPT ![b] = FALSE]
    /\ ref_count' = [ref_count EXCEPT ![b] = 0]
    /\ unseen' = [unseen EXCEPT ![b] = NoneUnseen]
    /\ rel' = [rel EXCEPT ![b] = {}]
    /\ stale' = [stale EXCEPT ![b] = {}]
    /\ UNCHANGED aborted

\* An allocator that keeps the block instead (the buffer pool does): the raw
\* parts become a unique handle again.  The count is not written.
Recycle(t, h) ==
    /\ ~aborted
    /\ Holds(t, h, "retired")
    /\ phase' = [phase EXCEPT ![h] = "unique"]
    /\ UNCHANGED <<owner, buf, live, ref_count, orderVars, aborted>>

-----------------------------------------------------------------------------
(* What the program around the handles does with them.                     *)

\* A handle is moved to another thread over something that synchronizes
\* (spawn, join, a channel, a lock): u learns everything t knows.
Send(t, h, u) ==
    /\ Idle(t) /\ Idle(u)
    /\ u # t
    /\ \E p \in Resting : Holds(t, h, p)
    /\ owner' = [owner EXCEPT ![h] = u]
    /\ unseen' = [b \in Blocks |->
                    [unseen[b] EXCEPT ![u] = @ \cap unseen[b][t]]]
    /\ stale' = [b \in Blocks |->
                   IF t \in stale[b] THEN stale[b] ELSE stale[b] \ {u}]
    /\ UNCHANGED <<phase, buf, live, ref_count, rel, aborted>>

\* mem::forget of a handle, at most MaxLeaks times.
Forget(t, h) ==
    /\ Idle(t)
    /\ \E p \in Resting : Holds(t, h, p)
    /\ buf[h] # NoBlock
    /\ Cardinality(Leaked) < MaxLeaks
    /\ phase' = [phase EXCEPT ![h] = "leaked"]
    /\ UNCHANGED <<owner, buf, live, ref_count, orderVars, aborted>>

-----------------------------------------------------------------------------
\* The rest of an operation that has begun.
Continue(t, h) ==
    \/ ResetCap(t, h)
    \/ CloneDone(t, h)
    \/ Abort(t, h)
    \/ DropLoad(t, h)
    \/ DropStore(t, h)
    \/ Deallocate(t, h)
    \/ Recycle(t, h)

Next ==
    \E t \in Threads, h \in Handles :
        \/ New(t, h)
        \/ \E b \in Blocks : Alloc(t, h, b)
        \/ \E c \in Blocks : ReallocMove(t, h, c)
        \/ \E g \in Handles : ShrinkToEmpty(t, h, g)
        \/ Write(t, h)
        \/ Read(t, h)
        \/ IntoShared(t, h)
        \/ LoadRefCount(t, h)
        \/ TryUniqueLoad(t, h)
        \/ TryUniqueEmpty(t, h)
        \/ \E g \in Handles : CloneEmpty(t, h, g)
        \/ \E g \in Handles : RefClone(t, h, g)
        \/ DropEmpty(t, h)
        \/ DropSub(t, h)
        \/ \E u \in Threads : Send(t, h, u)
        \/ Forget(t, h)
        \/ Continue(t, h)

Spec == Init /\ [][Next]_vars

\* A call that has begun runs to its end: each thread is scheduled.
Fairness ==
    \A t \in Threads : WF_vars(\E h \in Handles : Continue(t, h))

FairSpec == Spec /\ Fairness
-----------------------------------------------------------------------------
(* What must be true of every reachable state.                             *)

TypeOK ==
    /\ phase \in [Handles -> Phases]
    /\ owner \in [Handles -> Threads \cup {NoThread}]
    /\ buf \in [Handles -> Blocks \cup {NoBlock}]
    /\ live \in [Blocks -> BOOLEAN]
    /\ ref_count \in [Blocks -> 0 .. RefModulus - 1]
    /\ unseen \in [Blocks -> [Threads -> SUBSET Access]]
    /\ rel \in [Blocks -> SUBSET Access]
    /\ stale \in [Blocks -> SUBSET Threads]
    /\ aborted \in BOOLEAN

\* The count is exact whenever no last drop is under way: it is the number of
\* handles that point to the block (leaked ones too), so neither a forgotten
\* increment nor a wrapped counter can make a drop free a block in use.
RefCountExact ==
    \A b \in Blocks : live[b] /\ Doomed(b) = {} => ref_count[b] = Cardinality(Refs(b))

\* No handle, at rest or in the middle of an operation, points to a block that
\* was handed back to the allocator, and a block in its last drop has neither
\* another handle nor another dropper.
NoUseAfterFree ==
    /\ \A h \in Handles : buf[h] # NoBlock => live[buf[h]]
    /\ \A b \in Blocks : \A h \in Doomed(b) : Refs(b) = {} /\ Doomed(b) = {h}

\* A block that is allocated is pointed to: every drop that must free does.
NoOrphans ==
    \A b \in Blocks : live[b] => Refs(b) \cup Doomed(b) # {}

\* A handle that may write is the only one, and a try_unique that saw a count
\* of 1 can rely on it until it has returned, whatever the others do.
ExclusiveIsAlone ==
    \A h \in Handles :
        phase[h] \in {"unique", "checked"} /\ buf[h] # NoBlock => Refs(buf[h]) = {h}

\* Every byte a handle's thread may read was last written before, in the
\* happens-before order: a reader never races with the writer of the bytes.
ReadersOrdered ==
    \A b \in Blocks : \A h \in Refs(b), u \in Threads :
        <<u, "write">> \notin unseen[b][owner[h]]

\* A thread that may write, or that has just regained that right through
\* try_unique, is ordered after every access any thread ever made: the reads of
\* handles dropped elsewhere never race with its writes.
WritersOrdered ==
    \A b \in Blocks : \A h \in Refs(b) :
        phase[h] \in {"unique", "checked"} => unseen[b][owner[h]] = {}

\* The same of the thread that is about to free or recycle the block.
FreeOrdered ==
    \A h \in Handles : phase[h] \in {"acquired", "retired"} => unseen[buf[h]][owner[h]] = {}

\* No thread with a handle can still load a 1 that was overwritten: try_unique
\* never succeeds on a value out of date.
NoStaleOne ==
    \A h \in Handles : buf[h] # NoBlock => owner[h] \notin stale[buf[h]]

\* The check after the increment keeps the counter from wrapping, although
\* every thread may have incremented it before one of them aborts.
NoCounterWrap ==
    \A b \in Blocks :
        /\ Cardinality(Refs(b)) < RefModulus
        /\ Cardinality(Passed(b)) <= MaxRefcount + 1

\* A block nobody holds any more goes back to the allocator or into a new
\* handle; the drop that found itself last cannot leave it behind.
UnheldIsReclaimed ==
    \A b \in Blocks :
        (live[b] /\ Refs(b) = {}) ~> (~live[b] \/ Refs(b) # {} \/ aborted)

-----------------------------------------------------------------------------
(* Why these hold: the inductive invariant.                                *)

HandleShape ==
    \A h \in Handles :
        /\ (phase[h] = "none") <=> (owner[h] = NoThread)
        /\ phase[h] = "none" => buf[h] = NoBlock
        /\ phase[h] \in InFlight \cup {"leaked"} => buf[h] # NoBlock
        /\ buf[h] # NoBlock => live[buf[h]]

OneCallPerThread ==
    \A g, h \in Handles :
        phase[g] \in InFlight /\ phase[h] \in InFlight /\ owner[g] = owner[h] => g = h

\* The count of a block, and of a block in its last drop.
Counting ==
    \A b \in Blocks :
        live[b] =>
            \/ /\ Refs(b) # {} /\ Doomed(b) = {}
               /\ ref_count[b] = Cardinality(Refs(b))
            \/ /\ Refs(b) = {}
               /\ \E h \in Handles :
                    /\ Doomed(b) = {h}
                    /\ ref_count[b] = IF phase[h] = "retired" THEN 1 ELSE 0

Saturation ==
    \A b \in Blocks : Cardinality(Passed(b)) <= MaxRefcount + 1

OwnAccessesSeen ==
    \A b \in Blocks, t \in Threads, k \in Kinds : <<t, k>> \notin unseen[b][t]

\* What the count's releases do not cover, a thread that still holds the block
\* has seen, and will release when it lets go.
Covered ==
    \A b \in Blocks : Refs(b) # {} =>
        \A a \in rel[b] : \E h \in Refs(b) : a \notin unseen[b][owner[h]]

\* So the last fetch_sub leaves nothing uncovered for its Acquire load.
LastReleasesAll == \A h \in Handles : phase[h] = "last" => rel[buf[h]] = {}

CountInv ==
    HandleShape /\ OneCallPerThread /\ Counting /\ Saturation /\ ExclusiveIsAlone /\ NoStaleOne

OrderInv ==
    OwnAccessesSeen /\ Covered /\ LastReleasesAll /\ ReadersOrdered /\ WritersOrdered /\ FreeOrdered

IInv == TypeOK /\ CountInv /\ OrderInv

-----------------------------------------------------------------------------
(* The abstract specification this one implements.                         *)

ModeOf(b) ==
    IF ~live[b] THEN "free"
    ELSE IF Refs(b) = {} THEN "unheld"
    ELSE IF \E h \in Refs(b) : phase[h] = "unique" THEN "exclusive"
    ELSE "shared"

AbstractMode == [b \in Blocks |-> ModeOf(b)]
AbstractHolders == [b \in Blocks |-> Refs(b)]

Own == INSTANCE Ownership WITH mode <- AbstractMode, holders <- AbstractHolders

\* Counting references implements exclusive and shared ownership.
ImplementsOwnership == Own!Spec
=============================================================================
