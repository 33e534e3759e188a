# A TLA+ model of rkyv-utils

rkyv-utils is three Rust crates: `aligned-buffer` (reference-counted byte buffers
with a chosen alignment), `aligned-buffer-pool` (pools that recycle such buffers,
serializers and validators) and `rkyv-owned-archive` (an rkyv archive that owns its
bytes). This directory models them in TLA+, checks small instances with TLC and
proves the core for all instances with TLAPS.

## 1. The system

| component | source | state it keeps | operations |
|---|---|---|---|
| handles | `aligned-buffer/src/raw.rs`, `shared.rs`, `unique.rs` | per handle a pointer, a word that is capacity or length, an allocated tag; per allocation a header with `ref_count` | alloc, realloc, shrink, into_shared, ref_count, try_unique, ref_clone, drop |
| buffers as containers | `unique.rs`, `shared.rs`, `bytes.rs` | length, capacity, bytes | reserve and its variants, push/extend/append, truncate, shrink, share, unshare |
| allocators | `alloc.rs` | none of their own | allocate, grow, shrink, deallocate, deallocate_buffer |
| layout arithmetic | `raw/layout.rs`, `raw/cap.rs` | none | padding, extend, tagged capacity |
| buffer pool | `aligned-buffer-pool/src/buffer_pool.rs` | an `Arc` around a bounded lock-free queue; a `Weak` to it in every buffer | get, deallocate_buffer (policy, upgrade, push, free or unwind), drop |
| serializer pool | `serializer_pool.rs` | two buffer pools and a queue of sharing maps; per serializer a writer, a scratch buffer, a map | get, serialize, start/finish_sharing, push/pop_alloc, drop |
| validator pool | `validator_pool.rs`, `validator_pool/shared.rs` | a queue of maps | validator, start/finish_shared, drop (clear and push) |
| rkyv integration | `aligned-buffer/src/rkyv.rs` | none | serialize, resolve, check_bytes, deserialize |
| owned archives | `rkyv-owned-archive/src` | a shared buffer and a position in it | new and its variants, map, try_map, clone, deref |

How they interact: a shared buffer's clones on any number of threads meet in
`ref_count`. The last drop, or a shrink to nothing, calls `deallocate_buffer` of the
buffer's allocator; the default frees the memory, the pool's version turns it back
into a unique buffer and pushes it into the pool's queue, from which another thread
gets it. The serializer pool is built from two such pools (writers and scratch
buffers) that share one `Arc`. An owned archive holds a shared buffer and derefs
into it.

What is hard here: an atomic counter used with relaxed, acquire and release orders;
a check-then-act in `try_unique`; a counter that must not wrap although it is
checked after the increment; memory that leaves one owner's drop and enters another
owner's hands without its header being rewritten; a pool that may be dropped while
other threads are giving buffers back to it; user code (a retention policy, an
iterator, the function of a `map`) that panics in the middle of all this; one word with
two meanings; state (sharing maps, scratch positions, an archive's position) that
outlives the call it was made for.

## 2. The modules

| module | what it is |
|---|---|
| `RefCount` | the reference-counting protocol, split at its atomic accesses, with happens-before |
| `Ownership` | what it promises: exclusive or shared ownership of blocks |
| `RefCountProofs` | TLAPS: the inductive invariant, the safety theorems, and that `RefCount` implements `Ownership` |
| `BufferPool` | the buffer pool, its `Arc`, and `deallocate_buffer` step by step |
| `BufferPoolProofs` | TLAPS: its inductive invariant, and that it implements `Ownership` |
| `Layout` | word arithmetic: paddings, offsets, the tagged capacity, which sizes have a layout |
| `LayoutProofs` | TLAPS: what these operators compute, for every width and alignment |
| `AlignedBuffer` | buffers as containers of bytes, on the words of `Layout` |
| `ByteStrings` | what they promise: independent strings of bytes |
| `AlignedBufferProofs` | TLAPS: its inductive invariant, and that it implements `ByteStrings` |
| `OwnedArchive` | archives made of buffers, and the buffers' own rkyv traits; extends `AlignedBuffer` |
| `OwnedArchiveProofs` | TLAPS: archives stay valid and keep the promises of the buffers; extends `AlignedBufferProofs` |
| `Serializer` | the serializers of a pool: sharing maps, scratch memory, errors that unwind |
| `SharedValues` | what they do for rkyv's shared values: tables of positions |
| `SerializerProofs` | TLAPS: its inductive invariant, its safety theorems, and that it implements `SharedValues` |
| `ValidatorPool` | the validators of a pool: maps of checked shared values |
| `Validation` | what they are to rkyv: validators that begin knowing nothing |
| `ValidatorPoolProofs` | TLAPS: its inductive invariant, its safety theorems, and that it implements `Validation` |
| `DataLemmas` | TLAPS: facts about sequences and remainders the proofs share |
| `MCRefCount`, `MCBufferPool`, `MCAlignedBuffer`, `MCOwnedArchive`, `MCSerializer`, `MCValidatorPool` | symmetry sets and layouts for TLC; the constants are in the `.cfg` files |

Each module that TLC checks also holds a section of *mutants*: definitions that
change one operation the way a plausible bug would. No specification uses them.
Replacing the operation by its mutant makes TLC report the property the mutant is
listed with in `PROJECT.json`, which shows that the property can fail.

### RefCount

A handle is an element of `Handles`. `phase[h]` is where it is in its life: `unique`
and `shared` are the two public types, `leaked` is a handle given to `mem::forget`,
and the other phases lie between two atomic accesses of one call: `checked`
(`try_unique` has seen a 1, `reset_cap` is to come), `cloning` and `overflow`
(`ref_clone` after its `fetch_add`), `last`, `acquired`, `retired` (`drop` after its
`fetch_sub`, `load` and `store`). `buf[h]` is the block it points into, `NoBlock` when the
tag says nothing is allocated. A thread runs one call at a time (`Idle`).

`Send(t, h, u)` stands for every way a handle gets from one thread to another that
synchronizes them: spawn, join, channel, lock. Use of one handle by several threads
through `&SharedAlignedBuffer` is covered by giving each of them a clone.

*Memory order.* `unseen[b][t]` is the set of `<<thread, kind>>` accesses to block `b`
that do not happen before thread `t`'s present; a plain access by `t` adds itself to
everybody else's set (`Stamp`). `rel[b]` is what an Acquire load of the latest count would
*not* make visible: a Release read-modify-write shrinks it to what its thread has not
seen, a relaxed one adds only itself (it continues the release sequence), a Release
store starts a new one. The loads of `drop` and the deciding load of `try_unique` are
modelled with C++20's rules; a load may also return an overwritten 1 as long as the
overwrite does not happen before it (`stale[b]`). Overwritten values other than 1 make
`try_unique` fail and change nothing, which `Read` covers. A data race is then a state
predicate: a reader's thread has an unseen write, a writer's an unseen access.

*Properties.* `RefCountExact`, `NoUseAfterFree`, `NoOrphans`, `ExclusiveIsAlone` about
counting; `ReadersOrdered`, `WritersOrdered`, `FreeOrdered`, `NoStaleOne` about order;
`NoCounterWrap` about the saturation check; `UnheldIsReclaimed` (liveness);
`ImplementsOwnership` (refinement).

### BufferPool

`RefCount` shows which drop is the last and that it runs alone; `BufferPool` takes a
block the program holds as one token (`held`) and splits what the last drop calls,
`deallocate_buffer`, into its steps: `AskPolicy`, `Upgrade`, `Push`, `Free`, `Release`. `strong` is
the `Arc`'s strong count: one for the `AlignedBufferPool` value and one for every thread
between `Upgrade` and `Release`. Whoever drops the last one drops the inner value
(`DropStored`, one buffer at a time through `deallocate_buffer` again, then `DropDone`).
crossbeam's `ArrayQueue` is external and taken as a sequence with atomic push and pop.

The retention policy is the user's, and may have state: `Policy` gives for each capacity the set of answers
(`retain`, `reject`, `panic`) it may give, now this one, now that, and `AskPolicy` takes any of them. So a block it
retained may meet a panic later, when the queue that holds it is dropped. A panic drops the guard, which frees
the block (`Unwind`), and leaves all the calls its thread is in. Where that was the drop of a buffer, the handle is gone. Where
it was the drop of the queue, the buffers it had not come to are never dropped: the pool's value is neither alive
nor `gone` but `torn`, and what is left in `queue` is lost. Where it was a shrink of an empty buffer
to nothing (`ShrinkToEmpty`; `shrunk` is the block the shrink is giving back), the line that makes the handle dangling has not been
reached, and the program holds the block again, which is free. `PanicsInShrink` says whether a policy does that:
the run `pool` and the proofs about blocks assume it does not (`NoPanicInShrink`), the run `pool_panic` that it
may. `KeepsItsWord`, that a policy never panics about a capacity it may also retain, is what
excludes a torn pool.

`QuietIsClean` is about the states in which no call is under way: no upgraded `Arc` is left over, the
pool's value is there exactly if the pool is, and a dropped pool has left no block but those the program
holds and, if it is torn, those in its queue. It says of the steps in between that each undoes what it began, in whichever thread it ends.

`DeallocIsSafe` is what the comment above `dealloc_slow` asks of its callers, stated at each call of
`deallocate_buffer`. The module implements the same `Ownership` as `RefCount`: a block in the queue is held
by the buffer that was put there, one on its way back is held by nobody. That is what
`RefCount`'s `Recycle` step assumes of a pool.

### Layout

Every function of `raw/layout.rs` and `raw/cap.rs` as an operator on words of `2 * TagBit` values.
Alignments are powers of two in the code; here each divides the larger ones and the word,
and a mask is a remainder. `IsLayout` is what the safe `Layout` constructors accept,
`HasLayout` what `layout(size)` returns an `Ok` for, `PassesGuard` the second limit on targets of less than 64 bits
(`Narrow`). The buffer modules compute with these operators, on the words themselves: a
handle is allocated when its word has the tag bit.

### AlignedBuffer

One program's handles, each call one step: which bytes a handle shows (`BytesOf`), what
`cap_or_len` means before and after `into_shared`, `try_unique` and recycling, what growth
asks for, which layouts an allocator that moves blocks and returns more than asked is
later given (`fit`). `Extend` stands for every call that reserves, writes behind the length and
moves it; its write and its count are one step because nothing of the caller's runs between them. `extend` is a
`ReserveAmortized` and then an `ExtendByOne` for each byte of the iterator, whose `next` may panic after any of them, and finds the
state a step leaves. `ChunkMut`, `WriteChunk` and `AdvanceMut` are `chunk_mut`, what the program writes into the chunk, and
`advance_mut`, with any calls in between. `advance_mut` asserts that the length stays within the capacity; that the
bytes were written is the contract of the unsafe function, which `AdvanceMut` takes from its caller. A
call that fails (no layout, or the allocator says no) has changed nothing, in the code
and so in the model; the infallible methods turn the same failure into a panic or an
abort. `DropLastAndReuse` is the last drop under an allocator that keeps the block, as the
pool does.

`LayoutFits` ties the word to the memory, `ImplementsByteStrings` ties the bytes to the calls: what a
handle shows is a value only its own calls change. `BlocksAreOwned` says that a block is allocated as long
as handles point to it and that its header counts them, and `SharedIsImmutable`, a property of steps, that the bytes of a
buffer that is shared before and after a step are the same.

### OwnedArchive

A handle with an entry in `archive` is an `OwnedArchive`: a shared buffer and the position and size of
its value. The code keeps an offset relative to the buffer's pointer, checks it when
the archive is made or mapped and never again. `seen` is what was there at that moment.

| action | code |
|---|---|
| `AlignWriter`, `Serialize` | `Serialize` of a buffer into a `Writer` over another one: padding, then the bytes |
| `NewWithPos`, `NewAtEnd` | `new`, `new_with_pos`, their variants with context or pool, and the unchecked ones |
| `Map` | `map`, `map_with_buffer`, `try_map`, `try_map_with_buffer`: the function may return a reference into the buffer or out of it |
| `CloneArchive`, `Deserialize`, `DropArchive` | `Clone`, `Deserialize` back into a buffer, the end of an archive by drop, error or panic |

`ArchivesResolve` says that a deref reads what was there, within the bytes the buffer shows,
through any sequence of calls on the archive, its clones, and other buffers. `BlocksAreOwned` is
checked here again because archives take buffers apart and put them together: a clone that
is not counted or a failed map that forgets its buffer would break it.

### Serializer

`map[s]`, `scratch[s]` and the length `writer[s]` are the three parts of serializer `s`;
`unify` and `scratches` are the pool's queues they come from and go back to. rkyv is
external: it calls `start_sharing`, `finish_sharing`, `push_alloc` and `pop_alloc` in any order
that nests, so `calls[s]` is the stack of what the open `serialize` call has begun. An error
(of a value's own `Serialize`, a cycle, a failed `finish_sharing` or `pop_alloc`) makes the
serializer `failing`: shared values are unwound without a call, scratch allocations with a
`pop_alloc`, as rkyv's `SerVec` does when it is dropped.

| action | code |
|---|---|
| `Get`, `Release`, `DropPool` | `SerializerPool::get`, the drop of a serializer and `into_buffer`, the drop of the pool |
| `StartSharing`, `FinishSharing` | `Sharing`; positions are kept with every bit flipped (`Flip`), a pending value is `None` |
| `PushAlloc`, `PopAlloc` | `Allocator`; `Reserved` is `RawAlignedBuffer::reserve`, in place or moved |
| `Write`, `Fail`, `Unwind` | `Positional`/`Writer`, and rkyv's error path |

A frame of `push_alloc` keeps in `from` where the scratch buffer was when the padding was computed. `inherited`, `written` and `refs` record what no variable of the program does: which
addresses a map knew when it came from the pool, which shared values were written where,
and which positions the pointers to them were given. `FreshMapsResolve` says that
pointers resolve for the addresses a map did *not* bring along; that it says nothing of the
others is the finding `stale_sharing`. `SharedValues` says what a map is for, without the flipped bits, the
scratch memory, the stack of calls and the pool: a table of addresses that are pending or have a
position, which may be one that an earlier serializer left. Telling it a position never fails there, and a pointer only
goes to a position it was told for that address. `ImplementsSharedValues` maps each serializer
and the pool's queue of maps to such tables. `ScratchIsUnaliased` leaves out allocations from before
the buffer moved (`inside`), and claims alignment only where the padding fits where the bytes are (`PadFits`), for the reasons given in section 5: the
layouts may ask for any alignment, and those above `ALIGNMENT` are not aligned after a move.

### ValidatorPool

The same life cycle with a map that is cleared. A map is a set of entries `(address,
type_id, finished)`; `calls[v]` are the shared values under validation, `passed[v]` those
that were found valid, `skipped[v]` those accepted because the map said they were. A failed
access leaves its entries behind and the validator may be used again. The subtree ranges
are rkyv's own `ArchiveValidator`; the pool only passes them on.

`SkipsOnlyChecked` is what makes skipping sound across reuse of maps and failed accesses;
`OneTypePerAddress` and `FinishNeverFails` are what the type check and the order of entries
are for. `ImplementsValidation` says all of it at once: in `Validation` a validator begins
knowing nothing and there is no pool, so no map anybody used before can be seen through `validator()`.

## 3. What is checked

| run | instance | shows |
|---|---|---|
| `refcount_order` | 3 threads, 3 handles, 1 block, 1 leak | no data race on bytes, none with the free, exact counts |
| `refcount_count` | 2 threads, 2 handles, 2 blocks, fair | counting, memory safety, refinement of `Ownership`, reclamation of an unheld block |
| `refcount_saturation` | 2 threads, 5 handles, limit 1, word of 5 values, 2 leaks | the counter aborts before it wraps |
| `pool` | 3 threads, 2 blocks, queue of 1, 2 capacities (one kept, refused or panicked at, one never kept), fair | accounting of blocks, drop of the pool, nothing left over when it is quiet, refinement of `Ownership`, blocks are settled, an abandoned pool frees everything |
| `pool_panic` | 2 threads, 2 blocks, panics under a shrink too | **violated**: see section 5 |
| `buffer_values` | 3 handles, 2 blocks, 2 values of a byte, words of 16, slack 1 | buffers are independent strings, shared bytes do not change, layouts fit, no block is lost |
| `debug_assertion` | 2 handles, 1 block, debug build | **violated**: see section 5 |
| `owned_archive` | 2 handles, 2 blocks of up to 4 bytes, alignment 2, values of 1 and 2 bytes | archives resolve, buffers stay independent strings, no block is lost |
| `serializer_pool` | 1 serializer after another, 2 shared values, 3 layouts (one aligned above the buffer), 2 places for the scratch, depth 3 | sharing and scratch memory, through errors and reuse; refinement of `SharedValues` |
| `stale_sharing` | the same | **violated**: see section 5 |
| `scratch_alignment` | the same | **violated**: see section 5 |
| `validator_pool` | 2 validators, 3 addresses, 2 types, queue of 1, depth 3 | nothing is accepted unchecked or as two types; refinement of `Validation` |

*Bounds.* Three handles make a block with two sharers and a third party; three threads
are the least for a reader, a dropper and a thread that becomes unique. Two blocks are
needed only for `ReallocMove` and for a recycled block next to a fresh one.
`MaxRefcount` and `RefModulus` replace `isize::MAX` and 2^64; the saturation run makes them
as small as its threads allow, the other runs so large that the limit is never met.
`MaxLeaks` bounds forgotten handles, `MaxEmpty` the empty buffers a program holds. In the pool
three threads give two concurrent returns and a concurrent drop, two blocks overfill
the queue of one; of the two capacities the policy (`Moody`) keeps one unless it changes its mind, and never keeps the other, so that a
resize between two calls matters. In the buffer runs words have 16 values: a header of 4 and no
alignment leave capacities up to 3, a header of 1 and an alignment of 2 up to 4,
and all computations stay in the words, so growth by doubling, growth to the need,
doubles without a layout (a double never wraps, which `CapacityFitsWord` proves),
requests without a layout and the padding behind the header all occur.
The allocator returns up to `MaxSlack` more than asked, never more than has a layout. Strings
are written one and two bytes at a time. `Narrow` is set in the assertion run only; in the
other instances the second limit would leave too little.
Serializers share nothing but the pool's queues, whose interleaving and limit are
`BufferPool`'s subject, so one slot that is used again and again is enough; depth 3 nests a
scratch allocation between two shared values and two allocations in one. Positions reach
0 and 3 (`MaxLen`) with words up to 7 (`MaxWord`), the scratch buffer grows from 3
(`MinCap`) to 6 (`MaxCap`), in place or between the two places in `Bases`, both
multiples of `ALIGNMENT`, 2, and one not of 4, which the third layout asks for. Two validators
with a queue of one have the second map rejected, three addresses let a depth of 3 be
reached.
Symmetry is used in safety runs only; no property names a thread, handle or block.

*Deadlock* is checked except where the program may stop: after `abort()` in the saturation
run, and in the pools once they are dropped and nothing that came from them is left.

*Fairness.* Only steps that finish a call that has begun are fair, one weak-fairness
condition per thread: the scheduler runs every thread, and no call of this code waits
for another thread. The program is never forced to start a call.

## 4. What is proved

`RefCountProofs` proves for every finite set of threads and handles, any blocks, any limit
and any word with `MaxRefcount + 1 + |Threads| < RefModulus` (the code's own assumption, in
the comment at `raw.rs:584-590`) that every reachable state satisfies `TypeOK`,
`RefCountExact`, `NoUseAfterFree`, `NoOrphans`, `ExclusiveIsAlone`, `NoStaleOne`,
`NoCounterWrap`, `ReadersOrdered`, `WritersOrdered` and `FreeOrdered`.

The argument has two layers. *Counting* (`CountInv`): the count of a block with handles is
their number, a block without is in exactly one last drop and its count is 0 or, after
the store, 1 again; a handle with write access is alone. The proof moves one handle in or
out of `Refs(b)` per step and counts with `FiniteSetTheorems`. The bound on the counter
comes from an injection of the handles in phase `overflow` into the threads (a thread
stops at its first one). *Order* (`OrderInv`) builds on it: `Covered` says that every access
the count's releases do not yet cover has been seen by some thread that still holds the
block, so it will be released when that one lets go; when the last handle goes nothing is
uncovered (`LastReleasesAll`), so the Acquire load that follows makes everything visible.
None of the race properties is inductive without `Covered`.

`RefCountProofs` ends with `Spec => ImplementsOwnership`: under `AbstractMode` and
`AbstractHolders` each action is a step of `Ownership` or leaves both unchanged.

`BufferPoolProofs` proves, for any number of threads and blocks, any queue and any policy, whatever it answers from call to call
and wherever it panics, `TypeOK` and `DropIsFinal`, and under `NoPanicInShrink` also `BlocksAccounted`, `StorageBounded`,
`DeallocIsSafe`, `QuietIsClean` and `ImplementsOwnership`. `NothingLost` adds that under `NoPanicInShrink` and `KeepsItsWord` no drop of a pool is
torn. Two parts of the invariant need no assumption and are inductive
by themselves (`CountInv`): `ArcInv`, that the strong count is the number of threads inside the pool plus one for
the pool itself, that the value is alive exactly while the count is not 0, and that it is being dropped exactly while a
thread is its dropper; and `EmptyInv`, which counts the buffers that shrinks will leave empty. A policy that panics
under a shrink damages the accounts of blocks, never those of the `Arc`. The others rest on the
assumption. `PlaceInv`: the allocated blocks are divided between the program, the queue, which has each once, and the threads
that give one back. `PolicyInv`: a block in the queue, or on its way there, has a capacity the policy may retain, and a
shrink is never at the step where a panic unwinds. Without `PlaceInv` no property of blocks is inductive: that a freed
block is in nobody's hands rests on its having been in one thread's hands before.

`LayoutProofs` proves for every width, header and alignment the assumptions of `Layout` admit:
`padding_needed_for` returns the least padding that aligns (`PaddingAligns`), and near the end of the
address range it returns one that wraps to 0 (`PaddingWraps`), which `extend`'s checked addition then refuses; a
size has a layout exactly up to `Limit` (`LimitIsExact`), which always fits beside the tag, also
doubled (`CapacityFitsWord`); the bytes behind the header are aligned, and so is a value at an aligned position (`BytesAreAligned`);
a tagged word gives back what was put into it (`TagRoundTrip`, `WithValueKeepsTag`). `RemainingDoesNotWrap`
shows that `remaining_mut`'s unchecked subtraction cannot wrap where the layout is aligned to more
than the 64 bytes `MAX_CAPACITY` sets aside; below that only buffers within 64 bytes of
`isize::MAX`, on targets without the guard, come near it.

`AlignedBufferProofs` proves `TypeOK`, `LayoutFits`, `BlocksAreOwned`, `SharedIsImmutable` and `ImplementsByteStrings` for any finite set of
handles, any blocks and bytes, and every layout, slack and minimal capacity. The invariant says of each
handle what its word means (`WordFine`), whether it has a block (`PlaceFine`) and how capacity,
length and block agree (`SizeFine`), and of each block that its count is the number of its handles and
its bytes are as many as its header says, and that an allocated one has a handle (`BlockFine`). A step that reallocates is alone on its block because
a unique handle is counted once (`Alone`), so the other handles keep what they show. For
the refinement `Shows(h, v)` says that a step changes what `h` shows to `v` and nothing else; each action
is proved to establish one such `v`, and `ShowsBecomes` turns it into the step of `ByteStrings`.
From the refinement follows `OnlyWritten`, that no handle ever shows a byte nobody wrote: no
value of `ByteStrings` has one, and a handle shows a value of `ByteStrings`. So does `SharedIsImmutable`: no step of
`ByteStrings` changes what a handle shows that is shared before and after it.

`OwnedArchiveProofs` proves `ArchivesResolve`, `LayoutFits`, `BlocksAreOwned` and `ImplementsByteStrings` under the actions of `OwnedArchive`, for any
sizes of values. Its invariant `AInv` is that of the buffers, that all bytes shown were written, and that
each archive is a shared buffer whose value lies in what the buffer shows and is the bytes seen
when it was made. A deref is a part of what the buffer shows (`PartHolds`), so the argument is about values
and not about blocks: a call on one handle leaves alone what a shared handle shows (`SharedSpared`), which
`ByteStrings` says and the refinement carries over, and so an archive stays valid when the call is not
its own (`ArchiveKept`). Serializing is the extension by bytes of any number (`ExtendAny`), deserializing a copy
of a part into a new buffer.

`SerializerProofs` proves `TypeOK`, `FinishNeverFails`, `FreshMapsResolve` and `ScratchIsUnaliased` for any
serializers, addresses and depth and layouts of any size and alignment; the alignment it proves is that of `PadFits`. The invariant is one of each serializer: its open shared
values are entered, pending and different (`SharesOK`), the map says where this serializer wrote a
value and says so of nothing else but what it brought along (`PlacesOK`), and the open scratch
allocations since the last move lie in the buffer in the order of the stack
(`ScratchOK`). Its parts are predicates on the values of the variables, so that each operation's effect is
a lemma of its own. `Refinement` is `Spec => ImplementsSharedValues`: `TableChange` and `BeingChange` say what an
operation does to the table a map stands for and to the values a stack is writing, `MappedOne` that it changes one
serializer's part of the mapping, and one lemma per action makes that the step of `SharedValues`. That
`FinishSharing` is always its `Place`, which cannot fail, and that unwinding leaves a value pending but no longer being
written, is `SharesOK`: no value is on the stack twice. The empty beginning of a serializer needs one fact the safety
theorems do not, `Unwritten`.

`ValidatorPoolProofs` proves `TypeOK`, `SkipsOnlyChecked`, `OneTypePerAddress` and
`FinishNeverFails` for any validators, addresses, types and depth and any capacity above 0
(`ArrayQueue::new` panics on 0). The inductive invariant `IInv` says that maps in the queue
are empty (`ClearedMaps`), that a map has one entry per address (`OneEntryEach`), that its
finished entries are exactly what has passed (`FinishedHavePassed`) and that what is being
checked is entered, unfinished, once (`OpenAreEntered`). `SkipsOnlyChecked` rests on
`FinishedHavePassed`, which a `Get` keeps because of `ClearedMaps` and a `FinishShared` because the
entry it looks up is there and is the only one (`OpenAreEntered`, `OneEntryEach`).
`Refinement` is `Spec => ImplementsValidation`: `Get` is the beginning of a validator that knows nothing because of
`ClearedMaps`, and `FinishShared` a step that cannot fail because of `OpenAreEntered`.

Only model-checked: liveness (`UnheldIsReclaimed`, `AbandonedIsFreed`, `RetiredIsSettled`), which is
out of this prover's reach. Every safety property and refinement a passing run checks is also proved, those of
the pool's blocks under `NoPanicInShrink`.

## 5. Where the code and its documentation disagree

* **`debug_assertion`.** `ref_count()` on an unallocated buffer runs
  `debug_assert_ne!(self.cap_or_len(), 0)` (`raw.rs:533`), but an unallocated handle always has
  0 there, as `reset_cap` asserts (`raw.rs:188`). The comment two lines below says such a
  buffer is treated "as if it has no shared references". Three calls suffice in a debug
  build: `new`, `into_shared`, `is_unique`.
* **`stale_sharing`.** The drop of a serializer's map pushes it back as it is
  (`serializer_pool.rs:59`) and `get` hands it on (`serializer_pool.rs:144`). The next
  serializer that meets a shared value at an address the map knows writes a pointer to the
  position the value had in the *previous* buffer. The pool's test asserts that a second
  buffer reads back as what was serialized (`serializer_pool.rs:486-487`), with a type
  that has no shared pointers. The validator pool clears its map
  (`validator_pool.rs:101`).
* **`scratch_alignment`.** `push_alloc` computes the padding from `scratch.as_ptr()` before
  `scratch.reserve()` (`serializer_pool.rs:278`). A scratch buffer with nothing allocated has
  the dangling address 1, so the padding is `align - 1` and the pointer into the bytes that
  are then allocated, which are aligned, is not aligned for any alignment above 1. The same order
takes the padding from the old address when the reserve moves the buffer: harmless for layouts aligned up to
`ALIGNMENT`, which both places share, and wrong above. The comment
  at `serializer_pool.rs:269` says the memory "fits the provided layout".

* **`pool_panic`.** `dealloc_buf` calls `dealloc_slow` (`raw.rs:494`) and makes the handle
  dangling only afterwards (`raw.rs:497-498`). When the retention policy panics in between, the
  guard frees the block while the handle, which is not being dropped, still points to
  it; its drop calls `dealloc_slow` with it again. The comment at `raw.rs:518-519` says that
  `dealloc_slow` "requires that `ptr` and `cap` is valid and no more references exists to
  buffer".

Met while modelling, no run of their own:

* `layout()` makes the layout of the bytes with `from_size_align_unchecked` (`raw.rs:107`) before
  anything has compared the size with `isize::MAX`, which is that function's contract. The
  model gives such a request no layout, as the checked constructor would.
* With `ALIGNMENT` 128 `remaining_mut` (`bytes.rs:10`) promises up to 63 bytes more than have a
  layout: `MAX_CAPACITY` sets 64 bytes aside (`raw.rs:99`), rounding the layout up may need 127.
* `OwnedArchive::ALIGNMENT_OK`, the constant that should refuse types the buffer does not align,
  compares `ALIGNMENT` with the size of the type and is never evaluated (`lib.rs:42`).

* `grow_amortized` takes `max(2 * cap, len + additional)` (`raw.rs:345`) and reports
  `CapacityOverflow` when the double has no layout although the need has; the doc of
  `reserve` (`raw.rs:202-204`) says that the doubling is limited "if it would needlessly cause
  itself to panic".
* A `push_alloc` whose `reserve` moves the scratch buffer (`serializer_pool.rs:281`) leaves the
  pointers of allocations that are still open behind.
* A serialization that fails leaves its shared values pending in the map, and the map goes
  back to the pool: a later serializer that meets the same address reports a cycle.
* A push the full queue rejects forgets the buffer with its `Weak`
  (`buffer_pool.rs:165`), so the `Arc`'s own memory is never freed afterwards.
* A dropped pool stays alive, with all it has stored, while drops of its buffers keep
  overlapping: each upgrade may begin before the previous one is released. That is why
  `AbandonedIsFreed` has its premise.

## 6. What is not modelled

Panics that unwind out of an allocator or drop a serializer in the middle of a call; the
weak count (see `buffer_pool.rs:165` above: what it leaks is the `Arc`'s own memory); round trips
through raw parts and the unsafe `set_len`, whose contracts are the caller's; `Global`'s zero-sized
cases, which no buffer reaches, a layout having at least a header; the serializer
pool's queue of writers, which is a `BufferPool` like the scratch buffers'; scratch layouts
of size 0, which rkyv does not ask for; the checks of archived bytes, rkyv's own and the one for `Misaligned`
that an archived buffer's `check_bytes` adds (`rkyv.rs:72-75`), which accept or
reject; what the program does through a chunk but write bytes into it. Formatting, trait plumbing (`AsRef`, `Index`, `From`,
`Debug`) and crate metadata carry no state.

## 7. Plan

All modules of the first plan are written. What could follow:

1. The `Arc`'s weak count in `BufferPool`, as a second counter with its own owners.
2. Serializers on several threads over one pair of pools, composed with `BufferPool`.
