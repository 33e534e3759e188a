----------------------------- MODULE BufferPool -----------------------------
(***************************************************************************)
(* The buffer pool of aligned-buffer-pool.                                 *)
(*                                                                         *)
(* AlignedBufferPool is an Arc around a bounded lock-free queue of unique  *)
(* buffers.  Every buffer it hands out carries an allocator with a Weak to *)
(* the same Arc: when the last handle of the buffer is dropped, or the     *)
(* buffer is shrunk to nothing, deallocate_buffer asks the retention       *)
(* policy, upgrades the Weak and pushes the block back, or frees it when   *)
(* the policy, the queue or a dropped pool will not have it.               *)
(*                                                                         *)
(* RefCount says which drop of a handle is the last one; here a block the  *)
(* program holds has one holder, and the steps of deallocate_buffer run in *)
(* the thread that let go of it, between those of all other threads: they  *)
(* may drop the pool under it, fill the queue, or drain it.                *)
(***************************************************************************)
EXTENDS Integers, FiniteSets, Sequences

CONSTANTS
    Threads,      \* the threads of the program
    Blocks,       \* the allocations the allocator can have out at once
    Nothing,      \* no block and no thread
    Capacities,   \* the capacities blocks are allocated with
    Policy,       \* per capacity: what the policy may answer, now this, now that
    PanicsInShrink, \* whether it may also panic while an empty buffer is shrunk
    QueueCap,     \* the capacity the pool was made with
    MaxEmpty      \* how many unallocated buffers the program may hold

ASSUME PoolAssumption ==
    /\ IsFiniteSet(Threads)
    /\ Nothing \notin Blocks \cup Threads
    /\ Capacities \subseteq Nat
    /\ Policy \in [Capacities -> SUBSET {"retain", "reject", "panic"} \ {{}}]
    /\ PanicsInShrink \in BOOLEAN
    /\ PanicsInShrink \/ \A c \in Capacities : Policy[c] # {"panic"}
    /\ QueueCap \in Nat \ {0}   \* ArrayQueue::new panics on 0
    /\ MaxEmpty \in Nat

\* What keeps a program clear of the one call a panicking policy breaks.
NoPanicInShrink == ~PanicsInShrink

VARIABLES
    pool,      \* the AlignedBufferPool value still exists
    strong,    \* the strong count of its Arc
    inner,     \* the value in the Arc: alive, dropping, gone, or torn by a panic
    dropper,   \* the thread that drops it
    queue,     \* its queue of buffers
    empties,   \* buffers of the program with nothing allocated
    held,      \* blocks that belong to buffers of the program
    live,      \* blocks that are allocated
    cap,       \* per block: Header::alloc_buffer_size
    at,        \* per thread: where it is in deallocate_buffer
    raw,       \* per thread: the RawBuffer it is about to give back
    shrunk     \* per thread: the block its shrink is giving back, which its
               \* handle still points to

arcVars  == <<pool, strong, inner, dropper>>
heapVars == <<empties, held, live, cap>>
callVars == <<at, raw, shrunk>>
vars == <<arcVars, queue, heapVars, callVars>>

Steps == {"idle", "policy", "upgrade", "push", "reject", "free", "unwind", "release"}
Carrying == {"policy", "upgrade", "push", "reject", "free", "unwind"}
Pinned   == {"push", "reject", "release"}   \* inside WeakAlignedBufferPool::with

Idle(t) == at[t] = "idle" /\ dropper # t

Goto(t, s) == at' = [at EXCEPT ![t] = s]

shrinking == {t \in Threads : shrunk[t] # Nothing}

\* deallocate_buffer is called on b.
Retire(t, b) ==
    /\ raw' = [raw EXCEPT ![t] = b]
    /\ Goto(t, "policy")

\* deallocate_buffer comes back to its caller.  If that is a shrink, the buffer has
\* become empty.
Returns(t) ==
    /\ shrunk' = [shrunk EXCEPT ![t] = Nothing]
    /\ empties' = empties + IF t \in shrinking THEN 1 ELSE 0

\* An Arc is dropped; whoever drops the last one drops the value.
DropArc(t) ==
    /\ strong' = strong - 1
    /\ IF strong = 1
       THEN inner' = "dropping" /\ dropper' = t
       ELSE UNCHANGED <<inner, dropper>>

Init ==
    /\ pool = TRUE
    /\ strong = 1
    /\ inner = "alive"
    /\ dropper = Nothing
    /\ queue = <<>>
    /\ empties = 0
    /\ held = {}
    /\ live = {}
    /\ cap = [b \in Blocks |-> 0]
    /\ at = [t \in Threads |-> "idle"]
    /\ raw = [t \in Threads |-> Nothing]
    /\ shrunk = [t \in Threads |-> Nothing]

-----------------------------------------------------------------------------
(* Slips this code could have made, one for each property below: no part   *)
(* of Next.                                                                *)

\* Mutant: shrinking to nothing gives the block back and keeps it as well.
ShrinkKeepsBlock(t, b) ==
    /\ Idle(t)
    /\ b \in held
    /\ Retire(t, b)
    /\ UNCHANGED <<arcVars, queue, heapVars, shrunk>>

\* Mutant: the policy is asked about the length of the buffer, which is 0.
AskPolicyOfLength(t) ==
    /\ at[t] = "policy"
    /\ Goto(t, "upgrade")
    /\ UNCHANGED <<arcVars, queue, heapVars, raw, shrunk>>

\* Mutant: the pool is reached without counting another Arc.
UpgradeUncounted(t) ==
    /\ at[t] = "upgrade"
    /\ Goto(t, IF strong = 0 THEN "free" ELSE "push")
    /\ UNCHANGED <<arcVars, queue, heapVars, raw, shrunk>>

\* Mutant: a call that finds the pool dropped waits for it to come back.
UpgradeWaits(t) ==
    /\ at[t] = "upgrade"
    /\ strong > 0
    /\ Goto(t, "push")
    /\ strong' = strong + 1
    /\ UNCHANGED <<pool, inner, dropper, queue, heapVars, raw, shrunk>>

\* Mutant: the guard is not disarmed before the push.
PushGuarded(t) ==
    /\ at[t] = "push"
    /\ queue' = IF Len(queue) < QueueCap THEN Append(queue, raw[t]) ELSE queue
    /\ Goto(t, "reject")
    /\ UNCHANGED <<arcVars, heapVars, raw, shrunk>>

\* Mutant: the upgraded Arc is forgotten.
ReleaseForgets(t) ==
    /\ at[t] = "release"
    /\ Goto(t, "idle")
    /\ Returns(t)
    /\ UNCHANGED <<arcVars, queue, held, live, cap, raw>>

-----------------------------------------------------------------------------
(* The program: taking buffers, growing and shrinking them, dropping them. *)

\* get() where the queue has a buffer.
GetStored(t) ==
    /\ Idle(t) /\ pool
    /\ queue # <<>>
    /\ queue' = Tail(queue)
    /\ held' = held \cup {Head(queue)}
    /\ UNCHANGED <<arcVars, empties, live, cap, callVars>>

\* get() where it has none: a new buffer, with nothing allocated yet.
GetNew(t) ==
    /\ Idle(t) /\ pool
    /\ queue = <<>>
    /\ empties + Cardinality(shrinking) < MaxEmpty
    /\ empties' = empties + 1
    /\ UNCHANGED <<arcVars, queue, held, live, cap, callVars>>

\* The first allocation of a buffer goes to the allocator, not to the pool.
Grow(t, b, c) ==
    /\ Idle(t)
    /\ empties > 0
    /\ b \notin live
    /\ empties' = empties - 1
    /\ held' = held \cup {b}
    /\ live' = live \cup {b}
    /\ cap' = [cap EXCEPT ![b] = c]
    /\ UNCHANGED <<arcVars, queue, callVars>>

\* grow and shrink are forwarded to the allocator; the header is updated.
Resize(t, b, c) ==
    /\ Idle(t)
    /\ b \in held
    /\ cap[b] # c
    /\ cap' = [cap EXCEPT ![b] = c]
    /\ UNCHANGED <<arcVars, queue, empties, held, live, callVars>>

DropEmpty(t) ==
    /\ Idle(t)
    /\ empties > 0
    /\ empties' = empties - 1
    /\ UNCHANGED <<arcVars, queue, held, live, cap, callVars>>

\* The last handle of a buffer is dropped.
DropBuffer(t, b) ==
    /\ Idle(t)
    /\ b \in held
    /\ held' = held \ {b}
    /\ Retire(t, b)
    /\ UNCHANGED <<arcVars, queue, empties, live, cap, shrunk>>

\* shrink_to_fit of an empty buffer gives the block back; only then does the
\* handle stop pointing to it.
ShrinkToEmpty(t, b) ==
    /\ Idle(t)
    /\ b \in held
    /\ empties + Cardinality(shrinking) < MaxEmpty
    /\ held' = held \ {b}
    /\ Retire(t, b)
    /\ shrunk' = [shrunk EXCEPT ![t] = b]
    /\ UNCHANGED <<arcVars, queue, empties, live, cap>>

DropPool(t) ==
    /\ Idle(t) /\ pool
    /\ pool' = FALSE
    /\ DropArc(t)
    /\ UNCHANGED <<queue, heapVars, callVars>>

-----------------------------------------------------------------------------
(* deallocate_buffer, step by step.                                        *)

\* Where an answer of the policy leads.
Then == [retain |-> "upgrade", reject |-> "free", panic |-> "unwind"]

\* should_retain, which is the user's and need not say the same twice.  A panic in
\* the clone of the allocator that follows a yes does what a panic here does.
AskPolicy(t) ==
    /\ at[t] = "policy"
    /\ \E answer \in DOMAIN Then :
        /\ answer \in Policy[cap[raw[t]]]
        /\ answer = "panic" /\ t \in shrinking => PanicsInShrink
        /\ Goto(t, Then[answer])
    /\ UNCHANGED <<arcVars, queue, heapVars, raw, shrunk>>

\* Weak::upgrade; the closure and the guard in it are dropped when it fails.
Upgrade(t) ==
    /\ at[t] = "upgrade"
    /\ IF strong = 0
       THEN Goto(t, "free") /\ UNCHANGED strong
       ELSE Goto(t, "push") /\ strong' = strong + 1
    /\ UNCHANGED <<pool, inner, dropper, queue, heapVars, raw, shrunk>>

\* The block becomes a unique buffer of length 0 and is pushed.
Push(t) ==
    /\ at[t] = "push"
    /\ IF Len(queue) < QueueCap
       THEN /\ queue' = Append(queue, raw[t])
            /\ raw' = [raw EXCEPT ![t] = Nothing]
            /\ Goto(t, "release")
       ELSE Goto(t, "reject") /\ UNCHANGED <<queue, raw>>
    /\ UNCHANGED <<arcVars, heapVars, shrunk>>

\* The guard is dropped: the allocator frees the block.  A rejected push still
\* has its Arc to release; the others come back, to the drop of the queue if that
\* is where the block was.
Free(t) ==
    /\ at[t] \in {"free", "reject"}
    /\ live' = live \ {raw[t]}
    /\ raw' = [raw EXCEPT ![t] = Nothing]
    /\ Goto(t, IF at[t] = "reject" THEN "release" ELSE "idle")
    /\ IF at[t] = "reject" \/ dropper = t THEN UNCHANGED <<empties, shrunk>> ELSE Returns(t)
    /\ UNCHANGED <<arcVars, queue, held, cap>>

\* The same under a panic, which then goes on through all this thread is in: the
\* drop of the queue ends there, and what it has not reached stays allocated; a
\* drop of a buffer has let go of its handle; a shrink has not come to the line
\* that makes its handle dangling.
Unwind(t) ==
    /\ at[t] = "unwind"
    /\ live' = live \ {raw[t]}
    /\ raw' = [raw EXCEPT ![t] = Nothing]
    /\ Goto(t, "idle")
    /\ IF dropper = t
       THEN inner' = "torn" /\ dropper' = Nothing
       ELSE UNCHANGED <<inner, dropper>>
    /\ held' = held \cup ({shrunk[t]} \ {Nothing})
    /\ shrunk' = [shrunk EXCEPT ![t] = Nothing]
    /\ UNCHANGED <<pool, strong, queue, empties, cap>>

\* The upgraded Arc goes.  It may be the last one by now, and then the value is
\* dropped before this call comes back.
Release(t) ==
    /\ at[t] = "release"
    /\ DropArc(t)
    /\ Goto(t, "idle")
    /\ IF strong = 1 THEN UNCHANGED <<empties, shrunk>> ELSE Returns(t)
    /\ UNCHANGED <<pool, queue, held, live, cap, raw>>

-----------------------------------------------------------------------------
(* Dropping AlignedBufferPoolInner: its queue drops what it still holds,   *)
(* and each of those buffers calls deallocate_buffer in turn.              *)

DropStored(t) ==
    /\ dropper = t /\ inner = "dropping"
    /\ at[t] = "idle"
    /\ queue # <<>>
    /\ queue' = Tail(queue)
    /\ Retire(t, Head(queue))
    /\ UNCHANGED <<arcVars, heapVars, shrunk>>

DropDone(t) ==
    /\ dropper = t /\ inner = "dropping"
    /\ at[t] = "idle"
    /\ queue = <<>>
    /\ inner' = "gone"
    /\ dropper' = Nothing
    /\ Returns(t)
    /\ UNCHANGED <<pool, strong, queue, held, live, cap, at, raw>>

-----------------------------------------------------------------------------
\* The rest of a call that has begun.
Continue(t) ==
    \/ AskPolicy(t)
    \/ Upgrade(t)
    \/ Push(t)
    \/ Free(t)
    \/ Unwind(t)
    \/ Release(t)
    \/ DropStored(t)
    \/ DropDone(t)

Next ==
    \E t \in Threads :
        \/ GetStored(t)
        \/ GetNew(t)
        \/ \E b \in Blocks, c \in Capacities : Grow(t, b, c)
        \/ \E b \in Blocks, c \in Capacities : Resize(t, b, c)
        \/ DropEmpty(t)
        \/ \E b \in Blocks : DropBuffer(t, b)
        \/ \E b \in Blocks : ShrinkToEmpty(t, b)
        \/ DropPool(t)
        \/ Continue(t)

Spec == Init /\ [][Next]_vars

\* A call that has begun runs to its end: each thread is scheduled.
Fairness == \A t \in Threads : WF_vars(Continue(t))

FairSpec == Spec /\ Fairness

-----------------------------------------------------------------------------
(* What must be true.                                                      *)

Carriers(b) == {t \in Threads : at[t] \in Carrying /\ raw[t] = b}
Slots(b) == {i \in 1 .. Len(queue) : queue[i] = b}
Stored(q) == {q[i] : i \in DOMAIN q}

TypeOK ==
    /\ pool \in BOOLEAN
    /\ strong \in Nat
    /\ inner \in {"alive", "dropping", "gone", "torn"}
    /\ dropper \in Threads \cup {Nothing}
    /\ queue \in Seq(Blocks)
    /\ empties \in 0 .. MaxEmpty
    /\ held \in SUBSET Blocks
    /\ live \in SUBSET Blocks
    /\ cap \in [Blocks -> Nat]
    /\ at \in [Threads -> Steps]
    /\ raw \in [Threads -> Blocks \cup {Nothing}]
    /\ shrunk \in [Threads -> Blocks \cup {Nothing}]

\* Every allocated block is in exactly one place, with the program, in one slot
\* of the queue or in the hands of one thread that gives it back, and a freed
\* one is nowhere: no double free, no leak, no block handed out twice.
BlocksAccounted ==
    \A b \in Blocks :
        (IF b \in held THEN 1 ELSE 0) + Cardinality(Slots(b)) + Cardinality(Carriers(b))
            = IF b \in live THEN 1 ELSE 0

\* The pool's value is dropped by the last Arc only: no thread pushes into a
\* queue that is being dropped or was, however a push races with the drop of the
\* pool, and a drop that was not torn by a panic has left nothing in it.
DropIsFinal ==
    /\ inner # "alive" => ~pool /\ \A t \in Threads : at[t] \notin Pinned
    /\ inner = "gone" => queue = <<>>

\* The pool keeps at most QueueCap blocks, none of a capacity the policy never
\* retains, though it was asked long before the push.
StorageBounded ==
    /\ Len(queue) <= QueueCap
    /\ \A i \in 1 .. Len(queue) : "retain" \in Policy[cap[queue[i]]]

\* Where no call is under way no Arc is left over: the pool's value is there as
\* long as the pool is, and a dropped pool has left no block but those the program
\* still holds, whoever dropped the last Arc and wherever that thread was, and
\* those it lost when the policy panicked in the drop of its queue.
QuietIsClean ==
    (\A t \in Threads : Idle(t)) =>
        /\ strong = IF pool THEN 1 ELSE 0
        /\ inner \in IF pool THEN {"alive"} ELSE {"gone", "torn"}
        /\ inner = "gone" => live = held
        /\ inner = "torn" => live = held \cup Stored(queue)

\* Once the pool is dropped and the program has let go of its last buffer, every
\* block is freed, also the one a thread pushes at the last moment, but for those
\* a panic in the drop of the queue has lost.  (While buffers are still being
\* dropped their upgraded Arcs may overlap for ever and keep the dropped pool and
\* its queue alive.)
AbandonedIsFreed ==
    <>[](~pool /\ held = {}) =>
        <>[](\/ inner = "gone" /\ live = {}
             \/ inner = "torn" /\ live = Stored(queue))

\* A block that is given back ends in the queue or with the allocator.
RetiredIsSettled ==
    \A b \in Blocks : (Carriers(b) # {}) ~> (Carriers(b) = {})

\* deallocate_buffer is called with a block that is allocated, and that no handle,
\* no slot and no other call has: what dealloc_slow asks of its callers.  A policy
\* that panics under shrink_to_fit breaks it; whoever can rule that out has it
\* from BlocksAccounted.
DeallocIsSafe ==
    \A t \in Threads : at[t] = "policy" =>
        /\ raw[t] \in live \ held
        /\ Slots(raw[t]) = {} /\ Carriers(raw[t]) = {t}

-----------------------------------------------------------------------------
(* The pool keeps the rules of ownership: a block in the queue is held, by *)
(* the buffer that was put there, and a block on its way back is held by   *)
(* nobody.                                                                 *)

AbstractMode ==
    [b \in Blocks |-> IF b \notin live THEN "free"
                      ELSE IF Carriers(b) # {} THEN "unheld"
                      ELSE "exclusive"]

AbstractHolders ==
    [b \in Blocks |-> IF b \in held \/ Slots(b) # {} THEN {b} ELSE {}]

Own == INSTANCE Ownership
         WITH Handles <- Blocks, mode <- AbstractMode, holders <- AbstractHolders

\* A block leaves unheld hands into the queue or to the allocator, never both,
\* and comes out of the queue with the buffer it went in with.
ImplementsOwnership == Own!Spec
=============================================================================
