----------------------------- MODULE Serializer -----------------------------
(***************************************************************************)
(* The serializers of aligned-buffer-pool.                                 *)
(*                                                                         *)
(* A Serializer is a writer, a scratch buffer and a sharing map, each from *)
(* a queue of its SerializerPool.  rkyv drives it: while it serializes a   *)
(* value it asks start_sharing for every shared pointer it meets, writes   *)
(* the value behind the pointer the first time and calls finish_sharing    *)
(* with its position, and takes and returns scratch memory in between.     *)
(* Those calls nest, so what is open in one serialize call is a stack; an  *)
(* error unwinds it.  The serializers of a pool are used by any threads,   *)
(* each by one thread at a time.                                           *)
(*                                                                         *)
(* The writers' and the scratch buffers' way back to the pool is that of   *)
(* BufferPool; here it is one step.                                        *)
(***************************************************************************)
EXTENDS Integers, Sequences, SequencesExt

CONSTANTS
    Serializers,  \* the Serializer values there can be at once
    Addresses,    \* the addresses of the shared values of the program
    Capacity,     \* the capacity the pool was made with
    Layouts,      \* the layouts rkyv asks scratch memory for
    Alignment,    \* ALIGNMENT
    Bases,        \* where an allocator can put the bytes of a scratch buffer
    MinCap,       \* MIN_NON_ZERO_CAP
    MaxCap,       \* bound: the largest capacity a scratch buffer grows to
    MaxLen,       \* bound: how many values a writer is given
    MaxDepth,     \* bound: how deep the calls of a serialization nest
    MaxWord       \* usize::MAX

Dangling == 1     \* the address of NonNull::<u8>::dangling()

ASSUME SerializerAssumption ==
    /\ Capacity \in Nat \ {0}
    /\ Alignment \in Nat \ {0}
    /\ MinCap \in Nat /\ MaxCap \in Nat /\ MaxLen \in Nat /\ MaxDepth \in Nat /\ MaxWord \in Nat
    /\ Bases \subseteq Nat /\ \A b \in Bases : b > MaxCap /\ b % Alignment = 0
    /\ Layouts \subseteq [size : Nat \ {0}, align : Nat \ {0}]
    /\ MaxLen < MaxWord

VARIABLES
    pool,       \* the SerializerPool still exists
    unify,      \* its queue of sharing maps
    scratches,  \* its queue of scratch buffers
    status,     \* per serializer: does it exist, is an error unwinding a call
    map,        \* per serializer: the sharing map, unify.map
    writer,     \* per serializer: the length of the writer
    scratch,    \* per serializer: address, capacity and length of the scratch
    calls,      \* per serializer: what the open serialize call has begun
    inherited,  \* per serializer: the addresses its map knew from the start
    written,    \* per serializer: the shared values written, with positions
    refs        \* per serializer: the shared pointers written, with targets

poolVars   == <<pool, unify, scratches>>
shareVars  == <<map, inherited, written, refs>>
vars == <<poolVars, status, shareVars, writer, scratch, calls>>

(* An entry of a sharing map is vacant, None, or Some of a position with   *)
(* every bit flipped, so that it is never 0.                               *)
Vacant == -1
None   == 0
Flip(pos) == MaxWord - pos

EmptyMap == [a \in Addresses |-> Vacant]
Unallocated == [base |-> Dangling, cap |-> 0, len |-> 0]

Sharing(a) == [kind |-> "share", addr |-> a]
Top(s) == Last(calls[s])
Open(s, kind) == calls[s] # <<>> /\ Top(s).kind = kind

\* An error unwinds what is left of the serialize call, if anything is.
Fails(s, rest) == status' = [status EXCEPT ![s] = IF rest = <<>> THEN "open" ELSE "failing"]

\* ArrayQueue::push: a full queue rejects.
Offered(queue, item) == IF Len(queue) < Capacity THEN Append(queue, item) ELSE queue

Init ==
    /\ pool = TRUE
    /\ unify = <<>>
    /\ scratches = <<>>
    /\ status = [s \in Serializers |-> "none"]
    /\ map = [s \in Serializers |-> EmptyMap]
    /\ writer = [s \in Serializers |-> 0]
    /\ scratch = [s \in Serializers |-> Unallocated]
    /\ calls = [s \in Serializers |-> <<>>]
    /\ inherited = [s \in Serializers |-> {}]
    /\ written = [s \in Serializers |-> {}]
    /\ refs = [s \in Serializers |-> {}]

-----------------------------------------------------------------------------
(* The scratch buffer as its reserve leaves it.                            *)

\* The capacities grow_amortized may ask for, within the bound.
Amortized(c, need) ==
    LET least == c.len + need
        cap == IF 2 * c.cap < least THEN least ELSE 2 * c.cap
    IN  {IF cap < MinCap THEN MinCap ELSE cap} \cap 0 .. MaxCap

\* reserve: the scratch buffer as it is, or grown, in place or elsewhere.
Reserved(c, need) ==
    IF need <= c.cap - c.len
    THEN {c}
    ELSE [base : Bases, cap : Amortized(c, need), len : {c.len}]

\* What the open allocations are once the scratch buffer is at base: moving it
\* leaves their pointers behind.
Carried(fs, old, new) ==
    IF old.base = new.base THEN fs
    ELSE [i \in DOMAIN fs |->
            IF fs[i].kind = "alloc" THEN [fs[i] EXCEPT !.inside = FALSE] ELSE fs[i]]

-----------------------------------------------------------------------------
(* Slips this code could have made, one for each property below: no part   *)
(* of Next.                                                                *)

\* Mutant: a shared value is started and not entered in the map.
StartSharingUnentered(s, a) ==
    /\ status[s] = "open"
    /\ Len(calls[s]) < MaxDepth
    /\ \/ /\ map[s][a] = Vacant
          /\ calls' = [calls EXCEPT ![s] = Append(@, Sharing(a))]
          /\ UNCHANGED <<status, refs>>
       \/ /\ map[s][a] = None
          /\ Fails(s, calls[s])
          /\ UNCHANGED <<calls, refs>>
       \/ /\ map[s][a] > None
          /\ refs' = [refs EXCEPT ![s] = @ \cup {<<a, Flip(map[s][a])>>}]
          /\ UNCHANGED <<status, calls>>
    /\ UNCHANGED <<poolVars, map, writer, scratch, inherited, written>>

\* Mutant: what has no position yet is answered like what has one.
StartSharingPointsAtPending(s, a) ==
    /\ status[s] = "open"
    /\ Len(calls[s]) < MaxDepth
    /\ \/ /\ map[s][a] = Vacant
          /\ map' = [map EXCEPT ![s][a] = None]
          /\ calls' = [calls EXCEPT ![s] = Append(@, Sharing(a))]
          /\ UNCHANGED refs
       \/ /\ map[s][a] # Vacant
          /\ refs' = [refs EXCEPT ![s] = @ \cup {<<a, Flip(map[s][a])>>}]
          /\ UNCHANGED <<map, calls>>
    /\ UNCHANGED <<poolVars, status, writer, scratch, inherited, written>>

\* Mutant: the position is entered as it is.
FinishSharingUnflipped(s) ==
    LET a == Top(s).addr
        pos == writer[s]
    IN
    /\ status[s] = "open"
    /\ Open(s, "share")
    /\ pos < MaxLen
    /\ map[s][a] = None
    /\ writer' = [writer EXCEPT ![s] = pos + 1]
    /\ written' = [written EXCEPT ![s] = @ \cup {<<a, pos>>}]
    /\ map' = [map EXCEPT ![s][a] = pos]
    /\ refs' = [refs EXCEPT ![s] = @ \cup {<<a, pos>>}]
    /\ calls' = [calls EXCEPT ![s] = Front(@)]
    /\ UNCHANGED <<poolVars, status, scratch, inherited>>

\* Mutant: the length is set without the padding.
PushAllocUnpadded(s, l) ==
    LET c == scratch[s]
        pad == (-(c.base + c.len)) % l.align
    IN
    /\ status[s] = "open"
    /\ Len(calls[s]) < MaxDepth
    /\ \E d \in Reserved(c, pad + l.size) :
        /\ scratch' = [scratch EXCEPT ![s] = [d EXCEPT !.len = c.len + l.size]]
        /\ calls' = [calls EXCEPT ![s] =
                       Append(Carried(@, c, d),
                              [kind |-> "alloc", addr |-> d.base + c.len + pad,
                               layout |-> l, inside |-> TRUE, from |-> c.base])]
    /\ UNCHANGED <<poolVars, status, shareVars, writer>>

\* Mutant: nothing is asked about the pointer that is popped.
PopAllocUnchecked(s) ==
    /\ Open(s, "alloc")
    /\ scratch' = [scratch EXCEPT ![s].len = Top(s).addr - scratch[s].base]
    /\ calls' = [calls EXCEPT ![s] = Front(@)]
    /\ IF status[s] = "failing" THEN Fails(s, Front(calls[s])) ELSE UNCHANGED status
    /\ UNCHANGED <<poolVars, shareVars, writer>>

-----------------------------------------------------------------------------
(* The pool.                                                               *)

\* SerializerPool::get: what a queue does not have is made.
Get(s) ==
    LET m == IF unify = <<>> THEN EmptyMap ELSE Head(unify) IN
    /\ pool
    /\ status[s] = "none"
    /\ status' = [status EXCEPT ![s] = "open"]
    /\ map' = [map EXCEPT ![s] = m]
    /\ inherited' = [inherited EXCEPT ![s] = {a \in Addresses : m[a] # Vacant}]
    /\ unify' = IF unify = <<>> THEN <<>> ELSE Tail(unify)
    /\ scratch' = [scratch EXCEPT ![s] =
                     IF scratches = <<>> THEN Unallocated ELSE Head(scratches)]
    /\ scratches' = IF scratches = <<>> THEN <<>> ELSE Tail(scratches)
    /\ UNCHANGED <<pool, writer, calls, written, refs>>

\* into_buffer, or the drop of a serializer: the scratch buffer, emptied, goes
\* back if the retention policy and the queue will have it, the map as it is.
\* The writer is the caller's, or goes back like the scratch buffer.
Release(s) ==
    LET c == scratch[s] IN
    /\ status[s] = "open" /\ calls[s] = <<>>
    /\ IF pool
       THEN /\ unify' = Offered(unify, map[s])
            /\ \/ UNCHANGED scratches
               \/ /\ c.base # Dangling
                  /\ scratches' = Offered(scratches, [c EXCEPT !.len = 0])
       ELSE UNCHANGED <<unify, scratches>>
    /\ status' = [status EXCEPT ![s] = "none"]
    /\ map' = [map EXCEPT ![s] = EmptyMap]
    /\ writer' = [writer EXCEPT ![s] = 0]
    /\ scratch' = [scratch EXCEPT ![s] = Unallocated]
    /\ inherited' = [inherited EXCEPT ![s] = {}]
    /\ written' = [written EXCEPT ![s] = {}]
    /\ refs' = [refs EXCEPT ![s] = {}]
    /\ UNCHANGED <<pool, calls>>

DropPool ==
    /\ pool
    /\ pool' = FALSE
    /\ unify' = <<>>
    /\ scratches' = <<>>
    /\ UNCHANGED <<status, shareVars, writer, scratch, calls>>

-----------------------------------------------------------------------------
(* One serialize call.                                                     *)

\* The Serialize implementation of a value fails.
Fail(s) ==
    /\ status[s] = "open" /\ calls[s] # <<>>
    /\ Fails(s, calls[s])
    /\ UNCHANGED <<poolVars, shareVars, writer, scratch, calls>>

\* An error leaves the serialization of a shared value; nothing is undone.
Unwind(s) ==
    /\ status[s] = "failing"
    /\ Open(s, "share")
    /\ calls' = [calls EXCEPT ![s] = Front(@)]
    /\ Fails(s, Front(calls[s]))
    /\ UNCHANGED <<poolVars, shareVars, writer, scratch>>

\* Bytes of no shared value are written.
Write(s) ==
    /\ status[s] = "open"
    /\ writer[s] < MaxLen
    /\ writer' = [writer EXCEPT ![s] = @ + 1]
    /\ UNCHANGED <<poolVars, status, shareVars, scratch, calls>>

\* start_sharing, asked when rkyv meets a pointer to a.  Started: the value is
\* to be written.  Pending: rkyv reports a cycle.  Finished: the pointer is
\* written, to the position the map has.
StartSharing(s, a) ==
    /\ status[s] = "open"
    /\ Len(calls[s]) < MaxDepth
    /\ \/ /\ map[s][a] = Vacant
          /\ map' = [map EXCEPT ![s][a] = None]
          /\ calls' = [calls EXCEPT ![s] = Append(@, Sharing(a))]
          /\ UNCHANGED <<status, refs>>
       \/ /\ map[s][a] = None
          /\ Fails(s, calls[s])
          /\ UNCHANGED <<map, calls, refs>>
       \/ /\ map[s][a] > None
          /\ refs' = [refs EXCEPT ![s] = @ \cup {<<a, Flip(map[s][a])>>}]
          /\ UNCHANGED <<status, map, calls>>
    /\ UNCHANGED <<poolVars, writer, scratch, inherited, written>>

\* The shared value is written, finish_sharing is told where, and so is the
\* pointer.  Vacant is NotStarted, Some is AlreadyFinished.
FinishSharing(s) ==
    LET a == Top(s).addr
        pos == writer[s]
    IN
    /\ status[s] = "open"
    /\ Open(s, "share")
    /\ pos < MaxLen
    /\ writer' = [writer EXCEPT ![s] = pos + 1]
    /\ written' = [written EXCEPT ![s] = @ \cup {<<a, pos>>}]
    /\ IF map[s][a] = None
       THEN /\ map' = [map EXCEPT ![s][a] = Flip(pos)]
            /\ refs' = [refs EXCEPT ![s] = @ \cup {<<a, pos>>}]
            /\ UNCHANGED status
       ELSE Fails(s, Front(calls[s])) /\ UNCHANGED <<map, refs>>
    /\ calls' = [calls EXCEPT ![s] = Front(@)]
    /\ UNCHANGED <<poolVars, scratch, inherited>>

-----------------------------------------------------------------------------
(* Scratch memory.                                                         *)

\* push_alloc.  The padding is computed before reserve, for where the bytes are
\* then: the address from, kept in the frame.
PushAlloc(s, l) ==
    LET c == scratch[s]
        pad == (-(c.base + c.len)) % l.align
        need == pad + l.size
    IN
    /\ status[s] = "open"
    /\ Len(calls[s]) < MaxDepth
    /\ \E d \in Reserved(c, need) :
        /\ scratch' = [scratch EXCEPT ![s] = [d EXCEPT !.len = c.len + need]]
        /\ calls' = [calls EXCEPT ![s] =
                       Append(Carried(@, c, d),
                              [kind |-> "alloc", addr |-> d.base + c.len + pad,
                               layout |-> l, inside |-> TRUE, from |-> c.base])]
    /\ UNCHANGED <<poolVars, status, shareVars, writer>>

\* pop_alloc of the last allocation, when its user is done or unwound: the
\* length goes back to where it starts, unless it is not in the buffer.
PopAlloc(s) ==
    LET c == scratch[s]
        start == Top(s).addr - c.base
        size == Top(s).layout.size
    IN
    /\ Open(s, "alloc")
    /\ calls' = [calls EXCEPT ![s] = Front(@)]
    /\ IF start >= 0 /\ start < c.len /\ start + size <= c.len
       THEN /\ scratch' = [scratch EXCEPT ![s].len = start]
            /\ IF status[s] = "failing" THEN Fails(s, Front(calls[s])) ELSE UNCHANGED status
       ELSE Fails(s, Front(calls[s])) /\ UNCHANGED scratch
    /\ UNCHANGED <<poolVars, shareVars, writer>>

-----------------------------------------------------------------------------
Next ==
    \/ DropPool
    \/ \E s \in Serializers :
        \/ Get(s)
        \/ Release(s)
        \/ Fail(s)
        \/ Unwind(s)
        \/ Write(s)
        \/ \E a \in Addresses : StartSharing(s, a)
        \/ FinishSharing(s)
        \/ \E l \in Layouts : PushAlloc(s, l)
        \/ PopAlloc(s)

Spec == Init /\ [][Next]_vars
-----------------------------------------------------------------------------
Frames ==
    [kind : {"share"}, addr : Addresses]
      \cup [kind : {"alloc"}, addr : Nat, layout : Layouts, inside : BOOLEAN, from : Nat]

ScratchBuffers ==
    {c \in [base : Bases \cup {Dangling}, cap : 0 .. MaxCap, len : 0 .. MaxCap] :
        c.len <= c.cap /\ (c.base = Dangling <=> c.cap = 0)}

Maps == [Addresses -> {Vacant, None} \cup {Flip(pos) : pos \in 0 .. MaxLen}]
Placed == Addresses \X (0 .. MaxLen)

\* The types of all variables; the queues are within their capacity.
TypeOK ==
    /\ pool \in BOOLEAN
    /\ unify \in Seq(Maps) /\ Len(unify) <= Capacity
    /\ scratches \in Seq(ScratchBuffers) /\ Len(scratches) <= Capacity
    /\ status \in [Serializers -> {"none", "open", "failing"}]
    /\ map \in [Serializers -> Maps]
    /\ writer \in [Serializers -> 0 .. MaxLen]
    /\ scratch \in [Serializers -> ScratchBuffers]
    /\ calls \in [Serializers -> Seq(Frames)]
    /\ inherited \in [Serializers -> SUBSET Addresses]
    /\ written \in [Serializers -> SUBSET Placed]
    /\ refs \in [Serializers -> SUBSET Placed]

\* finish_sharing never answers NotStarted or AlreadyFinished: a shared value
\* that is being serialized is entered in the map and not yet finished, and is
\* being serialized once, whatever the map brought along and however earlier
\* calls on the serializer failed.
FinishNeverFails ==
    \A s \in Serializers : \A i \in DOMAIN calls[s] :
        calls[s][i].kind = "share" =>
            /\ map[s][calls[s][i].addr] = None
            /\ \A j \in DOMAIN calls[s] :
                 calls[s][j] = calls[s][i] => i = j

\* A shared value is written once into a buffer, and every pointer to it is a
\* pointer to that place, if the map did not know it from the start.
FreshMapsResolve ==
    \A s \in Serializers :
        /\ \A r \in refs[s] : r[1] \notin inherited[s] => r \in written[s]
        /\ \A v, w \in written[s] : v[1] = w[1] => v = w

\* A pointer in a serialized buffer points at the value it is a pointer to: the
\* buffer read back is the value that was serialized, as the tests of the pool
\* assert of every buffer they get from it.
ReferencesResolve == \A s \in Serializers : refs[s] \subseteq written[s]

Bytes(f) == f.addr .. f.addr + f.layout.size - 1

\* Where the padding of an allocation is what its place asks for: the push left the
\* scratch buffer at base, or moved it there from bytes that were aligned alike.
PadFits(f, base) ==
    f.from = base \/ (f.from # Dangling /\ Alignment % f.layout.align = 0)

\* The allocations handed out since the scratch buffer last moved lie within
\* its length and apart from each other, however pushes, pops and unwinding
\* alternate.  They are aligned where their push left the buffer in its place; where
\* it moved it, only if the layout asks for no more than ALIGNMENT.
ScratchIsUnaliased ==
    \A s \in Serializers :
        LET c == scratch[s]
            open == {i \in DOMAIN calls[s] : calls[s][i].kind = "alloc" /\ calls[s][i].inside}
        IN  \A i \in open :
              LET f == calls[s][i] IN
              /\ Bytes(f) \subseteq c.base .. c.base + c.len - 1
              /\ PadFits(f, c.base) => f.addr % f.layout.align = 0
              /\ \A j \in open : i # j => Bytes(f) \cap Bytes(calls[s][j]) = {}

\* push_alloc returns memory that fits the layout it was asked for.
PushedFitsLayout ==
    \A s \in Serializers : \A i \in DOMAIN calls[s] :
        LET f == calls[s][i] IN
        f.kind = "alloc" => f.addr % f.layout.align = 0
-----------------------------------------------------------------------------
(* What the serializers are to rkyv's shared values.                       *)

\* What a sharing map says: which addresses have no position, and which have
\* which.
Pending(m) == {a \in Addresses : m[a] = None}
Known(m) == {<<a, Flip(m[a])>> : a \in {b \in Addresses : m[b] > None}}
TableOf(m) == [pending |-> Pending(m), known |-> Known(m)]

\* The shared values that the calls of a stack are writing.
Being(cs) == {cs[i].addr : i \in {j \in DOMAIN cs : cs[j].kind = "share"}}

Exists    == [s \in Serializers |-> status[s] # "none"]
PendingAt == [s \in Serializers |-> Pending(map[s])]
KnownAt   == [s \in Serializers |-> Known(map[s])]
BeingAt   == [s \in Serializers |-> Being(calls[s])]
Left      == {TableOf(m) : m \in Range(unify)}

Shared == INSTANCE SharedValues WITH
    exists <- Exists, pending <- PendingAt, known <- KnownAt, being <- BeingAt,
    length <- writer, left <- Left

\* To rkyv a serializer is a table of its shared values, new or left by another:
\* finish_sharing never fails, a value whose position is known or that is being
\* written is not written again, every pointer goes to a position the table was
\* told for its address, and neither a failure, nor the scratch memory, nor the
\* way through the pool changes what a table says.
ImplementsSharedValues == Shared!Spec
=============================================================================
