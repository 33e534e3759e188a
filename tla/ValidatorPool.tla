---------------------------- MODULE ValidatorPool ----------------------------
(***************************************************************************)
(* The validators of aligned-buffer-pool.                                  *)
(*                                                                         *)
(* A PooledValidator checks the archives in one byte slice.  For every     *)
(* shared pointer rkyv asks its SharedValidator start_shared; the value    *)
(* behind the pointer is checked the first time and skipped after that.    *)
(* The map it keeps is taken from the pool's queue and put back, emptied,  *)
(* when the validator is dropped, and the next validator may check other   *)
(* bytes at the same addresses: a pooled buffer is soon reused.            *)
(***************************************************************************)
EXTENDS Integers, Sequences, SequencesExt

CONSTANTS
    Validators,  \* the PooledValidator values there can be at once
    Addresses,   \* the addresses shared pointers point to
    Types,       \* the TypeIds of what they point to
    Capacity,    \* the capacity the pool was made with
    MaxDepth     \* bound: how deep shared values nest

ASSUME ValidatorAssumption == Capacity \in Nat \ {0}

VARIABLES
    pool,     \* the Arc of the pool still has a ValidatorPool
    queue,    \* its queue of SharedValidators
    exists,   \* per validator: it exists
    shared,   \* per validator: the entries of its map
    calls,    \* per validator: the shared values being checked, outermost first
    passed,   \* per validator: the values that were checked and found valid
    skipped   \* per validator: the values accepted because they were finished

vars == <<pool, queue, exists, shared, calls, passed, skipped>>

\* A map is the set of its entries (address, type_id, finished).
Entry(a, ty, done) == [address |-> a, type_id |-> ty, finished |-> done]
EntryAt(v, a) == {e \in shared[v] : e.address = a}

Init ==
    /\ pool = TRUE
    /\ queue = <<>>
    /\ exists = [v \in Validators |-> FALSE]
    /\ shared = [v \in Validators |-> {}]
    /\ calls = [v \in Validators |-> <<>>]
    /\ passed = [v \in Validators |-> {}]
    /\ skipped = [v \in Validators |-> {}]

-----------------------------------------------------------------------------
(* Slips this code could have made, one for each property below: no part   *)
(* of Next.                                                                *)

\* Mutant: the map goes back as it is.
DropUncleared(v) ==
    /\ exists[v] /\ calls[v] = <<>>
    /\ queue' = IF pool /\ Len(queue) < Capacity THEN Append(queue, shared[v]) ELSE queue
    /\ exists' = [exists EXCEPT ![v] = FALSE]
    /\ shared' = [shared EXCEPT ![v] = {}]
    /\ passed' = [passed EXCEPT ![v] = {}]
    /\ skipped' = [skipped EXCEPT ![v] = {}]
    /\ UNCHANGED <<pool, calls>>

\* Mutant: the pool's queue is not bounded.
DropUnbounded(v) ==
    /\ exists[v] /\ calls[v] = <<>>
    /\ queue' = IF pool THEN Append(queue, {}) ELSE queue
    /\ exists' = [exists EXCEPT ![v] = FALSE]
    /\ shared' = [shared EXCEPT ![v] = {}]
    /\ passed' = [passed EXCEPT ![v] = {}]
    /\ skipped' = [skipped EXCEPT ![v] = {}]
    /\ UNCHANGED <<pool, calls>>

\* Mutant: the map is looked up by address and type together.
StartSharedTyped(v, a, ty) ==
    /\ exists[v]
    /\ Len(calls[v]) < MaxDepth
    /\ \/ /\ Entry(a, ty, FALSE) \notin shared[v] /\ Entry(a, ty, TRUE) \notin shared[v]
          /\ shared' = [shared EXCEPT ![v] = @ \cup {Entry(a, ty, FALSE)}]
          /\ calls' = [calls EXCEPT ![v] = Append(@, <<a, ty>>)]
          /\ UNCHANGED skipped
       \/ /\ Entry(a, ty, FALSE) \in shared[v]
          /\ calls' = [calls EXCEPT ![v] = <<>>]
          /\ UNCHANGED <<shared, skipped>>
       \/ /\ Entry(a, ty, TRUE) \in shared[v]
          /\ skipped' = [skipped EXCEPT ![v] = @ \cup {<<a, ty>>}]
          /\ UNCHANGED <<shared, calls>>
    /\ UNCHANGED <<pool, queue, exists, passed>>

\* Mutant: a value is entered as finished when its check begins.
StartSharedFinished(v, a, ty) ==
    /\ exists[v]
    /\ Len(calls[v]) < MaxDepth
    /\ \/ /\ EntryAt(v, a) = {}
          /\ shared' = [shared EXCEPT ![v] = @ \cup {Entry(a, ty, TRUE)}]
          /\ calls' = [calls EXCEPT ![v] = Append(@, <<a, ty>>)]
          /\ UNCHANGED skipped
       \/ /\ \E e \in EntryAt(v, a) : e.type_id # ty
          /\ calls' = [calls EXCEPT ![v] = <<>>]
          /\ UNCHANGED <<shared, skipped>>
       \/ /\ Entry(a, ty, TRUE) \in shared[v]
          /\ skipped' = [skipped EXCEPT ![v] = @ \cup {<<a, ty>>}]
          /\ UNCHANGED <<shared, calls>>
    /\ UNCHANGED <<pool, queue, exists, passed>>

-----------------------------------------------------------------------------
\* validator and validator_with_max_depth: a map from the queue, or a new one.
Get(v) ==
    /\ pool
    /\ ~exists[v]
    /\ exists' = [exists EXCEPT ![v] = TRUE]
    /\ shared' = [shared EXCEPT ![v] = IF queue = <<>> THEN {} ELSE Head(queue)]
    /\ queue' = IF queue = <<>> THEN <<>> ELSE Tail(queue)
    /\ UNCHANGED <<pool, calls, passed, skipped>>

\* The drop of a validator.  If the pool is gone the map goes with it.
Drop(v) ==
    /\ exists[v] /\ calls[v] = <<>>
    /\ queue' = IF pool /\ Len(queue) < Capacity THEN Append(queue, {}) ELSE queue
    /\ exists' = [exists EXCEPT ![v] = FALSE]
    /\ shared' = [shared EXCEPT ![v] = {}]
    /\ passed' = [passed EXCEPT ![v] = {}]
    /\ skipped' = [skipped EXCEPT ![v] = {}]
    /\ UNCHANGED <<pool, calls>>

\* The last ValidatorPool is dropped.
DropPool ==
    /\ pool
    /\ pool' = FALSE
    /\ queue' = <<>>
    /\ UNCHANGED <<exists, shared, calls, passed, skipped>>

\* start_shared, asked when rkyv meets a shared pointer to a ty at a.  Started:
\* the value is checked next.  TypeMismatch, and Pending, which rkyv takes for
\* a cycle, fail the access that is under way; what it entered stays.
\* Finished: the pointer is accepted.
StartShared(v, a, ty) ==
    /\ exists[v]
    /\ Len(calls[v]) < MaxDepth
    /\ \/ /\ EntryAt(v, a) = {}
          /\ shared' = [shared EXCEPT ![v] = @ \cup {Entry(a, ty, FALSE)}]
          /\ calls' = [calls EXCEPT ![v] = Append(@, <<a, ty>>)]
          /\ UNCHANGED skipped
       \/ /\ \E e \in EntryAt(v, a) : e.type_id # ty \/ ~e.finished
          /\ calls' = [calls EXCEPT ![v] = <<>>]
          /\ UNCHANGED <<shared, skipped>>
       \/ /\ Entry(a, ty, TRUE) \in shared[v]
          /\ skipped' = [skipped EXCEPT ![v] = @ \cup {<<a, ty>>}]
          /\ UNCHANGED <<shared, calls>>
    /\ UNCHANGED <<pool, queue, exists, passed>>

\* The value was found valid and finish_shared is told.  No entry is
\* NotStarted, another type TypeMismatch, a finished entry AlreadyFinished.
FinishShared(v) ==
    LET a == Last(calls[v])[1]
        ty == Last(calls[v])[2]
    IN
    /\ exists[v] /\ calls[v] # <<>>
    /\ passed' = [passed EXCEPT ![v] = @ \cup {<<a, ty>>}]
    /\ IF EntryAt(v, a) = {Entry(a, ty, FALSE)}
       THEN /\ shared' = [shared EXCEPT ![v] =
                            (@ \ {Entry(a, ty, FALSE)}) \cup {Entry(a, ty, TRUE)}]
            /\ calls' = [calls EXCEPT ![v] = Front(@)]
       ELSE /\ calls' = [calls EXCEPT ![v] = <<>>]
            /\ UNCHANGED shared
    /\ UNCHANGED <<pool, queue, exists, skipped>>

\* The value being checked is not valid: the access returns the error.  The
\* validator may be used again, with what it has entered.
Invalid(v) ==
    /\ exists[v] /\ calls[v] # <<>>
    /\ calls' = [calls EXCEPT ![v] = <<>>]
    /\ UNCHANGED <<pool, queue, exists, shared, passed, skipped>>

Next ==
    \/ DropPool
    \/ \E v \in Validators :
        \/ Get(v)
        \/ Drop(v)
        \/ \E a \in Addresses, ty \in Types : StartShared(v, a, ty)
        \/ FinishShared(v)
        \/ Invalid(v)

Spec == Init /\ [][Next]_vars
-----------------------------------------------------------------------------
Claims  == Addresses \X Types
Entries == [address : Addresses, type_id : Types, finished : BOOLEAN]

\* The types of all variables; the queue is within its capacity.
TypeOK ==
    /\ pool \in BOOLEAN
    /\ queue \in Seq(SUBSET Entries) /\ Len(queue) <= Capacity
    /\ exists \in [Validators -> BOOLEAN]
    /\ shared \in [Validators -> SUBSET Entries]
    /\ calls \in [Validators -> Seq(Claims)]
    /\ passed \in [Validators -> SUBSET Claims]
    /\ skipped \in [Validators -> SUBSET Claims]

\* A shared pointer is accepted unchecked only if this very validator has
\* checked the value it points to, as a value of the same type, and found it
\* valid: nothing is carried over from a validator that used the map before,
\* or from an access that failed.
SkipsOnlyChecked == \A v \in Validators : skipped[v] \subseteq passed[v]

\* No address is accepted, or is being checked, as a value of two types.
OneTypePerAddress ==
    \A v \in Validators :
        LET claimed == passed[v] \cup skipped[v] \cup Range(calls[v])
        IN  \A x, y \in claimed : x[1] = y[1] => x = y

\* finish_shared never answers NotStarted, TypeMismatch or AlreadyFinished: the
\* values being checked are entered, unfinished, each once.
FinishNeverFails ==
    \A v \in Validators : \A i \in DOMAIN calls[v] :
        /\ EntryAt(v, calls[v][i][1]) = {Entry(calls[v][i][1], calls[v][i][2], FALSE)}
        /\ \A j \in DOMAIN calls[v] : calls[v][i] = calls[v][j] => i = j

\* What a validator has begun to check is what its map has entries for.
Begun == [v \in Validators |-> {<<e.address, e.type_id>> : e \in shared[v]}]

Alone == INSTANCE Validation WITH begun <- Begun

\* The pool cannot be seen: a validator with a map that others have used before
\* behaves like one that never heard of them, after failures of theirs and its
\* own, and finish_shared succeeds whenever it is called.
ImplementsValidation == Alone!Spec

-----------------------------------------------------------------------------
(* Why these hold: the inductive invariant.                                *)

\* The maps in the queue, and those of validators there are not, are empty.
ClearedMaps ==
    /\ \A i \in DOMAIN queue : queue[i] = {}
    /\ \A v \in Validators : ~exists[v] => shared[v] = {} /\ calls[v] = <<>>

\* A map has one entry for an address.
OneEntryEach ==
    \A v \in Validators : \A e, f \in shared[v] : e.address = f.address => e = f

\* The finished entries are the values that have passed.
FinishedHavePassed ==
    \A v \in Validators : \A a \in Addresses, ty \in Types :
        Entry(a, ty, TRUE) \in shared[v] <=> <<a, ty>> \in passed[v]

\* The values being checked are entered, unfinished, each once.
OpenAreEntered ==
    \A v \in Validators : \A i \in DOMAIN calls[v] :
        /\ Entry(calls[v][i][1], calls[v][i][2], FALSE) \in shared[v]
        /\ \A j \in DOMAIN calls[v] : calls[v][i] = calls[v][j] => i = j

IInv == TypeOK /\ ClearedMaps /\ OneEntryEach /\ FinishedHavePassed /\ OpenAreEntered /\ SkipsOnlyChecked
=============================================================================
