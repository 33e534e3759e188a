---------------------------- MODULE SharedValues ----------------------------
(***************************************************************************)
(* What the serializers of aligned-buffer-pool do for the shared values    *)
(* that rkyv writes: a table of the addresses of which the value is being  *)
(* written, and of those of which the position is known.  Telling the      *)
(* table a position never fails, and a pointer is only written to a        *)
(* position that was told for its address.  A table may be one that an     *)
(* earlier serializer has left, with all it says.                          *)
(*                                                                         *)
(* There is no scratch memory, no encoding of positions, no pool and no    *)
(* stack of calls: an error is only that a value is not written to its end.*)
(***************************************************************************)
EXTENDS Naturals

CONSTANTS Serializers, Addresses

VARIABLES
    exists,    \* per serializer: it exists
    pending,   \* per serializer: addresses entered without a position
    known,     \* per serializer: addresses with their positions, <<address, position>>
    being,     \* per serializer: addresses whose values are being written
    length,    \* per serializer: how much is written
    written,   \* per serializer: the shared values written, with their positions
    refs,      \* per serializer: the pointers written, with their targets
    left       \* the tables that serializers have left and that are still kept

tables == <<pending, known>>
values == <<written, refs>>
sharedVars == <<exists, tables, being, length, values, left>>

Table(p, k) == [pending |-> p, known |-> k]
NewTable == Table({}, {})

Init ==
    /\ exists = [s \in Serializers |-> FALSE]
    /\ pending = [s \in Serializers |-> {}]
    /\ known = [s \in Serializers |-> {}]
    /\ being = [s \in Serializers |-> {}]
    /\ length = [s \in Serializers |-> 0]
    /\ written = [s \in Serializers |-> {}]
    /\ refs = [s \in Serializers |-> {}]
    /\ left = {}

Unknown(s, a) == a \notin pending[s] /\ \A k \in known[s] : k[1] # a

\* A serializer has a new table or one that was left, and nothing else.
Begin(s) ==
    /\ ~exists[s]
    /\ being[s] = {} /\ length[s] = 0 /\ written[s] = {} /\ refs[s] = {}
    /\ exists' = [exists EXCEPT ![s] = TRUE]
    /\ \E t \in left \cup {NewTable} :
         /\ pending' = [pending EXCEPT ![s] = t.pending]
         /\ known' = [known EXCEPT ![s] = t.known]
    /\ left' \subseteq left
    /\ UNCHANGED <<being, length, values>>

\* Between two calls a serializer may go, and its table may be kept.
End(s) ==
    /\ exists[s] /\ being[s] = {}
    /\ left' \subseteq left \cup {Table(pending[s], known[s])}
    /\ exists' = [exists EXCEPT ![s] = FALSE]
    /\ pending' = [pending EXCEPT ![s] = {}]
    /\ known' = [known EXCEPT ![s] = {}]
    /\ length' = [length EXCEPT ![s] = 0]
    /\ written' = [written EXCEPT ![s] = {}]
    /\ refs' = [refs EXCEPT ![s] = {}]
    /\ UNCHANGED being

\* Tables that were left may be forgotten at any time.
Forget ==
    /\ left' \subseteq left
    /\ UNCHANGED <<exists, tables, being, length, values>>

\* A pointer to a value the table has nothing of: it is entered, and its value
\* is to be written.
Start(s, a) ==
    /\ exists[s] /\ Unknown(s, a)
    /\ pending' = [pending EXCEPT ![s] = @ \cup {a}]
    /\ being' = [being EXCEPT ![s] = @ \cup {a}]
    /\ UNCHANGED <<exists, known, length, values, left>>

\* The value is written, its position becomes known, and the pointer is written.
Place(s, a) ==
    LET here == <<a, length[s]>> IN
    /\ exists[s] /\ a \in being[s] \cap pending[s]
    /\ being' = [being EXCEPT ![s] = @ \ {a}]
    /\ pending' = [pending EXCEPT ![s] = @ \ {a}]
    /\ known' = [known EXCEPT ![s] = @ \cup {here}]
    /\ written' = [written EXCEPT ![s] = @ \cup {here}]
    /\ refs' = [refs EXCEPT ![s] = @ \cup {here}]
    /\ length' = [length EXCEPT ![s] = @ + 1]
    /\ UNCHANGED <<exists, left>>

\* An error: the value is not written to its end, and stays pending.
Abandon(s, a) ==
    /\ a \in being[s] \cap pending[s]
    /\ being' = [being EXCEPT ![s] = @ \ {a}]
    /\ UNCHANGED <<exists, tables, length, values, left>>

\* A pointer to a value whose position is known.
Point(s) ==
    /\ exists[s]
    /\ \E k \in known[s] : refs' = [refs EXCEPT ![s] = @ \cup {k}]
    /\ UNCHANGED <<exists, tables, being, length, written, left>>

\* Anything that is not shared is written.
Write(s) ==
    /\ exists[s]
    /\ length' = [length EXCEPT ![s] = @ + 1]
    /\ UNCHANGED <<exists, tables, being, values, left>>

StepOf(s) ==
    \/ Begin(s) \/ End(s) \/ Point(s) \/ Write(s)
    \/ \E a \in Addresses : Start(s, a) \/ Place(s, a) \/ Abandon(s, a)

Next == Forget \/ \E s \in Serializers : StepOf(s)

Spec == Init /\ [][Next]_sharedVars
=============================================================================
