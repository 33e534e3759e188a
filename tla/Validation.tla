----------------------------- MODULE Validation -----------------------------
(***************************************************************************)
(* What the validators of aligned-buffer-pool are to rkyv: each begins     *)
(* knowing nothing, takes an address for a value of the type it first met  *)
(* it with, and accepts a pointer unchecked only to what it has itself     *)
(* found valid.  There is no pool, no map that is handed on, and no call   *)
(* that fails because of what somebody else did.                           *)
(***************************************************************************)
EXTENDS Sequences, SequencesExt

CONSTANTS Validators, Addresses, Types

VARIABLES
    exists,    \* per validator: it exists
    begun,     \* per validator: the claims <<address, type>> it has begun to check
    passed,    \* per validator: those it has found valid
    skipped,   \* per validator: those it has accepted without a check
    calls      \* per validator: those it is checking, outermost first

validationVars == <<exists, begun, passed, skipped, calls>>

Init ==
    /\ exists = [v \in Validators |-> FALSE]
    /\ begun = [v \in Validators |-> {}]
    /\ passed = [v \in Validators |-> {}]
    /\ skipped = [v \in Validators |-> {}]
    /\ calls = [v \in Validators |-> <<>>]

\* A new validator knows nothing.
Begin(v) ==
    /\ ~exists[v] /\ begun[v] = {}
    /\ exists' = [exists EXCEPT ![v] = TRUE]
    /\ UNCHANGED <<begun, passed, skipped, calls>>

\* What it knew goes with it.
End(v) ==
    /\ exists[v] /\ calls[v] = <<>>
    /\ exists' = [exists EXCEPT ![v] = FALSE]
    /\ begun' = [begun EXCEPT ![v] = {}]
    /\ passed' = [passed EXCEPT ![v] = {}]
    /\ skipped' = [skipped EXCEPT ![v] = {}]
    /\ UNCHANGED calls

Known(v, a) == {x \in begun[v] : x[1] = a}

\* A pointer to a value nothing is known of: the value is checked.
Check(v, a, ty) ==
    /\ exists[v] /\ Known(v, a) = {}
    /\ begun' = [begun EXCEPT ![v] = @ \cup {<<a, ty>>}]
    /\ calls' = [calls EXCEPT ![v] = Append(@, <<a, ty>>)]
    /\ UNCHANGED <<exists, passed, skipped>>

\* A pointer to a value that was found valid.
Skip(v, a, ty) ==
    /\ exists[v] /\ <<a, ty>> \in passed[v]
    /\ skipped' = [skipped EXCEPT ![v] = @ \cup {<<a, ty>>}]
    /\ UNCHANGED <<exists, begun, passed, calls>>

\* A pointer to a value that is of another type, is being checked, or never
\* passed.
Refuse(v, a, ty) ==
    /\ exists[v] /\ Known(v, a) # {} /\ <<a, ty>> \notin passed[v]
    /\ calls' = [calls EXCEPT ![v] = <<>>]
    /\ UNCHANGED <<exists, begun, passed, skipped>>

\* The innermost value is valid: this never fails.
Pass(v) ==
    /\ calls[v] # <<>>
    /\ passed' = [passed EXCEPT ![v] = @ \cup {Last(calls[v])}]
    /\ calls' = [calls EXCEPT ![v] = Front(@)]
    /\ UNCHANGED <<exists, begun, skipped>>

\* It is not, and the access ends.
Fail(v) ==
    /\ calls[v] # <<>>
    /\ calls' = [calls EXCEPT ![v] = <<>>]
    /\ UNCHANGED <<exists, begun, passed, skipped>>

StepOf(v) ==
    \/ Begin(v) \/ End(v) \/ Pass(v) \/ Fail(v)
    \/ \E a \in Addresses, ty \in Types : Check(v, a, ty) \/ Skip(v, a, ty) \/ Refuse(v, a, ty)

Next == \E v \in Validators : StepOf(v)

Spec == Init /\ [][Next]_validationVars
=============================================================================
