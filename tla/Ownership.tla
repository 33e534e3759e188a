----------------------------- MODULE Ownership -----------------------------
(***************************************************************************)
(* What the handles of aligned-buffer promise, with no counter, no memory  *)
(* order and no thread in sight: a block of memory is held either by one   *)
(* handle that may write it or by any number that may only read it, a      *)
(* handle points to at most one block, and the memory goes back to the     *)
(* allocator, or becomes a fresh exclusive handle, only when nobody holds  *)
(* it any more.                                                            *)
(***************************************************************************)
EXTENDS FiniteSets

CONSTANTS Handles, Blocks

VARIABLES mode,     \* per block: free, exclusive, shared or unheld
          holders   \* per block: the handles that point to it

ownershipVars == <<mode, holders>>

Modes == {"free", "exclusive", "shared", "unheld"}

Unattached(h) == \A b \in Blocks : h \notin holders[b]

Init ==
    /\ mode = [b \in Blocks |-> "free"]
    /\ holders = [b \in Blocks |-> {}]

\* A handle gets a block of its own: a new one, or one nobody holds.
Acquire(h, b) ==
    /\ mode[b] \in {"free", "unheld"}
    /\ Unattached(h)
    /\ mode' = [mode EXCEPT ![b] = "exclusive"]
    /\ holders' = [holders EXCEPT ![b] = {h}]

\* An exclusive handle trades its block for a larger or smaller one.
Move(h, b, c) ==
    /\ mode[b] = "exclusive" /\ h \in holders[b]
    /\ mode[c] = "free"
    /\ mode' = [mode EXCEPT ![b] = "free", ![c] = "exclusive"]
    /\ holders' = [holders EXCEPT ![b] = {}, ![c] = {h}]

\* Write access is given up for good, until Claim.
Share(b) ==
    /\ mode[b] = "exclusive"
    /\ mode' = [mode EXCEPT ![b] = "shared"]
    /\ UNCHANGED holders

\* One more reader; it joins those that are there.
Join(h, b) ==
    /\ mode[b] = "shared" /\ holders[b] # {}
    /\ Unattached(h)
    /\ holders' = [holders EXCEPT ![b] = @ \cup {h}]
    /\ UNCHANGED mode

\* The only reader takes write access back.
Claim(h, b) ==
    /\ mode[b] = "shared" /\ holders[b] = {h}
    /\ mode' = [mode EXCEPT ![b] = "exclusive"]
    /\ UNCHANGED holders

\* A holder lets go; the last one leaves the block unheld.
Leave(h, b) ==
    /\ h \in holders[b]
    /\ holders' = [holders EXCEPT ![b] = @ \ {h}]
    /\ mode' = [mode EXCEPT ![b] = IF holders[b] = {h} THEN "unheld" ELSE @]

\* The allocator takes back what nobody holds.
Reclaim(b) ==
    /\ mode[b] = "unheld"
    /\ mode' = [mode EXCEPT ![b] = "free"]
    /\ UNCHANGED holders

Next ==
    \E b \in Blocks :
        \/ Share(b)
        \/ Reclaim(b)
        \/ \E h \in Handles : Acquire(h, b) \/ Join(h, b) \/ Claim(h, b)
                                 \/ Leave(h, b)
        \/ \E h \in Handles, c \in Blocks : Move(h, b, c)

Spec == Init /\ [][Next]_ownershipVars
=============================================================================
