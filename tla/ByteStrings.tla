---------------------------- MODULE ByteStrings ----------------------------
(***************************************************************************)
(* What the buffers of aligned-buffer are to their users: values.  A       *)
(* unique buffer is a string of bytes its owner edits, a shared one a      *)
(* string nobody can change, and no two buffers have anything to do with   *)
(* each other once they exist.                                             *)
(***************************************************************************)
EXTENDS Integers, Sequences

CONSTANTS Handles, Bytes

VARIABLES kind,    \* per buffer: none, unique or shared
          value    \* per buffer: its bytes

valueVars == <<kind, value>>

Init ==
    /\ kind = [h \in Handles |-> "none"]
    /\ value = [h \in Handles |-> <<>>]

Becomes(h, k, v) ==
    /\ kind' = [kind EXCEPT ![h] = k]
    /\ value' = [value EXCEPT ![h] = v]

\* A new buffer is empty, also one made of memory another buffer had.
Create(h) == Becomes(h, "unique", <<>>)

\* Bytes are added, as many as the value then has more.
Extend(h) ==
    /\ kind[h] = "unique"
    /\ \E s \in [1 .. Len(value'[h]) - Len(value[h]) -> Bytes] :
         Becomes(h, "unique", value[h] \o s)

\* The bytes of another buffer are added, or a part of them begins a new one.
Join(h, g) == kind[h] = "unique" /\ Becomes(h, "unique", value[h] \o value[g])

CopyPart(h, g) ==
    /\ kind[h] = "none"
    /\ \E i, j \in 0 .. Len(value[g]) : Becomes(h, "unique", SubSeq(value[g], i + 1, j))

Cut(h) ==
    /\ kind[h] = "unique"
    /\ \E n \in 0 .. Len(value[h]) : Becomes(h, "unique", SubSeq(value[h], 1, n))

Overwrite(h) ==
    /\ kind[h] = "unique"
    /\ \E i \in DOMAIN value[h], x \in Bytes :
         Becomes(h, "unique", [value[h] EXCEPT ![i] = x])

Share(h) == kind[h] = "unique" /\ Becomes(h, "shared", value[h])

Unshare(h) == kind[h] = "shared" /\ Becomes(h, "unique", value[h])

Copy(h, g) == kind[h] = "shared" /\ kind[g] = "none" /\ Becomes(g, "shared", value[h])

Discard(h) == Becomes(h, "none", <<>>)

\* The calls on one buffer, which may read another one.
CallOf(h) ==
    \/ Create(h) \/ Extend(h) \/ Cut(h) \/ Overwrite(h)
    \/ Share(h) \/ Unshare(h) \/ Discard(h)
    \/ \E g \in Handles : Copy(h, g) \/ Join(h, g) \/ CopyPart(h, g)

Next == \E h \in Handles : CallOf(h)

Spec == Init /\ [][Next]_valueVars
=============================================================================
