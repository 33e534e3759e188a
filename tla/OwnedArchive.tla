---------------------------- MODULE OwnedArchive ----------------------------
(***************************************************************************)
(* rkyv-owned-archive on top of aligned-buffer, and the buffers' own rkyv  *)
(* traits: buffers are serialized into a buffer, a buffer becomes an       *)
(* archive, archives are mapped to parts of themselves, cloned, and        *)
(* deserialized back into buffers.                                         *)
(*                                                                         *)
(* An OwnedArchive is a shared buffer and the position of a value in it.   *)
(* The position is computed from addresses once and trusted by every deref *)
(* from then on, wherever the handle has moved, whatever its clones and    *)
(* the buffers it was made from are used for.                              *)
(*                                                                         *)
(* rkyv is external: its check of the bytes accepts or rejects.            *)
(***************************************************************************)
EXTENDS AlignedBuffer

CONSTANTS
    Sizes,       \* the sizes of archived types
    NoArchive    \* a handle that is no archive

ASSUME ArchiveAssumption ==
    /\ Sizes \subseteq Nat
    /\ NoArchive \notin [pos : Nat, size : Nat, seen : Seq(Bytes \cup {Junk})]

VARIABLE archive   \* per handle: position and size of its value, if it is one

archiveVars == <<vars, archive>>

Bare(h) == archive[h] = NoArchive

\* What deref reads: size bytes from pos on, unchecked.
Resolved(h, pos, size) ==
    [i \in 1 .. size |->
        IF Allocated(h) /\ pos + i \in DOMAIN data[buf[h]]
        THEN data[buf[h]][pos + i] ELSE Junk]

\* An archive and, for the property below, the bytes that were there when its
\* value was checked or pointed to.
Archive(h, pos, size) == [pos |-> pos, size |-> size, seen |-> Resolved(h, pos, size)]

ArchiveInit == Init /\ archive = [h \in Handles |-> NoArchive]

-----------------------------------------------------------------------------
(* Slips this code could have made, one for each property below: no part   *)
(* of ArchiveNext.                                                         *)

\* Mutant: only the first byte of the new value is looked for in the buffer.
MapUnbounded(h, start, size) ==
    /\ ~Bare(h)
    /\ start \in 0 .. LenOf(h)
    /\ archive' = [archive EXCEPT ![h] = Archive(h, start, size)]
    /\ UNCHANGED vars

\* Mutant: deserialize copies one byte too many, from the first byte of the
\* buffer to the one behind the value.
DeserializeFromStart(h, g) ==
    LET n == archive[h].pos + archive[h].size + 1 IN
    /\ ~Bare(h) /\ kind[g] = "none"
    /\ Obtainable(n)
    /\ kind' = [kind EXCEPT ![g] = "unique"]
    /\ \E r \in Rooms(g, n) :
         Settle(g, n, r, Written(Carried(g, r.cap), 0, Resolved(h, 0, n)))
    /\ len' = [len EXCEPT ![g] = n]
    /\ UNCHANGED <<panicked, archive>>

\* Mutant: the buffer is written where the bytes end, not where they end once
\* its alignment has been reserved for.
SerializeOverCapacity(h, w) ==
    /\ h # w /\ Bare(h) /\ Bare(w)
    /\ kind[h] # "none" /\ kind[w] = "unique"
    /\ len' = [len EXCEPT ![w] = @ + LenOf(h)]
    /\ UNCHANGED <<kind, buf, cap_or_len, blockVars, panicked, archive>>

\* Mutant: a map that fails forgets the buffer it took out of the archive.
DropArchiveForgets(h) ==
    /\ ~Bare(h)
    /\ Leaves(h)
    /\ archive' = [archive EXCEPT ![h] = NoArchive]
    /\ UNCHANGED <<ref_count, live, alloc_size, fit, data>>

-----------------------------------------------------------------------------
(* From buffers to archives.                                               *)

\* Serialize for a buffer first aligns the writer, which writes padding,
AlignWriter(w) ==
    /\ Bare(w)
    /\ \E s \in [1 .. PaddingNeededFor(len[w], ALIGNMENT) -> Bytes] : Extend(w, s)
    /\ UNCHANGED archive

\* then takes the position and writes its bytes there.
Serialize(h, w) ==
    /\ h # w /\ Bare(h) /\ Bare(w)
    /\ kind[h] # "none"
    /\ len[w] % ALIGNMENT = 0
    /\ Extend(w, BytesOf(h))
    /\ UNCHANGED archive

\* new_with_pos and its variants with a context or a pooled validator, when the
\* bytes pass; new_unchecked_with_pos, whose caller promises that they would.
\* The check never accepts a value that is not inside the buffer.
NewWithPos(h, pos, size) ==
    /\ kind[h] = "shared" /\ Bare(h)
    /\ pos + size <= LenOf(h)
    /\ archive' = [archive EXCEPT ![h] = Archive(h, pos, size)]
    /\ UNCHANGED vars

\* new and its variants look for the value at the end of the buffer.
NewAtEnd(h, size) == NewWithPos(h, Larger(0, LenOf(h) - size), size)

-----------------------------------------------------------------------------
(* Archives.                                                               *)

\* map, map_with_buffer and their try_ twins: f points to a value of size bytes
\* that begins start bytes behind the first byte of the buffer; in the buffer,
\* or before or behind it when f returns something static.  Both ends must be
\* in the buffer for the call to come back.
Map(h, start, size) ==
    /\ ~Bare(h)
    /\ start \in 0 .. LenOf(h)
    /\ start + size \in 0 .. LenOf(h)
    /\ archive' = [archive EXCEPT ![h] = Archive(h, start, size)]
    /\ UNCHANGED vars

\* clone: a clone of the buffer and the same position.
CloneArchive(h, g) ==
    /\ ~Bare(h)
    /\ Clone(h, g)
    /\ archive' = [archive EXCEPT ![g] = archive[h]]

\* deserialize of an archived buffer: with_capacity of the exact size, and the
\* bytes, which then need no more room.
Deserialize(h, g) ==
    LET n == archive[h].size IN
    /\ ~Bare(h)
    /\ IF n = 0
       THEN New(g)
       ELSE /\ kind[g] = "none"
            /\ Obtainable(n)
            /\ kind' = [kind EXCEPT ![g] = "unique"]
            /\ \E r \in Rooms(g, n) :
                 Settle(g, n, r,
                        Written(Carried(g, r.cap), 0, Resolved(h, archive[h].pos, n)))
            /\ len' = [len EXCEPT ![g] = n]
            /\ UNCHANGED panicked
    /\ UNCHANGED archive

\* The end of an archive: it is dropped, or its map panics, at f or at one of
\* the assertions behind it, or try_map's f fails.
DropArchive(h) ==
    /\ ~Bare(h)
    /\ DropUnallocated(h) \/ DropOneOfMany(h) \/ DropLast(h) \/ DropLastAndReuse(h)
    /\ archive' = [archive EXCEPT ![h] = NoArchive]

-----------------------------------------------------------------------------
ArchiveNext ==
    \E h \in Handles :
        \* The buffers; a rejected new drops its buffer like anybody else.
        \/ Bare(h) /\ HandleNext(h) /\ UNCHANGED archive
        \/ AlignWriter(h)
        \/ \E w \in Handles : Serialize(h, w)
        \/ \E size \in Sizes : NewAtEnd(h, size)
        \/ \E pos \in 0 .. Limit, size \in Sizes : NewWithPos(h, pos, size)
        \/ \E start \in -1 .. Limit, size \in Sizes : Map(h, start, size)
        \/ \E g \in Handles : CloneArchive(h, g) \/ Deserialize(h, g)
        \/ DropArchive(h)

ArchiveSpec == ArchiveInit /\ [][ArchiveNext]_archiveVars

-----------------------------------------------------------------------------
\* An archive always derefs to the value that was checked, inside the bytes its
\* buffer shows: whatever is done with its clones, with buffers that share its
\* memory, with the memory when others give it back, and through any chain of
\* maps.
ArchivesResolve ==
    \A h \in Handles : ~Bare(h) =>
        /\ kind[h] = "shared"
        /\ archive[h].pos + archive[h].size <= LenOf(h)
        /\ Resolved(h, archive[h].pos, archive[h].size) = archive[h].seen
=============================================================================
