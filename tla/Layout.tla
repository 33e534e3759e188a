------------------------------- MODULE Layout -------------------------------
(***************************************************************************)
(* The word arithmetic under aligned-buffer's allocations: where the bytes *)
(* of a buffer begin behind its header, how large a buffer can get, and    *)
(* the word that holds a capacity and, in its top bit, whether anything    *)
(* is allocated.                                                           *)
(*                                                                         *)
(* Words have Word == 2 * TagBit values (usize; TagBit - 1 is isize::MAX). *)
(* Alignments are powers of two; what the arithmetic needs of them is that *)
(* each divides the larger ones and the word, so x & !(a - 1) is           *)
(* x - x % a.                                                              *)
(***************************************************************************)
EXTENDS Integers

CONSTANTS
    TagBit,        \* TaggedCap::TAG
    HeaderSize,    \* size_of::<Header>(), a multiple of its alignment
    HeaderAlign,   \* align_of::<Header>()
    ALIGNMENT,     \* the alignment of the buffer's bytes
    Reserved,      \* the 64 bytes MAX_CAPACITY sets aside
    Narrow         \* usize::BITS < 64: alloc_guard checks

Larger(a, b) == IF a > b THEN a ELSE b

Word == 2 * TagBit

-----------------------------------------------------------------------------
(* TaggedCap.                                                              *)

MAX_VALUE == TagBit - 1

Value(w) == w % TagBit
IsAllocated(w) == w >= TagBit

WithValue(w, v) == (w - Value(w)) + (v % TagBit)

\* The tag comes from a carry: TAG - 1 + allocated, masked.
WithAllocated(w, allocated) ==
    LET carry == (TagBit - 1) + (IF allocated THEN 1 ELSE 0)
    IN  Value(w) + (carry - (carry % TagBit))

Zero == 0
TaggedCap(v, allocated) == WithAllocated(WithValue(Zero, v), allocated)

-----------------------------------------------------------------------------
(* LayoutHelper, which is std's Layout in const form.                      *)

\* The safe constructors accept sizes that do not pass isize::MAX when they
\* are rounded up to the alignment.
IsLayout(size, align) == size <= TagBit - align

\* size rounded up to align, minus size, in wrapping arithmetic.
PaddingNeededFor(size, align) ==
    LET bumped == (size + align - 1) % Word
    IN  ((bumped - (bumped % align)) - size) % Word

\* extend: where the second part goes, and whether there is a layout that has
\* both, with two checked additions and the safe constructor.
ExtendOffset(size, nextAlign) == size + PaddingNeededFor(size, nextAlign)

CanExtend(size, align, nextSize, nextAlign) ==
    LET offset == ExtendOffset(size, nextAlign) IN
    /\ offset < Word
    /\ offset + nextSize < Word
    /\ IsLayout(offset + nextSize, Larger(align, nextAlign))

-----------------------------------------------------------------------------
(* The layout of a buffer.                                                 *)

BUFFER_OFFSET == ExtendOffset(HeaderSize, ALIGNMENT)

MAX_CAPACITY == MAX_VALUE - BUFFER_OFFSET - Reserved

\* layout(size): the bytes as a layout of their own, made without a check, then
\* the header in front of them.  The unchecked constructor asks its caller for
\* IsLayout; what a size without it would give is not defined, and no layout.
HasLayout(size) ==
    /\ IsLayout(size, ALIGNMENT)
    /\ CanExtend(HeaderSize, HeaderAlign, size, ALIGNMENT)

\* The size and the alignment of that layout.
LayoutSize(size) == BUFFER_OFFSET + size
LayoutAlign == Larger(HeaderAlign, ALIGNMENT)

\* alloc_guard: where the whole address range can be in use, a second limit.
PassesGuard(size) == Narrow => LayoutSize(size) - HeaderSize <= MAX_CAPACITY

-----------------------------------------------------------------------------
(* What the types of the code make true of the constants.                  *)

ASSUME LayoutAssumption ==
    /\ TagBit \in Nat /\ HeaderSize \in Nat /\ Reserved \in Nat
    /\ Narrow \in BOOLEAN
    /\ HeaderAlign \in Nat \ {0} /\ ALIGNMENT \in Nat \ {0}
    /\ HeaderSize % HeaderAlign = 0
    /\ LayoutAlign % HeaderAlign = 0 /\ LayoutAlign % ALIGNMENT = 0
    /\ TagBit % LayoutAlign = 0
    \* BUFFER_OFFSET and MAX_CAPACITY compile, and one byte has a layout.
    /\ HeaderSize + 2 * LayoutAlign < TagBit
    /\ HeaderSize + LayoutAlign + Reserved < TagBit

\* The largest buffer that has a layout.
Limit == TagBit - BUFFER_OFFSET - LayoutAlign
=============================================================================
