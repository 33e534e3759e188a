-------------------------- MODULE SerializerProofs --------------------------
(***************************************************************************)
(* Serializer is correct for any serializers, addresses, layouts, places   *)
(* of the scratch buffer and capacities.                                   *)
(***************************************************************************)
EXTENDS Serializer, DataLemmas

-----------------------------------------------------------------------------
(* What the operators on frames, maps and scratch buffers return.          *)

LEMMA FrameKinds ==
    ASSUME NEW f \in Frames
    PROVE  /\ f.kind \in {"share", "alloc"}
           /\ f.kind = "share" => f.addr \in Addresses /\ f = Sharing(f.addr)
           /\ f.kind = "alloc" =>
                /\ f.addr \in Nat /\ f.layout \in Layouts /\ f.inside \in BOOLEAN /\ f.from \in Nat
                /\ f.layout.size \in Nat \ {0} /\ f.layout.align \in Nat \ {0}
                /\ [f EXCEPT !.inside = FALSE] \in Frames
<1>1. f.kind \in {"share", "alloc"}
  BY DEF Frames
<1>2. f.kind = "share" => f.addr \in Addresses /\ f = Sharing(f.addr)
  BY DEF Frames, Sharing
<1>3. ASSUME f.kind = "alloc"
      PROVE  /\ f.addr \in Nat /\ f.layout \in Layouts /\ f.inside \in BOOLEAN /\ f.from \in Nat
             /\ [f EXCEPT !.inside = FALSE] \in Frames
  BY <1>3 DEF Frames
<1>4. ASSUME NEW l \in Layouts
      PROVE  l.size \in Nat \ {0} /\ l.align \in Nat \ {0}
  BY SerializerAssumption
<1> QED
  BY <1>1, <1>2, <1>3, <1>4

LEMMA SharingFrame ==
    ASSUME NEW a \in Addresses
    PROVE  Sharing(a) \in Frames /\ Sharing(a).kind = "share" /\ Sharing(a).addr = a
BY DEF Sharing, Frames

\* Moving the scratch buffer marks allocations and leaves the rest alone.
LEMMA CarriedFrames ==
    ASSUME NEW fs \in Seq(Frames), NEW old, NEW new
    PROVE  /\ Carried(fs, old, new) \in Seq(Frames) /\ Len(Carried(fs, old, new)) = Len(fs)
           /\ DOMAIN Carried(fs, old, new) = DOMAIN fs
           /\ old.base = new.base => Carried(fs, old, new) = fs
           /\ \A i \in DOMAIN fs :
                /\ Carried(fs, old, new)[i].kind = fs[i].kind
                /\ fs[i].kind = "share" => Carried(fs, old, new)[i] = fs[i]
                /\ fs[i].kind = "alloc" /\ old.base # new.base => ~Carried(fs, old, new)[i].inside
<1>1. DOMAIN fs = 1 .. Len(fs) /\ Len(fs) \in Nat /\ \A i \in 1 .. Len(fs) : fs[i] \in Frames
  BY LenProperties, ElementOfSeq
<1> DEFINE g == [i \in DOMAIN fs |->
                   IF fs[i].kind = "alloc" THEN [fs[i] EXCEPT !.inside = FALSE] ELSE fs[i]]
<1>2. ASSUME NEW f \in Frames, f.kind = "alloc"
      PROVE  [f EXCEPT !.inside = FALSE].kind = "alloc" /\ ~[f EXCEPT !.inside = FALSE].inside
  BY <1>2 DEF Frames
<1>3. g \in [1 .. Len(fs) -> Frames]
  BY <1>1, FrameKinds
<1>4. \A n \in Nat : [1 .. n -> Frames] \subseteq Seq(Frames)
  OBVIOUS
<1>5. g \in Seq(Frames) /\ DOMAIN g = DOMAIN fs
  BY <1>1, <1>3, <1>4
<1>6. \A i \in DOMAIN fs : /\ g[i].kind = fs[i].kind
                           /\ fs[i].kind = "share" => g[i] = fs[i]
                           /\ fs[i].kind = "alloc" => ~g[i].inside
  BY <1>1, <1>2, FrameKinds
<1>7. Len(g) = Len(fs)
  BY <1>1, <1>5, LenProperties
<1> HIDE DEF g
<1>8. CASE old.base = new.base
  BY <1>8 DEF Carried
<1>9. CASE old.base # new.base
  <2>1. Carried(fs, old, new) = g
    BY <1>9 DEF Carried, g
  <2> QED BY <1>5, <1>6, <1>7, <1>9, <2>1
<1> QED
  BY <1>8, <1>9

LEMMA MapEntries ==
    /\ Vacant \in Int /\ None = 0 /\ Vacant # None /\ EmptyMap \in Maps
    /\ \A pos \in 0 .. MaxLen : Flip(pos) > None /\ Flip(Flip(pos)) = pos
    /\ \A m \in Maps, a \in Addresses :
         \/ m[a] = Vacant
         \/ m[a] = None
         \/ m[a] > None /\ Flip(m[a]) \in 0 .. MaxLen /\ Flip(Flip(m[a])) = m[a]
    /\ ~(Vacant > None) /\ ~(None > None)
<1>1. Vacant = -1 /\ None = 0
  BY DEF Vacant, None
<1>2. \A pos \in 0 .. MaxLen : Flip(pos) \in Nat \ {0} /\ Flip(Flip(pos)) = pos
  BY SerializerAssumption DEF Flip
<1>3. ASSUME NEW m \in Maps, NEW a \in Addresses, m[a] # Vacant, m[a] # None
      PROVE  m[a] > None /\ Flip(m[a]) \in 0 .. MaxLen /\ Flip(Flip(m[a])) = m[a]
  <2>1. PICK pos \in 0 .. MaxLen : m[a] = Flip(pos)
    BY <1>3 DEF Maps
  <2> QED BY <1>1, <1>2, <2>1
<1>4. EmptyMap \in Maps
  BY DEF EmptyMap, Maps
<1> QED
  BY <1>1, <1>2, <1>3, <1>4

\* A scratch buffer that was reserved has room, and bytes of its own.
LEMMA ReservedScratch ==
    ASSUME NEW c \in ScratchBuffers, NEW need \in Nat \ {0}, NEW d \in Reserved(c, need)
    PROVE  /\ d \in ScratchBuffers /\ d.len = c.len /\ d.base \in Bases
           /\ c.len + need \in 0 .. d.cap
           /\ [d EXCEPT !.len = c.len + need] \in ScratchBuffers
<1>1. /\ c.base \in Bases \cup {Dangling} /\ c.cap \in 0 .. MaxCap /\ c.len \in 0 .. MaxCap
      /\ c.len <= c.cap /\ (c.base = Dangling <=> c.cap = 0)
      /\ c = [base |-> c.base, cap |-> c.cap, len |-> c.len]
  BY DEF ScratchBuffers
<1>2. CASE need <= c.cap - c.len
  <2>1. d = c
    BY <1>2 DEF Reserved
  <2>2. c.base \in Bases /\ c.len + need \in 0 .. c.cap /\ c.len + need \in 0 .. MaxCap
    BY <1>1, <1>2, SerializerAssumption
  <2>3. [c EXCEPT !.len = c.len + need] \in ScratchBuffers
    BY <1>1, <2>2 DEF ScratchBuffers
  <2> QED BY <2>1, <2>2, <2>3
<1>3. CASE ~(need <= c.cap - c.len)
  <2>1. PICK b \in Bases, k \in Amortized(c, need) : d = [base |-> b, cap |-> k, len |-> c.len]
    BY <1>3 DEF Reserved
  <2>2. k \in 0 .. MaxCap /\ c.len + need <= k
    BY <1>1, <2>1, SerializerAssumption DEF Amortized
  <2>4. b # Dangling /\ k # 0
    BY <1>1, <2>1, <2>2, SerializerAssumption DEF Dangling
  <2>5. d \in ScratchBuffers
    BY <1>1, <2>1, <2>2, <2>4, SerializerAssumption DEF ScratchBuffers
  <2>6. [d EXCEPT !.len = c.len + need] \in ScratchBuffers
    <3>1. [d EXCEPT !.len = c.len + need] = [base |-> b, cap |-> k, len |-> c.len + need]
      BY <2>1
    <3>2. c.len + need \in 0 .. MaxCap
      BY <1>1, <2>2, SerializerAssumption
    <3> QED BY <2>2, <2>4, <3>1, <3>2 DEF ScratchBuffers
  <2> QED BY <1>1, <2>1, <2>2, <2>5, <2>6
<1> QED
  BY <1>2, <1>3

LEMMA ScratchFields ==
    ASSUME NEW c \in ScratchBuffers
    PROVE  c.base \in Nat /\ c.len \in Nat /\ c.cap \in Nat /\ c.len <= c.cap
<1>1. c.base \in Bases \cup {Dangling} /\ c.len \in 0 .. MaxCap /\ c.cap \in 0 .. MaxCap /\ c.len <= c.cap
  BY DEF ScratchBuffers
<1>2. Bases \subseteq Nat /\ MaxCap \in Nat
  BY SerializerAssumption
<1>3. Dangling \in Nat
  BY DEF Dangling
<1>4. c.base \in Nat
  BY <1>1, <1>2, <1>3
<1>5. c.len \in Nat /\ c.cap \in Nat
  BY <1>1, <1>2
<1> QED
  BY <1>1, <1>4, <1>5

\* The padding of push_alloc aligns the end of the scratch buffer.
LEMMA Padding ==
    ASSUME NEW c \in ScratchBuffers, NEW l \in Layouts, NEW pad, pad = (-(c.base + c.len)) % l.align
    PROVE  /\ pad \in Nat /\ l.size \in Nat \ {0} /\ pad + l.size \in Nat \ {0}
           /\ c.base \in Nat /\ c.len \in Nat
           /\ (c.base + c.len + pad) % l.align = 0
<1>1. c.base \in Nat /\ c.len \in Nat
  BY ScratchFields
<1>2. l.size \in Nat \ {0} /\ l.align \in Nat \ {0}
  BY SerializerAssumption
<1> DEFINE x == -(c.base + c.len)
<1>3. x \in Int /\ c.base + c.len = -x
  BY <1>1
<1>4. x \div l.align \in Int /\ pad \in 0 .. l.align - 1 /\ x = l.align * (x \div l.align) + pad
  BY <1>2, <1>3, DivMod
<1> DEFINE q == x \div l.align
<1>5. c.base + c.len + pad = l.align * (-q) + 0
  <2>1. c.base + c.len + pad = -(l.align * q)
    BY <1>1, <1>2, <1>3, <1>4
  <2> HIDE DEF q
  <2>2. q \in Int
    BY <1>4 DEF q
  <2>3. -(l.align * q) = l.align * (-q) + 0
    BY <1>2, <2>2, SMT
  <2> QED BY <2>1, <2>3
<1>6. -q \in Int /\ 0 \in 0 .. l.align - 1
  BY <1>2, <1>4
<1> HIDE DEF q, x
<1>7. (l.align * (-q) + 0) % l.align = 0
  BY <1>2, <1>6, ModUnique
<1> QED
  BY <1>1, <1>2, <1>4, <1>5, <1>7

-----------------------------------------------------------------------------
(* Type correctness.                                                       *)

LEMMA TypesInit == Init => TypeOK
BY SerializerAssumption, Empty, MapEntries DEF Init, TypeOK, ScratchBuffers, Unallocated, Dangling

\* A queue stays within its capacity.
LEMMA OfferedTypes ==
    ASSUME NEW S, NEW q \in Seq(S), Len(q) <= Capacity, NEW x \in S
    PROVE  Offered(q, x) \in Seq(S) /\ Len(Offered(q, x)) <= Capacity
<1>1. Append(q, x) \in Seq(S) /\ Len(Append(q, x)) = Len(q) + 1 /\ Len(q) \in Nat
  BY AppendProperties, LenProperties
<1> QED
  BY <1>1, SerializerAssumption DEF Offered

LEMMA TakenTypes ==
    ASSUME NEW S, NEW q \in Seq(S), Len(q) <= Capacity
    PROVE  LET rest == IF q = <<>> THEN <<>> ELSE Tail(q)
           IN  rest \in Seq(S) /\ Len(rest) <= Capacity /\ (q # <<>> => Head(q) \in S)
<1>1. CASE q = <<>>
  BY <1>1, Empty, SerializerAssumption
<1>2. CASE q # <<>>
  <2>1. Tail(q) \in Seq(S) /\ Head(q) \in S /\ Len(Tail(q)) = Len(q) - 1 /\ Len(q) \in Nat
    BY <1>2, HeadTailProperties, LenProperties
  <2> QED BY <1>2, <2>1, SerializerAssumption
<1> QED
  BY <1>1, <1>2

\* Where the top of a stack is gone, the rest is a stack.
LEMMA Popped ==
    ASSUME TypeOK, NEW s \in Serializers, NEW kind, Open(s, kind)
    PROVE  /\ Front(calls[s]) \in Seq(Frames)
           /\ Top(s) \in Frames /\ Top(s).kind = kind /\ calls[s] # <<>> /\ calls[s] \in Seq(Frames)
           /\ Len(calls[s]) \in DOMAIN calls[s] /\ Top(s) = calls[s][Len(calls[s])]
           /\ DOMAIN Front(calls[s]) = DOMAIN calls[s] \ {Len(calls[s])}
           /\ \A i \in DOMAIN Front(calls[s]) : Front(calls[s])[i] = calls[s][i]
<1>1. calls[s] \in Seq(Frames) /\ calls[s] # <<>> /\ Last(calls[s]).kind = kind
  BY DEF TypeOK, Open, Top
<1> QED
  BY <1>1, FrontLast DEF Top

LEMMA FailsTypes ==
    ASSUME TypeOK, NEW s \in Serializers, NEW rest, Fails(s, rest)
    PROVE  status' \in [Serializers -> {"none", "open", "failing"}]
BY DEF TypeOK, Fails

LEMMA TypesStep == TypeOK /\ [Next]_vars => TypeOK'
<1> SUFFICES ASSUME TypeOK, [Next]_vars PROVE TypeOK'
  OBVIOUS
<1>1. CASE DropPool
  <2>1. <<>> \in Seq(Maps) /\ <<>> \in Seq(ScratchBuffers) /\ Len(<<>>) <= Capacity
    BY Empty, SerializerAssumption
  <2> QED BY <1>1, <2>1 DEF DropPool, TypeOK, shareVars
<1>2. ASSUME NEW s \in Serializers, Get(s) PROVE TypeOK'
  <2>1. unify' \in Seq(Maps) /\ Len(unify') <= Capacity /\ (unify # <<>> => Head(unify) \in Maps)
    BY <1>2, TakenTypes DEF Get, TypeOK
  <2>2. /\ scratches' \in Seq(ScratchBuffers) /\ Len(scratches') <= Capacity
        /\ scratches # <<>> => Head(scratches) \in ScratchBuffers
    BY <1>2, TakenTypes DEF Get, TypeOK
  <2>3. Unallocated \in ScratchBuffers
    BY SerializerAssumption DEF Unallocated, ScratchBuffers, Dangling
  <2>4. map' \in [Serializers -> Maps]
    BY <1>2, <2>1, MapEntries DEF Get, TypeOK
  <2>5. scratch' \in [Serializers -> ScratchBuffers]
    BY <1>2, <2>2, <2>3 DEF Get, TypeOK
  <2>6. inherited' \in [Serializers -> SUBSET Addresses]
    BY <1>2 DEF Get, TypeOK
  <2>7. status' \in [Serializers -> {"none", "open", "failing"}]
    BY <1>2 DEF Get, TypeOK
  <2> QED BY <1>2, <2>1, <2>2, <2>4, <2>5, <2>6, <2>7 DEF Get, TypeOK
<1>3. ASSUME NEW s \in Serializers, Release(s) PROVE TypeOK'
  <2>1. Unallocated \in ScratchBuffers /\ EmptyMap \in Maps /\ 0 \in 0 .. MaxLen
    BY SerializerAssumption, MapEntries DEF Unallocated, ScratchBuffers, Dangling
  <2>2. [scratch[s] EXCEPT !.len = 0] \in ScratchBuffers
    <3>1. scratch[s] \in ScratchBuffers
      BY DEF TypeOK
    <3> QED BY <3>1, SerializerAssumption DEF ScratchBuffers
  <2>3. unify' \in Seq(Maps) /\ Len(unify') <= Capacity
    BY <1>3, OfferedTypes DEF Release, TypeOK
  <2>4. scratches' \in Seq(ScratchBuffers) /\ Len(scratches') <= Capacity
    <3>1. \/ scratches' = scratches
          \/ scratches' = Offered(scratches, [scratch[s] EXCEPT !.len = 0])
      BY <1>3 DEF Release
    <3> QED BY <2>2, <3>1, OfferedTypes DEF TypeOK
  <2>5. /\ status' \in [Serializers -> {"none", "open", "failing"}]
        /\ map' \in [Serializers -> Maps] /\ writer' \in [Serializers -> 0 .. MaxLen]
        /\ scratch' \in [Serializers -> ScratchBuffers]
    BY <1>3, <2>1 DEF Release, TypeOK
  <2>6. /\ inherited' \in [Serializers -> SUBSET Addresses]
        /\ written' \in [Serializers -> SUBSET Placed] /\ refs' \in [Serializers -> SUBSET Placed]
    BY <1>3 DEF Release, TypeOK
  <2> QED BY <1>3, <2>3, <2>4, <2>5, <2>6 DEF Release, TypeOK
<1>4. ASSUME NEW s \in Serializers, Fail(s) PROVE TypeOK'
  BY <1>4, FailsTypes DEF Fail, TypeOK, poolVars, shareVars
<1>5. ASSUME NEW s \in Serializers, Unwind(s) PROVE TypeOK'
  BY <1>5, FailsTypes, Popped DEF Unwind, TypeOK, poolVars, shareVars
<1>6. ASSUME NEW s \in Serializers, Write(s) PROVE TypeOK'
  <2>1. writer' \in [Serializers -> 0 .. MaxLen]
    BY <1>6, SerializerAssumption DEF Write, TypeOK
  <2> QED BY <1>6, <2>1 DEF Write, TypeOK, poolVars, shareVars
<1>7. ASSUME NEW s \in Serializers, NEW a \in Addresses, StartSharing(s, a) PROVE TypeOK'
  <2>1. CASE map[s][a] = Vacant
    <3>1. map' = [map EXCEPT ![s][a] = None] /\ calls' = [calls EXCEPT ![s] = Append(@, Sharing(a))]
      BY <1>7, <2>1, MapEntries DEF StartSharing
    <3>2. map' \in [Serializers -> Maps]
      BY <3>1 DEF TypeOK, Maps
    <3>3. calls' \in [Serializers -> Seq(Frames)]
      BY <3>1, SharingFrame, AppendDomain DEF TypeOK
    <3>4. UNCHANGED <<status, refs>>
      BY <1>7, <2>1, MapEntries DEF StartSharing
    <3> QED BY <1>7, <3>2, <3>3, <3>4 DEF StartSharing, TypeOK, poolVars
  <2>2. CASE map[s][a] = None
    <3>1. UNCHANGED <<map, calls, refs>> /\ status' \in [Serializers -> {"none", "open", "failing"}]
      BY <1>7, <2>2, MapEntries, FailsTypes DEF StartSharing
    <3> QED BY <1>7, <3>1 DEF StartSharing, TypeOK, poolVars
  <2>3. CASE map[s][a] > None
    <3>1. /\ UNCHANGED <<status, map, calls>>
          /\ refs' = [refs EXCEPT ![s] = @ \cup {<<a, Flip(map[s][a])>>}]
      BY <1>7, <2>3, MapEntries DEF StartSharing
    <3>2. <<a, Flip(map[s][a])>> \in Placed
      BY <2>3, MapEntries DEF TypeOK, Placed
    <3>3. refs' \in [Serializers -> SUBSET Placed]
      BY <3>1, <3>2 DEF TypeOK
    <3> QED BY <1>7, <3>1, <3>3 DEF StartSharing, TypeOK, poolVars
  <2> QED BY <1>7, <2>1, <2>2, <2>3 DEF StartSharing
<1>8. ASSUME NEW s \in Serializers, FinishSharing(s) PROVE TypeOK'
  <2>1. Top(s) \in Frames /\ Top(s).kind = "share" /\ Front(calls[s]) \in Seq(Frames)
    BY <1>8, Popped DEF FinishSharing
  <2>2. PICK a \in Addresses : a = Top(s).addr
    BY <2>1, FrameKinds
  <2>3. PICK pos \in 0 .. MaxLen : pos = writer[s] /\ pos + 1 \in 0 .. MaxLen
    BY <1>8, SerializerAssumption DEF FinishSharing, TypeOK
  <2>4. <<a, pos>> \in Placed
    BY DEF Placed
  <2>5. writer' = [writer EXCEPT ![s] = pos + 1] /\ written' = [written EXCEPT ![s] = @ \cup {<<a, pos>>}]
    BY <1>8, <2>2, <2>3 DEF FinishSharing
  <2>6. writer' \in [Serializers -> 0 .. MaxLen] /\ written' \in [Serializers -> SUBSET Placed]
    BY <2>3, <2>4, <2>5 DEF TypeOK
  <2>7. calls' \in [Serializers -> Seq(Frames)]
    BY <1>8, <2>1 DEF FinishSharing, TypeOK
  <2>8. CASE map[s][a] = None
    <3>1. /\ map' = [map EXCEPT ![s][a] = Flip(pos)] /\ UNCHANGED status
          /\ refs' = [refs EXCEPT ![s] = @ \cup {<<a, pos>>}]
      BY <1>8, <2>2, <2>3, <2>8 DEF FinishSharing
    <3>2. map' \in [Serializers -> Maps] /\ refs' \in [Serializers -> SUBSET Placed]
      BY <2>4, <3>1 DEF TypeOK, Maps
    <3> QED BY <1>8, <2>6, <2>7, <3>1, <3>2 DEF FinishSharing, TypeOK, poolVars
  <2>9. CASE map[s][a] # None
    <3>1. UNCHANGED <<map, refs>> /\ status' \in [Serializers -> {"none", "open", "failing"}]
      BY <1>8, <2>2, <2>9, FailsTypes DEF FinishSharing
    <3> QED BY <1>8, <2>6, <2>7, <3>1 DEF FinishSharing, TypeOK, poolVars
  <2> QED BY <2>8, <2>9
<1>9. ASSUME NEW s \in Serializers, NEW l \in Layouts, PushAlloc(s, l) PROVE TypeOK'
  <2>1. scratch[s] \in ScratchBuffers /\ calls[s] \in Seq(Frames)
    BY DEF TypeOK
  <2>c. PICK c \in ScratchBuffers : c = scratch[s]
    BY <2>1
  <2>2. PICK pad : pad = (-(c.base + c.len)) % l.align
    OBVIOUS
  <2>3. pad \in Nat /\ pad + l.size \in Nat \ {0}
    BY <2>2, Padding
  <2>4. PICK d \in Reserved(c, pad + l.size) :
           /\ scratch' = [scratch EXCEPT ![s] = [d EXCEPT !.len = c.len + (pad + l.size)]]
           /\ calls' = [calls EXCEPT ![s] =
                          Append(Carried(@, c, d),
                                 [kind |-> "alloc", addr |-> d.base + c.len + pad,
                                  layout |-> l, inside |-> TRUE, from |-> c.base])]
    BY <1>9, <2>2, <2>c DEF PushAlloc
  <2>5. [d EXCEPT !.len = c.len + (pad + l.size)] \in ScratchBuffers /\ d \in ScratchBuffers
    BY <2>3, ReservedScratch
  <2>6. scratch' \in [Serializers -> ScratchBuffers]
    BY <2>4, <2>5 DEF TypeOK
  <2>7. d.base + c.len + pad \in Nat /\ c.base \in Nat
    BY <2>3, <2>5, ScratchFields
  <2>8. [kind |-> "alloc", addr |-> d.base + c.len + pad,
         layout |-> l, inside |-> TRUE, from |-> c.base] \in Frames
    BY <2>7 DEF Frames
  <2>9. Carried(calls[s], c, d) \in Seq(Frames)
    BY <2>1, CarriedFrames
  <2>10. calls' \in [Serializers -> Seq(Frames)]
    BY <2>4, <2>8, <2>9, AppendDomain DEF TypeOK
  <2> QED BY <1>9, <2>6, <2>10 DEF PushAlloc, TypeOK, poolVars, shareVars
<1>10. ASSUME NEW s \in Serializers, PopAlloc(s) PROVE TypeOK'
  <2>1. Top(s) \in Frames /\ Top(s).kind = "alloc" /\ Front(calls[s]) \in Seq(Frames)
    BY <1>10, Popped DEF PopAlloc
  <2>2. calls' \in [Serializers -> Seq(Frames)]
    BY <1>10, <2>1 DEF PopAlloc, TypeOK
  <2>3. status' \in [Serializers -> {"none", "open", "failing"}]
    BY <1>10, FailsTypes DEF PopAlloc, TypeOK
  <2>4. PICK c \in ScratchBuffers : c = scratch[s]
    BY DEF TypeOK
  <2>5. PICK start \in Int : start = Top(s).addr - c.base
    <3>1. Top(s).addr \in Nat /\ c.base \in Nat
      BY <2>1, FrameKinds, ScratchFields
    <3> QED BY <3>1
  <2>6. CASE scratch' = [scratch EXCEPT ![s].len = start] /\ start >= 0 /\ start < c.len
    <3>1. [c EXCEPT !.len = start] \in ScratchBuffers
      BY <2>5, <2>6, SerializerAssumption DEF ScratchBuffers
    <3>2. scratch' = [scratch EXCEPT ![s] = [c EXCEPT !.len = start]]
      BY <2>4, <2>6
    <3>3. scratch' \in [Serializers -> ScratchBuffers]
      BY <3>1, <3>2 DEF TypeOK
    <3> QED BY <1>10, <2>2, <2>3, <3>3 DEF PopAlloc, TypeOK, poolVars, shareVars
  <2>7. CASE scratch' = scratch
    BY <1>10, <2>2, <2>3, <2>7 DEF PopAlloc, TypeOK, poolVars, shareVars
  <2> QED BY <1>10, <2>4, <2>5, <2>6, <2>7 DEF PopAlloc
<1>11. CASE UNCHANGED vars
  BY <1>11 DEF vars, poolVars, shareVars, TypeOK
<1> QED
  BY <1>1, <1>2, <1>3, <1>4, <1>5, <1>6, <1>7, <1>8, <1>9, <1>10, <1>11 DEF Next

\* The type invariant: positions, scratch buffers and queues keep their bounds.
THEOREM TypesInvariant == Spec => []TypeOK
BY TypesInit, TypesStep, PTL DEF Spec

-----------------------------------------------------------------------------
(* The invariant, of one serializer and as a predicate on values.          *)

InScratch(f) == f.kind = "alloc" /\ f.inside
End(f) == f.addr + f.layout.size

\* The open shared values are entered, not finished, and different.
SharesOK(cs, m) ==
    \A i \in DOMAIN cs :
        cs[i].kind = "share" =>
            m[cs[i].addr] = None /\ \A j \in DOMAIN cs : cs[j] = cs[i] => i = j

\* What was written is where the map says, and the map says so of nothing else
\* but what it brought along.
PlacesOK(m, inh, w, rs) ==
    /\ \A v \in w : m[v[1]] = Flip(v[2])
    /\ \A a \in Addresses \ inh : m[a] > None => <<a, Flip(m[a])>> \in w
    /\ \A r \in rs : r[1] \notin inh => r \in w

\* The allocations in the scratch buffer lie within its length, in the order of
\* the stack, and above those that moving it left behind.
ScratchOK(c, cs) ==
    /\ \A i \in DOMAIN cs : InScratch(cs[i]) =>
         /\ c.base <= cs[i].addr /\ End(cs[i]) <= c.base + c.len
         /\ PadFits(cs[i], c.base) => cs[i].addr % cs[i].layout.align = 0
    /\ \A i, j \in DOMAIN cs : i < j /\ InScratch(cs[i]) /\ cs[j].kind = "alloc" =>
         cs[j].inside /\ End(cs[i]) <= cs[j].addr

Fine(s) ==
    /\ status[s] = "none" => calls[s] = <<>> /\ written[s] = {} /\ refs[s] = {}
    /\ SharesOK(calls[s], map[s])
    /\ PlacesOK(map[s], inherited[s], written[s], refs[s])
    /\ ScratchOK(scratch[s], calls[s])

IInv == TypeOK /\ \A s \in Serializers : Fine(s)

-----------------------------------------------------------------------------
(* What the operations do to these predicates.                             *)

LEMMA NothingOpen ==
    ASSUME NEW m \in Maps, NEW c \in ScratchBuffers
    PROVE  /\ SharesOK(<<>>, m) /\ ScratchOK(c, <<>>)
           /\ PlacesOK(m, {a \in Addresses : m[a] # Vacant}, {}, {})
<1>1. DOMAIN <<>> = {}
  BY Empty
<1>2. PlacesOK(m, {a \in Addresses : m[a] # Vacant}, {}, {})
  BY MapEntries DEF PlacesOK
<1> QED
  BY <1>1, <1>2 DEF SharesOK, ScratchOK

\* A call on top of the stack is over, or unwound.
LEMMA SharesPopped ==
    ASSUME NEW cs \in Seq(Frames), cs # <<>>, NEW m \in Maps, SharesOK(cs, m)
    PROVE  /\ SharesOK(Front(cs), m)
           /\ \A a \in Addresses : \A x : Last(cs) = Sharing(a) => SharesOK(Front(cs), [m EXCEPT ![a] = x])
<1>1. /\ Last(cs) = cs[Len(cs)] /\ Len(cs) \in DOMAIN cs /\ DOMAIN Front(cs) = DOMAIN cs \ {Len(cs)}
      /\ \A i \in DOMAIN Front(cs) : Front(cs)[i] = cs[i]
  BY FrontLast
<1>2. SharesOK(Front(cs), m)
  BY <1>1 DEF SharesOK
<1>3. ASSUME NEW a \in Addresses, NEW x, Last(cs) = Sharing(a)
      PROVE  SharesOK(Front(cs), [m EXCEPT ![a] = x])
  <2>1. cs[Len(cs)].kind = "share" /\ cs[Len(cs)].addr = a
    BY <1>1, <1>3, SharingFrame
  <2>2. \A i \in DOMAIN cs : cs[i] \in Frames
    BY LenProperties, ElementOfSeq
  <2>3. ASSUME NEW i \in DOMAIN Front(cs), cs[i].kind = "share" PROVE cs[i].addr # a /\ cs[i].addr \in Addresses
    <3>1. i \in DOMAIN cs /\ i # Len(cs)
      BY <1>1
    <3>2. cs[i].addr \in Addresses /\ cs[i] = Sharing(cs[i].addr)
      BY <2>2, <2>3, <3>1, FrameKinds
    <3>3. cs[i].addr = a => cs[i] = cs[Len(cs)]
      BY <1>1, <1>3, <3>2
    <3> QED BY <1>1, <2>3, <3>1, <3>2, <3>3 DEF SharesOK
  <2>4. \A b \in Addresses : b # a => [m EXCEPT ![a] = x][b] = m[b]
    BY DEF Maps
  <2> QED BY <1>1, <1>2, <2>3, <2>4 DEF SharesOK
<1> QED
  BY <1>2, <1>3

LEMMA SharesPushed ==
    ASSUME NEW cs \in Seq(Frames), NEW m \in Maps, SharesOK(cs, m)
    PROVE  /\ \A f \in Frames : f.kind = "alloc" => SharesOK(Append(cs, f), m)
           /\ \A a \in Addresses :
                m[a] = Vacant => SharesOK(Append(cs, Sharing(a)), [m EXCEPT ![a] = None])
<1>1. ASSUME NEW f \in Frames
      PROVE  /\ DOMAIN Append(cs, f) = DOMAIN cs \cup {Len(cs) + 1} /\ Len(cs) + 1 \notin DOMAIN cs
             /\ \A i \in DOMAIN cs : Append(cs, f)[i] = cs[i] /\ cs[i] \in Frames
             /\ Append(cs, f)[Len(cs) + 1] = f
  <2>1. /\ DOMAIN cs = 1 .. Len(cs) /\ Len(cs) \in Nat /\ \A i \in DOMAIN cs : cs[i] \in Frames
    BY LenProperties, ElementOfSeq
  <2> QED BY <2>1, AppendDomain
<1>2. ASSUME NEW f \in Frames, f.kind = "alloc" PROVE SharesOK(Append(cs, f), m)
  <2>1. ASSUME NEW i \in DOMAIN Append(cs, f), Append(cs, f)[i].kind = "share"
        PROVE  i \in DOMAIN cs /\ Append(cs, f)[i] = cs[i] /\ cs[i] # f
    BY <1>1, <1>2, <2>1
  <2> QED BY <1>1, <2>1 DEF SharesOK
<1>3. ASSUME NEW a \in Addresses, m[a] = Vacant
      PROVE  SharesOK(Append(cs, Sharing(a)), [m EXCEPT ![a] = None])
  <2> DEFINE f == Sharing(a)
             n == [m EXCEPT ![a] = None]
  <2>1. f \in Frames /\ f.kind = "share" /\ f.addr = a
    BY SharingFrame
  <2>2. n[a] = None /\ \A b \in Addresses : b # a => n[b] = m[b]
    BY DEF Maps
  <2>3. ASSUME NEW i \in DOMAIN cs, cs[i].kind = "share"
        PROVE  cs[i].addr \in Addresses /\ cs[i].addr # a
    <3>1. cs[i].addr \in Addresses
      BY <1>1, <2>1, <2>3, FrameKinds
    <3>2. m[cs[i].addr] = None
      BY <2>3 DEF SharesOK
    <3> QED BY <1>3, <3>1, <3>2, MapEntries
  <2> HIDE DEF f, n
  <2>4. \A i \in DOMAIN cs : cs[i].kind = "share" => cs[i] # f /\ n[cs[i].addr] = None
    BY <2>1, <2>2, <2>3 DEF SharesOK
  <2>5. \A i \in DOMAIN cs : cs[i] # f
    BY <2>1, <2>4
  <2>6. SharesOK(Append(cs, f), n)
    BY <1>1, <2>1, <2>2, <2>4, <2>5 DEF SharesOK
  <2> QED BY <2>6 DEF f, n
<1> QED
  BY <1>2, <1>3

LEMMA SharesCarried ==
    ASSUME NEW cs \in Seq(Frames), NEW m, SharesOK(cs, m), NEW old, NEW new
    PROVE  SharesOK(Carried(cs, old, new), m)
<1>1. /\ DOMAIN Carried(cs, old, new) = DOMAIN cs
      /\ \A i \in DOMAIN cs : /\ Carried(cs, old, new)[i].kind = cs[i].kind
                              /\ cs[i].kind = "share" => Carried(cs, old, new)[i] = cs[i]
  BY CarriedFrames
<1> QED
  BY <1>1 DEF SharesOK

LEMMA ScratchPopped ==
    ASSUME NEW cs \in Seq(Frames), cs # <<>>, NEW c \in ScratchBuffers, ScratchOK(c, cs)
    PROVE  /\ ScratchOK(c, Front(cs))
           /\ \A start \in Int : Last(cs).kind = "alloc" /\ start = Last(cs).addr - c.base =>
                ScratchOK([c EXCEPT !.len = start], Front(cs))
<1>1. /\ Last(cs) = cs[Len(cs)] /\ Len(cs) \in DOMAIN cs /\ DOMAIN Front(cs) = DOMAIN cs \ {Len(cs)}
      /\ \A i \in DOMAIN Front(cs) : Front(cs)[i] = cs[i]
      /\ DOMAIN cs = 1 .. Len(cs) /\ Len(cs) \in Nat /\ \A i \in DOMAIN cs : cs[i] \in Frames
  <2>1. DOMAIN cs = 1 .. Len(cs) /\ Len(cs) \in Nat /\ \A i \in DOMAIN cs : cs[i] \in Frames
    BY LenProperties, ElementOfSeq
  <2> QED BY <2>1, FrontLast
<1>2. ScratchOK(c, Front(cs))
  BY <1>1 DEF ScratchOK
<1>3. ASSUME NEW start \in Int, Last(cs).kind = "alloc", start = Last(cs).addr - c.base
      PROVE  ScratchOK([c EXCEPT !.len = start], Front(cs))
  <2> DEFINE d == [c EXCEPT !.len = start]
             top == cs[Len(cs)]
  <2>1. d.base = c.base /\ d.len = start /\ c.base \in Nat
    BY ScratchFields DEF ScratchBuffers
  <2>2. top.kind = "alloc" /\ top.addr \in Nat /\ top.addr = d.base + d.len
    <3>1. top \in Frames /\ top.kind = "alloc" /\ start = top.addr - c.base
      BY <1>1, <1>3
    <3>2. top.addr \in Nat
      BY <3>1, FrameKinds
    <3> HIDE DEF d, top
    <3> QED BY <2>1, <3>1, <3>2
  <2> HIDE DEF d
  <2>3. ASSUME NEW i \in DOMAIN Front(cs), InScratch(cs[i]) PROVE End(cs[i]) <= d.base + d.len
    <3>1. i \in DOMAIN cs /\ i < Len(cs)
      BY <1>1
    <3> QED BY <1>1, <2>2, <2>3, <3>1 DEF ScratchOK
  <2>4. ScratchOK(d, Front(cs))
    BY <1>2, <1>1, <2>1, <2>3 DEF ScratchOK
  <2> QED BY <2>4 DEF d
<1> QED
  BY <1>2, <1>3

LEMMA ScratchPushed ==
    ASSUME NEW cs \in Seq(Frames), NEW c, ScratchOK(c, cs), NEW a \in Addresses
    PROVE  ScratchOK(c, Append(cs, Sharing(a)))
<1>1. /\ DOMAIN Append(cs, Sharing(a)) = DOMAIN cs \cup {Len(cs) + 1}
      /\ \A i \in DOMAIN cs : Append(cs, Sharing(a))[i] = cs[i]
      /\ Append(cs, Sharing(a))[Len(cs) + 1] = Sharing(a)
      /\ DOMAIN cs = 1 .. Len(cs) /\ Len(cs) \in Nat
  BY SharingFrame, AppendDomain
<1>2. Sharing(a).kind # "alloc"
  BY SharingFrame
<1> QED
  BY <1>1, <1>2 DEF ScratchOK, InScratch

\* push_alloc: the new allocation is behind all that are still in the buffer, and
\* aligned where the padding it was given fits the place the buffer has now.
LEMMA ScratchAllocated ==
    ASSUME NEW cs \in Seq(Frames), NEW c \in ScratchBuffers, ScratchOK(c, cs),
           NEW l \in Layouts, NEW pad, pad = (-(c.base + c.len)) % l.align,
           NEW d \in Reserved(c, pad + l.size),
           NEW f, f = [kind |-> "alloc", addr |-> d.base + c.len + pad, layout |-> l,
                       inside |-> TRUE, from |-> c.base]
    PROVE  ScratchOK([d EXCEPT !.len = c.len + (pad + l.size)], Append(Carried(cs, c, d), f))
<1> DEFINE e == [d EXCEPT !.len = c.len + (pad + l.size)]
           old == Carried(cs, c, d)
           new == Append(old, f)
<1>1. /\ pad \in Nat /\ l.size \in Nat \ {0} /\ pad + l.size \in Nat \ {0}
      /\ c.base \in Nat /\ c.len \in Nat /\ (c.base + c.len + pad) % l.align = 0
  BY Padding
<1>2. d \in ScratchBuffers /\ d.base \in Bases /\ e \in ScratchBuffers
  BY <1>1, ReservedScratch
<1>3. d.base \in Nat /\ e.base = d.base /\ e.len = c.len + (pad + l.size)
  BY <1>2, ScratchFields DEF ScratchBuffers
<1>4. f.kind = "alloc" /\ f.addr = d.base + c.len + pad /\ f.layout = l /\ f.inside /\ f.from = c.base
  OBVIOUS
<1>5. f \in Frames
  BY <1>1, <1>3 DEF Frames
<1>6. /\ old \in Seq(Frames) /\ DOMAIN old = DOMAIN cs /\ DOMAIN cs = 1 .. Len(cs) /\ Len(cs) \in Nat
      /\ Len(old) = Len(cs)
      /\ c.base = d.base => old = cs
      /\ \A i \in DOMAIN cs : old[i].kind = cs[i].kind /\ (cs[i].kind = "alloc" /\ c.base # d.base => ~old[i].inside)
  BY CarriedFrames, LenProperties
<1>7. /\ DOMAIN new = DOMAIN cs \cup {Len(cs) + 1} /\ new[Len(cs) + 1] = f
      /\ \A i \in DOMAIN cs : new[i] = old[i]
  BY <1>5, <1>6, AppendDomain
<1> HIDE DEF e, old, new
<1>8. \A i \in DOMAIN cs : InScratch(new[i]) => c.base = d.base /\ new[i] = cs[i]
  BY <1>6, <1>7 DEF InScratch
<1>9. \A i \in DOMAIN cs : new[i].kind = "alloc" <=> cs[i].kind = "alloc"
  BY <1>6, <1>7
<1>10. \A i \in DOMAIN cs : cs[i] \in Frames
  BY <1>6, ElementOfSeq
<1>11. PadFits(f, d.base) => f.addr % l.align = 0
  <2>1. CASE c.base = d.base
    BY <1>1, <1>4, <2>1
  <2> SUFFICES ASSUME c.base # d.base, PadFits(f, d.base)
               PROVE  (d.base + c.len + pad) % l.align = 0
    BY <1>4, <2>1
  <2>2. c.base \in Bases /\ Alignment % l.align = 0
    BY <1>4 DEF PadFits, ScratchBuffers
  <2>3. PICK k \in Nat \ {0} : k = l.align /\ Alignment % k = 0
    BY <2>2, SerializerAssumption
  <2>4. PICK p \in Int, q \in Int : p = c.base /\ q = d.base /\ p % Alignment = 0 /\ q % Alignment = 0
    BY <1>1, <1>2, <1>3, <2>2, SerializerAssumption
  <2>5. p % k = 0 /\ q % k = 0
    BY <2>3, <2>4, ModTrans, SerializerAssumption
  <2>6. PICK n \in Nat, r \in Nat : n = c.len /\ r = pad
    BY <1>1
  <2>7. PICK x \in Int : x = n + r /\ p + n + r = p + x /\ q + n + r = q + x
    OBVIOUS
  <2>8. (p + x) % k = x % k /\ (q + x) % k = x % k
    BY <2>5, ModAddMultiple
  <2>9. (p + n + r) % k = 0
    BY <1>1, <2>3, <2>4, <2>6
  <2> QED BY <2>3, <2>4, <2>6, <2>7, <2>8, <2>9
<1>12. ASSUME NEW i \in DOMAIN new, InScratch(new[i])
       PROVE  /\ e.base <= new[i].addr /\ End(new[i]) <= e.base + e.len
              /\ PadFits(new[i], e.base) => new[i].addr % new[i].layout.align = 0
  <2>1. CASE i \in DOMAIN cs
    <3>1. c.base = d.base /\ new[i] = cs[i] /\ InScratch(cs[i])
      BY <1>8, <1>12, <2>1
    <3>2. /\ c.base <= cs[i].addr /\ End(cs[i]) <= c.base + c.len
          /\ PadFits(cs[i], c.base) => cs[i].addr % cs[i].layout.align = 0
      BY <2>1, <3>1 DEF ScratchOK
    <3>3. End(cs[i]) \in Nat
      <4>1. cs[i] \in Frames /\ cs[i].kind = "alloc"
        BY <1>10, <2>1, <3>1 DEF InScratch
      <4>2. cs[i].addr \in Nat /\ cs[i].layout.size \in Nat
        BY <4>1, FrameKinds
      <4>3. PICK x \in Nat, y \in Nat : x = cs[i].addr /\ y = cs[i].layout.size
        BY <4>2
      <4> QED BY <4>3 DEF End
    <3> QED BY <1>1, <1>3, <3>1, <3>2, <3>3
  <2>2. CASE i = Len(cs) + 1
    <3>1. new[i] = f /\ End(f) = d.base + c.len + pad + l.size
      BY <1>4, <1>7, <2>2 DEF End
    <3>2. e.base <= new[i].addr
      BY <1>1, <1>3, <1>4, <3>1
    <3>3. End(new[i]) <= e.base + e.len
      <4>1. PICK x \in Nat, n \in Nat, r \in Nat, z \in Nat :
               x = d.base /\ n = c.len /\ r = pad /\ z = l.size
        BY <1>1, <1>3
      <4>2. End(new[i]) = x + n + r + z /\ e.base + e.len = x + (n + (r + z))
        BY <1>3, <3>1, <4>1
      <4> QED BY <4>2
    <3>4. PadFits(new[i], e.base) => new[i].addr % new[i].layout.align = 0
      BY <1>3, <1>4, <1>11, <3>1
    <3> QED BY <3>2, <3>3, <3>4
  <2> QED BY <1>7, <2>1, <2>2
<1>13. ASSUME NEW i \in DOMAIN new, NEW j \in DOMAIN new, i < j, InScratch(new[i]), new[j].kind = "alloc"
       PROVE  new[j].inside /\ End(new[i]) <= new[j].addr
  <2>1. i \in DOMAIN cs
    BY <1>6, <1>7, <1>13
  <2>2. c.base = d.base /\ new[i] = cs[i] /\ InScratch(cs[i])
    BY <1>8, <1>13, <2>1
  <2>3. CASE j \in DOMAIN cs
    <3>1. new[j] = cs[j]
      BY <1>6, <1>7, <2>2, <2>3
    <3> QED BY <1>13, <2>1, <2>2, <2>3, <3>1 DEF ScratchOK
  <2>4. CASE j = Len(cs) + 1
    <3>1. End(cs[i]) <= c.base + c.len
      BY <2>1, <2>2 DEF ScratchOK
    <3>2. End(cs[i]) \in Nat
      <4>1. cs[i] \in Frames /\ cs[i].kind = "alloc"
        BY <1>10, <2>1, <2>2 DEF InScratch
      <4>2. cs[i].addr \in Nat /\ cs[i].layout.size \in Nat
        BY <4>1, FrameKinds
      <4>3. PICK x \in Nat, y \in Nat : x = cs[i].addr /\ y = cs[i].layout.size
        BY <4>2
      <4> QED BY <4>3 DEF End
    <3>3. new[j] = f /\ f.inside /\ f.addr = d.base + c.len + pad
      BY <1>4, <1>7, <2>4
    <3>4. End(cs[i]) <= d.base + c.len + pad
      BY <1>1, <1>3, <2>2, <3>1, <3>2
    <3> QED BY <2>2, <3>3, <3>4
  <2> QED BY <1>7, <2>3, <2>4
<1>14. ScratchOK(e, new)
  BY <1>12, <1>13 DEF ScratchOK
<1> QED
  BY <1>14 DEF e, old, new

-----------------------------------------------------------------------------
(* The invariant holds.                                                    *)

LEMMA FineInit == Init => IInv
<1> SUFFICES ASSUME Init PROVE IInv
  OBVIOUS
<1>1. TypeOK
  BY TypesInit
<1>2. ASSUME NEW s \in Serializers PROVE Fine(s)
  <2>1. /\ status[s] = "none" /\ calls[s] = <<>> /\ written[s] = {} /\ refs[s] = {}
        /\ map[s] = EmptyMap /\ inherited[s] = {}
    BY DEF Init
  <2>2. map[s] \in Maps /\ scratch[s] \in ScratchBuffers
    BY <1>1 DEF TypeOK
  <2>3. {a \in Addresses : map[s][a] # Vacant} = {}
    BY <2>1 DEF EmptyMap
  <2> QED BY <2>1, <2>2, <2>3, NothingOpen DEF Fine
<1> QED
  BY <1>1, <1>2 DEF IInv

\* Only one serializer is in a step.
LEMMA OneSteps ==
    ASSUME IInv, TypeOK', NEW s \in Serializers, Fine(s)',
           \A u \in Serializers \ {s} :
              /\ status'[u] = status[u] /\ calls'[u] = calls[u] /\ map'[u] = map[u]
              /\ inherited'[u] = inherited[u] /\ written'[u] = written[u] /\ refs'[u] = refs[u]
              /\ scratch'[u] = scratch[u]
    PROVE  IInv'
<1>1. \A u \in Serializers \ {s} : Fine(u)'
  BY DEF IInv, Fine
<1> QED
  BY <1>1 DEF IInv

LEMMA FineStep == IInv /\ [Next]_vars => IInv'
<1> SUFFICES ASSUME IInv, [Next]_vars PROVE IInv'
  OBVIOUS
<1>t. TypeOK /\ TypeOK' /\ \A s \in Serializers : Fine(s)
  BY TypesStep DEF IInv
<1>f. \A s \in Serializers : /\ calls[s] \in Seq(Frames) /\ map[s] \in Maps
                             /\ scratch[s] \in ScratchBuffers
  BY <1>t DEF TypeOK
<1>s. \A s \in Serializers : \A rest :
        Fails(s, rest) => status'[s] # "none" /\ \A u \in Serializers \ {s} : status'[u] = status[u]
  BY <1>t DEF TypeOK, Fails
<1>1. CASE DropPool
  <2>1. \A s \in Serializers : Fine(s)'
    BY <1>1, <1>t DEF DropPool, shareVars, Fine
  <2> QED BY <1>t, <2>1 DEF IInv
<1>2. ASSUME NEW s \in Serializers, Get(s) PROVE IInv'
  <2>1. calls'[s] = <<>> /\ written'[s] = {} /\ refs'[s] = {}
    BY <1>2, <1>t DEF Get, Fine
  <2>2. map'[s] \in Maps /\ scratch'[s] \in ScratchBuffers /\ status'[s] = "open"
    BY <1>2, <1>t DEF Get, TypeOK
  <2>3. inherited'[s] = {a \in Addresses : map'[s][a] # Vacant}
    BY <1>2, <1>t DEF Get, TypeOK
  <2>4. Fine(s)'
    BY <2>1, <2>2, <2>3, NothingOpen DEF Fine
  <2> QED BY <1>2, <1>t, <2>4, OneSteps DEF Get, TypeOK
<1>3. ASSUME NEW s \in Serializers, Release(s) PROVE IInv'
  <2>1. /\ calls'[s] = <<>> /\ written'[s] = {} /\ refs'[s] = {}
        /\ inherited'[s] = {} /\ map'[s] = EmptyMap
    BY <1>3, <1>t DEF Release, TypeOK
  <2>2. map'[s] \in Maps /\ scratch'[s] \in ScratchBuffers
    BY <1>t DEF TypeOK
  <2>3. {a \in Addresses : map'[s][a] # Vacant} = {}
    BY <2>1 DEF EmptyMap
  <2>4. Fine(s)'
    BY <2>1, <2>2, <2>3, NothingOpen DEF Fine
  <2> QED BY <1>3, <1>t, <2>4, OneSteps DEF Release, TypeOK
<1>4. ASSUME NEW s \in Serializers, Fail(s) PROVE IInv'
  <2>1. UNCHANGED <<shareVars, scratch, calls>> /\ status'[s] # "none"
    BY <1>4, <1>s DEF Fail
  <2>2. Fine(s)'
    BY <1>t, <2>1 DEF Fine, shareVars
  <2> QED BY <1>4, <1>s, <1>t, <2>1, <2>2, OneSteps DEF Fail, shareVars
<1>5. ASSUME NEW s \in Serializers, Unwind(s) PROVE IInv'
  <2>1. /\ UNCHANGED <<shareVars, scratch>> /\ status'[s] # "none" /\ calls[s] # <<>>
        /\ calls'[s] = Front(calls[s])
    BY <1>5, <1>s, <1>t DEF Unwind, Open, TypeOK
  <2>2. SharesOK(Front(calls[s]), map[s]) /\ ScratchOK(scratch[s], Front(calls[s]))
    BY <1>f, <1>t, <2>1, SharesPopped, ScratchPopped DEF Fine
  <2>3. Fine(s)'
    BY <1>t, <2>1, <2>2 DEF Fine, shareVars
  <2> QED BY <1>5, <1>s, <1>t, <2>1, <2>3, OneSteps DEF Unwind, shareVars, TypeOK
<1>6. ASSUME NEW s \in Serializers, Write(s) PROVE IInv'
  <2>1. \A u \in Serializers : Fine(u)'
    BY <1>6, <1>t DEF Write, shareVars, Fine
  <2> QED BY <1>t, <2>1 DEF IInv
<1>7. ASSUME NEW s \in Serializers, NEW a \in Addresses, StartSharing(s, a) PROVE IInv'
  <2>1. UNCHANGED <<scratch, inherited, written>> /\ status[s] = "open"
    BY <1>7 DEF StartSharing
  <2>2. CASE map[s][a] = Vacant
    <3>1. /\ map' = [map EXCEPT ![s][a] = None] /\ calls' = [calls EXCEPT ![s] = Append(@, Sharing(a))]
          /\ UNCHANGED <<status, refs>>
      BY <1>7, <2>2, MapEntries DEF StartSharing
    <3>2. map'[s] = [map[s] EXCEPT ![a] = None] /\ calls'[s] = Append(calls[s], Sharing(a))
      BY <1>t, <3>1 DEF TypeOK
    <3>3. SharesOK(calls'[s], map'[s]) /\ ScratchOK(scratch'[s], calls'[s])
      BY <1>f, <1>t, <2>1, <2>2, <3>2, SharesPushed, ScratchPushed DEF Fine
    <3>4. PlacesOK(map'[s], inherited[s], written[s], refs[s])
      <4>1. \A b \in Addresses : b # a => map'[s][b] = map[s][b]
        BY <1>f, <3>2 DEF Maps
      <4>2. map'[s][a] = None
        BY <1>f, <3>2 DEF Maps
      <4>3. \A v \in written[s] : v[1] \in Addresses /\ v[2] \in 0 .. MaxLen
        BY <1>t DEF TypeOK, Placed
      <4>4. \A v \in written[s] : v[1] # a
        <5> SUFFICES ASSUME NEW v \in written[s], v[1] = a PROVE FALSE
          OBVIOUS
        <5>1. map[s][a] = Flip(v[2])
          BY <1>t DEF Fine, PlacesOK
        <5> QED BY <2>2, <4>3, <5>1, MapEntries
      <4> QED BY <1>t, <4>1, <4>2, <4>3, <4>4, MapEntries DEF Fine, PlacesOK
    <3>5. Fine(s)'
      BY <2>1, <3>1, <3>3, <3>4 DEF Fine
    <3> QED BY <1>t, <2>1, <3>1, <3>5, OneSteps DEF TypeOK
  <2>3. CASE map[s][a] = None
    <3>1. UNCHANGED <<map, calls, refs>> /\ Fails(s, calls[s])
      BY <1>7, <2>3, MapEntries DEF StartSharing
    <3>2. Fine(s)'
      BY <1>s, <1>t, <2>1, <3>1 DEF Fine
    <3> QED BY <1>s, <1>t, <2>1, <3>1, <3>2, OneSteps
  <2>4. CASE map[s][a] > None
    <3>1. /\ UNCHANGED <<status, map, calls>>
          /\ refs' = [refs EXCEPT ![s] = @ \cup {<<a, Flip(map[s][a])>>}]
      BY <1>7, <2>4, MapEntries DEF StartSharing
    <3>2. refs'[s] = refs[s] \cup {<<a, Flip(map[s][a])>>}
      BY <1>t, <3>1 DEF TypeOK
    <3>3. PlacesOK(map[s], inherited[s], written[s], refs'[s])
      BY <1>t, <2>4, <3>2 DEF Fine, PlacesOK
    <3>4. Fine(s)'
      BY <1>t, <2>1, <3>1, <3>3 DEF Fine
    <3> QED BY <1>t, <2>1, <3>1, <3>4, OneSteps DEF TypeOK
  <2> QED BY <1>7, <2>2, <2>3, <2>4 DEF StartSharing
<1>8. ASSUME NEW s \in Serializers, FinishSharing(s) PROVE IInv'
  <2>1. /\ Top(s) \in Frames /\ Top(s).kind = "share" /\ Len(calls[s]) \in DOMAIN calls[s]
        /\ Top(s) = calls[s][Len(calls[s])] /\ calls[s] # <<>>
    BY <1>8, <1>t, Popped DEF FinishSharing
  <2>2. PICK a \in Addresses : a = Top(s).addr /\ Top(s) = Sharing(a)
    BY <2>1, FrameKinds
  <2>3. PICK pos \in 0 .. MaxLen : pos = writer[s]
    BY <1>t DEF TypeOK
  <2>4. map[s][a] = None
    BY <1>t, <2>1, <2>2 DEF Fine, SharesOK
  <2>5. /\ map' = [map EXCEPT ![s][a] = Flip(pos)] /\ refs' = [refs EXCEPT ![s] = @ \cup {<<a, pos>>}]
        /\ written' = [written EXCEPT ![s] = @ \cup {<<a, pos>>}]
        /\ calls' = [calls EXCEPT ![s] = Front(@)]
        /\ UNCHANGED <<scratch, inherited, status>> /\ status[s] = "open"
    BY <1>8, <2>2, <2>3, <2>4 DEF FinishSharing
  <2>6. /\ map'[s] = [map[s] EXCEPT ![a] = Flip(pos)] /\ refs'[s] = refs[s] \cup {<<a, pos>>}
        /\ written'[s] = written[s] \cup {<<a, pos>>} /\ calls'[s] = Front(calls[s])
    BY <1>t, <2>5 DEF TypeOK
  <2>7. SharesOK(calls'[s], map'[s]) /\ ScratchOK(scratch[s], calls'[s])
    <3>1. PICK cs \in Seq(Frames), m \in Maps, c \in ScratchBuffers :
             cs = calls[s] /\ m = map[s] /\ c = scratch[s]
      BY <1>f
    <3>2. cs # <<>> /\ Last(cs) = Sharing(a) /\ SharesOK(cs, m) /\ ScratchOK(c, cs)
      BY <1>t, <2>1, <2>2, <3>1 DEF Fine, Top
    <3>3. SharesOK(Front(cs), [m EXCEPT ![a] = Flip(pos)])
      BY <3>2, SharesPopped
    <3>4. ScratchOK(c, Front(cs))
      BY <3>2, ScratchPopped
    <3> QED BY <2>6, <3>1, <3>3, <3>4
  <2>8. PlacesOK(map'[s], inherited[s], written'[s], refs'[s])
    <3>1. map'[s][a] = Flip(pos) /\ \A b \in Addresses : b # a => map'[s][b] = map[s][b]
      BY <1>f, <2>6 DEF Maps
    <3>2. \A v \in written[s] : v[1] \in Addresses /\ v[2] \in 0 .. MaxLen
      BY <1>t DEF TypeOK, Placed
    <3>3. \A v \in written[s] : v[1] # a
      <4> SUFFICES ASSUME NEW v \in written[s], v[1] = a PROVE FALSE
        OBVIOUS
      <4>1. map[s][a] = Flip(v[2])
        BY <1>t DEF Fine, PlacesOK
      <4> QED BY <2>4, <3>2, <4>1, MapEntries
    <3>4. Flip(Flip(pos)) = pos
      BY MapEntries
    <3>5. \A v \in written'[s] : map'[s][v[1]] = Flip(v[2])
      BY <1>t, <2>6, <3>1, <3>2, <3>3 DEF Fine, PlacesOK
    <3>6. \A b \in Addresses \ inherited[s] : map'[s][b] > None => <<b, Flip(map'[s][b])>> \in written'[s]
      BY <1>t, <2>6, <3>1, <3>4 DEF Fine, PlacesOK
    <3>7. \A r \in refs'[s] : r[1] \notin inherited[s] => r \in written'[s]
      BY <1>t, <2>6 DEF Fine, PlacesOK
    <3> QED BY <3>5, <3>6, <3>7 DEF PlacesOK
  <2>9. Fine(s)'
    BY <2>5, <2>7, <2>8 DEF Fine
  <2> QED BY <1>t, <2>5, <2>9, OneSteps DEF TypeOK
<1>9. ASSUME NEW s \in Serializers, NEW l \in Layouts, PushAlloc(s, l) PROVE IInv'
  <2>1. PICK c \in ScratchBuffers, cs \in Seq(Frames) : c = scratch[s] /\ cs = calls[s]
    BY <1>f
  <2>p. PICK pad : pad = (-(c.base + c.len)) % l.align
    OBVIOUS
  <2>2. PICK d \in Reserved(c, pad + l.size) :
           /\ scratch' = [scratch EXCEPT ![s] = [d EXCEPT !.len = c.len + (pad + l.size)]]
           /\ calls' = [calls EXCEPT ![s] =
                          Append(Carried(@, c, d),
                                 [kind |-> "alloc", addr |-> d.base + c.len + pad,
                                  layout |-> l, inside |-> TRUE, from |-> c.base])]
    BY <1>9, <2>1, <2>p DEF PushAlloc
  <2>10. PICK f : f = [kind |-> "alloc", addr |-> d.base + c.len + pad, layout |-> l,
                       inside |-> TRUE, from |-> c.base]
    OBVIOUS
  <2>3. /\ scratch'[s] = [d EXCEPT !.len = c.len + (pad + l.size)]
        /\ calls'[s] = Append(Carried(cs, c, d), f)
    BY <1>t, <2>1, <2>2, <2>10 DEF TypeOK
  <2>4. ScratchOK(scratch'[s], calls'[s])
    <3>1. ScratchOK(c, cs)
      BY <1>t, <2>1 DEF Fine
    <3>2. ScratchOK([d EXCEPT !.len = c.len + (pad + l.size)], Append(Carried(cs, c, d), f))
      BY <2>1, <2>p, <2>10, <3>1, ScratchAllocated
    <3> QED BY <2>3, <3>2
  <2>5. f \in Frames /\ f.kind = "alloc"
    <3>1. pad \in Nat /\ pad + l.size \in Nat \ {0} /\ c.len \in Nat /\ c.base \in Nat
      BY <2>1, <2>p, Padding
    <3>2. d.base \in Nat
      BY <3>1, ReservedScratch, ScratchFields
    <3> QED BY <2>10, <3>1, <3>2 DEF Frames
  <2>6. SharesOK(calls'[s], map[s])
    BY <1>f, <1>t, <2>1, <2>3, <2>5, SharesCarried, SharesPushed, CarriedFrames DEF Fine
  <2>7. UNCHANGED <<status, shareVars>> /\ status[s] = "open"
    BY <1>9 DEF PushAlloc
  <2>8. Fine(s)'
    BY <1>t, <2>4, <2>6, <2>7 DEF Fine, shareVars
  <2> QED BY <1>t, <2>2, <2>7, <2>8, OneSteps DEF TypeOK, shareVars
<1>10. ASSUME NEW s \in Serializers, PopAlloc(s) PROVE IInv'
  <2>1. /\ Top(s) \in Frames /\ Top(s).kind = "alloc" /\ calls[s] # <<>> /\ Top(s) = Last(calls[s])
    BY <1>10, <1>t, Popped DEF PopAlloc, Top
  <2>2. calls'[s] = Front(calls[s]) /\ UNCHANGED shareVars
    BY <1>10, <1>t DEF PopAlloc, TypeOK
  <2>3. status'[s] # "none" /\ \A u \in Serializers \ {s} : status'[u] = status[u]
    <3>1. status[s] # "none"
      BY <1>t, <2>1 DEF Fine
    <3> QED BY <1>10, <1>s, <3>1 DEF PopAlloc
  <2>4. SharesOK(calls'[s], map'[s])
    BY <1>f, <1>t, <2>1, <2>2, SharesPopped DEF Fine, shareVars
  <2>5. PICK start \in Int : start = Top(s).addr - scratch[s].base
    <3>1. Top(s).addr \in Nat /\ scratch[s].base \in Nat
      BY <1>f, <2>1, FrameKinds, ScratchFields
    <3> QED BY <3>1
  <2>6. \/ scratch' = [scratch EXCEPT ![s].len = start]
        \/ scratch' = scratch
    BY <1>10, <2>5 DEF PopAlloc
  <2>7. scratch'[s] \in {[scratch[s] EXCEPT !.len = start], scratch[s]}
    BY <1>t, <2>6 DEF TypeOK
  <2>8. ScratchOK(scratch'[s], calls'[s])
    BY <1>f, <1>t, <2>1, <2>2, <2>5, <2>7, ScratchPopped DEF Fine
  <2>9. Fine(s)'
    BY <1>t, <2>2, <2>3, <2>4, <2>8 DEF Fine, shareVars
  <2> QED BY <1>10, <1>t, <2>2, <2>3, <2>6, <2>9, OneSteps DEF PopAlloc, TypeOK, shareVars
<1>11. CASE UNCHANGED vars
  <2>1. \A s \in Serializers : Fine(s)'
    BY <1>11, <1>t DEF vars, shareVars, Fine
  <2> QED BY <1>t, <2>1 DEF IInv
<1> QED
  BY <1>1, <1>2, <1>3, <1>4, <1>5, <1>6, <1>7, <1>8, <1>9, <1>10, <1>11 DEF Next

LEMMA Inductive == Spec => []IInv
BY FineInit, FineStep, PTL DEF Spec

-----------------------------------------------------------------------------
(* The theorems.                                                           *)

LEMMA FinishHolds == IInv => FinishNeverFails
BY DEF IInv, Fine, SharesOK, FinishNeverFails

\* finish_sharing never answers NotStarted or AlreadyFinished, however the calls
\* on the serializer nest and fail, and whatever its map brought along.
THEOREM FinishInvariant == Spec => []FinishNeverFails
BY Inductive, FinishHolds, PTL

LEMMA ResolveHolds == IInv => FreshMapsResolve
<1> SUFFICES ASSUME IInv, NEW s \in Serializers
             PROVE  /\ \A r \in refs[s] : r[1] \notin inherited[s] => r \in written[s]
                    /\ \A v, w \in written[s] : v[1] = w[1] => v = w
  BY DEF FreshMapsResolve
<1>1. PlacesOK(map[s], inherited[s], written[s], refs[s]) /\ written[s] \subseteq Placed
  BY DEF IInv, Fine, TypeOK
<1>2. ASSUME NEW v \in written[s], NEW w \in written[s], v[1] = w[1] PROVE v = w
  <2>1. Flip(v[2]) = Flip(w[2]) /\ v \in Placed /\ w \in Placed
    BY <1>1, <1>2 DEF PlacesOK
  <2>2. v[2] \in 0 .. MaxLen /\ w[2] \in 0 .. MaxLen /\ v = <<v[1], v[2]>> /\ w = <<w[1], w[2]>>
    BY <2>1 DEF Placed
  <2>3. v[2] = w[2]
    BY <2>1, <2>2, MapEntries
  <2> QED BY <1>2, <2>2, <2>3
<1> QED
  BY <1>1, <1>2 DEF PlacesOK

\* A shared value the map did not know from the start is written once, and every
\* pointer to it says where.
THEOREM ResolveInvariant == Spec => []FreshMapsResolve
BY Inductive, ResolveHolds, PTL

LEMMA ScratchHolds == IInv => ScratchIsUnaliased
<1> SUFFICES ASSUME IInv, NEW s \in Serializers,
                    NEW i \in DOMAIN calls[s], calls[s][i].kind = "alloc", calls[s][i].inside
             PROVE  /\ Bytes(calls[s][i]) \subseteq scratch[s].base .. scratch[s].base + scratch[s].len - 1
                    /\ PadFits(calls[s][i], scratch[s].base) => calls[s][i].addr % calls[s][i].layout.align = 0
                    /\ \A j \in DOMAIN calls[s] :
                         calls[s][j].kind = "alloc" /\ calls[s][j].inside /\ i # j =>
                           Bytes(calls[s][i]) \cap Bytes(calls[s][j]) = {}
  BY DEF ScratchIsUnaliased
<1>1. ScratchOK(scratch[s], calls[s]) /\ scratch[s] \in ScratchBuffers /\ calls[s] \in Seq(Frames)
  BY DEF IInv, Fine, TypeOK
<1>2. \A j \in DOMAIN calls[s] : j \in Int /\ calls[s][j] \in Frames
  BY <1>1, LenProperties, ElementOfSeq
<1>3. \A j \in DOMAIN calls[s] : calls[s][j].kind = "alloc" =>
         calls[s][j].addr \in Nat /\ calls[s][j].layout.size \in Nat
  BY <1>2, FrameKinds
<1>4. scratch[s].base \in Nat /\ scratch[s].len \in Nat
  BY <1>1, ScratchFields
<1>5. /\ scratch[s].base <= calls[s][i].addr
      /\ calls[s][i].addr + calls[s][i].layout.size <= scratch[s].base + scratch[s].len
      /\ PadFits(calls[s][i], scratch[s].base) => calls[s][i].addr % calls[s][i].layout.align = 0
  BY <1>1 DEF ScratchOK, InScratch, End
<1>6. Bytes(calls[s][i]) \subseteq scratch[s].base .. scratch[s].base + scratch[s].len - 1
  BY <1>3, <1>4, <1>5 DEF Bytes
<1>7. ASSUME NEW j \in DOMAIN calls[s], calls[s][j].kind = "alloc", calls[s][j].inside, i # j
      PROVE  Bytes(calls[s][i]) \cap Bytes(calls[s][j]) = {}
  <2>1. CASE i < j
    <3>1. calls[s][i].addr + calls[s][i].layout.size <= calls[s][j].addr
      BY <1>1, <1>7, <2>1 DEF ScratchOK, InScratch, End
    <3> QED BY <1>3, <1>7, <3>1 DEF Bytes
  <2>2. CASE j < i
    <3>1. calls[s][j].addr + calls[s][j].layout.size <= calls[s][i].addr
      BY <1>1, <1>7, <2>2 DEF ScratchOK, InScratch, End
    <3> QED BY <1>3, <1>7, <3>1 DEF Bytes
  <2> QED BY <1>2, <1>7, <2>1, <2>2
<1> QED
  BY <1>5, <1>6, <1>7

\* The allocations handed out since the scratch buffer last moved are apart from
\* each other and within its length, for any layouts, and aligned where the push
\* left the buffer in its place; one that moved it, only up to ALIGNMENT.
THEOREM ScratchInvariant == Spec => []ScratchIsUnaliased
BY Inductive, ScratchHolds, PTL

-----------------------------------------------------------------------------
(* The abstract specification of the shared values.                        *)

\* What an operation does to what a map says.
LEMMA TableChange ==
    ASSUME NEW m \in Maps, NEW a \in Addresses
    PROVE  /\ m[a] = Vacant <=> a \notin Pending(m) /\ \A k \in Known(m) : k[1] # a
           /\ m[a] = None => a \in Pending(m)
           /\ m[a] > None => <<a, Flip(m[a])>> \in Known(m)
           /\ m[a] = Vacant => /\ Pending([m EXCEPT ![a] = None]) = Pending(m) \cup {a}
                              /\ Known([m EXCEPT ![a] = None]) = Known(m)
           /\ \A pos \in 0 .. MaxLen : m[a] = None =>
                /\ Pending([m EXCEPT ![a] = Flip(pos)]) = Pending(m) \ {a}
                /\ Known([m EXCEPT ![a] = Flip(pos)]) = Known(m) \cup {<<a, pos>>}
<1>1. ASSUME NEW b \in Addresses
      PROVE  \/ m[b] = Vacant /\ m[b] # None /\ ~(m[b] > None)
             \/ m[b] = None /\ m[b] # Vacant /\ ~(m[b] > None)
             \/ m[b] > None /\ m[b] # Vacant /\ m[b] # None
  <2>1. \/ m[b] = Vacant
        \/ m[b] = None
        \/ m[b] > None
    BY MapEntries
  <2> QED BY <2>1, MapEntries
<1>3. \A x : \A b \in Addresses : [m EXCEPT ![a] = x][b] = IF b = a THEN x ELSE m[b]
  BY DEF Maps
<1>4. \A b \in Addresses : b \in Pending(m) <=> m[b] = None
  BY DEF Pending
<1>5. \A k : k \in Known(m) <=> \E b \in Addresses : m[b] > None /\ k = <<b, Flip(m[b])>>
  BY DEF Known
<1>6. m[a] = Vacant <=> a \notin Pending(m) /\ \A k \in Known(m) : k[1] # a
  <2>1. CASE m[a] = Vacant
    BY <1>1, <1>4, <1>5, <2>1
  <2>2. CASE m[a] = None
    BY <1>1, <1>4, <2>2
  <2>3. CASE m[a] > None
    <3>1. <<a, Flip(m[a])>> \in Known(m) /\ <<a, Flip(m[a])>>[1] = a
      BY <1>5, <2>3
    <3> QED BY <1>1, <2>3, <3>1
  <2> QED BY <1>1, <2>1, <2>2, <2>3
<1>7. ASSUME m[a] = Vacant
      PROVE  /\ Pending([m EXCEPT ![a] = None]) = Pending(m) \cup {a}
             /\ Known([m EXCEPT ![a] = None]) = Known(m)
  <2>1. PICK n : n = [m EXCEPT ![a] = None]
    OBVIOUS
  <2>2. n[a] = None /\ \A b \in Addresses : b # a => n[b] = m[b]
    BY <1>3, <2>1
  <2>3. Pending(n) = Pending(m) \cup {a}
    BY <2>2 DEF Pending
  <2>4. Known(n) = Known(m)
    <3>1. \A b \in Addresses : n[b] > None <=> m[b] > None
      BY <1>1, <1>7, <2>2, MapEntries
    <3>2. \A b \in Addresses : n[b] > None => n[b] = m[b]
      BY <2>2, MapEntries
    <3> QED BY <3>1, <3>2 DEF Known
  <2> QED BY <2>1, <2>3, <2>4
<1>8. ASSUME NEW pos \in 0 .. MaxLen, m[a] = None
      PROVE  /\ Pending([m EXCEPT ![a] = Flip(pos)]) = Pending(m) \ {a}
             /\ Known([m EXCEPT ![a] = Flip(pos)]) = Known(m) \cup {<<a, pos>>}
  <2>1. PICK n, f : n = [m EXCEPT ![a] = f] /\ f = Flip(pos) /\ f > None /\ f # None /\ Flip(f) = pos
    BY MapEntries
  <2>2. n[a] = f /\ \A b \in Addresses : b # a => n[b] = m[b]
    BY <1>3, <2>1
  <2>3. Pending(n) = Pending(m) \ {a}
    BY <2>1, <2>2 DEF Pending
  <2>4. Known(n) = Known(m) \cup {<<a, pos>>}
    <3>1. \A k : k \in Known(n) <=> \E b \in Addresses : n[b] > None /\ k = <<b, Flip(n[b])>>
      BY DEF Known
    <3>2. \A b \in Addresses : n[b] > None <=> b = a \/ m[b] > None
      BY <2>1, <2>2
    <3>3. ~(m[a] > None)
      BY <1>1, <1>8
    <3>4. \A b \in Addresses : Flip(n[b]) = IF b = a THEN pos ELSE Flip(m[b])
      BY <2>1, <2>2
    <3>5. \A k : k \in Known(n) <=> k \in Known(m) \/ k = <<a, pos>>
      BY <1>5, <3>1, <3>2, <3>3, <3>4
    <3> QED BY <3>5
  <2> QED BY <2>1, <2>3, <2>4
<1> QED
  BY <1>1, <1>4, <1>5, <1>6, <1>7, <1>8

LEMMA NewTable == TableOf(EmptyMap) = Shared!NewTable /\ Pending(EmptyMap) = {} /\ Known(EmptyMap) = {}
<1>1. \A a \in Addresses : EmptyMap[a] = Vacant
  BY DEF EmptyMap
<1>2. Pending(EmptyMap) = {} /\ Known(EmptyMap) = {}
  BY <1>1, MapEntries DEF Pending, Known
<1> QED
  BY <1>2 DEF TableOf, Shared!NewTable, Shared!Table

\* What an operation does to the values that are being written.
LEMMA BeingChange ==
    ASSUME NEW cs \in Seq(Frames), NEW m
    PROVE  /\ Being(<<>>) = {}
           /\ \A a \in Addresses : Being(Append(cs, Sharing(a))) = Being(cs) \cup {a}
           /\ \A f \in Frames : f.kind = "alloc" => Being(Append(cs, f)) = Being(cs)
           /\ cs # <<>> /\ Last(cs).kind = "alloc" => Being(Front(cs)) = Being(cs)
           /\ \A a \in Addresses : cs # <<>> /\ Last(cs) = Sharing(a) /\ SharesOK(cs, m) =>
                Being(Front(cs)) = Being(cs) \ {a} /\ a \in Being(cs)
           /\ \A c, d : Being(Carried(cs, c, d)) = Being(cs)
<1>1. DOMAIN cs = 1 .. Len(cs) /\ Len(cs) \in Nat /\ \A i \in DOMAIN cs : cs[i] \in Frames
  BY LenProperties, ElementOfSeq
<1>2. Being(<<>>) = {}
  BY Empty DEF Being
<1>3. ASSUME NEW f \in Frames
      PROVE  /\ f.kind = "share" => Being(Append(cs, f)) = Being(cs) \cup {f.addr}
             /\ f.kind = "alloc" => Being(Append(cs, f)) = Being(cs)
  <2>1. PICK n \in Nat : n = Len(cs) + 1 /\ n \notin DOMAIN cs
    BY <1>1
  <2>2. PICK ds : ds = Append(cs, f)
    OBVIOUS
  <2>3. DOMAIN ds = DOMAIN cs \cup {n} /\ ds[n] = f /\ \A i \in DOMAIN cs : ds[i] = cs[i]
    BY <2>1, <2>2, AppendDomain
  <2>4. \A a : a \in Being(ds) <=> \E i \in DOMAIN ds : ds[i].kind = "share" /\ a = ds[i].addr
    BY DEF Being
  <2>5. \A a : a \in Being(cs) <=> \E i \in DOMAIN cs : cs[i].kind = "share" /\ a = cs[i].addr
    BY DEF Being
  <2>6. \A a : a \in Being(ds) <=> a \in Being(cs) \/ (f.kind = "share" /\ a = f.addr)
    BY <2>3, <2>4, <2>5
  <2>7. f.kind = "share" => Being(ds) = Being(cs) \cup {f.addr}
    BY <2>6
  <2>8. f.kind = "alloc" => Being(ds) = Being(cs)
    BY <2>6
  <2> QED BY <2>2, <2>7, <2>8
<1>4. \A a \in Addresses : Being(Append(cs, Sharing(a))) = Being(cs) \cup {a}
  BY <1>3, SharingFrame
<1>5. ASSUME cs # <<>>
      PROVE  /\ Last(cs).kind = "alloc" => Being(Front(cs)) = Being(cs)
             /\ \A a \in Addresses : Last(cs) = Sharing(a) /\ SharesOK(cs, m) =>
                  Being(Front(cs)) = Being(cs) \ {a} /\ a \in Being(cs)
  <2>1. PICK n, ds : n = Len(cs) /\ ds = Front(cs)
    OBVIOUS
  <2>2. /\ DOMAIN ds = DOMAIN cs \ {n} /\ Last(cs) = cs[n] /\ n \in DOMAIN cs
        /\ \A i \in DOMAIN ds : ds[i] = cs[i]
    BY <1>5, <2>1, FrontLast
  <2>3. \A a : a \in Being(ds) <=> \E i \in DOMAIN ds : ds[i].kind = "share" /\ a = ds[i].addr
    BY DEF Being
  <2>4. \A a : a \in Being(cs) <=> \E i \in DOMAIN cs : cs[i].kind = "share" /\ a = cs[i].addr
    BY DEF Being
  <2>5. \A a : a \in Being(cs) <=> a \in Being(ds) \/ (cs[n].kind = "share" /\ a = cs[n].addr)
    BY <2>2, <2>3, <2>4
  <2>6. Last(cs).kind = "alloc" => Being(ds) = Being(cs)
    BY <2>2, <2>5
  <2>7. ASSUME NEW a \in Addresses, Last(cs) = Sharing(a), SharesOK(cs, m)
        PROVE  Being(ds) = Being(cs) \ {a} /\ a \in Being(cs)
    <3>1. cs[n].kind = "share" /\ cs[n].addr = a /\ cs[n] = Sharing(a)
      BY <2>2, <2>7, SharingFrame
    <3>2. ASSUME NEW i \in DOMAIN ds, ds[i].kind = "share" PROVE ds[i].addr # a
      <4>1. i \in DOMAIN cs /\ i # n /\ cs[i] = ds[i] /\ cs[i] \in Frames
        BY <1>1, <2>2
      <4>2. cs[i].addr = a => cs[i] = cs[n]
        BY <3>1, <3>2, <4>1, FrameKinds
      <4> QED BY <2>2, <2>7, <3>1, <4>1, <4>2 DEF SharesOK
    <3>3. a \notin Being(ds)
      BY <2>3, <3>2
    <3> QED BY <2>5, <3>1, <3>3
  <2> QED BY <2>1, <2>6, <2>7
<1>6. ASSUME NEW c, NEW d PROVE Being(Carried(cs, c, d)) = Being(cs)
  <2>1. PICK ds : ds = Carried(cs, c, d)
    OBVIOUS
  <2>2. /\ DOMAIN ds = DOMAIN cs
        /\ \A i \in DOMAIN cs : ds[i].kind = cs[i].kind /\ (cs[i].kind = "share" => ds[i] = cs[i])
    BY <2>1, CarriedFrames
  <2>3. Being(ds) = Being(cs)
    BY <2>2 DEF Being
  <2> QED BY <2>1, <2>3
<1> QED
  BY <1>2, <1>3, <1>4, <1>5, <1>6

\* The mapping, in the state after a step.
LEMMA MappedPrimed ==
    /\ Exists' = [s \in Serializers |-> status'[s] # "none"]
    /\ PendingAt' = [s \in Serializers |-> Pending(map'[s])]
    /\ KnownAt' = [s \in Serializers |-> Known(map'[s])]
    /\ BeingAt' = [s \in Serializers |-> Being(calls'[s])]
<1>1. \A s \in Serializers : Pending(map[s])' = Pending(map'[s]) /\ Known(map[s])' = Known(map'[s])
  BY DEF Pending, Known
<1>2. \A s \in Serializers : Being(calls[s])' = Being(calls'[s])
  BY DEF Being
<1> QED
  BY <1>1, <1>2 DEF Exists, PendingAt, KnownAt, BeingAt

\* Where one serializer's part of the state changes, so does its part of the
\* mapping, and where nothing changes, nothing does.
LEMMA MappedOne ==
    ASSUME NEW s \in Serializers
    PROVE  /\ (\A u \in Serializers \ {s} : status'[u] = status[u]) =>
                Exists' = [Exists EXCEPT ![s] = status'[s] # "none"]
           /\ (\A u \in Serializers \ {s} : map'[u] = map[u]) =>
                /\ PendingAt' = [PendingAt EXCEPT ![s] = Pending(map'[s])]
                /\ KnownAt' = [KnownAt EXCEPT ![s] = Known(map'[s])]
           /\ (\A u \in Serializers \ {s} : calls'[u] = calls[u]) =>
                BeingAt' = [BeingAt EXCEPT ![s] = Being(calls'[s])]
           /\ Exists[s] = (status[s] # "none") /\ PendingAt[s] = Pending(map[s])
           /\ KnownAt[s] = Known(map[s]) /\ BeingAt[s] = Being(calls[s])
BY MappedPrimed DEF Exists, PendingAt, KnownAt, BeingAt

LEMMA MappedSame ==
    /\ (\A u \in Serializers : (status'[u] # "none") = (status[u] # "none")) => Exists' = Exists
    /\ (\A u \in Serializers : Being(calls'[u]) = Being(calls[u])) => BeingAt' = BeingAt
    /\ UNCHANGED map => UNCHANGED <<PendingAt, KnownAt>>
BY MappedPrimed DEF Exists, PendingAt, KnownAt, BeingAt

LEMMA LeftTables ==
    /\ UNCHANGED unify => UNCHANGED Left
    /\ \A M \in SUBSET Maps :
         Range(unify)' \subseteq Range(unify) \cup M => Left' \subseteq Left \cup {TableOf(m) : m \in M}
<1>1. Left' = {TableOf(m) : m \in Range(unify)'}
  <2>1. \A m : TableOf(m)' = TableOf(m)
    BY DEF TableOf, Pending, Known
  <2> QED BY <2>1 DEF Left
<1>2. UNCHANGED unify => Range(unify)' = Range(unify)
  BY DEF Range
<1> QED
  BY <1>1, <1>2 DEF Left

\* What is in a queue when an item is taken or offered.
LEMMA QueueRange ==
    ASSUME NEW S, NEW q \in Seq(S)
    PROVE  /\ q # <<>> => Head(q) \in Range(q) /\ Range(Tail(q)) \subseteq Range(q)
           /\ \A x \in S : Range(Offered(q, x)) \subseteq Range(q) \cup {x}
           /\ Range(<<>>) = {}
<1>1. ASSUME q # <<>> PROVE Head(q) \in Range(q) /\ Range(Tail(q)) \subseteq Range(q)
  BY <1>1, TailDomain DEF Range
<1>2. ASSUME NEW x \in S PROVE Range(Offered(q, x)) \subseteq Range(q) \cup {x}
  <2>1. Range(Append(q, x)) \subseteq Range(q) \cup {x}
    BY AppendDomain DEF Range
  <2> QED BY <2>1 DEF Offered
<1>3. Range(<<>>) = {}
  BY Empty DEF Range
<1> QED
  BY <1>1, <1>2, <1>3

\* A serializer that does not exist has written nothing.
Unwritten == \A s \in Serializers : status[s] = "none" => writer[s] = 0

LEMMA UnwrittenInit == Init => Unwritten
BY DEF Init, Unwritten

LEMMA UnwrittenStep == TypeOK /\ Unwritten /\ [Next]_vars => Unwritten'
<1> SUFFICES ASSUME TypeOK, Unwritten, [Next]_vars, NEW u \in Serializers, status'[u] = "none"
             PROVE  writer'[u] = 0
  BY DEF Unwritten
<1>t. /\ status \in [Serializers -> {"none", "open", "failing"}]
      /\ writer \in [Serializers -> 0 .. MaxLen]
  BY DEF TypeOK
<1>f. \A s \in Serializers : \A rest : Fails(s, rest) => (s # u /\ status'[u] = status[u])
  BY <1>t DEF Fails
<1>1. CASE DropPool \/ UNCHANGED vars
  BY <1>1 DEF DropPool, vars, Unwritten
<1>2. ASSUME NEW s \in Serializers, Get(s) PROVE writer'[u] = 0
  BY <1>2, <1>t DEF Get, Unwritten
<1>3. ASSUME NEW s \in Serializers, Release(s) PROVE writer'[u] = 0
  BY <1>3, <1>t DEF Release, Unwritten
<1>4. ASSUME NEW s \in Serializers, Fail(s) \/ Unwind(s) PROVE writer'[u] = 0
  BY <1>4, <1>f DEF Fail, Unwind, Unwritten
<1>5. ASSUME NEW s \in Serializers, Write(s) PROVE writer'[u] = 0
  BY <1>5, <1>t DEF Write, Unwritten
<1>6. ASSUME NEW s \in Serializers, NEW a \in Addresses, StartSharing(s, a) PROVE writer'[u] = 0
  BY <1>6, <1>f DEF StartSharing, Unwritten
<1>7. ASSUME NEW s \in Serializers, FinishSharing(s) PROVE writer'[u] = 0
  <2>1. s # u /\ status'[u] = status[u]
    BY <1>7, <1>f DEF FinishSharing
  <2>2. writer'[u] = writer[u]
    BY <1>7, <1>t, <2>1 DEF FinishSharing
  <2> QED BY <2>1, <2>2 DEF Unwritten
<1>8. ASSUME NEW s \in Serializers, NEW l \in Layouts, PushAlloc(s, l) PROVE writer'[u] = 0
  BY <1>8 DEF PushAlloc, Unwritten
<1>9. ASSUME NEW s \in Serializers, PopAlloc(s) PROVE writer'[u] = 0
  BY <1>9, <1>f DEF PopAlloc, Unwritten
<1> QED
  BY <1>1, <1>2, <1>3, <1>4, <1>5, <1>6, <1>7, <1>8, <1>9 DEF Next

LEMMA SharedInit == Init => Shared!Init
<1> SUFFICES ASSUME Init PROVE Shared!Init
  OBVIOUS
<1>1. \A s \in Serializers : status[s] = "none" /\ map[s] = EmptyMap /\ calls[s] = <<>>
  BY DEF Init
<1>2. Exists = [s \in Serializers |-> FALSE]
  BY <1>1 DEF Exists
<1>3. PendingAt = [s \in Serializers |-> {}] /\ KnownAt = [s \in Serializers |-> {}]
  BY <1>1, NewTable DEF PendingAt, KnownAt
<1>4. BeingAt = [s \in Serializers |-> {}]
  BY <1>1, Empty DEF BeingAt, Being
<1>5. Left = {}
  BY Empty DEF Init, Left, Range
<1> QED
  BY <1>2, <1>3, <1>4, <1>5 DEF Init, Shared!Init

\* What the lemmas below have of a state, and of the types of one serializer.
LEMMA StateOf ==
    ASSUME IInv, NEW s \in Serializers
    PROVE  /\ TypeOK /\ Fine(s)
           /\ status[s] \in {"none", "open", "failing"} /\ map[s] \in Maps
           /\ calls[s] \in Seq(Frames) /\ scratch[s] \in ScratchBuffers
           /\ SharesOK(calls[s], map[s]) /\ (status[s] = "none" => calls[s] = <<>>)
BY DEF IInv, TypeOK, Fine

\* A failure only changes whether an error unwinds the call.
LEMMA FailsMapped ==
    ASSUME IInv, NEW s \in Serializers, status[s] # "none", NEW rest,
           Fails(s, rest) \/ UNCHANGED status
    PROVE  UNCHANGED Exists
<1>1. \A u \in Serializers : status'[u] # "none" <=> status[u] # "none"
  BY DEF IInv, TypeOK, Fails
<1> QED
  BY <1>1 DEF Exists

LEMMA GetRefines ==
    ASSUME IInv, Unwritten, NEW s \in Serializers, Get(s)
    PROVE  Shared!Begin(s)
<1>1. /\ status[s] = "none" /\ calls[s] = <<>> /\ written[s] = {} /\ refs[s] = {} /\ writer[s] = 0
  BY DEF Get, IInv, Fine, Unwritten
<1>2. PICK m \in Maps : m = IF unify = <<>> THEN EmptyMap ELSE Head(unify)
  BY MapEntries, TailDomain DEF IInv, TypeOK
<1>3. /\ map' = [map EXCEPT ![s] = m] /\ status' = [status EXCEPT ![s] = "open"]
      /\ UNCHANGED <<writer, calls, written, refs>>
      /\ unify' = IF unify = <<>> THEN <<>> ELSE Tail(unify)
  BY <1>2 DEF Get
<1>4. Exists' = [Exists EXCEPT ![s] = TRUE] /\ Exists[s] = FALSE
  <2>1. status'[s] # "none" /\ \A u \in Serializers \ {s} : status'[u] = status[u]
    BY <1>3 DEF IInv, TypeOK
  <2> QED BY <1>1, <2>1, MappedOne
<1>5. PendingAt' = [PendingAt EXCEPT ![s] = Pending(m)] /\ KnownAt' = [KnownAt EXCEPT ![s] = Known(m)]
  <2>1. map'[s] = m /\ \A u \in Serializers \ {s} : map'[u] = map[u]
    BY <1>3 DEF IInv, TypeOK
  <2> QED BY <2>1, MappedOne
<1>6. BeingAt[s] = {} /\ UNCHANGED BeingAt
  <2>1. Being(<<>>) = {}
    BY Empty DEF Being
  <2>2. \A u \in Serializers : Being(calls'[u]) = Being(calls[u])
    BY <1>3
  <2> QED BY <1>1, <2>1, <2>2, MappedOne, MappedSame
<1>7. TableOf(m) \in Left \cup {Shared!NewTable}
  <2>1. unify # <<>> => Head(unify) \in Range(unify)
    BY QueueRange DEF IInv, TypeOK
  <2> QED BY <1>2, <2>1, NewTable DEF Left
<1>8. TableOf(m).pending = Pending(m) /\ TableOf(m).known = Known(m)
  BY DEF TableOf
<1>9. Left' \subseteq Left
  <2>1. Range(IF unify = <<>> THEN <<>> ELSE Tail(unify)) \subseteq Range(unify)
    BY QueueRange DEF IInv, TypeOK
  <2>2. Range(unify)' \subseteq Range(unify) \cup {}
    BY <1>3, <2>1 DEF Range
  <2>3. Left' \subseteq Left \cup {TableOf(n) : n \in {}}
    BY <2>2, LeftTables
  <2> QED BY <2>3
<1> QED
  BY <1>1, <1>3, <1>4, <1>5, <1>6, <1>7, <1>8, <1>9 DEF Shared!Begin, Shared!values

LEMMA ReleaseRefines ==
    ASSUME IInv, NEW s \in Serializers, Release(s)
    PROVE  Shared!End(s)
<1>1. /\ status[s] = "open" /\ calls[s] = <<>> /\ map[s] \in Maps
      /\ status' = [status EXCEPT ![s] = "none"] /\ map' = [map EXCEPT ![s] = EmptyMap]
      /\ writer' = [writer EXCEPT ![s] = 0] /\ written' = [written EXCEPT ![s] = {}]
      /\ refs' = [refs EXCEPT ![s] = {}] /\ UNCHANGED calls
      /\ unify' = unify \/ unify' = Offered(unify, map[s])
  BY StateOf DEF Release
<1>2. Exists' = [Exists EXCEPT ![s] = FALSE] /\ Exists[s] = TRUE
  <2>1. status'[s] = "none" /\ \A u \in Serializers \ {s} : status'[u] = status[u]
    BY <1>1 DEF IInv, TypeOK
  <2> QED BY <1>1, <2>1, MappedOne
<1>3. /\ PendingAt' = [PendingAt EXCEPT ![s] = {}] /\ KnownAt' = [KnownAt EXCEPT ![s] = {}]
      /\ PendingAt[s] = Pending(map[s]) /\ KnownAt[s] = Known(map[s])
  <2>1. map'[s] = EmptyMap /\ \A u \in Serializers \ {s} : map'[u] = map[u]
    BY <1>1 DEF IInv, TypeOK
  <2> QED BY <2>1, MappedOne, NewTable
<1>4. BeingAt[s] = {} /\ UNCHANGED BeingAt
  <2>1. Being(<<>>) = {}
    BY Empty DEF Being
  <2>2. \A u \in Serializers : Being(calls'[u]) = Being(calls[u])
    BY <1>1
  <2> QED BY <1>1, <2>1, <2>2, MappedOne, MappedSame
<1>5. Left' \subseteq Left \cup {TableOf(map[s])}
  <2>1. PICK m \in Maps : m = map[s]
    BY <1>1
  <2>2. Range(Offered(unify, m)) \subseteq Range(unify) \cup {m}
    BY QueueRange DEF IInv, TypeOK
  <2>3. Range(unify)' \subseteq Range(unify) \cup {m}
    BY <1>1, <2>1, <2>2 DEF Range
  <2>4. Left' \subseteq Left \cup {TableOf(n) : n \in {m}}
    BY <2>3, LeftTables
  <2> QED BY <2>1, <2>4
<1>6. TableOf(map[s]) = Shared!Table(PendingAt[s], KnownAt[s])
  BY <1>3 DEF TableOf, Shared!Table
<1> QED
  BY <1>1, <1>2, <1>3, <1>4, <1>5, <1>6 DEF Shared!End

LEMMA DropPoolRefines ==
    ASSUME IInv, DropPool
    PROVE  Shared!Forget
<1>1. UNCHANGED <<status, map, calls, writer, written, refs>> /\ unify' = <<>>
  BY DEF DropPool, shareVars
<1>2. UNCHANGED <<Exists, PendingAt, KnownAt, BeingAt>>
  <2>1. \A u \in Serializers : /\ (status'[u] # "none") = (status[u] # "none")
                                /\ Being(calls'[u]) = Being(calls[u])
    BY <1>1
  <2> QED BY <1>1, <2>1, MappedSame
<1>3. Left' \subseteq Left
  <2>1. Range(unify)' \subseteq Range(unify) \cup {}
    BY <1>1, Empty DEF Range
  <2>2. Left' \subseteq Left \cup {TableOf(n) : n \in {}}
    BY <2>1, LeftTables
  <2> QED BY <2>2
<1> QED
  BY <1>1, <1>2, <1>3 DEF Shared!Forget, Shared!tables, Shared!values

\* What the call that is open or failing says of the serializer.
LEMMA ExistsThen ==
    ASSUME NEW s \in Serializers, status[s] # "none"
    PROVE  Exists[s] = TRUE
BY DEF Exists

LEMMA StartRefines ==
    ASSUME IInv, NEW s \in Serializers, NEW a \in Addresses, StartSharing(s, a)
    PROVE  Shared!Start(s, a) \/ Shared!Point(s) \/ UNCHANGED Shared!sharedVars
<1>1. /\ status[s] = "open" /\ map[s] \in Maps /\ calls[s] \in Seq(Frames)
      /\ UNCHANGED <<poolVars, writer, written>>
  BY StateOf DEF StartSharing
<1>2. Exists[s] = TRUE /\ UNCHANGED Left
  BY <1>1, ExistsThen, LeftTables DEF poolVars
<1>3. CASE map[s][a] = Vacant
  <2>1. /\ map' = [map EXCEPT ![s][a] = None] /\ calls' = [calls EXCEPT ![s] = Append(@, Sharing(a))]
        /\ UNCHANGED <<status, refs>>
    BY <1>3, MapEntries DEF StartSharing
  <2>2. /\ map'[s] = [map[s] EXCEPT ![a] = None] /\ calls'[s] = Append(calls[s], Sharing(a))
        /\ \A u \in Serializers \ {s} : map'[u] = map[u] /\ calls'[u] = calls[u]
    BY <2>1 DEF IInv, TypeOK
  <2>3. /\ Pending(map'[s]) = Pending(map[s]) \cup {a} /\ Known(map'[s]) = Known(map[s])
        /\ a \notin Pending(map[s]) /\ \A k \in Known(map[s]) : k[1] # a
    <3>1. PICK m \in Maps : m = map[s]
      BY <1>1
    <3>2. m[a] = Vacant /\ map'[s] = [m EXCEPT ![a] = None]
      BY <1>3, <2>2, <3>1
    <3>3. /\ Pending([m EXCEPT ![a] = None]) = Pending(m) \cup {a}
          /\ Known([m EXCEPT ![a] = None]) = Known(m)
          /\ a \notin Pending(m) /\ \A k \in Known(m) : k[1] # a
      BY <3>2, TableChange
    <3> QED BY <3>1, <3>2, <3>3
  <2>4. Being(calls'[s]) = Being(calls[s]) \cup {a}
    <3>1. PICK cs \in Seq(Frames) : cs = calls[s]
      BY <1>1
    <3>2. Being(Append(cs, Sharing(a))) = Being(cs) \cup {a}
      BY BeingChange
    <3> QED BY <2>2, <3>1, <3>2
  <2>5. /\ PendingAt' = [PendingAt EXCEPT ![s] = @ \cup {a}] /\ KnownAt' = [KnownAt EXCEPT ![s] = @]
        /\ BeingAt' = [BeingAt EXCEPT ![s] = @ \cup {a}]
    <3>1. /\ PendingAt' = [PendingAt EXCEPT ![s] = Pending(map'[s])]
          /\ KnownAt' = [KnownAt EXCEPT ![s] = Known(map'[s])]
          /\ BeingAt' = [BeingAt EXCEPT ![s] = Being(calls'[s])]
      BY <2>2, MappedOne
    <3>2. /\ PendingAt[s] = Pending(map[s]) /\ KnownAt[s] = Known(map[s])
          /\ BeingAt[s] = Being(calls[s])
      BY MappedOne
    <3> QED BY <2>3, <2>4, <3>1, <3>2
  <2>6. UNCHANGED KnownAt
    BY <2>5 DEF KnownAt
  <2>7. Shared!Unknown(s, a)
    BY <2>3, MappedOne DEF Shared!Unknown
  <2>8. UNCHANGED Exists
    BY <2>1, MappedSame
  <2>9. Shared!Start(s, a)
    BY <1>1, <1>2, <2>1, <2>5, <2>6, <2>7, <2>8 DEF Shared!Start, Shared!values
  <2> QED BY <2>9
<1>4. CASE map[s][a] = None
  <2>1. UNCHANGED <<map, calls, refs>> /\ Fails(s, calls[s])
    BY <1>4, MapEntries DEF StartSharing
  <2>2. UNCHANGED Exists
    BY <1>1, <2>1, FailsMapped
  <2>3. UNCHANGED <<PendingAt, KnownAt, BeingAt>>
    BY <2>1, MappedSame
  <2> QED BY <1>1, <1>2, <2>1, <2>2, <2>3 DEF Shared!sharedVars, Shared!tables, Shared!values
<1>5. CASE map[s][a] > None
  <2>1. /\ UNCHANGED <<status, map, calls>>
        /\ refs' = [refs EXCEPT ![s] = @ \cup {<<a, Flip(map[s][a])>>}]
    BY <1>5, MapEntries DEF StartSharing
  <2>2. <<a, Flip(map[s][a])>> \in KnownAt[s]
    <3>1. PICK m \in Maps : m = map[s]
      BY <1>1
    <3>2. <<a, Flip(m[a])>> \in Known(m)
      BY <1>5, <3>1, TableChange
    <3>3. KnownAt[s] = Known(map[s])
      BY MappedOne
    <3> QED BY <3>1, <3>2, <3>3
  <2>3. UNCHANGED <<Exists, PendingAt, KnownAt, BeingAt>>
    BY <2>1, MappedSame
  <2>4. Shared!Point(s)
    BY <1>1, <1>2, <2>1, <2>2, <2>3 DEF Shared!Point, Shared!tables
  <2> QED BY <2>4
<1> QED
  BY <1>3, <1>4, <1>5 DEF StartSharing

LEMMA FinishRefines ==
    ASSUME IInv, NEW s \in Serializers, FinishSharing(s)
    PROVE  \E a \in Addresses : Shared!Place(s, a)
<1>1. /\ Top(s) \in Frames /\ Top(s).kind = "share" /\ Len(calls[s]) \in DOMAIN calls[s]
      /\ Top(s) = calls[s][Len(calls[s])] /\ calls[s] # <<>> /\ status[s] = "open"
  BY StateOf, Popped DEF FinishSharing
<1>2. PICK a \in Addresses : a = Top(s).addr /\ Top(s) = Sharing(a)
  BY <1>1, FrameKinds
<1>3. PICK pos \in 0 .. MaxLen : pos = writer[s]
  BY DEF IInv, TypeOK
<1>4. map[s][a] = None /\ map[s] \in Maps /\ calls[s] \in Seq(Frames) /\ SharesOK(calls[s], map[s])
  BY <1>1, <1>2, StateOf DEF SharesOK
<1>5. /\ writer' = [writer EXCEPT ![s] = pos + 1]
      /\ written' = [written EXCEPT ![s] = @ \cup {<<a, pos>>}]
      /\ map' = [map EXCEPT ![s][a] = Flip(pos)]
      /\ refs' = [refs EXCEPT ![s] = @ \cup {<<a, pos>>}]
      /\ calls' = [calls EXCEPT ![s] = Front(@)]
      /\ UNCHANGED <<poolVars, status>>
  BY <1>2, <1>3, <1>4 DEF FinishSharing
<1>6. /\ map'[s] = [map[s] EXCEPT ![a] = Flip(pos)] /\ calls'[s] = Front(calls[s])
      /\ \A u \in Serializers \ {s} : map'[u] = map[u] /\ calls'[u] = calls[u]
  BY <1>5 DEF IInv, TypeOK
<1>7. /\ Pending(map'[s]) = Pending(map[s]) \ {a} /\ a \in Pending(map[s])
      /\ Known(map'[s]) = Known(map[s]) \cup {<<a, pos>>}
  <2>1. PICK m \in Maps : m = map[s]
    BY <1>4
  <2>2. m[a] = None /\ map'[s] = [m EXCEPT ![a] = Flip(pos)]
    BY <1>4, <1>6, <2>1
  <2>3. /\ Pending([m EXCEPT ![a] = Flip(pos)]) = Pending(m) \ {a} /\ a \in Pending(m)
        /\ Known([m EXCEPT ![a] = Flip(pos)]) = Known(m) \cup {<<a, pos>>}
    BY <2>2, TableChange
  <2> QED BY <2>1, <2>2, <2>3
<1>8. Being(calls'[s]) = Being(calls[s]) \ {a} /\ a \in Being(calls[s])
  <2>1. Last(calls[s]) = Sharing(a)
    BY <1>2 DEF Top
  <2> QED BY <1>1, <1>4, <1>6, <2>1, BeingChange
<1>9. /\ PendingAt' = [PendingAt EXCEPT ![s] = @ \ {a}]
      /\ KnownAt' = [KnownAt EXCEPT ![s] = @ \cup {<<a, pos>>}]
      /\ BeingAt' = [BeingAt EXCEPT ![s] = @ \ {a}]
      /\ a \in BeingAt[s] \cap PendingAt[s]
  BY <1>6, <1>7, <1>8, MappedOne
<1>10. Exists[s] = TRUE /\ UNCHANGED <<Exists, Left>>
  BY <1>1, <1>5, ExistsThen, MappedSame, LeftTables DEF poolVars
<1>11. writer' = [writer EXCEPT ![s] = @ + 1]
  BY <1>3, <1>5
<1> QED
  BY <1>3, <1>5, <1>9, <1>10, <1>11 DEF Shared!Place

LEMMA UnwindRefines ==
    ASSUME IInv, NEW s \in Serializers, Unwind(s)
    PROVE  \E a \in Addresses : Shared!Abandon(s, a)
<1>1. /\ Top(s) \in Frames /\ Top(s).kind = "share" /\ Len(calls[s]) \in DOMAIN calls[s]
      /\ Top(s) = calls[s][Len(calls[s])] /\ calls[s] # <<>> /\ status[s] = "failing"
  BY StateOf, Popped DEF Unwind
<1>2. PICK a \in Addresses : a = Top(s).addr /\ Top(s) = Sharing(a)
  BY <1>1, FrameKinds
<1>3. map[s][a] = None /\ map[s] \in Maps /\ calls[s] \in Seq(Frames) /\ SharesOK(calls[s], map[s])
  BY <1>1, <1>2, StateOf DEF SharesOK
<1>4. /\ calls' = [calls EXCEPT ![s] = Front(@)] /\ Fails(s, Front(calls[s]))
      /\ UNCHANGED <<poolVars, map, written, refs, writer>>
  BY DEF Unwind, shareVars
<1>5. calls'[s] = Front(calls[s]) /\ \A u \in Serializers \ {s} : calls'[u] = calls[u]
  BY <1>4 DEF IInv, TypeOK
<1>6. Being(calls'[s]) = Being(calls[s]) \ {a} /\ a \in Being(calls[s]) /\ a \in Pending(map[s])
  <2>1. Last(calls[s]) = Sharing(a)
    BY <1>2 DEF Top
  <2>2. Being(Front(calls[s])) = Being(calls[s]) \ {a} /\ a \in Being(calls[s])
    BY <1>1, <1>3, <2>1, BeingChange
  <2>3. a \in Pending(map[s])
    BY <1>3 DEF Pending
  <2> QED BY <1>5, <2>2, <2>3
<1>7. BeingAt' = [BeingAt EXCEPT ![s] = @ \ {a}] /\ a \in BeingAt[s] \cap PendingAt[s]
  BY <1>5, <1>6, MappedOne
<1>8. UNCHANGED <<Exists, PendingAt, KnownAt, Left>>
  <2>1. UNCHANGED Exists
    BY <1>1, <1>4, FailsMapped
  <2> QED BY <1>4, <2>1, MappedSame, LeftTables DEF poolVars
<1> QED
  BY <1>4, <1>7, <1>8 DEF Shared!Abandon, Shared!tables, Shared!values

LEMMA WriteRefines ==
    ASSUME IInv, NEW s \in Serializers, Write(s)
    PROVE  Shared!Write(s)
<1>1. /\ status[s] = "open" /\ writer' = [writer EXCEPT ![s] = @ + 1]
      /\ UNCHANGED <<poolVars, status, map, written, refs, calls>>
  BY DEF Write, shareVars
<1>2. UNCHANGED <<Exists, PendingAt, KnownAt, BeingAt, Left>> /\ Exists[s] = TRUE
  BY <1>1, ExistsThen, MappedSame, LeftTables DEF poolVars
<1> QED
  BY <1>1, <1>2 DEF Shared!Write, Shared!tables, Shared!values

\* Scratch memory, and a failure while it is not a shared value that ends, are
\* nothing to the shared values.
LEMMA ScratchRefines ==
    ASSUME IInv, NEW s \in Serializers, Fail(s) \/ PopAlloc(s) \/ \E l \in Layouts : PushAlloc(s, l)
    PROVE  UNCHANGED Shared!sharedVars
<1>1. UNCHANGED <<poolVars, map, written, refs, writer>>
  BY DEF Fail, PopAlloc, PushAlloc, shareVars
<1>2. /\ status[s] # "none"
      /\ UNCHANGED status \/ \E rest : Fails(s, rest)
  <2>1. CASE Fail(s)
    BY <2>1 DEF Fail
  <2>2. CASE PopAlloc(s)
    <3>1. calls[s] # <<>>
      BY <2>2 DEF PopAlloc, Open
    <3> QED BY <2>2, <3>1, StateOf DEF PopAlloc
  <2>3. CASE \E l \in Layouts : PushAlloc(s, l)
    BY <2>3 DEF PushAlloc
  <2> QED BY <2>1, <2>2, <2>3
<1>3. \A u \in Serializers : Being(calls'[u]) = Being(calls[u])
  <2>1. CASE Fail(s)
    BY <2>1 DEF Fail
  <2>2. CASE PopAlloc(s)
    <3>1. calls[s] # <<>> /\ Last(calls[s]).kind = "alloc" /\ calls[s] \in Seq(Frames)
      BY <2>2, StateOf DEF PopAlloc, Open, Top
    <3>2. calls'[s] = Front(calls[s]) /\ \A u \in Serializers \ {s} : calls'[u] = calls[u]
      BY <2>2 DEF PopAlloc, IInv, TypeOK
    <3>3. Being(Front(calls[s])) = Being(calls[s])
      BY <3>1, BeingChange
    <3> QED BY <3>2, <3>3
  <2>3. CASE \E l \in Layouts : PushAlloc(s, l)
    <3>1. PICK l \in Layouts : PushAlloc(s, l)
      BY <2>3
    <3>2. PICK c \in ScratchBuffers, cs \in Seq(Frames) : c = scratch[s] /\ cs = calls[s]
      BY StateOf
    <3>3. PICK pad : pad = (-(c.base + c.len)) % l.align
      OBVIOUS
    <3>d. PICK d \in Reserved(c, pad + l.size) :
             calls' = [calls EXCEPT ![s] =
                         Append(Carried(@, c, d),
                                [kind |-> "alloc", addr |-> d.base + c.len + pad,
                                 layout |-> l, inside |-> TRUE, from |-> c.base])]
      BY <3>1, <3>2, <3>3 DEF PushAlloc
    <3>4. PICK f : /\ f = [kind |-> "alloc", addr |-> d.base + c.len + pad,
                           layout |-> l, inside |-> TRUE, from |-> c.base]
                   /\ calls' = [calls EXCEPT ![s] = Append(Carried(@, c, d), f)]
      BY <3>d
    <3>5. f \in Frames /\ f.kind = "alloc"
      <4>1. pad \in Nat /\ pad + l.size \in Nat \ {0} /\ c.len \in Nat /\ c.base \in Nat
        BY <3>3, Padding
      <4>2. d.base \in Nat
        BY <4>1, ReservedScratch, ScratchFields
      <4> QED BY <3>4, <4>1, <4>2 DEF Frames
    <3>6. Carried(cs, c, d) \in Seq(Frames)
      BY CarriedFrames
    <3>7. Being(Append(Carried(cs, c, d), f)) = Being(cs)
      BY <3>5, <3>6, BeingChange
    <3>8. /\ calls'[s] = Append(Carried(cs, c, d), f)
          /\ \A u \in Serializers \ {s} : calls'[u] = calls[u]
      BY <3>2, <3>4 DEF IInv, TypeOK
    <3> QED BY <3>2, <3>7, <3>8
  <2> QED BY <2>1, <2>2, <2>3
<1>4. UNCHANGED <<Exists, PendingAt, KnownAt, BeingAt, Left>>
  <2>1. UNCHANGED Exists
    BY <1>2, FailsMapped
  <2> QED BY <1>1, <1>3, <2>1, MappedSame, LeftTables DEF poolVars
<1> QED
  BY <1>1, <1>4 DEF Shared!sharedVars, Shared!tables, Shared!values

LEMMA StepRefines == IInv /\ Unwritten /\ [Next]_vars => [Shared!Next]_(Shared!sharedVars)
<1> SUFFICES ASSUME IInv, Unwritten, [Next]_vars PROVE Shared!Next \/ UNCHANGED Shared!sharedVars
  OBVIOUS
<1>1. CASE UNCHANGED vars
  BY <1>1, MappedSame, LeftTables
     DEF vars, poolVars, shareVars, Shared!sharedVars, Shared!tables, Shared!values
<1>2. CASE DropPool
  BY <1>2, DropPoolRefines DEF Shared!Next
<1>3. ASSUME NEW s \in Serializers, Get(s) \/ Release(s) \/ Write(s) PROVE Shared!StepOf(s)
  BY <1>3, GetRefines, ReleaseRefines, WriteRefines DEF Shared!StepOf
<1>4. ASSUME NEW s \in Serializers, FinishSharing(s) \/ Unwind(s) PROVE Shared!StepOf(s)
  BY <1>4, FinishRefines, UnwindRefines DEF Shared!StepOf
<1>5. ASSUME NEW s \in Serializers, NEW a \in Addresses, StartSharing(s, a)
      PROVE  Shared!StepOf(s) \/ UNCHANGED Shared!sharedVars
  BY <1>5, StartRefines DEF Shared!StepOf
<1> QED
  BY <1>1, <1>2, <1>3, <1>4, <1>5, ScratchRefines DEF Next, Shared!Next

LEMMA UnwrittenHolds == Spec => []Unwritten
BY TypesInvariant, UnwrittenInit, UnwrittenStep, PTL DEF Spec

\* The serializers implement the tables of shared values: sharing never fails,
\* every pointer goes where its value was placed for that table, whatever is
\* done with scratch memory, whatever fails, and through whichever hands in the
\* pool a map has come.
THEOREM Refinement == Spec => ImplementsSharedValues
BY SharedInit, StepRefines, Inductive, UnwrittenHolds, PTL
   DEF Spec, ImplementsSharedValues, Shared!Spec
=============================================================================
