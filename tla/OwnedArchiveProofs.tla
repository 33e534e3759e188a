------------------------- MODULE OwnedArchiveProofs -------------------------
(***************************************************************************)
(* Archives resolve: the invariant of AlignedBuffer extended to what the   *)
(* positions of archives point to.                                         *)
(*                                                                         *)
(* What an archive derefs to is a part of what its buffer shows.  A call   *)
(* on another handle leaves that alone (SharedSpared), and on an archive   *)
(* there are only the calls below.                                         *)
(***************************************************************************)
EXTENDS OwnedArchive, AlignedBufferProofs

\* What deref reads, as a part of the bytes of the buffer.
PartOf(v, pos, size) ==
    [i \in 1 .. size |-> IF pos + i \in DOMAIN v THEN v[pos + i] ELSE Junk]

ReadsPart ==
    \A h \in Handles, pos \in Nat, size \in Nat :
        /\ LenOf(h) = Len(BytesOf(h)) /\ LenOf(h) \in Nat
        /\ pos + size <= LenOf(h) => Resolved(h, pos, size) = PartOf(BytesOf(h), pos, size)

ArchiveTypes ==
    archive \in [Handles -> [pos : Nat, size : Nat, seen : Seq(Cells)] \cup {NoArchive}]

\* ArchivesResolve, of one handle.
Valid(h) ==
    ~Bare(h) =>
        /\ kind[h] = "shared"
        /\ archive[h].pos + archive[h].size <= LenOf(h)
        /\ Resolved(h, archive[h].pos, archive[h].size) = archive[h].seen

Archives == ArchiveTypes /\ \A h \in Handles : Valid(h)

AInv == IInv /\ AllWritten /\ Archives

LEMMA PartHolds == IInv => ReadsPart
<1> SUFFICES ASSUME IInv, NEW h \in Handles, NEW pos \in Nat, NEW size \in Nat
             PROVE  /\ LenOf(h) = Len(BytesOf(h)) /\ LenOf(h) \in Nat
                    /\ pos + size <= LenOf(h) =>
                         Resolved(h, pos, size) = PartOf(BytesOf(h), pos, size)
  BY DEF ReadsPart
<1>1. PICK l \in Nat, v \in Seq(Cells) : l = LenOf(h) /\ v = BytesOf(h) /\ Len(v) = l
  BY Shown
<1>2. ASSUME pos + size <= l, NEW i \in 1 .. size
      PROVE  (IF Allocated(h) /\ pos + i \in DOMAIN data[buf[h]]
              THEN data[buf[h]][pos + i] ELSE Junk)
             = IF pos + i \in DOMAIN v THEN v[pos + i] ELSE Junk
  <2>1. pos + i \in 1 .. l /\ l # 0 /\ DOMAIN v = 1 .. l
    BY <1>1, <1>2, LenProperties
  <2>2. Allocated(h)
    BY <1>1, <2>1, Shown
  <2>3. PICK d \in Seq(Cells) : d = data[buf[h]] /\ l \in 0 .. Len(d) /\ v = SubSeq(d, 1, l)
    BY <1>1, <2>2, Shown
  <2>4. DOMAIN d = 1 .. Len(d) /\ pos + i \in DOMAIN d /\ v[pos + i] = d[pos + i]
    BY <2>1, <2>3, Prefix, LenProperties
  <2> QED BY <2>1, <2>2, <2>3, <2>4
<1>3. pos + size <= l => Resolved(h, pos, size) = PartOf(v, pos, size)
  BY <1>2 DEF Resolved, PartOf
<1> QED
  BY <1>1, <1>3

LEMMA PartIsBytes ==
    ASSUME NEW v \in Seq(Bytes), NEW pos \in Nat, NEW size \in Nat, pos + size <= Len(v)
    PROVE  /\ PartOf(v, pos, size) \in Seq(Bytes) /\ Len(PartOf(v, pos, size)) = size
           /\ PartOf(v, pos, size) = SubSeq(v, pos + 1, pos + size)
<1>1. Len(v) \in Nat /\ DOMAIN v = 1 .. Len(v)
  BY LenProperties
<1>2. ASSUME NEW i \in 1 .. size
      PROVE  pos + i \in DOMAIN v /\ pos + i \in 1 .. Len(v) /\ v[pos + i] \in Bytes
  <2>1. pos + i \in 1 .. Len(v)
    BY <1>1
  <2> QED BY <1>1, <2>1, ElementOfSeq
<1>3. PICK t : t = PartOf(v, pos, size)
  OBVIOUS
<1>4. t \in [1 .. size -> Bytes] /\ \A i \in 1 .. size : t[i] = v[pos + i]
  BY <1>2, <1>3 DEF PartOf
<1>5. t \in Seq(Bytes) /\ Len(t) = size
  BY <1>4, Lengths
<1>6. PICK m \in Nat, n \in Nat : m = pos + 1 /\ n = pos + size
  OBVIOUS
<1>7. \A i \in m .. n : v[i] \in Bytes
  BY <1>1, <1>6, ElementOfSeq
<1>8. /\ SubSeq(v, m, n) \in Seq(Bytes)
      /\ Len(SubSeq(v, m, n)) = IF m <= n THEN n - m + 1 ELSE 0
      /\ \A i \in 1 .. n - m + 1 : SubSeq(v, m, n)[i] = v[m + i - 1]
  BY <1>7, SubSeqProperties
<1>9. Len(SubSeq(v, m, n)) = size /\ \A i \in 1 .. size : SubSeq(v, m, n)[i] = v[pos + i]
  BY <1>6, <1>8
<1>10. t = SubSeq(v, m, n)
  BY <1>4, <1>5, <1>8, <1>9, SeqEqual
<1> QED
  BY <1>3, <1>5, <1>6, <1>10

-----------------------------------------------------------------------------
(* What keeps an archive valid.                                            *)

LEMMA ArchiveAt ==
    ASSUME ReadsPart', NEW g \in Handles, NEW p \in Nat, NEW z \in Nat,
           archive'[g].pos = p, archive'[g].size = z, kind'[g] = "shared",
           p + z <= Len(BytesOf(g)'), archive'[g].seen = PartOf(BytesOf(g)', p, z)
    PROVE  Valid(g)'
<1>1. LenOf(g)' = Len(BytesOf(g)')
  BY DEF ReadsPart
<1>2. p + z <= LenOf(g)' => Resolved(g, p, z)' = PartOf(BytesOf(g), p, z)'
  BY DEF ReadsPart
<1>3. PartOf(BytesOf(g), p, z)' = PartOf(BytesOf(g)', p, z)
  BY DEF PartOf
<1>4. Resolved(g, archive[g].pos, archive[g].size)' = Resolved(g, p, z)'
  BY DEF Resolved
<1> QED
  BY <1>1, <1>2, <1>3, <1>4 DEF Valid

LEMMA ArchiveKept ==
    ASSUME ReadsPart, ReadsPart', Archives, NEW g \in Handles, NEW f \in Handles,
           archive'[g] = archive[f], kind'[g] = kind[f], BytesOf(g)' = BytesOf(f)
    PROVE  Valid(g)'
<1>1. CASE archive[f] = NoArchive
  BY <1>1 DEF Valid, Bare
<1>2. CASE archive[f] # NoArchive
  <2>1. PICK p \in Nat, z \in Nat : p = archive[f].pos /\ z = archive[f].size
    BY <1>2 DEF Archives, ArchiveTypes
  <2>2. /\ kind[f] = "shared" /\ p + z <= LenOf(f)
        /\ Resolved(f, p, z) = archive[f].seen
    BY <1>2, <2>1 DEF Archives, Valid, Bare
  <2>3. LenOf(f) = Len(BytesOf(f)) /\ archive[f].seen = PartOf(BytesOf(f), p, z)
    BY <2>2 DEF ReadsPart
  <2> QED BY <2>1, <2>2, <2>3, ArchiveAt
<1> QED
  BY <1>1, <1>2

-----------------------------------------------------------------------------
(* The steps.                                                              *)

Known == LengthsKnown /\ ReadsPart

LEMMA KnownHolds == IInv => Known
BY LengthsHold, PartHolds DEF Known

LEMMA KnownNext == IInv' => Known'
BY KnownHolds, PTL

\* A call on a handle that is no archive.
LEMMA BareCall ==
    ASSUME AInv, NEW h \in Handles, Bare(h), IInv', AbstractStep(h),
           archive' = archive
    PROVE  AInv' /\ AbstractStep(h)
<1>0. Known /\ Known'
  BY KnownHolds, KnownNext DEF AInv
<1>1. AllWritten'
  BY <1>0, WrittenKept DEF AInv, Known
<1>2. ASSUME NEW g \in Handles PROVE Valid(g)'
  <2>1. CASE Bare(g)
    BY <2>1 DEF Valid, Bare
  <2>2. CASE ~Bare(g)
    <3>1. kind[g] = "shared" /\ g # h
      BY <2>2 DEF AInv, Archives, Valid
    <3>2. kind'[g] = kind[g] /\ BytesOf(g)' = BytesOf(g)
      BY <3>1, SharedSpared DEF AInv
    <3> QED BY <1>0, <3>2, ArchiveKept DEF AInv, Known
  <2> QED BY <2>1, <2>2
<1>3. ArchiveTypes'
  BY DEF AInv, Archives, ArchiveTypes
<1> QED
  BY <1>1, <1>2, <1>3 DEF AInv, Archives

\* A position is put where there was none, or another.
LEMMA Placed ==
    ASSUME AInv, NEW h \in Handles, kind[h] = "shared", UNCHANGED vars,
           NEW pos \in Nat, NEW size \in Nat, pos + size <= LenOf(h),
           archive' = [archive EXCEPT ![h] = Archive(h, pos, size)]
    PROVE  AInv' /\ UNCHANGED Values!valueVars
<1>1. IInv' /\ UNCHANGED Values!valueVars
  BY Preserved, StutterRefines DEF AInv
<1>0. Known /\ Known'
  BY <1>1, KnownHolds, KnownNext DEF AInv
<1>2. kind' = kind /\ \A g \in Handles : BytesOf(g)' = BytesOf(g)
  BY <1>1, SilentShows
<1>3. AllWritten'
  BY <1>2 DEF AInv, AllWritten
<1>4. PICK v \in Seq(Bytes) : /\ v = BytesOf(h) /\ Len(v) = LenOf(h)
                              /\ Resolved(h, pos, size) = PartOf(v, pos, size)
  BY <1>0 DEF AInv, AllWritten, Known, ReadsPart
<1>5. PICK t \in Seq(Bytes) : t = Resolved(h, pos, size) /\ t = PartOf(v, pos, size)
  BY <1>4, PartIsBytes
<1>6. /\ archive' = [archive EXCEPT ![h] = [pos |-> pos, size |-> size, seen |-> t]]
      /\ t \in Seq(Cells)
  BY <1>5, SeqMonotonic DEF Archive, Cells
<1>7. ArchiveTypes'
  BY <1>6 DEF AInv, Archives, ArchiveTypes
<1>8. Valid(h)'
  <2>1. archive'[h].pos = pos /\ archive'[h].size = size /\ archive'[h].seen = t
    BY <1>6 DEF AInv, Archives, ArchiveTypes
  <2>2. kind'[h] = "shared" /\ BytesOf(h)' = v
    BY <1>2, <1>4
  <2> QED BY <1>4, <1>5, <2>1, <2>2, <1>0, ArchiveAt DEF Known
<1>9. ASSUME NEW g \in Handles, g # h PROVE Valid(g)'
  <2>1. archive'[g] = archive[g] /\ kind'[g] = kind[g] /\ BytesOf(g)' = BytesOf(g)
    BY <1>2, <1>6, <1>9 DEF AInv, Archives, ArchiveTypes
  <2> QED BY <1>0, <2>1, ArchiveKept DEF AInv, Known
<1> QED
  BY <1>1, <1>3, <1>7, <1>8, <1>9 DEF AInv, Archives

\* Bytes of any number are added.
LEMMA ExtendAny ==
    ASSUME IInv, NEW h \in Handles, NEW s \in Seq(Bytes), Extend(h, s)
    PROVE  IInv' /\ AbstractStep(h)
<1>1. Len(s) \in Nat
  BY LenProperties
<1>2. CASE Len(s) > 0
  BY <1>2, ExtendStep, ExtendShows, ToExtend
<1>3. CASE Len(s) = 0
  <2>1. ~NeedsToGrow(h, 0)
    <3>1. PICK x \in Int, m \in Nat \ {0} : x = CapOrLen(h) - len[h] /\ m = Word
      BY HandleFacts, Limits
    <3>2. x % m \in Nat
      BY DivMod
    <3>3. (CapOrLen(h) - len[h]) % Word \in Nat
      BY <3>1, <3>2
    <3> QED BY <3>3 DEF NeedsToGrow
  <2>2. /\ data' = [data EXCEPT ![buf[h]] = Written(@, len[h], s)]
        /\ UNCHANGED <<buf, cap_or_len, live, ref_count, alloc_size, fit, kind, panicked>>
    BY <1>3, <2>1 DEF Extend
  <2>3. len' = len
    BY <1>3, HandleFacts, Limits DEF Extend, IInv, Types
  <2>4. ASSUME NEW d \in Seq(Cells) PROVE Written(d, len[h], s) = d
    <3>1. \A i \in DOMAIN d : i \notin len[h] + 1 .. len[h] + Len(s)
      BY <1>3, HandleFacts, Limits
    <3>2. d \in [1 .. Len(d) -> Cells] /\ DOMAIN d = 1 .. Len(d)
      BY LenProperties
    <3> QED BY <3>1, <3>2 DEF Written
  <2>5. data' = data
    BY <2>2, <2>4 DEF IInv, Types
  <2>6. UNCHANGED vars
    BY <2>2, <2>3, <2>5 DEF vars, handleVars, blockVars
  <2> QED BY <2>6, Preserved, StutterRefines DEF AbstractStep
<1> QED
  BY <1>1, <1>2, <1>3

-----------------------------------------------------------------------------
(* One lemma for each disjunct of ArchiveNext.                             *)

Fine == AInv' /\ [Values!Next]_(Values!valueVars)

LEMMA Promised ==
    ASSUME AInv', NEW h \in Handles, AbstractStep(h)
    PROVE  Fine
BY DEF Fine, AbstractStep, Values!Next

LEMMA BufferStep ==
    ASSUME AInv, NEW h \in Handles, Bare(h), HandleNext(h), archive' = archive
    PROVE  Fine
<1>1. IInv' /\ AbstractStep(h)
  BY CallKeeps, CallRefines DEF AInv
<1> QED
  BY <1>1, BareCall, Promised

LEMMA WriteStep ==
    ASSUME AInv, NEW h \in Handles, Bare(h), NEW s \in Seq(Bytes),
           Extend(h, s), archive' = archive
    PROVE  Fine
<1>1. IInv' /\ AbstractStep(h)
  BY ExtendAny DEF AInv
<1> QED
  BY <1>1, BareCall, Promised

LEMMA AlignStep ==
    ASSUME AInv, NEW w \in Handles, AlignWriter(w)
    PROVE  Fine
<1>1. PICK n : n = PaddingNeededFor(len[w], ALIGNMENT)
  OBVIOUS
<1>2. PICK s \in [1 .. n -> Bytes] : Extend(w, s)
  BY <1>1 DEF AlignWriter
<1>3. n \in Nat
  <2>1. PICK l \in Nat, a \in Nat \ {0}, m \in Nat \ {0} :
           l = len[w] /\ a = ALIGNMENT /\ m = Word
    BY HandleFacts, Limits, LayoutAssumption DEF AInv
  <2>2. PICK b \in Nat : b = (l + a - 1) % m
    <3>1. (l + a - 1) % m \in Nat
      BY <2>1, DivMod
    <3> QED BY <3>1
  <2>3. b % a \in Nat
    <3>1. b \in Int
      BY <2>2
    <3>2. b % a \in 0 .. a - 1
      BY <3>1, DivMod
    <3> QED BY <3>2
  <2>4. PICK y \in Int : y = (b - (b % a)) - l
    BY <2>1, <2>3
  <2>5. y % m \in Nat
    BY <2>1, <2>4, DivMod
  <2> QED BY <1>1, <2>1, <2>2, <2>4, <2>5 DEF PaddingNeededFor
<1>4. s \in Seq(Bytes)
  BY <1>2, <1>3, Lengths
<1> QED
  BY <1>2, <1>4, WriteStep DEF AlignWriter

LEMMA SerializeStep ==
    ASSUME AInv, NEW h \in Handles, NEW w \in Handles, Serialize(h, w)
    PROVE  Fine
<1>1. PICK s \in Seq(Bytes) : s = BytesOf(h)
  BY DEF AInv, AllWritten
<1>2. Bare(w) /\ Extend(w, s) /\ archive' = archive
  BY <1>1 DEF Serialize
<1> QED
  BY <1>2, WriteStep

LEMMA PlaceStep ==
    ASSUME AInv, NEW h \in Handles, NEW pos \in Nat, NEW size \in Nat,
           NewWithPos(h, pos, size) \/ Map(h, pos, size)
    PROVE  Fine
<1>1. /\ kind[h] = "shared" /\ UNCHANGED vars /\ pos + size <= LenOf(h)
      /\ archive' = [archive EXCEPT ![h] = Archive(h, pos, size)]
  <2>1. CASE NewWithPos(h, pos, size)
    BY <2>1 DEF NewWithPos
  <2>2. CASE Map(h, pos, size)
    <3>1. LenOf(h) \in Nat
      BY KnownHolds DEF AInv, Known, ReadsPart
    <3> QED BY <2>2, <3>1 DEF Map, AInv, Archives, Valid
  <2> QED BY <2>1, <2>2
<1>2. AInv' /\ UNCHANGED Values!valueVars
  BY <1>1, Placed
<1> QED
  BY <1>2 DEF Fine

LEMMA CloneArchiveStep ==
    ASSUME AInv, NEW h \in Handles, NEW g \in Handles, CloneArchive(h, g)
    PROVE  Fine
<1>1. /\ ~Bare(h) /\ Clone(h, g) /\ HandleNext(h)
      /\ archive' = [archive EXCEPT ![g] = archive[h]]
  BY DEF CloneArchive, HandleNext
<1>2. IInv' /\ AbstractStep(h)
  BY <1>1, CallKeeps, CallRefines DEF AInv
<1>0. Known /\ Known'
  BY <1>2, KnownHolds, KnownNext DEF AInv
<1>3. AllWritten'
  BY <1>0, <1>2, WrittenKept DEF AInv, Known
<1>4. /\ kind[h] = "shared" /\ kind' = [kind EXCEPT ![g] = "shared"]
      /\ Shows(g, BytesOf(h))
  BY <1>1, CloneShowsSame DEF AInv
<1>5. kind \in [Handles -> {"none", "unique", "shared"}] /\ ArchiveTypes
  BY DEF AInv, Archives, IInv, Types
<1>6. ASSUME NEW f \in Handles PROVE Valid(f)'
  <2>1. CASE f = g
    <3>1. archive'[f] = archive[h] /\ kind'[f] = kind[h] /\ BytesOf(f)' = BytesOf(h)
      BY <1>1, <1>4, <1>5, <2>1 DEF Shows, ArchiveTypes
    <3> QED BY <1>0, <3>1, ArchiveKept DEF AInv, Known
  <2>2. CASE f # g
    <3>1. archive'[f] = archive[f] /\ kind'[f] = kind[f] /\ BytesOf(f)' = BytesOf(f)
      BY <1>1, <1>4, <1>5, <2>2 DEF Shows, ArchiveTypes
    <3> QED BY <1>0, <3>1, ArchiveKept DEF AInv, Known
  <2> QED BY <2>1, <2>2
<1>7. ArchiveTypes'
  BY <1>1, <1>5 DEF ArchiveTypes
<1> QED
  BY <1>2, <1>3, <1>6, <1>7, Promised DEF AInv, Archives

LEMMA DeserializeStep ==
    ASSUME AInv, NEW h \in Handles, NEW g \in Handles, Deserialize(h, g)
    PROVE  Fine
<1>0. Known
  BY KnownHolds DEF AInv
<1>1. PICK p \in Nat, n \in Nat : /\ p = archive[h].pos /\ n = archive[h].size
                                  /\ p + n <= LenOf(h) /\ kind[h] = "shared"
  BY DEF Deserialize, AInv, Archives, ArchiveTypes, Valid, Bare
<1>2. archive' = archive
  BY DEF Deserialize
<1>3. CASE n = 0
  <2>1. New(g) /\ kind[g] = "none"
    BY <1>1, <1>3 DEF Deserialize, New
  <2>2. Bare(g) /\ HandleNext(g)
    BY <2>1 DEF AInv, Archives, Valid, HandleNext
  <2> QED BY <1>2, <2>2, BufferStep
<1>4. CASE n # 0
  <2>1. PICK r \in Rooms(g, n) :
           Settle(g, n, r, Written(Carried(g, r.cap), 0, Resolved(h, p, n)))
    BY <1>1, <1>4 DEF Deserialize
  <2>2. /\ kind[g] = "none" /\ Obtainable(n) /\ kind' = [kind EXCEPT ![g] = "unique"]
        /\ len' = [len EXCEPT ![g] = n] /\ panicked' = panicked
    BY <1>1, <1>4 DEF Deserialize
  <2>3. PICK v \in Seq(Bytes) : v = BytesOf(h) /\ Len(v) = LenOf(h) /\ Len(v) \in Nat
    BY <1>0 DEF AInv, AllWritten, Known, ReadsPart
  <2>4. PICK s \in Seq(Bytes) : /\ s = Resolved(h, p, n) /\ Len(s) = n
                                /\ s = SubSeq(v, p + 1, p + n)
    <3>1. Resolved(h, p, n) = PartOf(v, p, n)
      BY <1>0, <1>1, <2>3 DEF Known, ReadsPart
    <3>2. /\ PartOf(v, p, n) \in Seq(Bytes) /\ Len(PartOf(v, p, n)) = n
          /\ PartOf(v, p, n) = SubSeq(v, p + 1, p + n)
      <4>1. p + n <= Len(v)
        BY <1>1, <2>3
      <4> QED BY <4>1, PartIsBytes
    <3> QED BY <3>1, <3>2
  <2>5. len[g] = 0 /\ BytesOf(g) = <<>> /\ kind[g] # "shared"
    BY <2>2, HandleFacts, Shown DEF AInv
  <2>6. n \in Nat \ {0} /\ r.cap \in n .. Limit /\ Limit \in Nat
    BY <1>4, <2>1, <2>2, Asked, RoomsHaveRoom, Limits
  <2>7. /\ len[g] + Len(s) <= r.cap /\ len' = [len EXCEPT ![g] = @ + Len(s)]
        /\ Settle(g, n, r, Written(Carried(g, r.cap), len[g], s))
    <3>1. 0 + Len(s) = n
      BY <2>4
    <3> QED BY <2>1, <2>2, <2>4, <2>5, <2>6, <3>1 DEF AInv, IInv, Types
  <2>8. IInv' /\ Shows(g, BytesOf(g) \o s)
    BY <2>1, <2>2, <2>5, <2>6, <2>7, Grown, GrownShows DEF AInv
  <2>9. BytesOf(g) \o s = s
    BY <2>4, <2>5, ConcatEmptySeq
  <2>10. Values!Becomes(g, "unique", SubSeq(BytesOf(h), p + 1, p + n))
    BY <2>2, <2>3, <2>4, <2>8, <2>9, ShowsBecomes
  <2>11. p \in 0 .. Len(BytesOf(h)) /\ p + n \in 0 .. Len(BytesOf(h))
    BY <1>1, <2>3
  <2>12. AbstractStep(g)
    BY <2>2, <2>10, <2>11 DEF AbstractStep, Values!CallOf, Values!CopyPart
  <2>13. Bare(g)
    BY <2>2 DEF AInv, Archives, Valid
  <2> QED BY <1>2, <2>8, <2>12, <2>13, BareCall, Promised
<1> QED
  BY <1>3, <1>4

LEMMA DropArchiveStep ==
    ASSUME AInv, NEW h \in Handles, DropArchive(h)
    PROVE  Fine
<1>1. HandleNext(h) /\ archive' = [archive EXCEPT ![h] = NoArchive]
  BY DEF DropArchive, HandleNext
<1>2. IInv' /\ AbstractStep(h)
  BY <1>1, CallKeeps, CallRefines DEF AInv
<1>0. Known /\ Known'
  BY <1>2, KnownHolds, KnownNext DEF AInv
<1>3. AllWritten'
  BY <1>0, <1>2, WrittenKept DEF AInv, Known
<1>4. ArchiveTypes
  BY DEF AInv, Archives
<1>5. ASSUME NEW f \in Handles PROVE Valid(f)'
  <2>1. CASE f = h \/ Bare(f)
    BY <1>1, <1>4, <2>1 DEF ArchiveTypes, Valid, Bare
  <2>2. CASE f # h /\ ~Bare(f)
    <3>1. archive'[f] = archive[f] /\ kind[f] = "shared"
      BY <1>1, <1>4, <2>2 DEF ArchiveTypes, AInv, Archives, Valid
    <3>2. kind'[f] = kind[f] /\ BytesOf(f)' = BytesOf(f)
      BY <1>2, <2>2, <3>1, SharedSpared DEF AInv
    <3> QED BY <1>0, <3>1, <3>2, ArchiveKept DEF AInv, Known
  <2> QED BY <2>1, <2>2
<1>6. ArchiveTypes'
  BY <1>1, <1>4 DEF ArchiveTypes
<1> QED
  BY <1>2, <1>3, <1>5, <1>6, Promised DEF AInv, Archives

-----------------------------------------------------------------------------
LEMMA ArchiveStep ==
    ASSUME AInv, [ArchiveNext]_archiveVars
    PROVE  Fine
<1>0. Known
  BY KnownHolds DEF AInv
<1>1. CASE UNCHANGED archiveVars
  <2>1. UNCHANGED vars /\ archive' = archive
    BY <1>1 DEF archiveVars
  <2>2. IInv' /\ UNCHANGED Values!valueVars
    BY <2>1, Preserved, StutterRefines DEF AInv
  <2>3. kind' = kind /\ \A f \in Handles : BytesOf(f)' = BytesOf(f)
    BY <2>2, SilentShows
  <2>4. AllWritten'
    BY <2>3 DEF AInv, AllWritten
  <2>5. ASSUME NEW f \in Handles PROVE Valid(f)'
    BY <1>0, <2>1, <2>2, <2>3, KnownNext, ArchiveKept DEF AInv, Known
  <2>6. ArchiveTypes'
    BY <2>1 DEF AInv, Archives, ArchiveTypes
  <2> QED BY <2>2, <2>4, <2>5, <2>6 DEF Fine, AInv, Archives
<1>2. ASSUME NEW h \in Handles, NEW size \in Sizes, NewAtEnd(h, size) PROVE Fine
  <2>1. size \in Nat /\ Larger(0, LenOf(h) - size) \in Nat
    BY <1>0, ArchiveAssumption DEF Known, ReadsPart, Larger
  <2> QED BY <1>2, <2>1, PlaceStep DEF NewAtEnd
<1>3. ASSUME NEW h \in Handles, NEW pos \in 0 .. Limit, NEW size \in Sizes,
             NewWithPos(h, pos, size)
      PROVE  Fine
  <2>1. pos \in Nat /\ size \in Nat
    BY Limits, ArchiveAssumption
  <2> QED BY <1>3, <2>1, PlaceStep
<1>4. ASSUME NEW h \in Handles, NEW start, NEW size \in Sizes, Map(h, start, size)
      PROVE  Fine
  <2>1. start \in Nat /\ size \in Nat
    BY <1>0, <1>4, ArchiveAssumption DEF Map, Known, ReadsPart
  <2> QED BY <1>4, <2>1, PlaceStep
<1>5. CASE ArchiveNext
  BY <1>2, <1>3, <1>4, <1>5, BufferStep, AlignStep, SerializeStep, CloneArchiveStep,
     DeserializeStep, DropArchiveStep DEF ArchiveNext
<1> QED
  BY <1>1, <1>5

LEMMA ArchiveStarts ==
    ASSUME ArchiveInit
    PROVE  AInv /\ Values!Init
<1>1. Init /\ archive = [h \in Handles |-> NoArchive]
  BY DEF ArchiveInit
<1>2. IInv /\ [h \in Handles |-> BytesOf(h)] = [h \in Handles |-> <<>>]
  BY <1>1, Starts, StartsEmpty
<1>3. AllWritten
  <2>1. ASSUME NEW h \in Handles PROVE BytesOf(h) = <<>>
    BY <1>1, ZeroWord DEF Init, BytesOf, Allocated
  <2> QED BY <2>1, Empty DEF AllWritten
<1>4. Archives
  BY <1>1 DEF Archives, ArchiveTypes, Valid, Bare
<1>5. Values!Init
  BY <1>1, <1>2 DEF Init, Values!Init
<1> QED
  BY <1>2, <1>3, <1>4, <1>5 DEF AInv

LEMMA ArchiveInvariant == ArchiveSpec => []AInv
<1>1. AInv /\ [ArchiveNext]_archiveVars => AInv'
  BY ArchiveStep DEF Fine
<1> QED
  BY <1>1, ArchiveStarts, PTL DEF ArchiveSpec

\* An archive always derefs to the value that was checked when it was made, for
\* every size of a value, every chain of maps, and whatever becomes of its clones
\* and of the buffers it shares its memory with: deref never has to check again.
THEOREM ArchivesStayValid == ArchiveSpec => []ArchivesResolve
<1>1. AInv => ArchivesResolve
  BY DEF AInv, Archives, Valid, ArchivesResolve
<1> QED
  BY <1>1, ArchiveInvariant, PTL

\* The layouts of a buffer fit its memory also where archives, their clones and
\* the serializer have been at work on it.
THEOREM ArchiveLayouts == ArchiveSpec => []LayoutFits
<1>1. AInv => LayoutFits
  BY LayoutHolds DEF AInv
<1> QED
  BY <1>1, ArchiveInvariant, PTL

\* Nor does an archive lose a block or free one under another handle: clones are
\* counted, and an archive that goes, with or without a failure, lets go of its own.
THEOREM ArchiveBlocks == ArchiveSpec => []BlocksAreOwned
<1>1. AInv => BlocksAreOwned
  BY BlocksHold DEF AInv
<1> QED
  BY <1>1, ArchiveInvariant, PTL

\* With archives the buffers are the values ByteStrings says they are: pointing
\* into one, cloning it, writing it into another or reading a value back out of
\* it never changes another buffer.
THEOREM ArchiveValues == ArchiveSpec => ImplementsByteStrings
<1>1. ArchiveInit => Values!Init
  BY ArchiveStarts
<1>2. AInv /\ [ArchiveNext]_archiveVars => [Values!Next]_(Values!valueVars)
  BY ArchiveStep DEF Fine
<1> QED
  BY <1>1, <1>2, ArchiveInvariant, PTL DEF ArchiveSpec, ImplementsByteStrings, Values!Spec
=============================================================================
