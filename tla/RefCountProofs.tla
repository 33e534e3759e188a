--------------------------- MODULE RefCountProofs ---------------------------
(***************************************************************************)
(* The invariants of RefCount, proved for any number of threads, handles   *)
(* and blocks and any counter width the assumptions allow, and that it     *)
(* implements Ownership.                                                   *)
(***************************************************************************)
EXTENDS RefCount, FiniteSetTheorems, TLAPS

-----------------------------------------------------------------------------
(* Facts about the operators the actions are built from.                   *)

LEMMA StampType ==
    ASSUME NEW v \in [Threads -> SUBSET Access], NEW t \in Threads, NEW k \in Kinds
    PROVE  Stamp(v, t, k) \in [Threads -> SUBSET Access]
  BY DEF Stamp, Access

LEMMA KindsElements == "read" \in Kinds /\ "write" \in Kinds
  BY DEF Kinds

\* Counting modulo RefModulus stays below it, and is plain counting there.
LEMMA WrappingType ==
    ASSUME NEW n \in 0 .. RefModulus - 1
    PROVE  /\ (n + 1) % RefModulus \in 0 .. RefModulus - 1
           /\ (n - 1) % RefModulus \in 0 .. RefModulus - 1
           /\ n + 1 < RefModulus => (n + 1) % RefModulus = n + 1
           /\ n > 0 => (n - 1) % RefModulus = n - 1
  BY ConstantsAssumption

LEMMA CountersHaveValues == RefModulus > 1 /\ 0 \in 0 .. RefModulus - 1 /\ 1 \in 0 .. RefModulus - 1
  <1>1. Cardinality(Threads) \in Nat
    BY ConstantsAssumption, FS_CardinalityType
  <1> QED BY <1>1, ConstantsAssumption, ThreadsAssumption

LEMMA TouchType ==
    ASSUME TypeOK, NEW t \in Threads, NEW b \in Blocks, NEW k \in Kinds, Touch(t, b, k)
    PROVE  /\ unseen' \in [Blocks -> [Threads -> SUBSET Access]]
           /\ rel' \in [Blocks -> SUBSET Access]
  <1>1. Stamp(unseen[b], t, k) \in [Threads -> SUBSET Access]
    BY StampType DEF TypeOK
  <1>2. <<t, k>> \in Access
    BY DEF Access
  <1> QED BY <1>1, <1>2 DEF TypeOK, Touch

LEMMA LoadAcquireType ==
    ASSUME TypeOK, NEW t \in Threads, NEW b \in Blocks, LoadAcquire(t, b)
    PROVE  /\ unseen' \in [Blocks -> [Threads -> SUBSET Access]]
           /\ rel' \in [Blocks -> SUBSET Access]
           /\ stale' \in [Blocks -> SUBSET Threads]
  <1> DEFINE v == Learn(unseen[b], t, rel[b])
  <1>1. v \in [Threads -> SUBSET Access]
    BY DEF TypeOK, Learn
  <1>2. Stamp(v, t, "read") \in [Threads -> SUBSET Access]
    BY <1>1, StampType, KindsElements
  <1>3. <<t, "read">> \in Access
    BY KindsElements DEF Access
  <1> HIDE DEF v
  <1> QED BY <1>2, <1>3 DEF TypeOK, LoadAcquire, v

LEMMA FreshType ==
    ASSUME NEW t \in Threads
    PROVE  /\ FreshUnseen(t) \in [Threads -> SUBSET Access]
           /\ NoneUnseen \in [Threads -> SUBSET Access]
           /\ <<t, "write">> \in Access
  BY DEF FreshUnseen, NoneUnseen, Access, Kinds

-----------------------------------------------------------------------------
(* Type correctness.                                                       *)

LEMMA TypeInit == Init => TypeOK
  <1> SUFFICES ASSUME Init PROVE TypeOK
    OBVIOUS
  <1> USE DEF Init
  <1>1. phase \in [Handles -> Phases]
    BY DEF Phases
  <1>2. unseen \in [Blocks -> [Threads -> SUBSET Access]] /\ stale \in [Blocks -> SUBSET Threads]
    BY DEF NoneUnseen
  <1>3. ref_count \in [Blocks -> 0 .. RefModulus - 1]
    BY CountersHaveValues
  <1> QED BY <1>1, <1>2, <1>3 DEF TypeOK

LEMMA TypeStep == TypeOK /\ [Next]_vars => TypeOK'
  <1> SUFFICES ASSUME TypeOK, [Next]_vars PROVE TypeOK'
    OBVIOUS
  <1> USE DEF TypeOK
  <1>p. {"none", "leaked", "unique", "shared", "checked", "cloning", "overflow",
         "last", "acquired", "retired"} = Phases
    BY DEF Phases, Resting, InFlight
  <1>0. CASE UNCHANGED vars
    BY <1>0 DEF vars
  <1> SUFFICES ASSUME NEW t \in Threads, NEW h \in Handles,
                      \/ New(t, h)
                      \/ \E b \in Blocks : Alloc(t, h, b)
                      \/ \E c \in Blocks : ReallocMove(t, h, c)
                      \/ \E g \in Handles : ShrinkToEmpty(t, h, g)
                      \/ Write(t, h)
                      \/ Read(t, h)
                      \/ IntoShared(t, h)
                      \/ LoadRefCount(t, h)
                      \/ TryUniqueLoad(t, h)
                      \/ TryUniqueEmpty(t, h)
                      \/ \E g \in Handles : CloneEmpty(t, h, g)
                      \/ \E g \in Handles : RefClone(t, h, g)
                      \/ DropEmpty(t, h)
                      \/ DropSub(t, h)
                      \/ \E u \in Threads : Send(t, h, u)
                      \/ Forget(t, h)
                      \/ Continue(t, h)
               PROVE  TypeOK'
    BY <1>0 DEF Next
  <1>1. CASE New(t, h)
    BY <1>1, <1>p DEF New, orderVars
  <1>2. ASSUME NEW b \in Blocks, Alloc(t, h, b) PROVE TypeOK'
    BY <1>2, FreshType, CountersHaveValues DEF Alloc
  <1>3. ASSUME NEW c \in Blocks, ReallocMove(t, h, c) PROVE TypeOK'
    <2>1. buf[h] \in Blocks
      BY <1>3 DEF ReallocMove
    <2> QED BY <1>3, <2>1, FreshType, CountersHaveValues DEF ReallocMove
  <1>4. ASSUME NEW g \in Handles, ShrinkToEmpty(t, h, g) PROVE TypeOK'
    BY <1>4, <1>p DEF ShrinkToEmpty, orderVars
  <1>5. CASE Write(t, h)
    BY <1>5, TouchType, KindsElements DEF Write, handleVars
  <1>6. CASE Read(t, h)
    BY <1>6, TouchType, KindsElements DEF Read, handleVars
  <1>7. CASE IntoShared(t, h)
    BY <1>7, <1>p DEF IntoShared, orderVars
  <1>8. CASE LoadRefCount(t, h)
    BY <1>8, LoadAcquireType DEF LoadRefCount, handleVars
  <1>9. CASE TryUniqueLoad(t, h)
    <2>1. buf[h] \in Blocks
      BY <1>9 DEF TryUniqueLoad
    <2>2. /\ unseen' \in [Blocks -> [Threads -> SUBSET Access]]
          /\ rel' \in [Blocks -> SUBSET Access]
          /\ stale' \in [Blocks -> SUBSET Threads]
      BY <1>9, <2>1, TouchType, LoadAcquireType, KindsElements DEF TryUniqueLoad
    <2> QED BY <1>9, <2>2, <1>p DEF TryUniqueLoad
  <1>10. CASE TryUniqueEmpty(t, h)
    BY <1>10, <1>p DEF TryUniqueEmpty, orderVars
  <1>11. ASSUME NEW g \in Handles, CloneEmpty(t, h, g) PROVE TypeOK'
    BY <1>11, <1>p DEF CloneEmpty, orderVars
  <1>12. ASSUME NEW g \in Handles, RefClone(t, h, g) PROVE TypeOK'
    <2>1. buf[h] \in Blocks
      BY <1>12 DEF RefClone
    <2>2. Touch(t, buf[h], "read") /\ stale' \in [Blocks -> SUBSET Threads]
      BY <1>12, <2>1 DEF RefClone, FetchAddRelaxed, StaleAfterRMW
    <2>3. ref_count' \in [Blocks -> 0 .. RefModulus - 1]
      BY <1>12, <2>1, WrappingType DEF RefClone, FetchAddRelaxed
    <2>4. /\ unseen' \in [Blocks -> [Threads -> SUBSET Access]]
          /\ rel' \in [Blocks -> SUBSET Access]
      BY <2>1, <2>2, TouchType, KindsElements
    <2> QED BY <1>12, <2>2, <2>3, <2>4, <1>p DEF RefClone
  <1>13. CASE DropEmpty(t, h)
    BY <1>13, <1>p DEF DropEmpty, orderVars
  <1>14. CASE DropSub(t, h)
    <2>1. buf[h] \in Blocks
      BY <1>14 DEF DropSub
    <2>2. FetchSubRelease(t, buf[h])
      BY <1>14 DEF DropSub
    <2>3. ref_count' \in [Blocks -> 0 .. RefModulus - 1]
      BY <2>1, <2>2, WrappingType DEF FetchSubRelease
    <2>4. unseen' \in [Blocks -> [Threads -> SUBSET Access]]
      BY <2>1, <2>2, StampType, KindsElements DEF FetchSubRelease
    <2>5. rel' \in [Blocks -> SUBSET Access] /\ stale' \in [Blocks -> SUBSET Threads]
      BY <2>1, <2>2 DEF FetchSubRelease, StaleAfterRMW
    <2> QED BY <1>14, <2>3, <2>4, <2>5, <1>p DEF DropSub
  <1>15. ASSUME NEW u \in Threads, Send(t, h, u) PROVE TypeOK'
    BY <1>15 DEF Send
  <1>16. CASE Forget(t, h)
    BY <1>16, <1>p DEF Forget, orderVars
  <1>17. CASE Continue(t, h)
    <2>1. CASE ResetCap(t, h)
      <3>1. CASE buf[h] \in Blocks
        BY <2>1, <3>1, <1>p, TouchType, KindsElements DEF ResetCap
      <3>2. CASE buf[h] = NoBlock
        BY <2>1, <3>2, <1>p, ConstantsAssumption DEF ResetCap, Touch
      <3> QED BY <3>1, <3>2
    <2>2. CASE CloneDone(t, h)
      BY <2>2, <1>p DEF CloneDone, orderVars
    <2>3. CASE Abort(t, h)
      BY <2>3 DEF Abort, handleVars, orderVars
    <2>4. CASE DropLoad(t, h)
      <3>1. CASE buf[h] \in Blocks
        BY <2>4, <3>1, <1>p, LoadAcquireType DEF DropLoad
      <3>2. CASE buf[h] = NoBlock
        BY <2>4, <3>2, <1>p, ConstantsAssumption DEF DropLoad, LoadAcquire
      <3> QED BY <3>1, <3>2
    <2>5. CASE DropStore(t, h)
      <3>1. StoreRelease(t, buf[h], 1)
        BY <2>5 DEF DropStore
      <3>2. CASE buf[h] \in Blocks
        <4>1. unseen' \in [Blocks -> [Threads -> SUBSET Access]]
          BY <3>1, <3>2, StampType, KindsElements DEF StoreRelease
        <4>2. /\ ref_count' \in [Blocks -> 0 .. RefModulus - 1]
              /\ rel' \in [Blocks -> SUBSET Access]
              /\ stale' \in [Blocks -> SUBSET Threads]
          BY <3>1, <3>2, CountersHaveValues DEF StoreRelease, StaleAfterRMW
        <4> QED BY <2>5, <4>1, <4>2, <1>p DEF DropStore
      <3>3. CASE buf[h] = NoBlock
        <4>1. ref_count' = ref_count /\ unseen' = unseen /\ rel' = rel
          BY <3>1, <3>3, ConstantsAssumption DEF StoreRelease
        <4>2. stale' = stale
          BY <3>1, <3>3, ConstantsAssumption DEF StoreRelease, StaleAfterRMW
        <4> QED BY <2>5, <4>1, <4>2, <1>p DEF DropStore
      <3> QED BY <3>2, <3>3
    <2>6. CASE Deallocate(t, h)
      BY <2>6, <1>p, FreshType, CountersHaveValues DEF Deallocate
    <2>7. CASE Recycle(t, h)
      BY <2>7, <1>p DEF Recycle, orderVars
    <2> QED BY <1>17, <2>1, <2>2, <2>3, <2>4, <2>5, <2>6, <2>7 DEF Continue
  <1> QED BY <1>1, <1>2, <1>3, <1>4, <1>5, <1>6, <1>7, <1>8, <1>9, <1>10, <1>11, <1>12,
             <1>13, <1>14, <1>15, <1>16, <1>17

\* Every handle, block and counter stays within its type, whatever the
\* interleaving of the calls.
THEOREM TypeCorrect == Spec => []TypeOK
  BY TypeInit, TypeStep, PTL DEF Spec
-----------------------------------------------------------------------------
(* How many handles there are.                                             *)

LEMMA FiniteHolders ==
    ASSUME NEW b \in Blocks
    PROVE  /\ IsFiniteSet(Refs(b)) /\ Cardinality(Refs(b)) \in Nat
           /\ IsFiniteSet(Passed(b)) /\ Cardinality(Passed(b)) \in Nat
  <1>1. Refs(b) \in SUBSET Handles /\ Passed(b) \in SUBSET Handles
    BY DEF Refs, Passed
  <1> QED BY <1>1, ConstantsAssumption, FS_Subset, FS_CardinalityType

\* A count of 1 means one holder, and no drop under way.
LEMMA SoleHolder ==
    ASSUME TypeOK, HandleShape, Counting, NEW b \in Blocks, NEW h \in Refs(b)
    PROVE  /\ Doomed(b) = {} /\ \A f \in Handles : buf[f] = b => f \in Refs(b)
           /\ ref_count[b] = Cardinality(Refs(b))
           /\ ref_count[b] = 1 <=> Refs(b) = {h}
  <1>1. live[b]
    BY ConstantsAssumption DEF HandleShape, Refs
  <1>2. Doomed(b) = {} /\ ref_count[b] = Cardinality(Refs(b))
    BY <1>1 DEF Counting
  <1>3. Cardinality(Refs(b)) = 1 <=> \E x : Refs(b) = {x}
    BY FiniteHolders, FS_Singleton
  <1>4. \A f \in Handles : buf[f] = b => f \in Refs(b) \cup Doomed(b)
    BY ConstantsAssumption DEF TypeOK, HandleShape, Refs, Doomed, Phases, Resting, InFlight, Counted, Dying
  <1> QED BY <1>2, <1>3, <1>4

\* Holders past the check are at most MaxRefcount + 1 and each of the others
\* occupies a thread, so the counter cannot wrap.
LEMMA SaturationBounds ==
    TypeOK /\ HandleShape /\ OneCallPerThread /\ Saturation => NoCounterWrap
  <1> SUFFICES ASSUME TypeOK, HandleShape, OneCallPerThread, Saturation, NEW b \in Blocks
               PROVE  Cardinality(Refs(b)) < RefModulus
    BY DEF NoCounterWrap, Saturation
  <1> DEFINE Over == Refs(b) \ Passed(b)
  <1> DEFINE f == [h \in Over |-> owner[h]]
  <1>1. \A h \in Over : h \in Handles /\ phase[h] = "overflow"
    BY DEF Refs, Passed
  <1>2. f \in Injection(Over, Threads)
    <2>1. \A h \in Over : owner[h] \in Threads
      BY <1>1 DEF HandleShape, TypeOK
    <2>2. \A g, h \in Over : owner[g] = owner[h] => g = h
      BY <1>1 DEF OneCallPerThread, InFlight
    <2>3. f \in [Over -> Threads] /\ \A g, h \in Over : f[g] = f[h] => g = h
      BY <2>1, <2>2
    <2> HIDE DEF Over, f
    <2> QED BY <2>3 DEF Injection, IsInjective
  <1>3. IsFiniteSet(Over) /\ Cardinality(Over) <= Cardinality(Threads)
    BY <1>2, FS_Injection, ConstantsAssumption
  <1>4. Refs(b) = Passed(b) \cup Over /\ Passed(b) \cap Over = {}
    BY DEF Passed
  <1>5. Cardinality(Refs(b)) = Cardinality(Passed(b)) + Cardinality(Over)
    <2> HIDE DEF Over
    <2>1. Cardinality(Passed(b) \cup Over)
            = Cardinality(Passed(b)) + Cardinality(Over) - Cardinality(Passed(b) \cap Over)
      BY <1>3, FiniteHolders, FS_Union
    <2>2. Cardinality(Passed(b)) \in Nat /\ Cardinality(Over) \in Nat
      BY <1>3, FiniteHolders, FS_CardinalityType
    <2>3. Cardinality(Passed(b) \cap Over) = 0
      BY <1>4, FS_EmptySet
    <2>4. Cardinality(Refs(b)) = Cardinality(Passed(b) \cup Over)
      BY <1>4
    <2> QED BY <2>1, <2>2, <2>3, <2>4
  <1>6. /\ Cardinality(Passed(b)) \in Nat /\ Cardinality(Over) \in Nat
        /\ Cardinality(Threads) \in Nat
    BY <1>3, FiniteHolders, FS_CardinalityType, ConstantsAssumption
  <1>7. Cardinality(Passed(b)) <= MaxRefcount + 1
    BY DEF Saturation
  <1> HIDE DEF Over
  <1> QED BY <1>3, <1>5, <1>6, <1>7, ConstantsAssumption, ThreadsAssumption

\* A step that moves no handle to or from a block, and starts or ends no drop,
\* disturbs neither the counts nor the bound on them.
LEMMA QuietStep ==
    ASSUME TypeOK, Counting, Saturation,
           buf' = buf, live' = live, ref_count' = ref_count,
           \A h \in Handles : buf[h] # NoBlock =>
               /\ phase[h] \in Counted <=> phase'[h] \in Counted
               /\ phase[h] \in Dying <=> phase'[h] \in Dying
               /\ phase[h] = "overflow" <=> phase'[h] = "overflow"
               /\ phase[h] = "retired" <=> phase'[h] = "retired"
    PROVE  /\ Counting' /\ Saturation'
           /\ \A b \in Blocks : Refs(b)' = Refs(b)
  <1>1. \A b \in Blocks : Refs(b)' = Refs(b) /\ Doomed(b)' = Doomed(b) /\ Passed(b)' = Passed(b)
    BY ConstantsAssumption DEF Refs, Doomed, Passed
  <1>2. \A b \in Blocks : \A h \in Doomed(b) : phase[h] = "retired" <=> phase'[h] = "retired"
    BY ConstantsAssumption DEF Doomed
  <1>3. Counting'
    BY <1>1, <1>2 DEF Counting
  <1>4. Saturation'
    BY <1>1 DEF Saturation
  <1> QED BY <1>1, <1>3, <1>4
-----------------------------------------------------------------------------
(* Each step preserves the counts.  First the steps that change none.      *)

LEMMA CountQuiet ==
    ASSUME TypeOK, CountInv, NEW t \in Threads, NEW h \in Handles,
           \/ New(t, h)
           \/ Write(t, h)
           \/ Read(t, h)
           \/ IntoShared(t, h)
           \/ LoadRefCount(t, h)
           \/ TryUniqueLoad(t, h)
           \/ TryUniqueEmpty(t, h)
           \/ \E g \in Handles : CloneEmpty(t, h, g)
           \/ DropEmpty(t, h)
           \/ \E u \in Threads : Send(t, h, u)
           \/ Forget(t, h)
           \/ ResetCap(t, h)
           \/ CloneDone(t, h)
           \/ Abort(t, h)
           \/ DropLoad(t, h)
    PROVE  CountInv'
  <1> USE ConstantsAssumption
      DEF TypeOK, CountInv, Idle, Holds, Resting, InFlight, Counted, Dying
  <1>1. CASE New(t, h)
    <2>1. HandleShape' /\ OneCallPerThread'
      BY <1>1 DEF New, orderVars, HandleShape, OneCallPerThread
    <2>2. Counting' /\ Saturation' /\ \A b \in Blocks : Refs(b)' = Refs(b)
      BY <1>1, QuietStep DEF New, orderVars, HandleShape
    <2>3. ExclusiveIsAlone'
      BY <1>1, <2>2 DEF New, orderVars, ExclusiveIsAlone, HandleShape
    <2>4. NoStaleOne'
      BY <1>1 DEF New, orderVars, NoStaleOne, HandleShape
    <2> QED BY <2>1, <2>2, <2>3, <2>4
  <1>2. CASE Write(t, h)
    <2>1. HandleShape' /\ OneCallPerThread'
      BY <1>2 DEF Write, handleVars, HandleShape, OneCallPerThread
    <2>2. Counting' /\ Saturation' /\ \A b \in Blocks : Refs(b)' = Refs(b)
      BY <1>2, QuietStep DEF Write, handleVars, HandleShape
    <2>3. ExclusiveIsAlone'
      BY <1>2, <2>2 DEF Write, handleVars, ExclusiveIsAlone, HandleShape
    <2>4. NoStaleOne'
      BY <1>2 DEF Write, handleVars, NoStaleOne, HandleShape
    <2> QED BY <2>1, <2>2, <2>3, <2>4
  <1>3. CASE Read(t, h)
    <2>1. HandleShape' /\ OneCallPerThread'
      BY <1>3 DEF Read, handleVars, HandleShape, OneCallPerThread
    <2>2. Counting' /\ Saturation' /\ \A b \in Blocks : Refs(b)' = Refs(b)
      BY <1>3, QuietStep DEF Read, handleVars, HandleShape
    <2>3. ExclusiveIsAlone'
      BY <1>3, <2>2 DEF Read, handleVars, ExclusiveIsAlone, HandleShape
    <2>4. NoStaleOne'
      BY <1>3 DEF Read, handleVars, NoStaleOne, HandleShape
    <2> QED BY <2>1, <2>2, <2>3, <2>4
  <1>4. CASE IntoShared(t, h)
    <2>1. HandleShape' /\ OneCallPerThread'
      BY <1>4 DEF IntoShared, orderVars, HandleShape, OneCallPerThread
    <2>2. Counting' /\ Saturation' /\ \A b \in Blocks : Refs(b)' = Refs(b)
      BY <1>4, QuietStep DEF IntoShared, orderVars, HandleShape
    <2>3. ExclusiveIsAlone'
      BY <1>4, <2>2 DEF IntoShared, orderVars, ExclusiveIsAlone, HandleShape
    <2>4. NoStaleOne'
      BY <1>4 DEF IntoShared, orderVars, NoStaleOne, HandleShape
    <2> QED BY <2>1, <2>2, <2>3, <2>4
  <1>5. CASE LoadRefCount(t, h)
    <2>1. HandleShape' /\ OneCallPerThread'
      BY <1>5 DEF LoadRefCount, LoadAcquire, handleVars, HandleShape, OneCallPerThread
    <2>2. Counting' /\ Saturation' /\ \A b \in Blocks : Refs(b)' = Refs(b)
      BY <1>5, QuietStep DEF LoadRefCount, LoadAcquire, handleVars, HandleShape
    <2>3. ExclusiveIsAlone'
      BY <1>5, <2>2 DEF LoadRefCount, LoadAcquire, handleVars, ExclusiveIsAlone, HandleShape
    <2>4. NoStaleOne'
      BY <1>5 DEF LoadRefCount, LoadAcquire, handleVars, NoStaleOne, HandleShape
    <2> QED BY <2>1, <2>2, <2>3, <2>4
  <1>6. CASE TryUniqueLoad(t, h)
    <2>1. h \in Refs(buf[h]) /\ buf[h] \in Blocks
      BY <1>6 DEF TryUniqueLoad, LoadAcquire, Refs
    <2>2. t \notin stale[buf[h]]
      BY <1>6 DEF TryUniqueLoad, LoadAcquire, NoStaleOne
    <2>3. Refs(buf[h]) = {h}
      BY <1>6, <2>1, <2>2, SoleHolder DEF TryUniqueLoad, LoadAcquire
    <2>4. HandleShape' /\ OneCallPerThread'
      BY <1>6 DEF TryUniqueLoad, LoadAcquire, HandleShape, OneCallPerThread
    <2>5. Counting' /\ Saturation' /\ \A b \in Blocks : Refs(b)' = Refs(b)
      BY <1>6, QuietStep DEF TryUniqueLoad, LoadAcquire, HandleShape
    <2>6. ExclusiveIsAlone'
      BY <1>6, <2>5, <2>3 DEF TryUniqueLoad, LoadAcquire, ExclusiveIsAlone, HandleShape
    <2>7. NoStaleOne'
      <3>1. buf' = buf /\ owner' = owner
        BY <1>6 DEF TryUniqueLoad
      <3>2. stale' = [stale EXCEPT ![buf[h]] = @ \ {t}]
        BY <1>6, <2>2 DEF TryUniqueLoad, LoadAcquire
      <3>3. stale \in [Blocks -> SUBSET Threads]
        BY DEF TypeOK
      <3>4. \A b \in Blocks : stale'[b] \subseteq stale[b]
        BY <3>2, <3>3
      <3>5. \A g \in Handles : buf[g] # NoBlock => buf[g] \in Blocks
        BY DEF TypeOK
      <3> QED BY <3>1, <3>4, <3>5 DEF NoStaleOne
    <2> QED BY <2>4, <2>5, <2>6, <2>7
  <1>7. CASE TryUniqueEmpty(t, h)
    <2>1. HandleShape' /\ OneCallPerThread'
      BY <1>7 DEF TryUniqueEmpty, orderVars, HandleShape, OneCallPerThread
    <2>2. Counting' /\ Saturation' /\ \A b \in Blocks : Refs(b)' = Refs(b)
      BY <1>7, QuietStep DEF TryUniqueEmpty, orderVars, HandleShape
    <2>3. ExclusiveIsAlone'
      BY <1>7, <2>2 DEF TryUniqueEmpty, orderVars, ExclusiveIsAlone, HandleShape
    <2>4. NoStaleOne'
      BY <1>7 DEF TryUniqueEmpty, orderVars, NoStaleOne, HandleShape
    <2> QED BY <2>1, <2>2, <2>3, <2>4
  <1>8. ASSUME NEW g \in Handles, CloneEmpty(t, h, g) PROVE CountInv'
    <2>1. HandleShape' /\ OneCallPerThread'
      BY <1>8 DEF CloneEmpty, orderVars, HandleShape, OneCallPerThread
    <2>2. Counting' /\ Saturation' /\ \A b \in Blocks : Refs(b)' = Refs(b)
      BY <1>8, QuietStep DEF CloneEmpty, orderVars, HandleShape
    <2>3. ExclusiveIsAlone'
      BY <1>8, <2>2 DEF CloneEmpty, orderVars, ExclusiveIsAlone, HandleShape
    <2>4. NoStaleOne'
      BY <1>8 DEF CloneEmpty, orderVars, NoStaleOne, HandleShape
    <2> QED BY <2>1, <2>2, <2>3, <2>4
  <1>9. CASE DropEmpty(t, h)
    <2>1. HandleShape' /\ OneCallPerThread'
      BY <1>9 DEF DropEmpty, orderVars, HandleShape, OneCallPerThread
    <2>2. Counting' /\ Saturation' /\ \A b \in Blocks : Refs(b)' = Refs(b)
      BY <1>9, QuietStep DEF DropEmpty, orderVars, HandleShape
    <2>3. ExclusiveIsAlone'
      BY <1>9, <2>2 DEF DropEmpty, orderVars, ExclusiveIsAlone, HandleShape
    <2>4. NoStaleOne'
      BY <1>9 DEF DropEmpty, orderVars, NoStaleOne, HandleShape
    <2> QED BY <2>1, <2>2, <2>3, <2>4
  <1>10. ASSUME NEW u \in Threads, Send(t, h, u) PROVE CountInv'
    <2>1. HandleShape' /\ OneCallPerThread'
      BY <1>10 DEF Send, HandleShape, OneCallPerThread
    <2>2. Counting' /\ Saturation' /\ \A b \in Blocks : Refs(b)' = Refs(b)
      BY <1>10, QuietStep DEF Send, HandleShape
    <2>3. ExclusiveIsAlone'
      BY <1>10, <2>2 DEF Send, ExclusiveIsAlone, HandleShape
    <2>4. NoStaleOne'
      BY <1>10 DEF Send, NoStaleOne, HandleShape
    <2> QED BY <2>1, <2>2, <2>3, <2>4
  <1>11. CASE Forget(t, h)
    <2>1. HandleShape' /\ OneCallPerThread'
      BY <1>11 DEF Forget, orderVars, HandleShape, OneCallPerThread
    <2>2. Counting' /\ Saturation' /\ \A b \in Blocks : Refs(b)' = Refs(b)
      BY <1>11, QuietStep DEF Forget, orderVars, HandleShape
    <2>3. ExclusiveIsAlone'
      BY <1>11, <2>2 DEF Forget, orderVars, ExclusiveIsAlone, HandleShape
    <2>4. NoStaleOne'
      BY <1>11 DEF Forget, orderVars, NoStaleOne, HandleShape
    <2> QED BY <2>1, <2>2, <2>3, <2>4
  <1>12. CASE ResetCap(t, h)
    <2>1. HandleShape' /\ OneCallPerThread'
      BY <1>12 DEF ResetCap, HandleShape, OneCallPerThread
    <2>2. Counting' /\ Saturation' /\ \A b \in Blocks : Refs(b)' = Refs(b)
      BY <1>12, QuietStep DEF ResetCap, HandleShape
    <2>3. ExclusiveIsAlone'
      BY <1>12, <2>2 DEF ResetCap, ExclusiveIsAlone, HandleShape
    <2>4. NoStaleOne'
      BY <1>12 DEF ResetCap, NoStaleOne, HandleShape
    <2> QED BY <2>1, <2>2, <2>3, <2>4
  <1>13. CASE CloneDone(t, h)
    <2>1. HandleShape' /\ OneCallPerThread'
      BY <1>13 DEF CloneDone, orderVars, HandleShape, OneCallPerThread
    <2>2. Counting' /\ Saturation' /\ \A b \in Blocks : Refs(b)' = Refs(b)
      BY <1>13, QuietStep DEF CloneDone, orderVars, HandleShape
    <2>3. ExclusiveIsAlone'
      BY <1>13, <2>2 DEF CloneDone, orderVars, ExclusiveIsAlone, HandleShape
    <2>4. NoStaleOne'
      BY <1>13 DEF CloneDone, orderVars, NoStaleOne, HandleShape
    <2> QED BY <2>1, <2>2, <2>3, <2>4
  <1>14. CASE Abort(t, h)
    <2>1. HandleShape' /\ OneCallPerThread'
      BY <1>14 DEF Abort, handleVars, orderVars, HandleShape, OneCallPerThread
    <2>2. Counting' /\ Saturation' /\ \A b \in Blocks : Refs(b)' = Refs(b)
      BY <1>14, QuietStep DEF Abort, handleVars, orderVars, HandleShape
    <2>3. ExclusiveIsAlone'
      BY <1>14, <2>2 DEF Abort, handleVars, orderVars, ExclusiveIsAlone, HandleShape
    <2>4. NoStaleOne'
      BY <1>14 DEF Abort, handleVars, orderVars, NoStaleOne, HandleShape
    <2> QED BY <2>1, <2>2, <2>3, <2>4
  <1>15. CASE DropLoad(t, h)
    <2>1. HandleShape' /\ OneCallPerThread'
      BY <1>15 DEF DropLoad, LoadAcquire, HandleShape, OneCallPerThread
    <2>2. Counting' /\ Saturation' /\ \A b \in Blocks : Refs(b)' = Refs(b)
      BY <1>15, QuietStep DEF DropLoad, LoadAcquire, HandleShape
    <2>3. ExclusiveIsAlone'
      BY <1>15, <2>2 DEF DropLoad, LoadAcquire, ExclusiveIsAlone, HandleShape
    <2>4. NoStaleOne'
      BY <1>15 DEF DropLoad, LoadAcquire, NoStaleOne, HandleShape
    <2> QED BY <2>1, <2>2, <2>3, <2>4
  <1> QED BY <1>1, <1>2, <1>3, <1>4, <1>5, <1>6, <1>7, <1>8, <1>9, <1>10, <1>11, <1>12, <1>13, <1>14, <1>15
LEMMA Singletons == \A x : Cardinality({x}) = 1
  BY FS_Singleton

\* A block a unique or checked handle points to has no other handle at all.
LEMMA AloneMeansCountOne ==
    ASSUME TypeOK, CountInv, NEW h \in Handles, phase[h] \in {"unique", "checked"}, buf[h] # NoBlock
    PROVE  /\ buf[h] \in Blocks /\ live[buf[h]]
           /\ Refs(buf[h]) = {h} /\ Doomed(buf[h]) = {} /\ ref_count[buf[h]] = 1
           /\ \A g \in Handles : buf[g] = buf[h] => g = h
  <1>1. buf[h] \in Blocks /\ live[buf[h]] /\ Refs(buf[h]) = {h}
    BY DEF TypeOK, CountInv, HandleShape, ExclusiveIsAlone
  <1>2. Doomed(buf[h]) = {} /\ ref_count[buf[h]] = 1
    BY <1>1, Singletons DEF CountInv, Counting
  <1>3. \A g \in Handles : buf[g] = buf[h] => g \in Refs(buf[h]) \cup Doomed(buf[h])
    BY DEF TypeOK, CountInv, HandleShape, Refs, Doomed, Phases, Resting, InFlight, Counted, Dying
  <1> QED BY <1>1, <1>2, <1>3

\* A block in its last drop has the dropping handle only.
LEMMA DoomedIsAlone ==
    ASSUME TypeOK, CountInv, NEW h \in Handles, phase[h] \in Dying
    PROVE  /\ buf[h] \in Blocks /\ live[buf[h]]
           /\ Refs(buf[h]) = {} /\ Doomed(buf[h]) = {h}
           /\ ref_count[buf[h]] = IF phase[h] = "retired" THEN 1 ELSE 0
           /\ \A g \in Handles : buf[g] = buf[h] => g = h
  <1>1. buf[h] \in Blocks /\ live[buf[h]] /\ h \in Doomed(buf[h])
    BY DEF TypeOK, CountInv, HandleShape, Doomed, Dying, InFlight
  <1>2. /\ Refs(buf[h]) = {} /\ Doomed(buf[h]) = {h}
        /\ ref_count[buf[h]] = IF phase[h] = "retired" THEN 1 ELSE 0
    BY <1>1 DEF CountInv, Counting
  <1>3. \A g \in Handles : buf[g] = buf[h] => g \in Refs(buf[h]) \cup Doomed(buf[h])
    BY <1>1 DEF TypeOK, CountInv, HandleShape, Refs, Doomed, Phases, Resting, InFlight, Counted, Dying
  <1> QED BY <1>1, <1>2, <1>3

LEMMA OneMore ==
    ASSUME NEW b \in Blocks, NEW g
    PROVE  /\ g \notin Refs(b) => Cardinality(Refs(b) \cup {g}) = Cardinality(Refs(b)) + 1
           /\ Cardinality(Passed(b) \cup {g}) <= Cardinality(Passed(b)) + 1
           /\ Cardinality(Passed(b)) <= Cardinality(Refs(b))
           /\ Cardinality(Passed(b) \cup {g}) \in Nat
  <1>1. Cardinality(Passed(b)) <= Cardinality(Refs(b))
    BY FiniteHolders, FS_Subset DEF Passed
  <1>2. /\ Cardinality(Refs(b) \cup {g})
             = IF g \in Refs(b) THEN Cardinality(Refs(b)) ELSE Cardinality(Refs(b)) + 1
        /\ Cardinality(Passed(b) \cup {g})
             = IF g \in Passed(b) THEN Cardinality(Passed(b)) ELSE Cardinality(Passed(b)) + 1
    BY FiniteHolders, FS_AddElement
  <1> QED BY <1>1, <1>2, FiniteHolders

\* The bound survives a step that changes the holders of one block to few enough.
LEMMA SaturationElsewhere ==
    ASSUME Saturation, NEW b \in Blocks, Cardinality(Passed(b)') <= MaxRefcount + 1,
           \A d \in Blocks \ {b} : Passed(d)' = Passed(d)
    PROVE  Saturation'
  BY DEF Saturation

LEMMA SmallHolders ==
    /\ Cardinality({}) <= MaxRefcount + 1
    /\ \A x : Cardinality({x}) <= MaxRefcount + 1
  <1>1. Cardinality({}) = 0 /\ \A x : Cardinality({x}) = 1
    BY FS_EmptySet, FS_Singleton
  <1> QED BY <1>1, ConstantsAssumption

LEMMA CountAlloc ==
    ASSUME TypeOK, CountInv, NEW t \in Threads, NEW h \in Handles, NEW b \in Blocks, Alloc(t, h, b)
    PROVE  CountInv'
  <1>1. HandleShape' /\ OneCallPerThread'
    BY ConstantsAssumption DEF TypeOK, CountInv, Idle, Holds, Resting, InFlight, Counted, Dying, Alloc, HandleShape, OneCallPerThread
  <1>2. Refs(b)' = {h} /\ Passed(b)' = {h} /\ Doomed(b)' = {}
    BY ConstantsAssumption DEF TypeOK, CountInv, Idle, Holds, Resting, InFlight, Counted, Dying, Alloc, HandleShape, Refs, Passed, Doomed
  <1>3. \A d \in Blocks \ {b} : Refs(d)' = Refs(d) /\ Passed(d)' = Passed(d) /\ Doomed(d)' = Doomed(d)
    BY ConstantsAssumption DEF TypeOK, CountInv, Idle, Holds, Resting, InFlight, Counted, Dying, Alloc, Refs, Passed, Doomed
  <1>4. Counting'
    BY <1>2, <1>3, Singletons DEF Counting, Alloc, CountInv, TypeOK
  <1>5. Saturation'
    BY <1>2, <1>3, SmallHolders, SaturationElsewhere DEF CountInv
  <1>6. ExclusiveIsAlone'
    BY <1>2, <1>3, ConstantsAssumption DEF TypeOK, CountInv, Idle, Holds, Resting, InFlight, Counted, Dying, Alloc, ExclusiveIsAlone, HandleShape
  <1>7. NoStaleOne'
    BY ConstantsAssumption DEF TypeOK, CountInv, Idle, Holds, Resting, InFlight, Counted, Dying, Alloc, NoStaleOne, HandleShape
  <1> QED BY <1>1, <1>4, <1>5, <1>6, <1>7 DEF CountInv

LEMMA CountReallocMove ==
    ASSUME TypeOK, CountInv, NEW t \in Threads, NEW h \in Handles, NEW c \in Blocks, ReallocMove(t, h, c)
    PROVE  CountInv'
  <1>b. PICK b \in Blocks : b = buf[h]
    BY AloneMeansCountOne DEF ReallocMove, Holds
  <1>0. /\ b \in Blocks /\ live[b] /\ b # c /\ ~live[c]
        /\ Refs(b) = {h} /\ Doomed(b) = {} /\ ref_count[b] = 1
        /\ \A g \in Handles : buf[g] = b => g = h
    BY <1>b, AloneMeansCountOne DEF ReallocMove, Holds
  <1>f. /\ phase' = phase /\ owner' = owner /\ buf' = [buf EXCEPT ![h] = c] /\ phase[h] = "unique"
        /\ live' = [live EXCEPT ![b] = FALSE, ![c] = TRUE]
        /\ ref_count' = [ref_count EXCEPT ![b] = 0, ![c] = ref_count[b]]
        /\ stale' = [stale EXCEPT ![b] = {}, ![c] = {}]
    BY <1>b DEF ReallocMove, Holds
  <1>g. \A g \in Handles : buf[g] # c
    BY <1>b, <1>0, ConstantsAssumption DEF CountInv, HandleShape
  <1>1. HandleShape' /\ OneCallPerThread'
    BY <1>b, <1>0, <1>f, ConstantsAssumption DEF TypeOK, CountInv, Resting, InFlight, HandleShape, OneCallPerThread
  <1>2. Refs(c)' = {h} /\ Passed(c)' = {h} /\ Doomed(c)' = {}
    BY <1>b, <1>0, <1>f, <1>g DEF TypeOK, Counted, Dying, Refs, Passed, Doomed
  <1>3. Refs(b)' = {} /\ Passed(b)' = {} /\ Doomed(b)' = {}
    BY <1>b, <1>0, <1>f DEF TypeOK, Refs, Passed, Doomed
  <1>4. \A d \in Blocks \ {b, c} : Refs(d)' = Refs(d) /\ Passed(d)' = Passed(d) /\ Doomed(d)' = Doomed(d)
    BY <1>b, <1>f DEF TypeOK, Refs, Passed, Doomed
  <1>5. Counting'
    <2>1. ref_count'[c] = 1 /\ ref_count'[b] = 0 /\ \A d \in Blocks \ {b, c} : ref_count'[d] = ref_count[d]
      BY <1>b, <1>0, <1>f DEF TypeOK
    <2>2. live'[c] /\ ~live'[b] /\ \A d \in Blocks \ {b, c} : live'[d] = live[d]
      BY <1>b, <1>0, <1>f DEF TypeOK
    <2>3. /\ Refs(c)' # {} /\ Doomed(c)' = {}
          /\ ref_count'[c] = Cardinality(Refs(c)')
      BY <1>2, <2>1, Singletons
    <2> SUFFICES ASSUME NEW d \in Blocks, live'[d]
                 PROVE  \/ /\ Refs(d)' # {} /\ Doomed(d)' = {}
                           /\ ref_count'[d] = Cardinality(Refs(d)')
                        \/ /\ Refs(d)' = {}
                           /\ \E f \in Handles :
                                /\ Doomed(d)' = {f}
                                /\ ref_count'[d] = IF phase'[f] = "retired" THEN 1 ELSE 0
      BY DEF Counting
    <2>4. CASE d \in Blocks \ {b, c}
      <3>1. live[d] /\ ref_count'[d] = ref_count[d]
        BY <2>1, <2>2, <2>4
      <3> QED BY <1>f, <1>4, <2>4, <3>1 DEF Counting, CountInv
    <2> QED BY <2>2, <2>3, <2>4
  <1>6. Saturation'
    <2>1. \A d \in Blocks : Cardinality(Passed(d)') <= MaxRefcount + 1
      BY <1>2, <1>3, <1>4, SmallHolders DEF CountInv, Saturation
    <2> QED BY <2>1 DEF Saturation
  <1>7. ExclusiveIsAlone'
    BY <1>b, <1>0, <1>f, <1>g, <1>2, <1>3, <1>4, ConstantsAssumption DEF TypeOK, CountInv, ExclusiveIsAlone
  <1>8. NoStaleOne'
    BY <1>b, <1>0, <1>f DEF TypeOK, CountInv, NoStaleOne
  <1> QED BY <1>1, <1>5, <1>6, <1>7, <1>8 DEF CountInv

LEMMA CountShrinkToEmpty ==
    ASSUME TypeOK, CountInv, NEW t \in Threads, NEW h \in Handles, NEW g \in Handles, ShrinkToEmpty(t, h, g)
    PROVE  CountInv'
  <1>b. PICK b \in Blocks : b = buf[h]
    BY AloneMeansCountOne DEF ShrinkToEmpty, Holds
  <1>0. /\ b \in Blocks /\ live[b] /\ g # h
        /\ Refs(b) = {h} /\ Doomed(b) = {} /\ ref_count[b] = 1
        /\ \A f \in Handles : buf[f] = b => f = h
    BY <1>b, AloneMeansCountOne DEF ShrinkToEmpty, Holds
  <1>f. /\ phase' = [phase EXCEPT ![g] = "retired"] /\ phase[h] = "unique" /\ phase[g] = "none"
        /\ buf' = [buf EXCEPT ![g] = b, ![h] = NoBlock] /\ buf[g] = NoBlock
        /\ live' = live /\ ref_count' = ref_count /\ stale' = stale
    BY <1>b DEF ShrinkToEmpty, Holds, orderVars, CountInv, HandleShape
  <1>1. HandleShape' /\ OneCallPerThread'
    BY <1>b, <1>0, ConstantsAssumption DEF TypeOK, CountInv, Idle, Holds, Resting, InFlight, Counted, Dying, ShrinkToEmpty, HandleShape, OneCallPerThread
  <1>2. Refs(b)' = {} /\ Passed(b)' = {}
    BY <1>b, <1>0, <1>f, ConstantsAssumption DEF TypeOK, Refs, Passed, Counted
  <1>3. Doomed(b)' = {g} /\ phase'[g] = "retired"
    BY <1>b, <1>0, <1>f, ConstantsAssumption DEF TypeOK, Doomed, Dying
  <1>4. \A d \in Blocks \ {b} : Refs(d)' = Refs(d) /\ Passed(d)' = Passed(d) /\ Doomed(d)' = Doomed(d)
    BY <1>b, <1>0, <1>f, ConstantsAssumption DEF TypeOK, Refs, Passed, Doomed
  <1>5. Counting'
    <2>1. \A d \in Blocks \ {b} : \A f \in Handles : Doomed(d) = {f} => phase'[f] = phase[f]
      BY <1>b, <1>0, <1>f, ConstantsAssumption DEF Doomed, TypeOK
    <2>2. \A d \in Blocks \ {b} : live[d] =>
             \/ /\ Refs(d)' # {} /\ Doomed(d)' = {}
                /\ ref_count'[d] = Cardinality(Refs(d)')
             \/ /\ Refs(d)' = {}
                /\ \E f \in Handles :
                     /\ Doomed(d)' = {f}
                     /\ ref_count'[d] = IF phase'[f] = "retired" THEN 1 ELSE 0
      BY <1>f, <1>4, <2>1 DEF Counting, CountInv
    <2> QED BY <1>b, <1>0, <1>f, <1>2, <1>3, <2>2 DEF Counting
  <1>6. Saturation'
    BY <1>b, <1>0, <1>2, <1>4, SmallHolders, SaturationElsewhere DEF CountInv
  <1>7. ExclusiveIsAlone'
    BY <1>b, <1>0, <1>f, <1>2, <1>4, ConstantsAssumption DEF TypeOK, CountInv, ExclusiveIsAlone, HandleShape
  <1>8. NoStaleOne'
    BY <1>b, <1>0, <1>f, ConstantsAssumption DEF TypeOK, CountInv, Idle, Holds, Resting, InFlight, Counted, Dying, NoStaleOne, HandleShape, ShrinkToEmpty
  <1> QED BY <1>1, <1>5, <1>6, <1>7, <1>8 DEF CountInv

LEMMA CountRefClone ==
    ASSUME TypeOK, TypeOK', CountInv, NEW t \in Threads, NEW h \in Handles, NEW g \in Handles, RefClone(t, h, g)
    PROVE  CountInv'
  <1>a. PICK b \in Blocks : b = buf[h]
    BY DEF RefClone, TypeOK
  <1>b. b = buf[h] /\ live[b] /\ g # h /\ h \in Refs(b) /\ g \notin Refs(b)
    BY <1>a, ConstantsAssumption DEF TypeOK, CountInv, HandleShape, RefClone, Holds, Refs, Counted
  <1>0. Doomed(b) = {} /\ ref_count[b] = Cardinality(Refs(b))
    BY <1>b, SoleHolder DEF CountInv
  <1>f. /\ phase' = [phase EXCEPT ![g] = IF ref_count[b] > MaxRefcount THEN "overflow" ELSE "cloning"]
        /\ buf' = [buf EXCEPT ![g] = b] /\ buf[g] = NoBlock
        /\ owner' = [owner EXCEPT ![g] = t]
        /\ phase[h] = "shared" /\ phase[g] = "none" /\ owner[h] = t
        /\ live' = live /\ ref_count' = [ref_count EXCEPT ![b] = (@ + 1) % RefModulus]
        /\ stale' = [stale EXCEPT ![b] = IF ref_count[b] = 1 THEN Threads \ {t} ELSE @ \ {t}]
    BY <1>a DEF RefClone, Holds, FetchAddRelaxed, StaleAfterRMW, CountInv, HandleShape
  <1>1. HandleShape' /\ OneCallPerThread'
    BY <1>b, ConstantsAssumption DEF TypeOK, CountInv, Idle, Holds, Resting, InFlight, Counted, Dying, RefClone, FetchAddRelaxed, HandleShape, OneCallPerThread
  <1>2. Refs(b)' = Refs(b) \cup {g} /\ Doomed(b)' = {}
    BY <1>b, <1>0, <1>f DEF TypeOK, Counted, Dying, Refs, Doomed
  <1>p. Passed(b)' = IF ref_count[b] > MaxRefcount THEN Passed(b) ELSE Passed(b) \cup {g}
    BY <1>b, <1>2, <1>f DEF TypeOK, Passed, Refs
  <1>3. \A d \in Blocks \ {b} : Refs(d)' = Refs(d) /\ Passed(d)' = Passed(d) /\ Doomed(d)' = Doomed(d)
    BY <1>b, <1>f, ConstantsAssumption DEF TypeOK, Refs, Passed, Doomed
  <1>4. Cardinality(Refs(b)') = Cardinality(Refs(b)) + 1
    BY <1>b, <1>2, OneMore
  <1>5. Saturation'
    <2>1. Cardinality(Passed(b)') <= MaxRefcount + 1
      <3>1. CASE ref_count[b] > MaxRefcount
        BY <1>b, <1>p, <3>1 DEF Saturation, CountInv
      <3>2. CASE ~(ref_count[b] > MaxRefcount)
        <4>1. /\ Cardinality(Passed(b)') <= Cardinality(Passed(b)) + 1
              /\ Cardinality(Passed(b)') \in Nat
              /\ Cardinality(Passed(b)) <= Cardinality(Refs(b))
          BY <1>b, <1>p, <3>2, OneMore
        <4>2. Cardinality(Refs(b)) <= MaxRefcount
          BY <1>b, <1>0, <3>2, FiniteHolders, ConstantsAssumption
        <4> QED BY <1>b, <4>1, <4>2, FiniteHolders, ConstantsAssumption
      <3> QED BY <3>1, <3>2
    <2> QED BY <1>b, <1>3, <2>1, SaturationElsewhere DEF CountInv
  <1>6. Counting'
    <2>1. NoCounterWrap'
      BY <1>1, <1>5, SaturationBounds, PTL
    <2>2. Cardinality(Refs(b)) + 1 < RefModulus
      BY <1>b, <1>4, <2>1 DEF NoCounterWrap
    <2>3. ref_count'[b] = Cardinality(Refs(b)')
      BY <1>b, <1>0, <1>f, <1>4, <2>2, WrappingType DEF TypeOK
    <2>4. \A d \in Blocks \ {b} : \A f \in Handles : Doomed(d) = {f} => phase'[f] = phase[f]
      BY <1>f DEF Doomed, TypeOK, Dying
    <2>5. \A d \in Blocks \ {b} : ref_count'[d] = ref_count[d] /\ live'[d] = live[d]
      BY <1>b, <1>f DEF TypeOK
    <2>6. \A d \in Blocks \ {b} : live'[d] =>
             \/ /\ Refs(d)' # {} /\ Doomed(d)' = {}
                /\ ref_count'[d] = Cardinality(Refs(d)')
             \/ /\ Refs(d)' = {}
                /\ \E f \in Handles :
                     /\ Doomed(d)' = {f}
                     /\ ref_count'[d] = IF phase'[f] = "retired" THEN 1 ELSE 0
      BY <1>3, <2>4, <2>5 DEF Counting, CountInv
    <2> QED BY <1>b, <1>2, <2>3, <2>6 DEF Counting
  <1>7. ExclusiveIsAlone'
    <2>1. \A f \in Refs(b) : phase[f] \notin {"unique", "checked"}
      BY <1>b, <1>f, ConstantsAssumption DEF CountInv, ExclusiveIsAlone, Refs
    <2> QED BY <1>b, <1>f, <1>3, <2>1, ConstantsAssumption DEF TypeOK, CountInv, ExclusiveIsAlone, Refs, Counted
  <1>8. NoStaleOne'
    <2>1. \A f \in Handles : buf[f] = b /\ ref_count[b] = 1 => f = h
      BY <1>b, SoleHolder DEF CountInv
    <2> QED BY <1>b, <1>f, <2>1 DEF TypeOK, CountInv, NoStaleOne
  <1> QED BY <1>1, <1>5, <1>6, <1>7, <1>8 DEF CountInv

\* A step that changes the holders, the count and the phases of one block only
\* leaves every other block counted.
LEMMA CountingElsewhere ==
    ASSUME Counting, NEW b \in Blocks,
           \A d \in Blocks \ {b} :
               /\ Refs(d)' = Refs(d) /\ Doomed(d)' = Doomed(d)
               /\ live'[d] = live[d] /\ ref_count'[d] = ref_count[d]
               /\ \A f \in Doomed(d) : phase'[f] = phase[f],
           live'[b] =>
               \/ /\ Refs(b)' # {} /\ Doomed(b)' = {}
                  /\ ref_count'[b] = Cardinality(Refs(b)')
               \/ /\ Refs(b)' = {}
                  /\ \E h \in Handles :
                       /\ Doomed(b)' = {h}
                       /\ ref_count'[b] = IF phase'[h] = "retired" THEN 1 ELSE 0
    PROVE  Counting'
  <1>1. \A d \in Blocks \ {b} : \A f \in Handles : Doomed(d) = {f} => phase'[f] = phase[f]
    OBVIOUS
  <1>2. \A d \in Blocks \ {b} : live'[d] =>
             \/ /\ Refs(d)' # {} /\ Doomed(d)' = {}
                /\ ref_count'[d] = Cardinality(Refs(d)')
             \/ /\ Refs(d)' = {}
                /\ \E f \in Handles :
                     /\ Doomed(d)' = {f}
                     /\ ref_count'[d] = IF phase'[f] = "retired" THEN 1 ELSE 0
    BY <1>1 DEF Counting
  <1> QED BY <1>2 DEF Counting

\* A drop that is not the last one takes a handle from the block; the last one
\* leaves the block to its dropper.
LEMMA CountDropSub ==
    ASSUME TypeOK, CountInv, NEW t \in Threads, NEW h \in Handles, DropSub(t, h)
    PROVE  CountInv'
  <1>a. PICK b \in Blocks : b = buf[h]
    BY DEF DropSub, TypeOK
  <1>b. live[b] /\ h \in Refs(b) /\ phase[h] \in {"unique", "shared"} /\ owner[h] = t
    BY <1>a, ConstantsAssumption DEF TypeOK, CountInv, HandleShape, DropSub, Holds, Refs, Counted, Resting
  <1>0. /\ Doomed(b) = {} /\ ref_count[b] = Cardinality(Refs(b)) /\ (ref_count[b] = 1 <=> Refs(b) = {h})
        /\ \A f \in Handles : buf[f] = b => f \in Refs(b)
    BY <1>b, SoleHolder DEF CountInv
  <1>c. ref_count[b] > 0 /\ Cardinality(Refs(b) \ {h}) = ref_count[b] - 1
    <2>1. Cardinality(Refs(b) \ {h}) = Cardinality(Refs(b)) - 1 /\ Cardinality(Refs(b) \ {h}) \in Nat
      BY <1>b, FiniteHolders, FS_RemoveElement, FS_CardinalityType
    <2> QED BY <1>0, <2>1, FiniteHolders
  <1>f. /\ ref_count' = [ref_count EXCEPT ![b] = (@ - 1) % RefModulus] /\ live' = live
        /\ ref_count'[b] = ref_count[b] - 1
        /\ stale' = [stale EXCEPT ![b] = IF ref_count[b] = 1 THEN Threads \ {t} ELSE @ \ {t}]
    <2>1. FetchSubRelease(t, b)
      BY <1>a DEF DropSub
    <2>2. (ref_count[b] - 1) % RefModulus = ref_count[b] - 1
      BY <1>c, WrappingType DEF TypeOK
    <2> QED BY <1>a, <2>1, <2>2 DEF DropSub, FetchSubRelease, StaleAfterRMW, TypeOK
  <1>e. \A d \in Blocks \ {b} :
           /\ Refs(d)' = Refs(d) /\ Doomed(d)' = Doomed(d) /\ Passed(d)' = Passed(d)
           /\ live'[d] = live[d] /\ ref_count'[d] = ref_count[d]
           /\ \A f \in Doomed(d) : phase'[f] = phase[f]
    <2>1. \A f \in Handles \ {h} : phase'[f] = phase[f] /\ buf'[f] = buf[f]
      BY <1>a DEF TypeOK, DropSub
    <2>2. buf[h] = b /\ buf'[h] \in {b, NoBlock}
      BY <1>a DEF TypeOK, DropSub
    <2>3. ASSUME NEW d \in Blocks \ {b}
          PROVE  /\ Refs(d)' = Refs(d) /\ Doomed(d)' = Doomed(d) /\ Passed(d)' = Passed(d)
                 /\ \A f \in Doomed(d) : phase'[f] = phase[f]
      <3>1. \A f \in Handles : (buf'[f] = d <=> buf[f] = d) /\ (buf[f] = d => phase'[f] = phase[f])
        BY <2>1, <2>2, <2>3, ConstantsAssumption
      <3>2. Refs(d)' = Refs(d) /\ Doomed(d)' = Doomed(d)
        BY <3>1 DEF Refs, Doomed
      <3>3. \A f \in Refs(d) : phase'[f] = phase[f]
        BY <3>1 DEF Refs
      <3> QED BY <3>1, <3>2, <3>3 DEF Passed, Doomed
    <2>4. \A d \in Blocks \ {b} : live'[d] = live[d] /\ ref_count'[d] = ref_count[d]
      BY <1>f DEF TypeOK
    <2> QED BY <2>3, <2>4
  <1>p. Passed(b)' \subseteq Passed(b)
    BY <1>a, <1>b, ConstantsAssumption DEF TypeOK, DropSub, Refs, Passed, Counted
  <1>1. HandleShape' /\ OneCallPerThread'
    <2>1. CASE ref_count[b] # 1
      <3>1. /\ phase' = [phase EXCEPT ![h] = "none"] /\ owner' = [owner EXCEPT ![h] = NoThread]
            /\ buf' = [buf EXCEPT ![h] = NoBlock]
        BY <1>a, <2>1 DEF DropSub
      <3> QED BY <1>a, <1>b, <1>f, <3>1, ConstantsAssumption
              DEF TypeOK, CountInv, InFlight, HandleShape, OneCallPerThread
    <2>2. CASE ref_count[b] = 1
      BY <1>a, <1>b, <1>f, <2>2, ConstantsAssumption
         DEF TypeOK, CountInv, InFlight, DropSub, Idle, HandleShape, OneCallPerThread
    <2> QED BY <2>1, <2>2
  <1>2. Counting'
    <2>1. CASE ref_count[b] # 1
      <3>1. Refs(b)' = Refs(b) \ {h} /\ Doomed(b)' = {}
        BY <1>a, <1>b, <1>0, <2>1, ConstantsAssumption DEF TypeOK, DropSub, Refs, Doomed
      <3>2. Refs(b)' # {} /\ ref_count'[b] = Cardinality(Refs(b)')
        BY <1>b, <1>0, <1>c, <1>f, <2>1, <3>1
      <3> QED BY <1>e, <3>1, <3>2, CountingElsewhere DEF CountInv
    <2>2. CASE ref_count[b] = 1
      <3>1. Refs(b)' = {} /\ Doomed(b)' = {h} /\ phase'[h] = "last"
        BY <1>a, <1>b, <1>0, <2>2 DEF TypeOK, DropSub, Refs, Doomed, Counted, Dying
      <3> QED BY <1>e, <1>f, <2>2, <3>1, CountingElsewhere DEF CountInv
    <2> QED BY <2>1, <2>2
  <1>3. Saturation'
    <2>1. Cardinality(Passed(b)') <= Cardinality(Passed(b))
      BY <1>p, FiniteHolders, FS_Subset
    <2>2. Cardinality(Passed(b)') \in Nat
      BY <1>p, FiniteHolders, FS_Subset, FS_CardinalityType
    <2>3. Cardinality(Passed(b)') <= MaxRefcount + 1
      BY <2>1, <2>2, FiniteHolders, ConstantsAssumption DEF CountInv, Saturation
    <2> QED BY <1>e, <2>3, SaturationElsewhere DEF CountInv
  <1>4. ExclusiveIsAlone'
    <2>1. \A f \in Refs(b) : phase[f] \in {"unique", "checked"} => f = h
      BY <1>b, ConstantsAssumption DEF CountInv, ExclusiveIsAlone, Refs
    <2> QED BY <1>a, <1>b, <1>e, <2>1, ConstantsAssumption
            DEF TypeOK, CountInv, ExclusiveIsAlone, DropSub, Refs, Counted
  <1>5. NoStaleOne'
    <2>1. \A f \in Handles : buf[f] = b /\ ref_count[b] = 1 => f = h
      BY <1>0
    <2>2. CASE ref_count[b] # 1
      BY <1>a, <1>b, <1>f, <2>1, <2>2, ConstantsAssumption DEF TypeOK, CountInv, NoStaleOne, DropSub
    <2>3. CASE ref_count[b] = 1
      BY <1>a, <1>b, <1>f, <2>1, <2>3, ConstantsAssumption DEF TypeOK, CountInv, NoStaleOne, DropSub
    <2> QED BY <2>2, <2>3
  <1> QED BY <1>1, <1>2, <1>3, <1>4, <1>5 DEF CountInv

LEMMA CountDropStore ==
    ASSUME TypeOK, CountInv, NEW t \in Threads, NEW h \in Handles, DropStore(t, h)
    PROVE  CountInv'
  <1>a. PICK b \in Blocks : b = buf[h]
    BY DoomedIsAlone DEF DropStore, Holds, Dying
  <1>0. live[b] /\ Refs(b) = {} /\ Doomed(b) = {h} /\ \A g \in Handles : buf[g] = b => g = h
    BY <1>a, DoomedIsAlone DEF DropStore, Holds, Dying
  <1>f. /\ phase' = [phase EXCEPT ![h] = "retired"] /\ phase[h] = "acquired"
        /\ owner' = owner /\ buf' = buf /\ live' = live
        /\ ref_count' = [ref_count EXCEPT ![b] = 1]
    BY <1>a DEF DropStore, Holds, StoreRelease
  <1>1. HandleShape' /\ OneCallPerThread'
    BY <1>f DEF TypeOK, CountInv, InFlight, HandleShape, OneCallPerThread
  <1>2. Refs(b)' = {} /\ Doomed(b)' = {h} /\ Passed(b)' = {}
    BY <1>a, <1>0, <1>f DEF TypeOK, Refs, Doomed, Passed, Counted, Dying
  <1>e. \A d \in Blocks \ {b} :
           /\ Refs(d)' = Refs(d) /\ Doomed(d)' = Doomed(d) /\ Passed(d)' = Passed(d)
           /\ live'[d] = live[d] /\ ref_count'[d] = ref_count[d]
           /\ \A f \in Doomed(d) : phase'[f] = phase[f]
    BY <1>a, <1>f DEF TypeOK, Refs, Doomed, Passed
  <1>3. Counting'
    BY <1>e, <1>f, <1>2, CountingElsewhere DEF CountInv, TypeOK
  <1>4. Saturation'
    BY <1>e, <1>2, SmallHolders, SaturationElsewhere DEF CountInv
  <1>5. ExclusiveIsAlone'
    BY <1>a, <1>0, <1>f, <1>e, ConstantsAssumption DEF TypeOK, CountInv, ExclusiveIsAlone
  <1>6. NoStaleOne'
    <2>1. stale' = [stale EXCEPT ![b] = @ \ {t}]
      <3>1. ref_count[b] = 0
        BY <1>a, <1>f, DoomedIsAlone DEF Dying
      <3> QED BY <1>a, <3>1 DEF DropStore, StoreRelease, StaleAfterRMW
    <2> QED BY <1>a, <1>f, <2>1 DEF TypeOK, CountInv, NoStaleOne
  <1> QED BY <1>1, <1>3, <1>4, <1>5, <1>6 DEF CountInv

LEMMA CountDeallocate ==
    ASSUME TypeOK, CountInv, NEW t \in Threads, NEW h \in Handles, Deallocate(t, h)
    PROVE  CountInv'
  <1>a. PICK b \in Blocks : b = buf[h]
    BY DoomedIsAlone DEF Deallocate, Holds, Dying
  <1>0. live[b] /\ Refs(b) = {} /\ Doomed(b) = {h} /\ \A g \in Handles : buf[g] = b => g = h
    BY <1>a, DoomedIsAlone DEF Deallocate, Holds, Dying
  <1>f. /\ phase' = [phase EXCEPT ![h] = "none"] /\ owner' = [owner EXCEPT ![h] = NoThread]
        /\ buf' = [buf EXCEPT ![h] = NoBlock] /\ live' = [live EXCEPT ![b] = FALSE]
        /\ ref_count' = [ref_count EXCEPT ![b] = 0] /\ stale' = [stale EXCEPT ![b] = {}]
    BY <1>a DEF Deallocate
  <1>1. HandleShape' /\ OneCallPerThread'
    BY <1>a, <1>0, <1>f, ConstantsAssumption DEF TypeOK, CountInv, InFlight, HandleShape, OneCallPerThread
  <1>2. Passed(b)' = {} /\ ~live'[b]
    BY <1>a, <1>0, <1>f, ConstantsAssumption DEF TypeOK, Refs, Passed
  <1>e. \A d \in Blocks \ {b} :
           /\ Refs(d)' = Refs(d) /\ Doomed(d)' = Doomed(d) /\ Passed(d)' = Passed(d)
           /\ live'[d] = live[d] /\ ref_count'[d] = ref_count[d]
           /\ \A f \in Doomed(d) : phase'[f] = phase[f]
    BY <1>a, <1>f, ConstantsAssumption DEF TypeOK, Refs, Doomed, Passed
  <1>3. Counting'
    BY <1>e, <1>2, CountingElsewhere DEF CountInv
  <1>4. Saturation'
    BY <1>e, <1>2, SmallHolders, SaturationElsewhere DEF CountInv
  <1>5. ExclusiveIsAlone'
    BY <1>a, <1>0, <1>f, <1>e, ConstantsAssumption DEF TypeOK, CountInv, ExclusiveIsAlone
  <1>6. NoStaleOne'
    BY <1>a, <1>0, <1>f, ConstantsAssumption DEF TypeOK, CountInv, NoStaleOne
  <1> QED BY <1>1, <1>3, <1>4, <1>5, <1>6 DEF CountInv

LEMMA CountRecycle ==
    ASSUME TypeOK, CountInv, NEW t \in Threads, NEW h \in Handles, Recycle(t, h)
    PROVE  CountInv'
  <1>a. PICK b \in Blocks : b = buf[h]
    BY DoomedIsAlone DEF Recycle, Holds, Dying
  <1>0. /\ live[b] /\ Refs(b) = {} /\ Doomed(b) = {h} /\ ref_count[b] = 1
        /\ \A g \in Handles : buf[g] = b => g = h
    BY <1>a, DoomedIsAlone DEF Recycle, Holds, Dying
  <1>f. /\ phase' = [phase EXCEPT ![h] = "unique"] /\ phase[h] = "retired" /\ owner[h] = t
        /\ owner' = owner /\ buf' = buf /\ live' = live /\ ref_count' = ref_count /\ stale' = stale
    BY DEF Recycle, Holds, orderVars
  <1>1. HandleShape' /\ OneCallPerThread'
    BY <1>f DEF TypeOK, CountInv, InFlight, HandleShape, OneCallPerThread
  <1>2. Refs(b)' = {h} /\ Doomed(b)' = {} /\ Passed(b)' = {h}
    BY <1>a, <1>0, <1>f DEF TypeOK, Refs, Doomed, Passed, Counted, Dying
  <1>e. \A d \in Blocks \ {b} :
           /\ Refs(d)' = Refs(d) /\ Doomed(d)' = Doomed(d) /\ Passed(d)' = Passed(d)
           /\ live'[d] = live[d] /\ ref_count'[d] = ref_count[d]
           /\ \A f \in Doomed(d) : phase'[f] = phase[f]
    BY <1>a, <1>f DEF TypeOK, Refs, Doomed, Passed
  <1>3. Counting'
    <2>1. Cardinality(Refs(b)') = 1 /\ ref_count'[b] = 1
      BY <1>0, <1>f, <1>2, Singletons
    <2> QED BY <1>e, <1>2, <2>1, CountingElsewhere DEF CountInv
  <1>4. Saturation'
    BY <1>e, <1>2, SmallHolders, SaturationElsewhere DEF CountInv
  <1>5. ExclusiveIsAlone'
    BY <1>a, <1>0, <1>f, <1>2, <1>e, ConstantsAssumption DEF TypeOK, CountInv, ExclusiveIsAlone
  <1>6. NoStaleOne'
    BY <1>f DEF CountInv, NoStaleOne
  <1> QED BY <1>1, <1>3, <1>4, <1>5, <1>6 DEF CountInv

LEMMA CountInit == Init => CountInv
  <1> SUFFICES ASSUME Init PROVE CountInv
    OBVIOUS
  <1>1. HandleShape /\ OneCallPerThread /\ Counting /\ ExclusiveIsAlone /\ NoStaleOne
    BY DEF Init, HandleShape, OneCallPerThread, Counting, ExclusiveIsAlone, NoStaleOne, InFlight
  <1>2. \A b \in Blocks : Passed(b) = {}
    BY DEF Init, Passed, Refs, Counted
  <1>3. Saturation
    BY <1>2, SmallHolders DEF Saturation
  <1> QED BY <1>1, <1>3 DEF CountInv

LEMMA CountStep == TypeOK /\ TypeOK' /\ CountInv /\ [Next]_vars => CountInv'
  <1> SUFFICES ASSUME TypeOK, TypeOK', CountInv, [Next]_vars PROVE CountInv'
    OBVIOUS
  <1>0. CASE UNCHANGED vars
    <2>1. HandleShape' /\ OneCallPerThread' /\ NoStaleOne'
      BY <1>0 DEF vars, CountInv, HandleShape, OneCallPerThread, NoStaleOne
    <2>2. Counting' /\ Saturation' /\ \A b \in Blocks : Refs(b)' = Refs(b)
      BY <1>0, QuietStep DEF vars, CountInv
    <2>3. ExclusiveIsAlone'
      BY <1>0, <2>2 DEF vars, CountInv, ExclusiveIsAlone, TypeOK
    <2> QED BY <2>1, <2>2, <2>3 DEF CountInv
  <1>1. CASE Next
    BY <1>1, CountQuiet, CountAlloc, CountReallocMove, CountShrinkToEmpty, CountRefClone,
       CountDropSub, CountDropStore, CountDeallocate, CountRecycle DEF Next, Continue
  <1> QED BY <1>0, <1>1

LEMMA CountInvariant == Spec => [](TypeOK /\ CountInv)
  BY TypeInit, TypeStep, CountInit, CountStep, PTL DEF Spec

LEMMA CountFacts == TypeOK /\ CountInv => RefCountExact /\ NoUseAfterFree /\ NoOrphans
  <1> SUFFICES ASSUME TypeOK, CountInv PROVE RefCountExact /\ NoUseAfterFree /\ NoOrphans
    OBVIOUS
  <1>1. RefCountExact /\ NoOrphans
    BY DEF CountInv, Counting, RefCountExact, NoOrphans
  <1>2. \A b \in Blocks : \A h \in Doomed(b) : Refs(b) = {} /\ Doomed(b) = {h}
    BY DoomedIsAlone, ConstantsAssumption DEF Doomed
  <1> QED BY <1>1, <1>2 DEF CountInv, HandleShape, NoUseAfterFree

\* The count of a block is the number of handles that point to it, at every
\* point where no last drop is under way.
THEOREM CountIsExact == Spec => []RefCountExact
  BY CountInvariant, CountFacts, PTL

\* No handle ever points to a block that went back to the allocator, and none
\* is left that points to a block in its last drop.
THEOREM MemorySafe == Spec => []NoUseAfterFree
  BY CountInvariant, CountFacts, PTL

\* A block is never forgotten while nothing points to it.
THEOREM NothingOrphaned == Spec => []NoOrphans
  BY CountInvariant, CountFacts, PTL

\* A handle that may write, and one whose try_unique saw a count of 1, is the
\* only handle of its block.
THEOREM ExclusiveHandles == Spec => []ExclusiveIsAlone
  BY CountInvariant, PTL DEF CountInv

\* try_unique cannot succeed on an overwritten count, although its load asks
\* for no more than Acquire.
THEOREM LoadsAreCurrent == Spec => []NoStaleOne
  BY CountInvariant, PTL DEF CountInv

\* The counter never wraps, whatever handles are forgotten and however many
\* threads increment it before one of them aborts.
THEOREM CounterNeverWraps == Spec => []NoCounterWrap
  <1>1. TypeOK /\ CountInv => NoCounterWrap
    BY SaturationBounds DEF CountInv
  <1> QED BY <1>1, CountInvariant, PTL

-----------------------------------------------------------------------------
(* What the atomic and plain accesses do to the happens-before order.      *)

LEMMA TouchEffect ==
    ASSUME TypeOK, OwnAccessesSeen, NEW t \in Threads, NEW b \in Blocks, NEW k \in Kinds, Touch(t, b, k)
    PROVE  /\ \A c \in Blocks \ {b} : unseen'[c] = unseen[c] /\ rel'[c] = rel[c]
           /\ unseen'[b][t] = unseen[b][t]
           /\ \A u \in Threads \ {t} : unseen'[b][u] = unseen[b][u] \cup {<<t, k>>}
           /\ rel'[b] = rel[b] \cup {<<t, k>>}
           /\ OwnAccessesSeen'
  <1>1. /\ \A c \in Blocks \ {b} : unseen'[c] = unseen[c] /\ rel'[c] = rel[c]
        /\ unseen'[b][t] = unseen[b][t]
        /\ \A u \in Threads \ {t} : unseen'[b][u] = unseen[b][u] \cup {<<t, k>>}
        /\ rel'[b] = rel[b] \cup {<<t, k>>}
    BY DEF Touch, Stamp, TypeOK
  <1> QED BY <1>1 DEF OwnAccessesSeen

LEMMA LoadEffect ==
    ASSUME TypeOK, OwnAccessesSeen, NEW t \in Threads, NEW b \in Blocks, LoadAcquire(t, b)
    PROVE  /\ \A c \in Blocks \ {b} : unseen'[c] = unseen[c] /\ rel'[c] = rel[c]
           /\ unseen'[b][t] = unseen[b][t] \cap rel[b]
           /\ \A u \in Threads \ {t} : unseen'[b][u] = unseen[b][u] \cup {<<t, "read">>}
           /\ rel'[b] = rel[b] \cup {<<t, "read">>}
           /\ OwnAccessesSeen'
  <1>1. /\ \A c \in Blocks \ {b} : unseen'[c] = unseen[c] /\ rel'[c] = rel[c]
        /\ unseen'[b][t] = unseen[b][t] \cap rel[b]
        /\ \A u \in Threads \ {t} : unseen'[b][u] = unseen[b][u] \cup {<<t, "read">>}
        /\ rel'[b] = rel[b] \cup {<<t, "read">>}
    BY DEF LoadAcquire, Learn, Stamp, TypeOK
  <1> QED BY <1>1 DEF OwnAccessesSeen

LEMMA SubEffect ==
    ASSUME TypeOK, OwnAccessesSeen, NEW t \in Threads, NEW b \in Blocks, FetchSubRelease(t, b)
    PROVE  /\ \A c \in Blocks \ {b} : unseen'[c] = unseen[c] /\ rel'[c] = rel[c]
           /\ unseen'[b][t] = unseen[b][t]
           /\ \A u \in Threads \ {t} : unseen'[b][u] = unseen[b][u] \cup {<<t, "read">>}
           /\ rel'[b] = rel[b] \cap unseen[b][t]
           /\ OwnAccessesSeen'
  <1>1. /\ \A c \in Blocks \ {b} : unseen'[c] = unseen[c] /\ rel'[c] = rel[c]
        /\ unseen'[b][t] = unseen[b][t]
        /\ \A u \in Threads \ {t} : unseen'[b][u] = unseen[b][u] \cup {<<t, "read">>}
        /\ rel'[b] = rel[b] \cap unseen[b][t]
    BY DEF FetchSubRelease, Stamp, TypeOK
  <1> QED BY <1>1 DEF OwnAccessesSeen

LEMMA StoreEffect ==
    ASSUME TypeOK, OwnAccessesSeen, NEW t \in Threads, NEW b \in Blocks, StoreRelease(t, b, 1)
    PROVE  /\ \A c \in Blocks \ {b} : unseen'[c] = unseen[c] /\ rel'[c] = rel[c]
           /\ unseen'[b][t] = unseen[b][t]
           /\ \A u \in Threads \ {t} : unseen'[b][u] = unseen[b][u] \cup {<<t, "read">>}
           /\ rel'[b] = unseen[b][t]
           /\ OwnAccessesSeen'
  <1>1. /\ \A c \in Blocks \ {b} : unseen'[c] = unseen[c] /\ rel'[c] = rel[c]
        /\ unseen'[b][t] = unseen[b][t]
        /\ \A u \in Threads \ {t} : unseen'[b][u] = unseen[b][u] \cup {<<t, "read">>}
        /\ rel'[b] = unseen[b][t]
    BY DEF StoreRelease, Stamp, TypeOK
  <1> QED BY <1>1 DEF OwnAccessesSeen

\* A block somebody is about to write for the first time.
LEMMA FreshEffect ==
    ASSUME NEW t \in Threads
    PROVE  /\ FreshUnseen(t)[t] = {}
           /\ \A u \in Threads, k \in Kinds : <<u, k>> \notin FreshUnseen(t)[u] /\ NoneUnseen[u] = {}
  BY DEF FreshUnseen, NoneUnseen

-----------------------------------------------------------------------------
(* Each step preserves the order.  First, steps that access no block.      *)

LEMMA OrderQuiet ==
    ASSUME TypeOK, TypeOK', CountInv, CountInv', OrderInv,
           unseen' = unseen, rel' = rel, buf' = buf,
           \A h \in Handles : buf[h] # NoBlock =>
               /\ owner'[h] = owner[h]
               /\ phase[h] \in Counted <=> phase'[h] \in Counted
               /\ phase'[h] \in {"unique", "checked"} => phase[h] \in {"unique", "checked"}
               /\ phase'[h] \in Dying => phase'[h] = phase[h]
    PROVE  OrderInv'
  <1>1. \A b \in Blocks : Refs(b)' = Refs(b) /\ \A h \in Refs(b) : owner'[h] = owner[h]
    BY ConstantsAssumption DEF Refs
  <1>2. OwnAccessesSeen'
    BY DEF OrderInv, OwnAccessesSeen
  <1>3. Covered'
    BY <1>1 DEF OrderInv, Covered
  <1>4. LastReleasesAll'
    BY DEF OrderInv, CountInv, LastReleasesAll, HandleShape, InFlight, Dying
  <1>5. ReadersOrdered'
    <2>1. ASSUME NEW b \in Blocks, NEW h \in Refs(b)', NEW u \in Threads
          PROVE  <<u, "write">> \notin unseen'[b][owner'[h]]
      <3>1. h \in Refs(b) /\ owner'[h] = owner[h]
        BY <1>1, <2>1
      <3> QED BY <3>1 DEF OrderInv, ReadersOrdered
    <2> QED BY <2>1 DEF ReadersOrdered
  <1>6. WritersOrdered'
    BY <1>1, ConstantsAssumption DEF OrderInv, WritersOrdered, Refs
  <1>7. FreeOrdered'
    BY DEF OrderInv, CountInv, FreeOrdered, HandleShape, InFlight, Dying
  <1> QED BY <1>2, <1>3, <1>4, <1>5, <1>6, <1>7 DEF OrderInv

LEMMA OrderUnchanged ==
    ASSUME TypeOK, TypeOK', CountInv, CountInv', OrderInv, NEW t \in Threads, NEW h \in Handles,
           \/ New(t, h)
           \/ IntoShared(t, h)
           \/ TryUniqueEmpty(t, h)
           \/ \E g \in Handles : CloneEmpty(t, h, g)
           \/ DropEmpty(t, h)
           \/ Forget(t, h)
           \/ CloneDone(t, h)
           \/ Abort(t, h)
    PROVE  OrderInv'
  <1> USE DEF TypeOK, orderVars
  <1>1. CASE New(t, h)
    BY <1>1, OrderQuiet DEF New, CountInv, HandleShape, Holds, Idle, Resting, Counted, Dying, InFlight
  <1>2. CASE IntoShared(t, h)
    BY <1>2, OrderQuiet DEF IntoShared, CountInv, HandleShape, Holds, Idle, Resting, Counted, Dying, InFlight
  <1>3. CASE TryUniqueEmpty(t, h)
    BY <1>3, OrderQuiet DEF TryUniqueEmpty, CountInv, HandleShape, Holds, Idle, Resting, Counted, Dying, InFlight
  <1>4. ASSUME NEW g \in Handles, CloneEmpty(t, h, g) PROVE OrderInv'
    BY <1>4, OrderQuiet DEF CloneEmpty, CountInv, HandleShape, Holds, Idle, Resting, Counted, Dying, InFlight
  <1>5. CASE DropEmpty(t, h)
    BY <1>5, OrderQuiet DEF DropEmpty, CountInv, HandleShape, Holds, Idle, Resting, Counted, Dying, InFlight
  <1>6. CASE Forget(t, h)
    BY <1>6, OrderQuiet DEF Forget, CountInv, HandleShape, Holds, Idle, Resting, Counted, Dying, InFlight
  <1>7. CASE CloneDone(t, h)
    BY <1>7, OrderQuiet DEF CloneDone, CountInv, HandleShape, Holds, Idle, Resting, Counted, Dying, InFlight
  <1>8. CASE Abort(t, h)
    BY <1>8, OrderQuiet DEF Abort, handleVars, CountInv, HandleShape, Holds, Idle, Resting, Counted, Dying, InFlight
  <1> QED BY <1>1, <1>2, <1>3, <1>4, <1>5, <1>6, <1>7, <1>8

\* shrink to capacity 0 and the recycling of a buffer hand a block on without
\* touching it: its new holder is ordered after everybody because the old one was.
LEMMA OrderShrinkToEmpty ==
    ASSUME TypeOK, TypeOK', CountInv, CountInv', OrderInv,
           NEW t \in Threads, NEW h \in Handles, NEW g \in Handles, ShrinkToEmpty(t, h, g)
    PROVE  OrderInv'
  <1>b. PICK b \in Blocks : b = buf[h]
    BY AloneMeansCountOne DEF ShrinkToEmpty, Holds
  <1>0. \A f \in Handles : buf[f] = b => f = h
    BY <1>b, AloneMeansCountOne DEF ShrinkToEmpty, Holds
  <1>f. /\ phase' = [phase EXCEPT ![g] = "retired"] /\ phase[h] = "unique" /\ phase[g] = "none"
        /\ buf' = [buf EXCEPT ![g] = b, ![h] = NoBlock] /\ buf[g] = NoBlock
        /\ owner' = [owner EXCEPT ![g] = t] /\ owner[h] = t /\ g # h
        /\ unseen' = unseen /\ rel' = rel
    BY <1>b DEF ShrinkToEmpty, Holds, orderVars, CountInv, HandleShape
  <1>1. Refs(b)' = {}
    BY <1>b, <1>0, <1>f, ConstantsAssumption DEF TypeOK, Refs, Counted
  <1>2. \A d \in Blocks \ {b} : Refs(d)' = Refs(d) /\ \A f \in Refs(d) : owner'[f] = owner[f]
    BY <1>b, <1>0, <1>f, ConstantsAssumption DEF TypeOK, Refs
  <1>3. OwnAccessesSeen'
    BY <1>f DEF OrderInv, OwnAccessesSeen
  <1>4. Covered'
    BY <1>f, <1>1, <1>2 DEF OrderInv, Covered
  <1>5. LastReleasesAll'
    BY <1>f DEF OrderInv, TypeOK, LastReleasesAll
  <1>6. ReadersOrdered'
    <2>1. ASSUME NEW d \in Blocks, NEW f \in Refs(d)', NEW u \in Threads
          PROVE  <<u, "write">> \notin unseen'[d][owner'[f]]
      <3>1. d # b /\ f \in Refs(d) /\ owner'[f] = owner[f]
        BY <1>1, <1>2, <2>1
      <3> QED BY <1>f, <3>1 DEF OrderInv, ReadersOrdered
    <2> QED BY <2>1 DEF ReadersOrdered
  <1>7. WritersOrdered'
    <2>1. \A f \in Handles \ {g} : phase'[f] = phase[f]
      BY <1>f DEF TypeOK
    <2>2. \A d \in Blocks \ {b} : \A f \in Refs(d) : f \in Handles \ {g}
      BY <1>f, ConstantsAssumption DEF Refs
    <2> QED BY <1>f, <1>1, <1>2, <2>1, <2>2 DEF OrderInv, WritersOrdered
  <1>8. unseen[b][t] = {}
    BY <1>b, <1>f DEF OrderInv, WritersOrdered, Refs, Counted
  <1>9. FreeOrdered'
    BY <1>f, <1>8 DEF OrderInv, TypeOK, FreeOrdered
  <1> QED BY <1>3, <1>4, <1>5, <1>6, <1>7, <1>9 DEF OrderInv

LEMMA OrderRecycle ==
    ASSUME TypeOK, TypeOK', CountInv, CountInv', OrderInv, NEW t \in Threads, NEW h \in Handles, Recycle(t, h)
    PROVE  OrderInv'
  <1>b. PICK b \in Blocks : b = buf[h]
    BY DoomedIsAlone DEF Recycle, Holds, Dying
  <1>0. \A g \in Handles : buf[g] = b => g = h
    BY <1>b, DoomedIsAlone DEF Recycle, Holds, Dying
  <1>f. /\ phase' = [phase EXCEPT ![h] = "unique"] /\ phase[h] = "retired" /\ owner[h] = t
        /\ owner' = owner /\ buf' = buf /\ unseen' = unseen /\ rel' = rel
    BY DEF Recycle, Holds, orderVars
  <1>u. unseen[b][t] = {}
    BY <1>b, <1>f DEF OrderInv, FreeOrdered
  <1>1. Refs(b)' = {h}
    BY <1>b, <1>0, <1>f DEF TypeOK, Refs, Counted
  <1>2. \A d \in Blocks \ {b} : Refs(d)' = Refs(d)
    BY <1>b, <1>f DEF TypeOK, Refs
  <1>3. OwnAccessesSeen'
    BY <1>f DEF OrderInv, OwnAccessesSeen
  <1>4. Covered'
    BY <1>f, <1>u, <1>1, <1>2 DEF OrderInv, Covered
  <1>5. LastReleasesAll'
    BY <1>f DEF OrderInv, TypeOK, LastReleasesAll
  <1>6. ReadersOrdered'
    BY <1>f, <1>u, <1>1, <1>2 DEF OrderInv, ReadersOrdered
  <1>7. WritersOrdered'
    BY <1>b, <1>f, <1>u, <1>1, <1>2 DEF OrderInv, TypeOK, WritersOrdered, Refs
  <1>8. FreeOrdered'
    BY <1>f DEF OrderInv, TypeOK, FreeOrdered
  <1> QED BY <1>3, <1>4, <1>5, <1>6, <1>7, <1>8 DEF OrderInv

\* An access by a thread that holds the block, which may add a handle of its own.
LEMMA HolderAccess ==
    ASSUME TypeOK, TypeOK', CountInv, CountInv', OrderInv,
           NEW t \in Threads, NEW b \in Blocks, NEW k \in Kinds, NEW h \in Refs(b),
           owner[h] = t,
           \A c \in Blocks \ {b} : unseen'[c] = unseen[c] /\ rel'[c] = rel[c],
           unseen'[b][t] \subseteq unseen[b][t],
           \A u \in Threads \ {t} : unseen'[b][u] = unseen[b][u] \cup {<<t, k>>},
           rel'[b] = rel[b] \cup {<<t, k>>},
           OwnAccessesSeen',
           k = "write" => Refs(b)' = {h},
           \A c \in Blocks :
               /\ \A f \in Refs(c) : f \in Refs(c)' /\ owner'[f] = owner[f]
               /\ \A f \in Refs(c)' : f \in Refs(c) \/ (c = b /\ owner'[f] = t),
           \A f \in Handles : phase'[f] \in Dying =>
               phase'[f] = phase[f] /\ owner'[f] = owner[f] /\ buf'[f] = buf[f],
           \A c \in Blocks : \A f \in Refs(c)' : phase'[f] \in {"unique", "checked"} =>
               \/ c # b /\ phase[f] \in {"unique", "checked"}
               \/ c = b /\ f = h /\ unseen'[b][t] = {}
    PROVE  OrderInv'
  <1>o. Doomed(b) = {}
    BY SoleHolder DEF CountInv
  <1>h. h \in Handles /\ Doomed(b) = {} /\ h \in Refs(b)' /\ owner'[h] = t
    BY <1>o DEF Refs
  <1>r. \A f \in Refs(b) : \A u \in Threads : <<u, "write">> \notin unseen[b][owner[f]]
    BY DEF OrderInv, ReadersOrdered
  <1>d. \A f \in Handles : phase'[f] \in Dying => buf[f] \in Blocks \ {b}
    BY <1>h, ConstantsAssumption DEF Doomed, TypeOK, CountInv, HandleShape, Dying, InFlight
  <1>1. Covered'
    <2> SUFFICES ASSUME NEW c \in Blocks, Refs(c)' # {}, NEW a \in rel'[c]
                 PROVE  \E f \in Refs(c)' : a \notin unseen'[c][owner'[f]]
      BY DEF Covered
    <2>1. CASE c # b
      BY <2>1 DEF OrderInv, Covered
    <2>2. CASE c = b /\ a = <<t, k>>
      BY <1>h, <2>2 DEF OwnAccessesSeen
    <2>3. CASE c = b /\ a # <<t, k>>
      <3>1. PICK f \in Refs(b) : a \notin unseen[b][owner[f]]
        BY <2>3 DEF OrderInv, Covered
      <3>2. owner[f] \in Threads
        BY DEF Refs, TypeOK, CountInv, HandleShape, Counted
      <3> QED BY <2>3, <3>1, <3>2
    <2> QED BY <2>1, <2>2, <2>3
  <1>2. LastReleasesAll'
    BY <1>d DEF OrderInv, LastReleasesAll, Dying
  <1>3. ReadersOrdered'
    <2> SUFFICES ASSUME NEW c \in Blocks, NEW f \in Refs(c)', NEW u \in Threads
                 PROVE  <<u, "write">> \notin unseen'[c][owner'[f]]
      BY DEF ReadersOrdered
    <2>1. CASE c # b
      BY <2>1 DEF OrderInv, ReadersOrdered
    <2>2. CASE c = b /\ owner'[f] = t
      BY <1>r, <2>2
    <2>3. CASE c = b /\ owner'[f] # t
      <3>1. f \in Refs(b) /\ owner'[f] = owner[f] /\ owner[f] \in Threads \ {t}
        BY <2>3 DEF Refs, TypeOK, CountInv, HandleShape, Counted
      <3>2. k # "write"
        BY <1>h, <2>3
      <3> QED BY <1>r, <2>3, <3>1, <3>2
    <2> QED BY <2>1, <2>2, <2>3
  <1>4. FreeOrdered'
    BY <1>d DEF OrderInv, FreeOrdered, Dying
  <1>5. WritersOrdered'
    <2> SUFFICES ASSUME NEW c \in Blocks, NEW f \in Refs(c)', phase'[f] \in {"unique", "checked"}
                 PROVE  unseen'[c][owner'[f]] = {}
      BY DEF WritersOrdered
    <2>1. CASE c = b
      BY <1>h, <2>1
    <2>2. CASE c # b
      <3>1. f \in Refs(c) /\ owner'[f] = owner[f] /\ phase[f] \in {"unique", "checked"}
        BY <2>2
      <3> QED BY <2>2, <3>1 DEF OrderInv, WritersOrdered
    <2> QED BY <2>1, <2>2
  <1> QED BY <1>1, <1>2, <1>3, <1>4, <1>5 DEF OrderInv

LEMMA OrderAccess ==
    ASSUME TypeOK, TypeOK', CountInv, CountInv', OrderInv, NEW t \in Threads, NEW h \in Handles,
           \/ Write(t, h)
           \/ Read(t, h)
           \/ ResetCap(t, h)
           \/ LoadRefCount(t, h)
           \/ TryUniqueLoad(t, h)
           \/ \E g \in Handles : RefClone(t, h, g)
    PROVE  OrderInv'
  <1>k. OwnAccessesSeen /\ "read" \in Kinds /\ "write" \in Kinds
    BY KindsElements DEF OrderInv
  <1>b. PICK b \in Blocks : b = buf[h]
    BY DEF Write, Read, ResetCap, LoadRefCount, TryUniqueLoad, RefClone, Holds, TypeOK, CountInv,
           HandleShape, InFlight
  <1>h. h \in Refs(b) /\ owner[h] = t
    BY <1>b DEF Write, Read, ResetCap, LoadRefCount, TryUniqueLoad, RefClone, Holds, Refs, Resting, Counted
  <1>o. /\ Doomed(b) = {} /\ (ref_count[b] = 1 <=> Refs(b) = {h})
        /\ \A f \in Handles : buf[f] = b => f \in Refs(b)
    BY <1>h, SoleHolder DEF CountInv
  <1>u. phase[h] \in {"unique", "checked"} => unseen[b][t] = {}
    BY <1>h DEF OrderInv, WritersOrdered
  <1>a. \A f \in Refs(b) : phase[f] \in {"unique", "checked"} => f = h
    BY <1>h, ConstantsAssumption DEF CountInv, ExclusiveIsAlone, Refs
  <1>1. CASE Write(t, h)
    <2>1. handleVars' = handleVars /\ phase[h] = "unique" /\ Touch(t, b, "write")
      BY <1>1, <1>b DEF Write, Holds
    <2>2. \A c \in Blocks : Refs(c)' = Refs(c)
      BY <2>1 DEF Refs, handleVars
    <2>3. Refs(b) = {h}
      BY <1>b, <2>1, AloneMeansCountOne, ConstantsAssumption
    <2>4. \A c \in Blocks : \A f \in Refs(c)' : phase'[f] \in {"unique", "checked"} =>
             \/ c # b /\ phase[f] \in {"unique", "checked"}
             \/ c = b /\ f = h /\ unseen'[b][t] = {}
      BY <1>a, <1>u, <1>k, <2>1, <2>2, TouchEffect DEF handleVars
    <2> QED BY <1>h, <1>k, <2>1, <2>2, <2>3, <2>4, TouchEffect, HolderAccess DEF handleVars, Refs
  <1>2. CASE Read(t, h)
    <2>1. handleVars' = handleVars /\ Touch(t, b, "read")
      BY <1>2, <1>b DEF Read
    <2>2. \A c \in Blocks : Refs(c)' = Refs(c)
      BY <2>1 DEF Refs, handleVars
    <2>4. \A c \in Blocks : \A f \in Refs(c)' : phase'[f] \in {"unique", "checked"} =>
             \/ c # b /\ phase[f] \in {"unique", "checked"}
             \/ c = b /\ f = h /\ unseen'[b][t] = {}
      BY <1>a, <1>u, <1>k, <2>1, <2>2, TouchEffect DEF handleVars
    <2> QED BY <1>h, <1>k, <2>1, <2>2, <2>4, TouchEffect, HolderAccess DEF handleVars, Refs
  <1>3. CASE ResetCap(t, h)
    <2>1. /\ phase' = [phase EXCEPT ![h] = "unique"] /\ phase[h] = "checked"
          /\ owner' = owner /\ buf' = buf /\ Touch(t, b, "read")
      BY <1>3, <1>b DEF ResetCap, Holds
    <2>2. \A c \in Blocks : Refs(c)' = Refs(c)
      BY <2>1 DEF Refs, TypeOK, Counted
    <2>4. \A c \in Blocks : \A f \in Refs(c)' : phase'[f] \in {"unique", "checked"} =>
             \/ c # b /\ phase[f] \in {"unique", "checked"}
             \/ c = b /\ f = h /\ unseen'[b][t] = {}
      BY <1>a, <1>u, <1>k, <2>1, <2>2, TouchEffect DEF TypeOK, Refs
    <2>5. \A f \in Handles : phase'[f] \in Dying => phase'[f] = phase[f]
      BY <2>1 DEF TypeOK, Dying
    <2>6. \A f \in Handles : owner'[f] = owner[f] /\ buf'[f] = buf[f]
      BY <2>1
    <2> QED BY <1>h, <1>k, <2>1, <2>2, <2>4, <2>5, <2>6, TouchEffect, HolderAccess DEF Refs
  <1>4. CASE LoadRefCount(t, h)
    <2>1. handleVars' = handleVars /\ LoadAcquire(t, b)
      BY <1>4, <1>b DEF LoadRefCount
    <2>2. \A c \in Blocks : Refs(c)' = Refs(c)
      BY <2>1 DEF Refs, handleVars
    <2>4. \A c \in Blocks : \A f \in Refs(c)' : phase'[f] \in {"unique", "checked"} =>
             \/ c # b /\ phase[f] \in {"unique", "checked"}
             \/ c = b /\ f = h /\ unseen'[b][t] = {}
      BY <1>a, <1>u, <1>k, <2>1, <2>2, LoadEffect DEF handleVars
    <2> QED BY <1>h, <1>k, <2>1, <2>2, <2>4, LoadEffect, HolderAccess DEF handleVars, Refs
  <1>5. CASE TryUniqueLoad(t, h)
    <2>1. /\ phase' = [phase EXCEPT ![h] = "checked"] /\ phase[h] = "shared"
          /\ owner' = owner /\ buf' = buf /\ ref_count[b] = 1 /\ LoadAcquire(t, b)
      <3>1. t \notin stale[b]
        BY <1>b, <1>h, ConstantsAssumption DEF CountInv, NoStaleOne
      <3> QED BY <1>5, <1>b, <3>1 DEF TryUniqueLoad, Holds
    <2>2. \A c \in Blocks : Refs(c)' = Refs(c)
      BY <2>1 DEF Refs, TypeOK, Counted
    <2>3. Refs(b) = {h}
      BY <1>o, <2>1
    <2>4. unseen'[b][t] = {}
      <3>1. \A a \in rel[b] : a \notin unseen[b][t]
        BY <1>h, <2>3 DEF OrderInv, Covered
      <3> QED BY <1>k, <2>1, <3>1, LoadEffect
    <2>5. \A c \in Blocks : \A f \in Refs(c)' : phase'[f] \in {"unique", "checked"} =>
             \/ c # b /\ phase[f] \in {"unique", "checked"}
             \/ c = b /\ f = h /\ unseen'[b][t] = {}
      BY <2>1, <2>2, <2>3, <2>4 DEF TypeOK, Refs
    <2>6. \A f \in Handles : phase'[f] \in Dying => phase'[f] = phase[f]
      BY <2>1 DEF TypeOK, Dying
    <2>7. \A f \in Handles : owner'[f] = owner[f] /\ buf'[f] = buf[f]
      BY <2>1
    <2> QED BY <1>h, <1>k, <2>1, <2>2, <2>5, <2>6, <2>7, LoadEffect, HolderAccess DEF Refs
  <1>6. ASSUME NEW g \in Handles, RefClone(t, h, g) PROVE OrderInv'
    <2>1. /\ phase' = [phase EXCEPT ![g] = IF ref_count[b] > MaxRefcount THEN "overflow" ELSE "cloning"]
          /\ phase[g] = "none" /\ owner' = [owner EXCEPT ![g] = t] /\ buf' = [buf EXCEPT ![g] = b]
          /\ phase[h] = "shared" /\ Touch(t, b, "read") /\ buf[g] = NoBlock
      BY <1>6, <1>b DEF RefClone, Holds, FetchAddRelaxed, CountInv, HandleShape
    <2>2. Refs(b)' = Refs(b) \cup {g} /\ owner'[g] = t
      BY <2>1, ConstantsAssumption DEF Refs, TypeOK, Counted
    <2>3. \A c \in Blocks \ {b} : Refs(c)' = Refs(c)
      BY <2>1, ConstantsAssumption DEF Refs, TypeOK, Counted
    <2>4. \A c \in Blocks : \A f \in Refs(c) : owner'[f] = owner[f]
      BY <2>1 DEF Refs, TypeOK, Counted
    <2>6. \A c \in Blocks : \A f \in Refs(c)' : phase'[f] \in {"unique", "checked"} =>
             \/ c # b /\ phase[f] \in {"unique", "checked"}
             \/ c = b /\ f = h /\ unseen'[b][t] = {}
      BY <1>a, <1>u, <1>k, <2>1, <2>2, <2>3, TouchEffect DEF TypeOK, Refs
    <2>7. \A f \in Handles : phase'[f] \in Dying =>
             phase'[f] = phase[f] /\ owner'[f] = owner[f] /\ buf'[f] = buf[f]
      BY <2>1 DEF TypeOK, Dying
    <2>8. \A c \in Blocks :
               /\ \A f \in Refs(c) : f \in Refs(c)' /\ owner'[f] = owner[f]
               /\ \A f \in Refs(c)' : f \in Refs(c) \/ (c = b /\ owner'[f] = t)
      BY <2>2, <2>3, <2>4
    <2> QED BY <1>h, <1>k, <2>1, <2>6, <2>7, <2>8, TouchEffect, HolderAccess
  <1> QED BY <1>1, <1>2, <1>3, <1>4, <1>5, <1>6

LEMMA OrderSend ==
    ASSUME TypeOK, TypeOK', CountInv, CountInv', OrderInv,
           NEW t \in Threads, NEW h \in Handles, NEW u \in Threads, Send(t, h, u)
    PROVE  OrderInv'
  <1>f. /\ phase' = phase /\ buf' = buf /\ rel' = rel /\ owner' = [owner EXCEPT ![h] = u]
        /\ phase[h] \in Resting /\ owner[h] = t /\ u # t
    BY DEF Send, Holds
  <1>e. \A c \in Blocks : /\ unseen'[c][u] = unseen[c][u] \cap unseen[c][t]
                          /\ \A v \in Threads \ {u} : unseen'[c][v] = unseen[c][v]
    BY DEF Send, TypeOK
  <1>r. \A c \in Blocks : Refs(c)' = Refs(c)
    BY <1>f DEF Refs
  <1>s. \A c \in Blocks : \A f \in Refs(c) :
           owner[f] \in Threads /\ unseen'[c][owner'[f]] \subseteq unseen[c][owner[f]]
    <2> SUFFICES ASSUME NEW c \in Blocks, NEW f \in Refs(c)
                 PROVE  owner[f] \in Threads /\ unseen'[c][owner'[f]] \subseteq unseen[c][owner[f]]
      OBVIOUS
    <2>1. f \in Handles /\ owner[f] \in Threads
      BY DEF Refs, TypeOK, CountInv, HandleShape, Counted
    <2>2. CASE f = h
      BY <1>e, <1>f, <2>1, <2>2 DEF TypeOK
    <2>3. CASE f # h
      BY <1>e, <1>f, <2>1, <2>3 DEF TypeOK
    <2> QED BY <2>1, <2>2, <2>3
  <1>1. OwnAccessesSeen'
    BY <1>e DEF OrderInv, OwnAccessesSeen
  <1>2. Covered'
    BY <1>f, <1>r, <1>s DEF OrderInv, Covered
  <1>3. LastReleasesAll'
    BY <1>f DEF OrderInv, LastReleasesAll
  <1>4. ReadersOrdered'
    BY <1>r, <1>s DEF OrderInv, ReadersOrdered
  <1>5. WritersOrdered'
    BY <1>f, <1>r, <1>s DEF OrderInv, WritersOrdered
  <1>6. FreeOrdered'
    <2> SUFFICES ASSUME NEW f \in Handles, phase[f] \in {"acquired", "retired"}
                 PROVE  unseen'[buf[f]][owner'[f]] = {}
      BY <1>f DEF FreeOrdered
    <2>1. f # h /\ buf[f] \in Blocks /\ owner[f] \in Threads
      BY <1>f DEF TypeOK, CountInv, HandleShape, InFlight, Resting
    <2>2. unseen[buf[f]][owner[f]] = {} /\ owner'[f] = owner[f]
      BY <1>f, <2>1 DEF OrderInv, FreeOrdered, TypeOK
    <2> QED BY <1>e, <2>1, <2>2
  <1> QED BY <1>1, <1>2, <1>3, <1>4, <1>5, <1>6 DEF OrderInv

\* What a handle that lets go has seen, its release covers: the accesses left
\* uncovered have been seen by another holder, or there is none left.
LEMMA OrderDropSub ==
    ASSUME TypeOK, TypeOK', CountInv, CountInv', OrderInv, NEW t \in Threads, NEW h \in Handles, DropSub(t, h)
    PROVE  OrderInv'
  <1>a. PICK b \in Blocks : b = buf[h]
    BY DEF DropSub, TypeOK
  <1>h. h \in Refs(b) /\ owner[h] = t /\ phase[h] \in Resting
    BY <1>a DEF DropSub, Holds, Refs, Counted, Resting
  <1>o. /\ Doomed(b) = {} /\ (ref_count[b] = 1 <=> Refs(b) = {h})
        /\ \A f \in Handles : buf[f] = b => f \in Refs(b)
    BY <1>h, SoleHolder DEF CountInv
  <1>e. /\ \A c \in Blocks \ {b} : unseen'[c] = unseen[c] /\ rel'[c] = rel[c]
        /\ unseen'[b][t] = unseen[b][t]
        /\ \A u \in Threads \ {t} : unseen'[b][u] = unseen[b][u] \cup {<<t, "read">>}
        /\ rel'[b] = rel[b] \cap unseen[b][t]
        /\ OwnAccessesSeen'
    BY <1>a, SubEffect DEF DropSub, OrderInv
  <1>f. /\ \A f \in Handles \ {h} : phase'[f] = phase[f] /\ buf'[f] = buf[f] /\ owner'[f] = owner[f]
        /\ ref_count[b] # 1 => phase'[h] = "none" /\ buf'[h] = NoBlock
        /\ ref_count[b] = 1 => phase'[h] = "last" /\ buf'[h] = b /\ owner'[h] = t
    <2>1. CASE ref_count[b] # 1
      BY <1>a, <2>1 DEF DropSub, TypeOK
    <2>2. CASE ref_count[b] = 1
      BY <1>a, <1>h, <2>2 DEF DropSub, TypeOK
    <2> QED BY <2>1, <2>2
  <1>r. Refs(b)' = Refs(b) \ {h} /\ \A c \in Blocks \ {b} : Refs(c)' = Refs(c) /\ h \notin Refs(c)
    BY <1>a, <1>h, <1>f, ConstantsAssumption DEF Refs, Counted
  <1>d. \A f \in Handles \ {h} : phase[f] \in Dying => buf[f] \in Blocks \ {b}
    BY <1>o, ConstantsAssumption DEF TypeOK, CountInv, HandleShape, Doomed, Dying, InFlight
  <1>t. \A c \in Blocks : \A f \in Refs(c) : f \in Handles /\ owner[f] \in Threads
    BY DEF Refs, TypeOK, CountInv, HandleShape, Counted
  <1>2. Covered'
    <2> SUFFICES ASSUME NEW c \in Blocks, Refs(c)' # {}, NEW a \in rel'[c]
                 PROVE  \E f \in Refs(c)' : a \notin unseen'[c][owner'[f]]
      BY DEF Covered
    <2>1. CASE c # b
      <3>1. PICK f \in Refs(c) : a \notin unseen[c][owner[f]]
        BY <1>e, <1>r, <2>1 DEF OrderInv, Covered
      <3> QED BY <1>e, <1>f, <1>r, <1>t, <2>1, <3>1
    <2>2. CASE c = b
      <3>1. PICK f \in Refs(b) : a \notin unseen[b][owner[f]]
        BY <1>e, <1>h, <2>2 DEF OrderInv, Covered
      <3>2. a \in unseen[b][t] /\ a # <<t, "read">>
        BY <1>e, <2>2, KindsElements DEF OrderInv, OwnAccessesSeen
      <3>3. f # h /\ owner[f] \in Threads \ {t}
        BY <1>h, <1>t, <3>1, <3>2
      <3> QED BY <1>e, <1>f, <1>r, <1>t, <2>2, <3>1, <3>2, <3>3
    <2> QED BY <2>1, <2>2
  <1>3. LastReleasesAll'
    <2>1. ref_count[b] = 1 => rel'[b] = {}
      BY <1>e, <1>h, <1>o DEF OrderInv, Covered
    <2>2. \A f \in Handles \ {h} : phase[f] = "last" => rel[buf[f]] = {} /\ buf[f] \in Blocks \ {b}
      BY <1>d DEF OrderInv, LastReleasesAll, Dying
    <2> QED BY <1>e, <1>f, <2>1, <2>2 DEF LastReleasesAll
  <1>4. ReadersOrdered'
    <2> SUFFICES ASSUME NEW c \in Blocks, NEW f \in Refs(c)', NEW u \in Threads
                 PROVE  <<u, "write">> \notin unseen'[c][owner'[f]]
      BY DEF ReadersOrdered
    <2>1. f \in Refs(c) /\ f \in Handles \ {h} /\ owner'[f] = owner[f] /\ owner[f] \in Threads
      BY <1>f, <1>r, <1>t
    <2>2. <<u, "write">> \notin unseen[c][owner[f]]
      BY <2>1 DEF OrderInv, ReadersOrdered
    <2> QED BY <1>e, <2>1, <2>2
  <1>5. WritersOrdered'
    <2> SUFFICES ASSUME NEW c \in Blocks, NEW f \in Refs(c)', phase'[f] \in {"unique", "checked"}
                 PROVE  unseen'[c][owner'[f]] = {}
      BY DEF WritersOrdered
    <2>1. /\ f \in Refs(c) /\ f \in Handles \ {h} /\ owner'[f] = owner[f] /\ owner[f] \in Threads
          /\ phase'[f] = phase[f]
      BY <1>f, <1>r, <1>t
    <2>2. unseen[c][owner[f]] = {}
      BY <2>1 DEF OrderInv, WritersOrdered
    <2>3. c # b
      <3>1. ASSUME c = b PROVE Refs(b) = {f}
        BY <2>1, <3>1, ConstantsAssumption DEF CountInv, ExclusiveIsAlone, Refs
      <3> QED BY <1>h, <2>1, <3>1
    <2> QED BY <1>e, <2>1, <2>2, <2>3
  <1>6. FreeOrdered'
    <2>1. \A f \in Handles \ {h} : phase[f] \in {"acquired", "retired"} =>
             unseen[buf[f]][owner[f]] = {} /\ buf[f] \in Blocks \ {b}
      BY <1>d DEF OrderInv, FreeOrdered, Dying
    <2>2. phase'[h] \notin {"acquired", "retired"}
      BY <1>f
    <2> QED BY <1>e, <1>f, <2>1, <2>2 DEF FreeOrdered
  <1> QED BY <1>e, <1>2, <1>3, <1>4, <1>5, <1>6 DEF OrderInv

\* The last drop: its Acquire load makes every access visible, and its store
\* releases them again.
LEMMA OrderLastDrop ==
    ASSUME TypeOK, TypeOK', CountInv, CountInv', OrderInv, NEW t \in Threads, NEW h \in Handles,
           DropLoad(t, h) \/ DropStore(t, h)
    PROVE  OrderInv'
  <1>a. PICK b \in Blocks : b = buf[h]
    BY DoomedIsAlone DEF DropLoad, DropStore, Holds, Dying
  <1>o. Refs(b) = {} /\ \A f \in Handles : buf[f] = b => f = h
    BY <1>a, DoomedIsAlone DEF DropLoad, DropStore, Holds, Dying
  <1>e. /\ \A c \in Blocks \ {b} : unseen'[c] = unseen[c] /\ rel'[c] = rel[c]
        /\ unseen'[b][t] = {} /\ OwnAccessesSeen'
    <2>1. CASE DropLoad(t, h)
      <3>1. rel[b] = {}
        BY <1>a, <2>1 DEF DropLoad, Holds, OrderInv, LastReleasesAll
      <3> QED BY <1>a, <2>1, <3>1, LoadEffect DEF DropLoad, OrderInv
    <2>2. CASE DropStore(t, h)
      <3>1. unseen[b][t] = {}
        BY <1>a, <2>2 DEF DropStore, Holds, OrderInv, FreeOrdered
      <3> QED BY <1>a, <2>2, <3>1, StoreEffect DEF DropStore, OrderInv
    <2> QED BY <2>1, <2>2
  <1>f. /\ owner' = owner /\ buf' = buf /\ owner[h] = t
        /\ phase[h] \in Dying /\ phase'[h] \in {"acquired", "retired"}
        /\ \A f \in Handles \ {h} : phase'[f] = phase[f]
    BY DEF DropLoad, DropStore, Holds, TypeOK, Dying
  <1>r. \A c \in Blocks : Refs(c)' = Refs(c)
    BY <1>f DEF Refs, Counted, Dying
  <1>d. \A f \in Handles \ {h} : phase[f] \in Dying => buf[f] \in Blocks \ {b}
    BY <1>o DEF TypeOK, CountInv, HandleShape, Dying, InFlight
  <1>2. Covered'
    BY <1>e, <1>f, <1>r, <1>o DEF OrderInv, Covered
  <1>3. LastReleasesAll'
    BY <1>e, <1>f, <1>d DEF OrderInv, LastReleasesAll, Dying
  <1>4. ReadersOrdered'
    <2> SUFFICES ASSUME NEW c \in Blocks, NEW f \in Refs(c)', NEW u \in Threads
                 PROVE  <<u, "write">> \notin unseen'[c][owner'[f]]
      BY DEF ReadersOrdered
    <2>1. f \in Refs(c) /\ c # b
      BY <1>o, <1>r
    <2> QED BY <1>e, <1>f, <2>1 DEF OrderInv, ReadersOrdered
  <1>5. WritersOrdered'
    <2>1. \A c \in Blocks : \A f \in Refs(c) : f \in Handles \ {h}
      BY <1>f DEF Refs, Counted, Dying
    <2> QED BY <1>e, <1>f, <1>r, <1>o, <2>1 DEF OrderInv, WritersOrdered
  <1>6. FreeOrdered'
    BY <1>a, <1>e, <1>f, <1>d DEF OrderInv, FreeOrdered, Dying
  <1> QED BY <1>e, <1>2, <1>3, <1>4, <1>5, <1>6 DEF OrderInv

\* A block that is freed, a block that is new, and both at once.
LEMMA OrderMemory ==
    ASSUME TypeOK, TypeOK', CountInv, CountInv', OrderInv, NEW t \in Threads, NEW h \in Handles,
           \/ \E b \in Blocks : Alloc(t, h, b)
           \/ \E c \in Blocks : ReallocMove(t, h, c)
           \/ Deallocate(t, h)
    PROVE  OrderInv'
  <1>1. ASSUME NEW b \in Blocks, Alloc(t, h, b) PROVE OrderInv'
    <2>f. /\ phase' = phase /\ owner' = owner /\ buf' = [buf EXCEPT ![h] = b]
          /\ phase[h] = "unique" /\ owner[h] = t /\ buf[h] = NoBlock
          /\ unseen'[b] = FreshUnseen(t)
          /\ \A c \in Blocks \ {b} : unseen'[c] = unseen[c] /\ rel'[c] = rel[c]
      BY <1>1 DEF Alloc, Holds, TypeOK
    <2>a. \A f \in Handles : buf[f] # b
      BY <1>1, ConstantsAssumption DEF Alloc, CountInv, HandleShape
    <2>r. /\ Refs(b)' = {h}
          /\ \A c \in Blocks \ {b} : Refs(c)' = Refs(c)
      BY <2>f, <2>a, ConstantsAssumption DEF Refs, TypeOK, Counted
    <2>1. OwnAccessesSeen'
      BY <2>f, FreshEffect DEF OrderInv, OwnAccessesSeen
    <2>2. Covered'
      BY <2>f, <2>r, FreshEffect DEF OrderInv, Covered
    <2>d. \A f \in Handles : phase[f] \in Dying =>
             f # h /\ buf'[f] = buf[f] /\ buf[f] \in Blocks \ {b}
      BY <2>f, <2>a DEF TypeOK, CountInv, HandleShape, Dying, InFlight
    <2>3. LastReleasesAll'
      BY <2>f, <2>d DEF OrderInv, LastReleasesAll, Dying
    <2>4. ReadersOrdered'
      <3> SUFFICES ASSUME NEW d \in Blocks, NEW f \in Refs(d)', NEW u \in Threads
                   PROVE  <<u, "write">> \notin unseen'[d][owner'[f]]
        BY DEF ReadersOrdered
      <3>1. CASE d = b
        BY <2>f, <2>r, <3>1, FreshEffect
      <3>2. CASE d # b
        <4>1. f \in Refs(d)
          BY <2>r, <3>2
        <4> QED BY <2>f, <3>2, <4>1 DEF OrderInv, ReadersOrdered
      <3> QED BY <3>1, <3>2
    <2>5. WritersOrdered'
      BY <2>f, <2>r, FreshEffect DEF OrderInv, WritersOrdered
    <2>6. FreeOrdered'
      BY <2>f, <2>d DEF OrderInv, FreeOrdered, Dying
    <2> QED BY <2>1, <2>2, <2>3, <2>4, <2>5, <2>6 DEF OrderInv
  <1>2. ASSUME NEW c \in Blocks, ReallocMove(t, h, c) PROVE OrderInv'
    <2>b. PICK b \in Blocks : b = buf[h]
      BY <1>2, AloneMeansCountOne DEF ReallocMove, Holds
    <2>o. /\ b # c /\ \A f \in Handles : buf[f] = b => f = h
          /\ \A f \in Handles : buf[f] # c
      BY <1>2, <2>b, AloneMeansCountOne, ConstantsAssumption DEF ReallocMove, Holds, CountInv, HandleShape
    <2>f. /\ phase' = phase /\ owner' = owner /\ buf' = [buf EXCEPT ![h] = c]
          /\ phase[h] = "unique" /\ owner[h] = t
          /\ unseen'[c] = FreshUnseen(t) /\ unseen'[b] = NoneUnseen /\ rel'[b] = {}
          /\ \A d \in Blocks \ {b, c} : unseen'[d] = unseen[d] /\ rel'[d] = rel[d]
      BY <1>2, <2>b, <2>o DEF ReallocMove, Holds, TypeOK
    <2>r. /\ Refs(c)' = {h} /\ Refs(b)' = {}
          /\ \A d \in Blocks \ {b, c} : Refs(d)' = Refs(d)
      BY <2>b, <2>o, <2>f DEF Refs, TypeOK, Counted
    <2>1. OwnAccessesSeen'
      BY <2>f, FreshEffect DEF OrderInv, OwnAccessesSeen
    <2>2. Covered'
      BY <2>f, <2>r, FreshEffect DEF OrderInv, Covered
    <2>d. \A f \in Handles : phase[f] \in Dying =>
             f # h /\ buf'[f] = buf[f] /\ buf[f] \in Blocks \ {b, c}
      BY <2>f, <2>o DEF TypeOK, CountInv, HandleShape, Dying, InFlight
    <2>3. LastReleasesAll'
      BY <2>f, <2>d DEF OrderInv, LastReleasesAll, Dying
    <2>4. ReadersOrdered'
      <3> SUFFICES ASSUME NEW d \in Blocks, NEW f \in Refs(d)', NEW u \in Threads
                   PROVE  <<u, "write">> \notin unseen'[d][owner'[f]]
        BY DEF ReadersOrdered
      <3>1. CASE d = c
        BY <2>f, <2>r, <3>1, FreshEffect
      <3>2. CASE d # c
        <4>1. f \in Refs(d) /\ d # b
          BY <2>r, <3>2
        <4> QED BY <2>f, <3>2, <4>1 DEF OrderInv, ReadersOrdered
      <3> QED BY <3>1, <3>2
    <2>5. WritersOrdered'
      BY <2>f, <2>r, FreshEffect DEF OrderInv, WritersOrdered
    <2>6. FreeOrdered'
      BY <2>f, <2>d DEF OrderInv, FreeOrdered, Dying
    <2> QED BY <2>1, <2>2, <2>3, <2>4, <2>5, <2>6 DEF OrderInv
  <1>3. CASE Deallocate(t, h)
    <2>b. PICK b \in Blocks : b = buf[h]
      BY <1>3, DoomedIsAlone DEF Deallocate, Holds, Dying
    <2>o. Refs(b) = {} /\ \A f \in Handles : buf[f] = b => f = h
      BY <1>3, <2>b, DoomedIsAlone DEF Deallocate, Holds, Dying
    <2>f. /\ phase' = [phase EXCEPT ![h] = "none"] /\ buf' = [buf EXCEPT ![h] = NoBlock]
          /\ phase[h] = "retired" /\ owner' = [owner EXCEPT ![h] = NoThread]
          /\ unseen'[b] = NoneUnseen /\ rel'[b] = {}
          /\ \A d \in Blocks \ {b} : unseen'[d] = unseen[d] /\ rel'[d] = rel[d]
      BY <1>3, <2>b DEF Deallocate, Holds, TypeOK
    <2>r. \A d \in Blocks : Refs(d)' = Refs(d) /\ \A f \in Refs(d) :
             f \in Handles \ {h} /\ owner'[f] = owner[f] /\ phase'[f] = phase[f]
      BY <2>f, ConstantsAssumption DEF Refs, TypeOK, Counted
    <2>1. OwnAccessesSeen'
      BY <2>f, FreshEffect DEF OrderInv, OwnAccessesSeen
    <2>2. Covered'
      BY <2>f, <2>r DEF OrderInv, Covered
    <2>d. \A f \in Handles : phase'[f] \in Dying =>
             /\ f # h /\ phase'[f] = phase[f] /\ owner'[f] = owner[f] /\ buf'[f] = buf[f]
             /\ buf[f] \in Blocks \ {b}
      BY <2>f, <2>o DEF TypeOK, CountInv, HandleShape, Dying, InFlight
    <2>3. LastReleasesAll'
      BY <2>f, <2>d DEF OrderInv, LastReleasesAll, Dying
    <2>4. ReadersOrdered'
      <3> SUFFICES ASSUME NEW d \in Blocks, NEW f \in Refs(d)', NEW u \in Threads
                   PROVE  <<u, "write">> \notin unseen'[d][owner'[f]]
        BY DEF ReadersOrdered
      <3>1. f \in Refs(d) /\ d # b /\ owner'[f] = owner[f]
        BY <2>o, <2>r
      <3> QED BY <2>f, <3>1 DEF OrderInv, ReadersOrdered
    <2>5. WritersOrdered'
      BY <2>f, <2>o, <2>r DEF OrderInv, WritersOrdered
    <2>6. FreeOrdered'
      BY <2>f, <2>d DEF OrderInv, FreeOrdered, Dying
    <2> QED BY <2>1, <2>2, <2>3, <2>4, <2>5, <2>6 DEF OrderInv
  <1> QED BY <1>1, <1>2, <1>3

LEMMA OrderInit == Init => OrderInv
  BY DEF Init, OrderInv, OwnAccessesSeen, Covered, LastReleasesAll, ReadersOrdered, WritersOrdered,
         FreeOrdered, Refs, Counted, NoneUnseen

LEMMA OrderStep ==
    TypeOK /\ TypeOK' /\ CountInv /\ CountInv' /\ OrderInv /\ [Next]_vars => OrderInv'
  <1> SUFFICES ASSUME TypeOK, TypeOK', CountInv, CountInv', OrderInv, [Next]_vars PROVE OrderInv'
    OBVIOUS
  <1>0. CASE UNCHANGED vars
    BY <1>0, OrderQuiet DEF vars
  <1>1. CASE Next
    BY <1>1, OrderUnchanged, OrderShrinkToEmpty, OrderRecycle, OrderAccess, OrderSend,
       OrderDropSub, OrderLastDrop, OrderMemory DEF Next, Continue
  <1> QED BY <1>0, <1>1

\* The invariant that makes all the others inductive.
THEOREM Inductive == Spec => []IInv
  <1>1. Init => IInv
    BY TypeInit, CountInit, OrderInit DEF IInv
  <1>2. IInv /\ [Next]_vars => IInv'
    BY TypeStep, CountStep, OrderStep DEF IInv
  <1> QED BY <1>1, <1>2, PTL DEF Spec

\* A thread that may read a buffer never races with a thread that wrote it.
THEOREM NoReadRace == Spec => []ReadersOrdered
  BY Inductive, PTL DEF IInv, OrderInv

\* A thread that may write a buffer, try_unique's included, races with nobody.
THEOREM NoWriteRace == Spec => []WritersOrdered
  BY Inductive, PTL DEF IInv, OrderInv

\* Nor does the thread that hands the block back to the allocator: the Release
\* decrements and the one Acquire load order every access before it.
THEOREM NoFreeRace == Spec => []FreeOrdered
  BY Inductive, PTL DEF IInv, OrderInv

-----------------------------------------------------------------------------
(* Reference counting implements exclusive and shared ownership: every     *)
(* step of RefCount is a step of Ownership or changes nothing it can see.  *)

LEMMA ModeKept ==
    ASSUME NEW d \in Blocks, Refs(d)' = Refs(d), live'[d] = live[d],
           \A f \in Refs(d) : phase'[f] = "unique" <=> phase[f] = "unique"
    PROVE  ModeOf(d)' = ModeOf(d)
  BY DEF ModeOf

LEMMA AbstractAt ==
    ASSUME NEW b \in Blocks
    PROVE  /\ AbstractMode[b] = ModeOf(b) /\ AbstractHolders[b] = Refs(b)
           /\ AbstractMode'[b] = ModeOf(b)' /\ AbstractHolders'[b] = Refs(b)'
  BY DEF AbstractMode, AbstractHolders

\* A step that changes what is seen of one block.
LEMMA AbstractUpdate ==
    ASSUME NEW b \in Blocks, NEW m, NEW s,
           ModeOf(b)' = m, Refs(b)' = s,
           \A d \in Blocks \ {b} : ModeOf(d)' = ModeOf(d) /\ Refs(d)' = Refs(d)
    PROVE  /\ AbstractMode' = [AbstractMode EXCEPT ![b] = m]
           /\ AbstractHolders' = [AbstractHolders EXCEPT ![b] = s]
  BY DEF AbstractMode, AbstractHolders

LEMMA AbstractSame ==
    ASSUME \A d \in Blocks : ModeOf(d)' = ModeOf(d) /\ Refs(d)' = Refs(d)
    PROVE  UNCHANGED <<AbstractMode, AbstractHolders>>
  BY DEF AbstractMode, AbstractHolders

LEMMA AbstractInit == Init => Own!Init
  BY DEF Init, Own!Init, AbstractMode, AbstractHolders, ModeOf, Refs, Counted

LEMMA StutterSteps ==
    ASSUME TypeOK, CountInv, NEW t \in Threads, NEW h \in Handles,
           \/ New(t, h)
           \/ Write(t, h)
           \/ Read(t, h)
           \/ LoadRefCount(t, h)
           \/ TryUniqueLoad(t, h)
           \/ TryUniqueEmpty(t, h)
           \/ \E g \in Handles : CloneEmpty(t, h, g)
           \/ DropEmpty(t, h)
           \/ \E u \in Threads : Send(t, h, u)
           \/ CloneDone(t, h)
           \/ Abort(t, h)
           \/ DropLoad(t, h)
           \/ DropStore(t, h)
    PROVE  UNCHANGED <<AbstractMode, AbstractHolders>>
  <1>1. /\ live' = live /\ buf' = buf
        /\ \A f \in Handles : buf[f] # NoBlock =>
              /\ phase'[f] \in Counted <=> phase[f] \in Counted
              /\ phase'[f] = "unique" <=> phase[f] = "unique"
    BY DEF New, Write, Read, LoadRefCount, TryUniqueLoad, TryUniqueEmpty, CloneEmpty, DropEmpty, Send,
           CloneDone, Abort, DropLoad, DropStore, handleVars, Holds, Resting, Counted, TypeOK,
           CountInv, HandleShape
  <1>2. \A d \in Blocks : Refs(d)' = Refs(d)
    BY <1>1, ConstantsAssumption DEF Refs
  <1>3. \A d \in Blocks : ModeOf(d)' = ModeOf(d)
    BY <1>1, <1>2, ModeKept, ConstantsAssumption DEF Refs
  <1> QED BY <1>2, <1>3, AbstractSame

\* IntoShared and the forgetting of a unique handle give write access up.
LEMMA ShareSteps ==
    ASSUME TypeOK, CountInv, NEW t \in Threads, NEW h \in Handles, IntoShared(t, h) \/ Forget(t, h)
    PROVE  (\E b \in Blocks : Own!Share(b)) \/ UNCHANGED <<AbstractMode, AbstractHolders>>
  <1>1. /\ live' = live /\ buf' = buf /\ phase'[h] \in {"shared", "leaked"} /\ phase[h] \in Resting
        /\ \A f \in Handles \ {h} : phase'[f] = phase[f]
    BY DEF IntoShared, Forget, Holds, TypeOK, Resting
  <1>2. \A d \in Blocks : Refs(d)' = Refs(d)
    BY <1>1 DEF Refs, Counted, Resting
  <1>3. CASE buf[h] = NoBlock \/ phase[h] = "shared"
    <2>1. \A d \in Blocks : ModeOf(d)' = ModeOf(d)
      BY <1>1, <1>2, <1>3, ModeKept, ConstantsAssumption DEF Refs
    <2> QED BY <1>2, <2>1, AbstractSame
  <1>4. CASE buf[h] # NoBlock /\ phase[h] = "unique"
    <2>1. PICK b \in Blocks : b = buf[h] /\ live[b] /\ Refs(b) = {h}
      BY <1>4, AloneMeansCountOne
    <2>2. ModeOf(b) = "exclusive" /\ ModeOf(b)' = "shared"
      BY <1>1, <1>2, <1>4, <2>1 DEF ModeOf
    <2>3. \A d \in Blocks \ {b} : ModeOf(d)' = ModeOf(d)
      BY <1>1, <1>2, <2>1, ModeKept DEF Refs
    <2>4. /\ AbstractMode' = [AbstractMode EXCEPT ![b] = "shared"]
          /\ AbstractHolders' = AbstractHolders
      BY <1>2, <2>2, <2>3, AbstractUpdate DEF AbstractHolders
    <2>5. Own!Share(b)
      BY <2>2, <2>4, AbstractAt DEF Own!Share
    <2> QED BY <2>5
  <1> QED BY <1>1, <1>3, <1>4 DEF Resting

LEMMA AllocStep ==
    ASSUME TypeOK, CountInv, NEW t \in Threads, NEW h \in Handles, NEW b \in Blocks, Alloc(t, h, b)
    PROVE  Own!Acquire(h, b)
  <1>1. /\ phase' = phase /\ buf' = [buf EXCEPT ![h] = b] /\ live' = [live EXCEPT ![b] = TRUE]
        /\ phase[h] = "unique" /\ buf[h] = NoBlock /\ ~live[b]
        /\ \A f \in Handles : buf[f] # b
    BY ConstantsAssumption DEF Alloc, Holds, CountInv, HandleShape
  <1>2. Refs(b)' = {h} /\ \A d \in Blocks \ {b} : Refs(d)' = Refs(d)
    BY <1>1, ConstantsAssumption DEF Refs, Counted, TypeOK
  <1>3. ModeOf(b) = "free" /\ ModeOf(b)' = "exclusive"
    BY <1>1, <1>2 DEF ModeOf, TypeOK
  <1>4. \A d \in Blocks \ {b} : ModeOf(d)' = ModeOf(d)
    BY <1>1, <1>2, ModeKept DEF TypeOK
  <1>5. /\ AbstractMode' = [AbstractMode EXCEPT ![b] = "exclusive"]
        /\ AbstractHolders' = [AbstractHolders EXCEPT ![b] = {h}]
    BY <1>2, <1>3, <1>4, AbstractUpdate
  <1>6. Own!Unattached(h)
    BY <1>1, AbstractAt, ConstantsAssumption DEF Own!Unattached, Refs
  <1> QED BY <1>3, <1>5, <1>6, AbstractAt DEF Own!Acquire

LEMMA RecycleStep ==
    ASSUME TypeOK, CountInv, NEW t \in Threads, NEW h \in Handles, Recycle(t, h)
    PROVE  \E b \in Blocks : Own!Acquire(h, b)
  <1>1. PICK b \in Blocks : b = buf[h]
    BY DoomedIsAlone DEF Recycle, Holds, Dying
  <1>2. /\ live[b] /\ Refs(b) = {} /\ \A f \in Handles : buf[f] = b => f = h
        /\ phase' = [phase EXCEPT ![h] = "unique"] /\ buf' = buf /\ live' = live /\ phase[h] = "retired"
    BY <1>1, DoomedIsAlone DEF Recycle, Holds, Dying
  <1>3. Refs(b)' = {h} /\ \A d \in Blocks \ {b} : Refs(d)' = Refs(d) /\ h \notin Refs(d)
    BY <1>1, <1>2 DEF Refs, Counted, TypeOK
  <1>4. ModeOf(b) = "unheld" /\ ModeOf(b)' = "exclusive"
    BY <1>2, <1>3 DEF ModeOf, TypeOK
  <1>5. \A d \in Blocks \ {b} : ModeOf(d)' = ModeOf(d)
    BY <1>2, <1>3, ModeKept DEF TypeOK, Refs
  <1>6. /\ AbstractMode' = [AbstractMode EXCEPT ![b] = "exclusive"]
        /\ AbstractHolders' = [AbstractHolders EXCEPT ![b] = {h}]
    BY <1>3, <1>4, <1>5, AbstractUpdate
  <1>7. Own!Unattached(h)
    BY <1>2, <1>3, AbstractAt DEF Own!Unattached
  <1> QED BY <1>4, <1>6, <1>7, AbstractAt DEF Own!Acquire

LEMMA MoveStep ==
    ASSUME TypeOK, CountInv, NEW t \in Threads, NEW h \in Handles, NEW c \in Blocks, ReallocMove(t, h, c)
    PROVE  \E b \in Blocks : Own!Move(h, b, c)
  <1>1. PICK b \in Blocks : b = buf[h]
    BY AloneMeansCountOne DEF ReallocMove, Holds
  <1>2. /\ live[b] /\ ~live[c] /\ Refs(b) = {h} /\ \A f \in Handles : buf[f] = b => f = h
        /\ phase' = phase /\ buf' = [buf EXCEPT ![h] = c] /\ phase[h] = "unique"
        /\ live' = [live EXCEPT ![b] = FALSE, ![c] = TRUE] /\ b # c
        /\ \A f \in Handles : buf[f] # c
    BY <1>1, AloneMeansCountOne, ConstantsAssumption DEF ReallocMove, Holds, CountInv, HandleShape
  <1>3. Refs(b)' = {} /\ Refs(c)' = {h} /\ \A d \in Blocks \ {b, c} : Refs(d)' = Refs(d)
    BY <1>1, <1>2 DEF Refs, Counted, TypeOK
  <1>4. /\ ModeOf(b) = "exclusive" /\ ModeOf(b)' = "free"
        /\ ModeOf(c) = "free" /\ ModeOf(c)' = "exclusive"
    BY <1>2, <1>3 DEF ModeOf, TypeOK
  <1>5. \A d \in Blocks \ {b, c} : ModeOf(d)' = ModeOf(d)
    BY <1>2, <1>3, ModeKept DEF TypeOK
  <1>6. /\ AbstractMode' = [AbstractMode EXCEPT ![b] = "free", ![c] = "exclusive"]
        /\ AbstractHolders' = [AbstractHolders EXCEPT ![b] = {}, ![c] = {h}]
    BY <1>2, <1>3, <1>4, <1>5 DEF AbstractMode, AbstractHolders
  <1> QED BY <1>2, <1>4, <1>6, AbstractAt DEF Own!Move

\* Both ways a handle lets go: the decrement, and shrinking to nothing.
LEMMA LeaveStep ==
    ASSUME TypeOK, CountInv, NEW t \in Threads, NEW h \in Handles,
           DropSub(t, h) \/ \E g \in Handles : ShrinkToEmpty(t, h, g)
    PROVE  \E b \in Blocks : Own!Leave(h, b)
  <1>1. PICK b \in Blocks : b = buf[h]
    BY DEF DropSub, ShrinkToEmpty, TypeOK
  <1>2. live[b] /\ h \in Refs(b) /\ phase[h] \in {"unique", "shared"}
    BY <1>1, ConstantsAssumption DEF DropSub, ShrinkToEmpty, Holds, Resting, Refs, Counted, CountInv, HandleShape
  <1>3. live' = live /\ Refs(b)' = Refs(b) \ {h}
    <2>1. CASE DropSub(t, h)
      BY <1>1, <2>1, SoleHolder, ConstantsAssumption DEF DropSub, Refs, Counted, TypeOK
    <2>2. ASSUME NEW g \in Handles, ShrinkToEmpty(t, h, g) PROVE live' = live /\ Refs(b)' = Refs(b) \ {h}
      BY <1>1, <2>2, ConstantsAssumption DEF ShrinkToEmpty, Holds, Refs, Counted, TypeOK, CountInv, HandleShape
    <2> QED BY <2>1, <2>2
  <1>4. /\ \A d \in Blocks \ {b} : Refs(d)' = Refs(d)
        /\ \A d \in Blocks : \A f \in Refs(d) \ {h} : phase'[f] = phase[f]
        /\ \A d \in Blocks \ {b} : h \notin Refs(d)
    BY <1>1, ConstantsAssumption DEF DropSub, ShrinkToEmpty, Refs, Counted, TypeOK, CountInv, HandleShape
  <1>5. \A d \in Blocks \ {b} : ModeOf(d)' = ModeOf(d)
    BY <1>3, <1>4, ModeKept
  <1>6. ModeOf(b)' = IF Refs(b) = {h} THEN "unheld" ELSE ModeOf(b)
    <2>1. CASE Refs(b) = {h}
      BY <1>2, <1>3, <2>1 DEF ModeOf
    <2>2. CASE Refs(b) # {h}
      <3>1. \A f \in Refs(b) : phase[f] # "unique"
        BY <2>2, ConstantsAssumption, <1>2 DEF CountInv, ExclusiveIsAlone, Refs
      <3> QED BY <1>2, <1>3, <1>4, <2>2, <3>1 DEF ModeOf
    <2> QED BY <2>1, <2>2
  <1>7. /\ AbstractMode' = [AbstractMode EXCEPT ![b] = IF Refs(b) = {h} THEN "unheld" ELSE ModeOf(b)]
        /\ AbstractHolders' = [AbstractHolders EXCEPT ![b] = Refs(b) \ {h}]
    BY <1>3, <1>4, <1>5, <1>6, AbstractUpdate
  <1> QED BY <1>2, <1>7, AbstractAt DEF Own!Leave

LEMMA JoinStep ==
    ASSUME TypeOK, CountInv, NEW t \in Threads, NEW h \in Handles, NEW g \in Handles, RefClone(t, h, g)
    PROVE  \E b \in Blocks : Own!Join(g, b)
  <1>1. PICK b \in Blocks : b = buf[h]
    BY DEF RefClone, TypeOK
  <1>2. /\ live[b] /\ h \in Refs(b) /\ phase[h] = "shared" /\ phase[g] = "none" /\ g # h
        /\ live' = live /\ buf' = [buf EXCEPT ![g] = b] /\ buf[g] = NoBlock
        /\ phase'[g] \in {"cloning", "overflow"} /\ \A f \in Handles \ {g} : phase'[f] = phase[f]
    BY <1>1, ConstantsAssumption DEF RefClone, Holds, Refs, Counted, TypeOK, CountInv, HandleShape
  <1>3. /\ Refs(b)' = Refs(b) \cup {g} /\ \A d \in Blocks \ {b} : Refs(d)' = Refs(d)
        /\ \A d \in Blocks : g \notin Refs(d) /\ \A f \in Refs(d) : phase'[f] = phase[f]
    BY <1>2, ConstantsAssumption DEF Refs, Counted, TypeOK
  <1>4. \A d \in Blocks \ {b} : ModeOf(d)' = ModeOf(d)
    BY <1>2, <1>3, ModeKept
  <1>5. \A f \in Refs(b) : phase[f] # "unique"
    BY <1>2, ConstantsAssumption DEF CountInv, ExclusiveIsAlone, Refs
  <1>6. ModeOf(b) = "shared" /\ ModeOf(b)' = "shared"
    <2>1. \A f \in Refs(b)' : phase'[f] # "unique"
      BY <1>2, <1>3, <1>5
    <2> QED BY <1>2, <1>3, <1>5, <2>1 DEF ModeOf
  <1>7. /\ AbstractMode' = [AbstractMode EXCEPT ![b] = "shared"]
        /\ AbstractHolders' = [AbstractHolders EXCEPT ![b] = Refs(b) \cup {g}]
    BY <1>3, <1>4, <1>6, AbstractUpdate
  <1>8. AbstractMode' = AbstractMode
    BY <1>4, <1>6 DEF AbstractMode
  <1>9. Own!Unattached(g)
    BY <1>3, AbstractAt DEF Own!Unattached
  <1> QED BY <1>2, <1>6, <1>7, <1>8, <1>9, AbstractAt DEF Own!Join

LEMMA ClaimStep ==
    ASSUME TypeOK, CountInv, NEW t \in Threads, NEW h \in Handles, ResetCap(t, h)
    PROVE  \E b \in Blocks : Own!Claim(h, b)
  <1>1. PICK b \in Blocks : b = buf[h] /\ live[b] /\ Refs(b) = {h}
    BY AloneMeansCountOne, ConstantsAssumption DEF ResetCap, Holds, CountInv, HandleShape, InFlight
  <1>2. phase' = [phase EXCEPT ![h] = "unique"] /\ buf' = buf /\ live' = live /\ phase[h] = "checked"
    BY DEF ResetCap, Holds
  <1>3. \A d \in Blocks : Refs(d)' = Refs(d)
    BY <1>2 DEF Refs, Counted, TypeOK
  <1>4. ModeOf(b) = "shared" /\ ModeOf(b)' = "exclusive"
    BY <1>1, <1>2, <1>3 DEF ModeOf, TypeOK
  <1>5. \A d \in Blocks \ {b} : ModeOf(d)' = ModeOf(d)
    BY <1>1, <1>2, <1>3, ModeKept DEF TypeOK, Refs
  <1>6. /\ AbstractMode' = [AbstractMode EXCEPT ![b] = "exclusive"]
        /\ AbstractHolders' = AbstractHolders
    BY <1>3, <1>4, <1>5, AbstractUpdate DEF AbstractHolders
  <1> QED BY <1>1, <1>4, <1>6, AbstractAt DEF Own!Claim

LEMMA ReclaimStep ==
    ASSUME TypeOK, CountInv, NEW t \in Threads, NEW h \in Handles, Deallocate(t, h)
    PROVE  \E b \in Blocks : Own!Reclaim(b)
  <1>1. PICK b \in Blocks : b = buf[h] /\ live[b] /\ Refs(b) = {}
    BY DoomedIsAlone DEF Deallocate, Holds, Dying
  <1>2. /\ phase' = [phase EXCEPT ![h] = "none"] /\ phase[h] = "retired"
        /\ buf' = [buf EXCEPT ![h] = NoBlock] /\ live' = [live EXCEPT ![b] = FALSE]
    BY <1>1 DEF Deallocate, Holds
  <1>3. \A d \in Blocks : Refs(d)' = Refs(d)
    BY <1>2, ConstantsAssumption DEF Refs, Counted, TypeOK
  <1>4. ModeOf(b) = "unheld" /\ ModeOf(b)' = "free"
    BY <1>1, <1>2, <1>3 DEF ModeOf, TypeOK
  <1>5. \A d \in Blocks \ {b} : ModeOf(d)' = ModeOf(d)
    BY <1>1, <1>2, <1>3, ModeKept DEF TypeOK, Refs, Counted
  <1>6. /\ AbstractMode' = [AbstractMode EXCEPT ![b] = "free"]
        /\ AbstractHolders' = AbstractHolders
    BY <1>3, <1>4, <1>5, AbstractUpdate DEF AbstractHolders
  <1> QED BY <1>4, <1>6, AbstractAt DEF Own!Reclaim

LEMMA StepRefines ==
    TypeOK /\ CountInv /\ [Next]_vars => Own!Next \/ UNCHANGED <<AbstractMode, AbstractHolders>>
  <1> SUFFICES ASSUME TypeOK, CountInv, [Next]_vars
               PROVE  Own!Next \/ UNCHANGED <<AbstractMode, AbstractHolders>>
    OBVIOUS
  <1>0. CASE UNCHANGED vars
    <2>1. \A d \in Blocks : Refs(d)' = Refs(d)
      BY <1>0 DEF vars, Refs
    <2>2. \A d \in Blocks : ModeOf(d)' = ModeOf(d)
      BY <1>0, <2>1, ModeKept DEF vars
    <2> QED BY <2>1, <2>2, AbstractSame
  <1>1. CASE Next
    <2>1. PICK t \in Threads, h \in Handles :
            \/ New(t, h)
            \/ \E b \in Blocks : Alloc(t, h, b)
            \/ \E c \in Blocks : ReallocMove(t, h, c)
            \/ \E g \in Handles : ShrinkToEmpty(t, h, g)
            \/ Write(t, h)
            \/ Read(t, h)
            \/ IntoShared(t, h)
            \/ LoadRefCount(t, h)
            \/ TryUniqueLoad(t, h)
            \/ TryUniqueEmpty(t, h)
            \/ \E g \in Handles : CloneEmpty(t, h, g)
            \/ \E g \in Handles : RefClone(t, h, g)
            \/ DropEmpty(t, h)
            \/ DropSub(t, h)
            \/ \E u \in Threads : Send(t, h, u)
            \/ Forget(t, h)
            \/ Continue(t, h)
      BY <1>1 DEF Next
    <2>2. \/ UNCHANGED <<AbstractMode, AbstractHolders>>
          \/ \E f \in Handles, b \in Blocks :
               Own!Acquire(f, b) \/ Own!Join(f, b) \/ Own!Claim(f, b) \/ Own!Leave(f, b)
          \/ \E b \in Blocks : Own!Share(b) \/ Own!Reclaim(b)
          \/ \E f \in Handles, b, c \in Blocks : Own!Move(f, b, c)
      BY <2>1, StutterSteps, ShareSteps, AllocStep, RecycleStep, MoveStep, LeaveStep, JoinStep,
         ClaimStep, ReclaimStep DEF Continue
    <2> QED BY <2>2 DEF Own!Next
  <1> QED BY <1>0, <1>1

\* Counting references with these atomics implements exclusive and shared
\* ownership of the buffers: every reachable step is one Ownership allows.
THEOREM Refinement == Spec => ImplementsOwnership
  <1>1. Init => Own!Init
    BY AbstractInit
  <1>2. TypeOK /\ CountInv /\ [Next]_vars => [Own!Next]_(Own!ownershipVars)
    BY StepRefines DEF Own!ownershipVars
  <1> QED BY <1>1, <1>2, CountInvariant, PTL DEF Spec, ImplementsOwnership, Own!Spec
=============================================================================
