-------------------------- MODULE BufferPoolProofs --------------------------
(***************************************************************************)
(* BufferPool is correct for any threads, blocks, capacities, policy and   *)
(* queue.  The Arc and the drop of what is in it are right whatever the    *)
(* policy answers, now this and now that, and wherever it panics; where    *)
(* the blocks are is known as long as it does not panic under a shrink;    *)
(* and none is lost as long as it does not take one back it has accepted.  *)
(***************************************************************************)
EXTENDS BufferPool, FiniteSetTheorems, SequenceTheorems, TLAPS

-----------------------------------------------------------------------------
(* Queues without repetition, and the set of what is stored in them.       *)

Distinct(q) == \A i, j \in DOMAIN q : q[i] = q[j] => i = j

\* Taking the first element.
LEMMA TailStored ==
    ASSUME NEW S, NEW q \in Seq(S), q # <<>>
    PROVE  /\ Tail(q) \in Seq(S) /\ Head(q) \in S /\ Len(Tail(q)) = Len(q) - 1
           /\ Head(q) \in Stored(q) /\ Stored(Tail(q)) \subseteq Stored(q)
           /\ Distinct(q) => Distinct(Tail(q)) /\ Stored(Tail(q)) = Stored(q) \ {Head(q)}
<1>1. Len(q) \in Nat \ {0} /\ DOMAIN q = 1 .. Len(q)
  BY EmptySeq, LenProperties
<1>2. /\ Tail(q) \in Seq(S) /\ Head(q) \in S /\ Head(q) = q[1] /\ Len(Tail(q)) = Len(q) - 1
      /\ \A i \in 1 .. Len(q) - 1 : Tail(q)[i] = q[i + 1]
  BY HeadTailProperties
<1>3. DOMAIN Tail(q) = 1 .. Len(q) - 1
  BY <1>2, LenProperties
<1>4. Head(q) \in Stored(q)
  BY <1>1, <1>2 DEF Stored
<1>5. Stored(Tail(q)) = {q[i] : i \in 2 .. Len(q)}
  <2>1. ASSUME NEW i \in DOMAIN Tail(q) PROVE i + 1 \in 2 .. Len(q) /\ Tail(q)[i] = q[i + 1]
    BY <1>1, <1>2, <1>3
  <2>2. ASSUME NEW i \in 2 .. Len(q) PROVE i - 1 \in DOMAIN Tail(q) /\ Tail(q)[i - 1] = q[i]
    <3>1. i - 1 \in 1 .. Len(q) - 1 /\ (i - 1) + 1 = i
      BY <1>1
    <3> QED BY <1>2, <1>3, <3>1
  <2>3. \A x \in Stored(Tail(q)) : \E i \in 2 .. Len(q) : x = q[i]
    BY <2>1 DEF Stored
  <2>4. \A i \in 2 .. Len(q) : q[i] \in Stored(Tail(q))
    BY <2>2 DEF Stored
  <2> QED BY <2>3, <2>4
<1>6. Stored(Tail(q)) \subseteq Stored(q)
  BY <1>1, <1>5 DEF Stored
<1>7. ASSUME Distinct(q) PROVE Distinct(Tail(q))
  <2>1. ASSUME NEW i \in DOMAIN Tail(q), NEW j \in DOMAIN Tail(q), Tail(q)[i] = Tail(q)[j]
        PROVE  i = j
    <3>1. /\ i \in 1 .. Len(q) - 1 /\ j \in 1 .. Len(q) - 1
          /\ i + 1 \in DOMAIN q /\ j + 1 \in DOMAIN q
      BY <1>1, <1>3
    <3>2. q[i + 1] = q[j + 1]
      BY <1>2, <2>1, <3>1
    <3>3. i + 1 = j + 1
      BY <1>7, <3>1, <3>2 DEF Distinct
    <3> QED BY <3>1, <3>3
  <2> QED BY <2>1 DEF Distinct
<1>8. ASSUME Distinct(q) PROVE Stored(Tail(q)) = Stored(q) \ {Head(q)}
  <2>1. \A i \in 2 .. Len(q) : q[i] # q[1]
    BY <1>1, <1>8 DEF Distinct
  <2>2. DOMAIN q = {1} \cup 2 .. Len(q)
    BY <1>1
  <2> QED BY <1>2, <1>5, <2>1, <2>2 DEF Stored
<1> QED
  BY <1>2, <1>4, <1>6, <1>7, <1>8

\* Adding one at the end.
LEMMA AppendStored ==
    ASSUME NEW S, NEW q \in Seq(S), NEW x \in S
    PROVE  /\ Append(q, x) \in Seq(S) /\ Len(Append(q, x)) = Len(q) + 1
           /\ Stored(Append(q, x)) = Stored(q) \cup {x}
           /\ Distinct(q) /\ x \notin Stored(q) => Distinct(Append(q, x))
<1>1. Len(q) \in Nat /\ DOMAIN q = 1 .. Len(q)
  BY LenProperties
<1>2. /\ Append(q, x) \in Seq(S) /\ Len(Append(q, x)) = Len(q) + 1
      /\ \A i \in 1 .. Len(q) : Append(q, x)[i] = q[i]
      /\ Append(q, x)[Len(q) + 1] = x
  BY AppendProperties
<1>3. DOMAIN Append(q, x) = 1 .. Len(q) + 1
  BY <1>2, LenProperties
<1>4. DOMAIN Append(q, x) = DOMAIN q \cup {Len(q) + 1} /\ Len(q) + 1 \notin DOMAIN q
  BY <1>1, <1>3
<1>5. Stored(Append(q, x)) = Stored(q) \cup {x}
  BY <1>1, <1>2, <1>4 DEF Stored
<1>6. Distinct(q) /\ x \notin Stored(q) => Distinct(Append(q, x))
  BY <1>1, <1>2, <1>4 DEF Stored, Distinct
<1> QED
  BY <1>2, <1>5, <1>6

\* The empty queue, and the length of any.
LEMMA EmptyStored ==
    ASSUME NEW S
    PROVE  /\ <<>> \in Seq(S) /\ Len(<<>>) = 0 /\ Stored(<<>>) = {} /\ Distinct(<<>>)
           /\ \A q \in Seq(S) : Len(q) \in Nat /\ DOMAIN q = 1 .. Len(q) /\ Stored(q) \subseteq S
<1>1. <<>> \in Seq(S) /\ Len(<<>>) = 0
  BY EmptySeq
<1>2. \A q \in Seq(S) : Len(q) \in Nat /\ DOMAIN q = 1 .. Len(q)
  BY LenProperties
<1>3. DOMAIN <<>> = {}
  BY <1>1, <1>2
<1>4. \A q \in Seq(S) : Stored(q) \subseteq S
  BY <1>2, ElementOfSeq DEF Stored
<1> QED
  BY <1>1, <1>2, <1>3, <1>4 DEF Stored, Distinct

-----------------------------------------------------------------------------
(* The invariant.                                                          *)

PinnedThreads == {t \in Threads : at[t] \in Pinned}
CarryingThreads == {t \in Threads : at[t] \in Carrying}
Carried == {raw[t] : t \in CarryingThreads}

\* TypeOK but for the two bounds that need counting.
Types ==
    /\ pool \in BOOLEAN
    /\ strong \in Int
    /\ inner \in {"alive", "dropping", "gone", "torn"}
    /\ dropper \in Threads \cup {Nothing}
    /\ queue \in Seq(Blocks)
    /\ empties \in Nat
    /\ held \in SUBSET Blocks
    /\ live \in SUBSET Blocks
    /\ cap \in [Blocks -> Nat]
    /\ at \in [Threads -> Steps]
    /\ raw \in [Threads -> Blocks \cup {Nothing}]
    /\ shrunk \in [Threads -> Blocks \cup {Nothing}]
    /\ \A t \in Threads : at[t] \in Carrying => raw[t] \in Blocks

\* One strong count for the pool and one for each upgraded Weak; what they keep
\* alive is dropped once, when they are gone, and left empty unless a panic ended
\* its drop.
ArcInv ==
    /\ strong = Cardinality(PinnedThreads) + (IF pool THEN 1 ELSE 0)
    /\ inner = "alive" <=> strong # 0
    /\ inner = "dropping" <=> dropper # Nothing
    /\ inner = "gone" => queue = <<>>

\* The allocated blocks are divided between the program, the queue and the
\* threads that give one back.
PlaceInv ==
    /\ live = held \cup Stored(queue) \cup Carried
    /\ held \cap Stored(queue) = {}
    /\ held \cap Carried = {}
    /\ Stored(queue) \cap Carried = {}
    /\ Distinct(queue)
    /\ \A t, u \in CarryingThreads : raw[t] = raw[u] => t = u

\* What the policy said stays something it may say of a block on its way, a shrink
\* never gets it to panic, and one that is not in its own call drops the pool.
Retainable(b) == "retain" \in Policy[cap[b]]

PolicyInv ==
    /\ Len(queue) <= QueueCap
    /\ \A b \in Stored(queue) : Retainable(b)
    /\ \A t \in Threads : at[t] \in {"upgrade", "push"} => Retainable(raw[t])
    /\ \A t \in shrinking : at[t] # "unwind" /\ (at[t] = "idle" => dropper = t)

\* A shrinking buffer counts among the empty ones it will join.
EmptyInv == empties + Cardinality(shrinking) <= MaxEmpty

\* What no policy can break, and what one that panics under a shrink does.
CountInv == Types /\ ArcInv /\ EmptyInv
IInv == Types /\ ArcInv /\ PlaceInv /\ PolicyInv /\ EmptyInv

\* The actions one by one.
LEMMA Cases ==
    ASSUME [Next]_vars
    PROVE  \/ \E t \in Threads :
                \/ GetStored(t) \/ GetNew(t) \/ DropEmpty(t) \/ DropPool(t)
                \/ \E b \in Blocks, c \in Capacities : Grow(t, b, c) \/ Resize(t, b, c)
                \/ \E b \in Blocks : DropBuffer(t, b) \/ ShrinkToEmpty(t, b)
                \/ AskPolicy(t) \/ Upgrade(t) \/ Push(t) \/ Free(t) \/ Unwind(t) \/ Release(t)
                \/ DropStored(t) \/ DropDone(t)
           \/ UNCHANGED vars
BY DEF Next, Continue

-----------------------------------------------------------------------------
(* What a thread that moves on does to the sets the invariant counts.      *)

LEMMA ThreadMoves ==
    ASSUME Types, NEW t \in Threads, NEW s \in Steps, Goto(t, s)
    PROVE  /\ at' \in [Threads -> Steps] /\ at'[t] = s /\ \A u \in Threads \ {t} : at'[u] = at[u]
           /\ PinnedThreads' = IF s \in Pinned THEN PinnedThreads \cup {t} ELSE PinnedThreads \ {t}
           /\ CarryingThreads' = IF s \in Carrying THEN CarryingThreads \cup {t}
                                                   ELSE CarryingThreads \ {t}
<1>1. at' \in [Threads -> Steps] /\ at'[t] = s /\ \A u \in Threads \ {t} : at'[u] = at[u]
  BY DEF Types, Goto
<1> QED
  BY <1>1 DEF PinnedThreads, CarryingThreads

\* Carriers do not share blocks.
DistinctCarriers == \A t, u \in CarryingThreads : raw[t] = raw[u] => t = u

LEMMA CarrySame ==
    ASSUME CarryingThreads' = CarryingThreads, raw' = raw
    PROVE  Carried' = Carried /\ (DistinctCarriers => DistinctCarriers')
BY DEF Carried, DistinctCarriers

LEMMA CarryBegins ==
    ASSUME Types, DistinctCarriers, NEW t \in Threads, NEW b \in Blocks,
           at[t] \notin Carrying, b \notin Carried, Retire(t, b)
    PROVE  Carried' = Carried \cup {b} /\ DistinctCarriers'
<1>1. Goto(t, "policy") /\ "policy" \in Steps /\ "policy" \in Carrying
  BY DEF Retire, Steps, Carrying
<1>2. CarryingThreads' = CarryingThreads \cup {t} /\ t \notin CarryingThreads
  BY <1>1, ThreadMoves DEF CarryingThreads
<1>3. raw'[t] = b /\ \A u \in CarryingThreads : raw'[u] = raw[u]
  BY <1>2 DEF Retire, Types, CarryingThreads
<1>4. Carried' = Carried \cup {b}
  BY <1>2, <1>3 DEF Carried
<1>5. \A u \in CarryingThreads : raw'[u] # b
  BY <1>3 DEF Carried
<1>6. DistinctCarriers'
  BY <1>2, <1>3, <1>5 DEF DistinctCarriers
<1> QED
  BY <1>4, <1>6

LEMMA CarryEnds ==
    ASSUME Types, DistinctCarriers, NEW t \in Threads, NEW s \in Steps \ Carrying,
           at[t] \in Carrying, Goto(t, s), raw' = [raw EXCEPT ![t] = Nothing]
    PROVE  Carried' = Carried \ {raw[t]} /\ raw[t] \in Carried /\ DistinctCarriers'
<1>1. CarryingThreads' = CarryingThreads \ {t} /\ t \in CarryingThreads
  BY ThreadMoves DEF CarryingThreads
<1>2. \A u \in CarryingThreads \ {t} : raw'[u] = raw[u] /\ raw[u] # raw[t]
  BY <1>1 DEF Types, DistinctCarriers, CarryingThreads
<1>3. Carried' = Carried \ {raw[t]} /\ raw[t] \in Carried
  BY <1>1, <1>2 DEF Carried
<1>4. DistinctCarriers'
  BY <1>1, <1>2 DEF DistinctCarriers
<1> QED
  BY <1>3, <1>4

-----------------------------------------------------------------------------
(* Types.                                                                  *)

\* Where the policy sends a call.
LEMMA PolicyAnswers ==
    ASSUME Types, NEW t \in Threads, AskPolicy(t)
    PROVE  \E s \in {"unwind", "upgrade", "free"} :
             /\ Goto(t, s)
             /\ s = "upgrade" => Retainable(raw[t])
             /\ s = "unwind" => "panic" \in Policy[cap[raw[t]]] /\ (t \in shrinking => PanicsInShrink)
<1>1. PICK answer \in DOMAIN Then :
         /\ answer \in Policy[cap[raw[t]]]
         /\ answer = "panic" /\ t \in shrinking => PanicsInShrink
         /\ Goto(t, Then[answer])
  BY DEF AskPolicy
<1>2. answer \in {"retain", "reject", "panic"}
  BY DEF Then
<1> QED
  BY <1>1, <1>2 DEF Then, Retainable

\* What a thread that takes up or lays down a shrink does to the set of them.
LEMMA ShrinkSets ==
    ASSUME Types, NEW t \in Threads
    PROVE  /\ shrinking \subseteq Threads
           /\ shrunk' = shrunk => shrinking' = shrinking
           /\ \A b \in Blocks :
                shrunk' = [shrunk EXCEPT ![t] = b] => shrinking' = shrinking \cup {t}
           /\ shrunk' = [shrunk EXCEPT ![t] = Nothing] => shrinking' = shrinking \ {t}
           /\ Returns(t) => shrinking' = shrinking \ {t}
<1>1. \A b \in Blocks : b # Nothing
  BY PoolAssumption
<1> QED
  BY <1>1 DEF shrinking, Types, Returns

LEMMA TypesInit == Init => Types
BY PoolAssumption, EmptyStored DEF Init, Types, Steps, Carrying

LEMMA DropArcTypes ==
    ASSUME Types, NEW t \in Threads, DropArc(t)
    PROVE  strong' \in Int /\ inner' \in {"alive", "dropping", "gone", "torn"} /\ dropper' \in Threads \cup {Nothing}
BY DEF Types, DropArc

\* A carrier's block is one, if raw and at only change together.
LEMMA RawTypes ==
    ASSUME Types, NEW t \in Threads, NEW s \in Steps, Goto(t, s),
           \/ raw' = raw /\ (s \in Carrying => at[t] \in Carrying)
           \/ \E b \in Blocks : raw' = [raw EXCEPT ![t] = b]
           \/ raw' = [raw EXCEPT ![t] = Nothing] /\ s \notin Carrying
    PROVE  /\ at' \in [Threads -> Steps] /\ raw' \in [Threads -> Blocks \cup {Nothing}]
           /\ \A u \in Threads : at'[u] \in Carrying => raw'[u] \in Blocks
<1>1. at' \in [Threads -> Steps] /\ at'[t] = s /\ \A u \in Threads \ {t} : at'[u] = at[u]
  BY ThreadMoves
<1>2. raw' \in [Threads -> Blocks \cup {Nothing}] /\ \A u \in Threads \ {t} : raw'[u] = raw[u]
  BY DEF Types
<1>3. s \in Carrying => raw'[t] \in Blocks
  BY DEF Types
<1> QED
  BY <1>1, <1>2, <1>3 DEF Types

LEMMA TypesStep ==
    ASSUME Types, [Next]_vars
    PROVE  Types'
<1> USE PoolAssumption
<1>1. ASSUME NEW t \in Threads, GetStored(t) PROVE Types'
  <2>1. Tail(queue) \in Seq(Blocks) /\ Head(queue) \in Blocks
    BY <1>1, TailStored DEF GetStored, Types
  <2> QED BY <1>1, <2>1 DEF GetStored, Types, arcVars, callVars
<1>2. ASSUME NEW t \in Threads, GetNew(t) \/ DropEmpty(t) PROVE Types'
  BY <1>2 DEF GetNew, DropEmpty, Types, arcVars, callVars
<1>3. ASSUME NEW t \in Threads, NEW b \in Blocks, NEW c \in Capacities, Grow(t, b, c) \/ Resize(t, b, c)
      PROVE  Types'
  <2>1. cap' \in [Blocks -> Nat]
    BY <1>3 DEF Grow, Resize, Types
  <2>2. empties' \in Nat /\ held' \in SUBSET Blocks /\ live' \in SUBSET Blocks
    BY <1>3 DEF Grow, Resize, Types
  <2> QED BY <1>3, <2>1, <2>2 DEF Grow, Resize, Types, arcVars, callVars
<1>4. ASSUME NEW t \in Threads, NEW b \in Blocks, DropBuffer(t, b) \/ ShrinkToEmpty(t, b)
      PROVE  Types'
  <2>1. /\ Goto(t, "policy") /\ raw' = [raw EXCEPT ![t] = b] /\ "policy" \in Steps
    BY <1>4 DEF DropBuffer, ShrinkToEmpty, Retire, Steps
  <2>2. /\ at' \in [Threads -> Steps] /\ raw' \in [Threads -> Blocks \cup {Nothing}]
        /\ \A u \in Threads : at'[u] \in Carrying => raw'[u] \in Blocks
    BY <2>1, RawTypes
  <2>3. shrunk' \in [Threads -> Blocks \cup {Nothing}]
    BY <1>4 DEF DropBuffer, ShrinkToEmpty, Types
  <2> QED BY <1>4, <2>2, <2>3 DEF DropBuffer, ShrinkToEmpty, Types, arcVars
<1>5. ASSUME NEW t \in Threads, DropPool(t) PROVE Types'
  BY <1>5, DropArcTypes DEF DropPool, Types, heapVars, callVars
<1>6. ASSUME NEW t \in Threads, AskPolicy(t) PROVE Types'
  <2>1. PICK s \in {"unwind", "upgrade", "free"} : Goto(t, s)
    BY <1>6, PolicyAnswers
  <2>2. raw' = raw /\ s \in Steps /\ at[t] \in Carrying
    BY <1>6 DEF AskPolicy, Steps, Carrying
  <2>3. /\ at' \in [Threads -> Steps] /\ raw' \in [Threads -> Blocks \cup {Nothing}]
        /\ \A u \in Threads : at'[u] \in Carrying => raw'[u] \in Blocks
    BY <2>1, <2>2, RawTypes
  <2> QED BY <1>6, <2>3 DEF AskPolicy, Types, arcVars, heapVars
<1>7. ASSUME NEW t \in Threads, Upgrade(t) PROVE Types'
  <2>1. PICK s \in {"push", "free"} : Goto(t, s)
    BY <1>7 DEF Upgrade
  <2>2. raw' = raw /\ s \in Steps /\ at[t] \in Carrying /\ strong' \in Int
    BY <1>7 DEF Upgrade, Steps, Carrying, Types
  <2>3. /\ at' \in [Threads -> Steps] /\ raw' \in [Threads -> Blocks \cup {Nothing}]
        /\ \A u \in Threads : at'[u] \in Carrying => raw'[u] \in Blocks
    BY <2>1, <2>2, RawTypes
  <2> QED BY <1>7, <2>2, <2>3 DEF Upgrade, Types, heapVars
<1>8. ASSUME NEW t \in Threads, Push(t) PROVE Types'
  <2>1. PICK s \in {"release", "reject"} :
           /\ Goto(t, s)
           /\ \/ s = "release" /\ raw' = [raw EXCEPT ![t] = Nothing]
              \/ s = "reject" /\ raw' = raw
    BY <1>8 DEF Push
  <2>2. s \in Steps /\ at[t] \in Carrying /\ (s = "release" => s \notin Carrying)
    BY <1>8, <2>1 DEF Push, Steps, Carrying
  <2>3. /\ at' \in [Threads -> Steps] /\ raw' \in [Threads -> Blocks \cup {Nothing}]
        /\ \A u \in Threads : at'[u] \in Carrying => raw'[u] \in Blocks
    BY <2>1, <2>2, RawTypes
  <2>4. raw[t] \in Blocks
    BY <2>2 DEF Types
  <2>5. Append(queue, raw[t]) \in Seq(Blocks)
    BY <2>4, AppendStored DEF Types
  <2> QED BY <1>8, <2>3, <2>5 DEF Push, Types, arcVars, heapVars
<1>9. ASSUME NEW t \in Threads, Free(t) \/ Unwind(t) PROVE Types'
  <2>1. PICK s \in {"release", "idle"} : Goto(t, s)
    BY <1>9 DEF Free, Unwind
  <2>2. /\ s \in Steps /\ s \notin Carrying /\ raw' = [raw EXCEPT ![t] = Nothing]
        /\ at[t] \in Carrying
    BY <1>9 DEF Free, Unwind, Steps, Carrying
  <2>3. /\ at' \in [Threads -> Steps] /\ raw' \in [Threads -> Blocks \cup {Nothing}]
        /\ \A u \in Threads : at'[u] \in Carrying => raw'[u] \in Blocks
    BY <2>1, <2>2, RawTypes
  <2>4. raw[t] \in Blocks
    BY <2>2 DEF Types
  <2>5. shrunk' \in [Threads -> Blocks \cup {Nothing}]
    BY <1>9 DEF Free, Unwind, Returns, Types
  <2>6. empties' \in Nat
    BY <1>9 DEF Free, Unwind, Returns, Types
  <2>7. held' \in SUBSET Blocks
    BY <1>9 DEF Free, Unwind, Types
  <2>8. inner' \in {"alive", "dropping", "gone", "torn"} /\ dropper' \in Threads \cup {Nothing}
    BY <1>9 DEF Free, Unwind, Types, arcVars
  <2> QED BY <1>9, <2>3, <2>5, <2>6, <2>7, <2>8 DEF Free, Unwind, Types, arcVars
<1>10. ASSUME NEW t \in Threads, Release(t) PROVE Types'
  <2>1. Goto(t, "idle") /\ "idle" \in Steps /\ "idle" \notin Carrying /\ raw' = raw
    BY <1>10 DEF Release, Steps, Carrying
  <2>2. /\ at' \in [Threads -> Steps] /\ raw' \in [Threads -> Blocks \cup {Nothing}]
        /\ \A u \in Threads : at'[u] \in Carrying => raw'[u] \in Blocks
    BY <2>1, RawTypes
  <2>3. empties' \in Nat /\ shrunk' \in [Threads -> Blocks \cup {Nothing}]
    BY <1>10 DEF Release, Returns, Types
  <2> QED BY <1>10, <2>2, <2>3, DropArcTypes DEF Release, Types
<1>11. ASSUME NEW t \in Threads, DropStored(t) PROVE Types'
  <2>1. Tail(queue) \in Seq(Blocks) /\ Head(queue) \in Blocks
    BY <1>11, TailStored DEF DropStored, Types
  <2>2. Goto(t, "policy") /\ raw' = [raw EXCEPT ![t] = Head(queue)] /\ "policy" \in Steps
    BY <1>11 DEF DropStored, Retire, Steps
  <2>3. /\ at' \in [Threads -> Steps] /\ raw' \in [Threads -> Blocks \cup {Nothing}]
        /\ \A u \in Threads : at'[u] \in Carrying => raw'[u] \in Blocks
    BY <2>1, <2>2, RawTypes
  <2> QED BY <1>11, <2>1, <2>3 DEF DropStored, Types, arcVars, heapVars
<1>12. ASSUME NEW t \in Threads, DropDone(t) PROVE Types'
  BY <1>12 DEF DropDone, Returns, Types
<1>13. CASE UNCHANGED vars
  BY <1>13 DEF vars, arcVars, heapVars, callVars, Types
<1> QED
  BY <1>1, <1>2, <1>3, <1>4, <1>5, <1>6, <1>7, <1>8, <1>9, <1>10, <1>11, <1>12, <1>13, Cases

-----------------------------------------------------------------------------
(* The Arc.                                                                *)

LEMMA PinnedFinite ==
    /\ IsFiniteSet(PinnedThreads) /\ Cardinality(PinnedThreads) \in Nat
    /\ \A t \in PinnedThreads : Cardinality(PinnedThreads) # 0
<1>1. IsFiniteSet(PinnedThreads)
  BY PoolAssumption, FS_Subset DEF PinnedThreads
<1> QED
  BY <1>1, FS_CardinalityType, FS_EmptySet

LEMMA ArcInit == Init => ArcInv
<1> SUFFICES ASSUME Init PROVE ArcInv
  OBVIOUS
<1>1. PinnedThreads = {}
  BY DEF Init, PinnedThreads, Pinned
<1>2. Cardinality(PinnedThreads) = 0
  BY <1>1, FS_EmptySet
<1> QED
  BY <1>2 DEF Init, ArcInv

\* A thread moves without crossing into or out of the pool.
LEMMA PinnedSame ==
    ASSUME Types, NEW t \in Threads, NEW s \in Steps, Goto(t, s), at[t] \in Pinned <=> s \in Pinned
    PROVE  PinnedThreads' = PinnedThreads
BY ThreadMoves DEF PinnedThreads

LEMMA ArcSame ==
    ASSUME ArcInv, UNCHANGED arcVars, PinnedThreads' = PinnedThreads,
           inner = "gone" /\ queue = <<>> => queue' = <<>>
    PROVE  ArcInv'
BY DEF ArcInv, arcVars

\* One of the counted Arcs goes.
LEMMA ArcDropped ==
    ASSUME Types, ArcInv, NEW t \in Threads, DropArc(t), strong # 0, queue' = queue,
           strong - 1 = Cardinality(PinnedThreads)' + (IF pool' THEN 1 ELSE 0)
    PROVE  ArcInv'
<1>1. inner = "alive" /\ dropper = Nothing
  BY DEF ArcInv
<1>2. strong' = strong - 1 /\ strong' = Cardinality(PinnedThreads)' + (IF pool' THEN 1 ELSE 0)
  BY DEF DropArc
<1>3. strong' # 0 <=> strong # 1
  BY <1>2 DEF Types
<1>4. CASE strong = 1
  BY <1>1, <1>2, <1>3, <1>4, PoolAssumption DEF ArcInv, DropArc
<1>5. CASE strong # 1
  BY <1>1, <1>2, <1>3, <1>5 DEF ArcInv, DropArc
<1> QED
  BY <1>4, <1>5

LEMMA ArcStep ==
    ASSUME Types, ArcInv, [Next]_vars
    PROVE  ArcInv'
<1>1. ASSUME NEW t \in Threads, GetStored(t) PROVE ArcInv'
  BY <1>1, ArcSame DEF GetStored, callVars, PinnedThreads
<1>2. ASSUME NEW t \in Threads, GetNew(t) \/ DropEmpty(t) PROVE ArcInv'
  BY <1>2, ArcSame DEF GetNew, DropEmpty, callVars, PinnedThreads
<1>3. ASSUME NEW t \in Threads, NEW b \in Blocks, NEW c \in Capacities, Grow(t, b, c) \/ Resize(t, b, c)
      PROVE  ArcInv'
  BY <1>3, ArcSame DEF Grow, Resize, callVars, PinnedThreads
<1>4. ASSUME NEW t \in Threads, NEW b \in Blocks, DropBuffer(t, b) \/ ShrinkToEmpty(t, b)
      PROVE  ArcInv'
  <2>1. Goto(t, "policy") /\ at[t] = "idle" /\ UNCHANGED <<arcVars, queue>>
    BY <1>4 DEF DropBuffer, ShrinkToEmpty, Retire, Idle
  <2>2. "policy" \in Steps /\ "policy" \notin Pinned /\ "idle" \notin Pinned
    BY DEF Steps, Pinned
  <2>3. PinnedThreads' = PinnedThreads
    BY <2>1, <2>2, PinnedSame
  <2> QED BY <2>1, <2>3, ArcSame
<1>5. ASSUME NEW t \in Threads, DropPool(t) PROVE ArcInv'
  <2>1. PinnedThreads' = PinnedThreads /\ pool = TRUE /\ pool' = FALSE /\ queue' = queue
    BY <1>5 DEF DropPool, callVars, PinnedThreads, Types
  <2>2. strong # 0
    BY <2>1, PinnedFinite DEF ArcInv
  <2>3. strong - 1 = Cardinality(PinnedThreads)' + (IF pool' THEN 1 ELSE 0)
    BY <2>1, PinnedFinite DEF ArcInv
  <2> QED BY <1>5, <2>1, <2>2, <2>3, ArcDropped DEF DropPool
<1>6. ASSUME NEW t \in Threads, AskPolicy(t) PROVE ArcInv'
  <2>1. PICK s \in {"unwind", "upgrade", "free"} : Goto(t, s)
    BY <1>6, PolicyAnswers
  <2>2. s \in Steps /\ s \notin Pinned /\ at[t] \notin Pinned
    BY <1>6 DEF AskPolicy, Steps, Pinned
  <2>3. PinnedThreads' = PinnedThreads
    BY <2>1, <2>2, PinnedSame
  <2> QED BY <1>6, <2>3, ArcSame DEF AskPolicy
<1>7. ASSUME NEW t \in Threads, Upgrade(t) PROVE ArcInv'
  <2>1. at[t] \notin Pinned
    BY <1>7 DEF Upgrade, Pinned
  <2>2. CASE strong = 0
    <3>1. Goto(t, "free") /\ "free" \in Steps /\ "free" \notin Pinned
      BY <1>7, <2>2 DEF Upgrade, Steps, Pinned
    <3>2. PinnedThreads' = PinnedThreads
      BY <2>1, <3>1, PinnedSame
    <3> QED BY <1>7, <2>2, <3>2, ArcSame DEF Upgrade, arcVars
  <2>3. CASE strong # 0
    <3>1. Goto(t, "push") /\ "push" \in Steps /\ "push" \in Pinned /\ strong' = strong + 1
      BY <1>7, <2>3 DEF Upgrade, Steps, Pinned
    <3>2. PinnedThreads' = PinnedThreads \cup {t} /\ t \notin PinnedThreads
      BY <2>1, <3>1, ThreadMoves DEF PinnedThreads
    <3>3. Cardinality(PinnedThreads)' = Cardinality(PinnedThreads) + 1
      BY <3>2, PinnedFinite, FS_AddElement
    <3>4. strong' # 0 /\ inner = "alive" /\ UNCHANGED <<pool, inner, dropper, queue>>
      BY <1>7, <2>3, <3>1, PinnedFinite DEF Upgrade, ArcInv
    <3>5. strong' = Cardinality(PinnedThreads)' + (IF pool' THEN 1 ELSE 0)
      BY <3>1, <3>3, <3>4, PinnedFinite DEF ArcInv
    <3> QED BY <3>4, <3>5 DEF ArcInv
  <2> QED BY <2>2, <2>3
<1>8. ASSUME NEW t \in Threads, Push(t) PROVE ArcInv'
  <2>1. PICK s \in {"release", "reject"} : Goto(t, s)
    BY <1>8 DEF Push
  <2>2. s \in Steps /\ s \in Pinned /\ at[t] \in Pinned
    BY <1>8 DEF Push, Steps, Pinned
  <2>3. PinnedThreads' = PinnedThreads
    BY <2>1, <2>2, PinnedSame
  <2>4. inner = "alive"
    <3>1. t \in PinnedThreads
      BY <2>2 DEF PinnedThreads
    <3>2. strong # 0
      BY <3>1, PinnedFinite DEF ArcInv
    <3> QED BY <3>2 DEF ArcInv
  <2> QED BY <1>8, <2>3, <2>4, ArcSame DEF Push
<1>9. ASSUME NEW t \in Threads, Free(t) \/ Unwind(t) PROVE ArcInv'
  <2>1. PICK s \in {"release", "idle"} : Goto(t, s) /\ (s = "release" <=> at[t] = "reject")
    BY <1>9 DEF Free, Unwind
  <2>2. s \in Steps /\ (at[t] \in Pinned <=> s \in Pinned)
    BY <1>9, <2>1 DEF Free, Unwind, Steps, Pinned
  <2>3. PinnedThreads' = PinnedThreads
    BY <2>1, <2>2, PinnedSame
  <2>4. CASE UNCHANGED arcVars
    BY <1>9, <2>3, <2>4, ArcSame DEF Free, Unwind
  <2>5. CASE ~UNCHANGED arcVars
    <3>1. /\ dropper = t /\ inner' = "torn" /\ dropper' = Nothing
          /\ UNCHANGED <<pool, strong, queue>>
      BY <1>9, <2>5 DEF Free, Unwind, arcVars
    <3>2. inner = "dropping" /\ strong = 0
      BY <3>1, PoolAssumption DEF ArcInv
    <3> QED BY <2>3, <3>1, <3>2 DEF ArcInv
  <2> QED BY <2>4, <2>5
<1>10. ASSUME NEW t \in Threads, Release(t) PROVE ArcInv'
  <2>1. Goto(t, "idle") /\ "idle" \in Steps /\ "idle" \notin Pinned /\ at[t] \in Pinned
    BY <1>10 DEF Release, Steps, Pinned
  <2>2. PinnedThreads' = PinnedThreads \ {t} /\ t \in PinnedThreads
    BY <2>1, ThreadMoves DEF PinnedThreads
  <2>3. Cardinality(PinnedThreads)' = Cardinality(PinnedThreads) - 1
    BY <2>2, PinnedFinite, FS_RemoveElement
  <2>4. strong # 0 /\ pool' = pool /\ queue' = queue
    BY <1>10, <2>2, PinnedFinite DEF Release, ArcInv
  <2>5. strong - 1 = Cardinality(PinnedThreads)' + (IF pool' THEN 1 ELSE 0)
    BY <2>3, <2>4, PinnedFinite DEF ArcInv
  <2> QED BY <1>10, <2>4, <2>5, ArcDropped DEF Release
<1>11. ASSUME NEW t \in Threads, DropStored(t) PROVE ArcInv'
  <2>1. Goto(t, "policy") /\ at[t] = "idle" /\ inner = "dropping" /\ UNCHANGED arcVars
    BY <1>11 DEF DropStored, Retire
  <2>2. "policy" \in Steps /\ "policy" \notin Pinned /\ "idle" \notin Pinned
    BY DEF Steps, Pinned
  <2>3. PinnedThreads' = PinnedThreads
    BY <2>1, <2>2, PinnedSame
  <2> QED BY <2>1, <2>3, ArcSame
<1>12. ASSUME NEW t \in Threads, DropDone(t) PROVE ArcInv'
  <2>1. PinnedThreads' = PinnedThreads
    BY <1>12 DEF DropDone, PinnedThreads
  <2> QED BY <1>12, <2>1 DEF DropDone, ArcInv
<1>13. CASE UNCHANGED vars
  BY <1>13, ArcSame DEF vars, arcVars, callVars, PinnedThreads
<1> QED
  BY <1>1, <1>2, <1>3, <1>4, <1>5, <1>6, <1>7, <1>8, <1>9, <1>10, <1>11, <1>12, <1>13, Cases

-----------------------------------------------------------------------------
(* Where the blocks are.                                                   *)

LEMMA PlaceInit == Init => PlaceInv
<1> SUFFICES ASSUME Init PROVE PlaceInv
  OBVIOUS
<1>1. CarryingThreads = {}
  BY DEF Init, CarryingThreads, Carrying
<1> QED
  BY <1>1, EmptyStored DEF Init, PlaceInv, Carried

\* The same blocks in the same hands.
LEMMA PlaceSame ==
    ASSUME PlaceInv, CarryingThreads' = CarryingThreads, raw' = raw,
           UNCHANGED <<queue, held, live>>
    PROVE  PlaceInv'
BY CarrySame DEF PlaceInv, DistinctCarriers

\* No shrink unwinds.
LEMMA UnwindLetsGo ==
    ASSUME PolicyInv, NEW t \in Threads, at[t] = "unwind"
    PROVE  t \notin shrinking /\ shrunk[t] = Nothing /\ {shrunk[t]} \ {Nothing} = {}
BY DEF PolicyInv, shrinking

LEMMA PlaceStep ==
    ASSUME Types, PlaceInv, PolicyInv, [Next]_vars
    PROVE  PlaceInv'
<1>d. DistinctCarriers
  BY DEF PlaceInv, DistinctCarriers
<1>1. ASSUME NEW t \in Threads, GetStored(t) PROVE PlaceInv'
  <2>1. /\ Head(queue) \in Stored(queue) /\ Distinct(Tail(queue))
        /\ Stored(Tail(queue)) = Stored(queue) \ {Head(queue)}
    BY <1>1, TailStored DEF GetStored, Types, PlaceInv
  <2>2. /\ queue' = Tail(queue) /\ held' = held \cup {Head(queue)} /\ live' = live
        /\ CarryingThreads' = CarryingThreads /\ raw' = raw
    BY <1>1 DEF GetStored, callVars, CarryingThreads
  <2>3. Carried' = Carried /\ DistinctCarriers'
    BY <1>d, <2>2, CarrySame
  <2> QED BY <2>1, <2>2, <2>3 DEF PlaceInv, DistinctCarriers
<1>2. ASSUME NEW t \in Threads, GetNew(t) \/ DropEmpty(t) PROVE PlaceInv'
  BY <1>2, PlaceSame DEF GetNew, DropEmpty, callVars, CarryingThreads
<1>3. ASSUME NEW t \in Threads, NEW b \in Blocks, NEW c \in Capacities, Grow(t, b, c) PROVE PlaceInv'
  <2>1. /\ b \notin live /\ held' = held \cup {b} /\ live' = live \cup {b} /\ queue' = queue
        /\ CarryingThreads' = CarryingThreads /\ raw' = raw
    BY <1>3 DEF Grow, callVars, CarryingThreads
  <2>2. Carried' = Carried /\ DistinctCarriers'
    BY <1>d, <2>1, CarrySame
  <2> QED BY <2>1, <2>2 DEF PlaceInv, DistinctCarriers
<1>4. ASSUME NEW t \in Threads, NEW b \in Blocks, NEW c \in Capacities, Resize(t, b, c) PROVE PlaceInv'
  BY <1>4, PlaceSame DEF Resize, callVars, CarryingThreads
<1>5. ASSUME NEW t \in Threads, NEW b \in Blocks, DropBuffer(t, b) \/ ShrinkToEmpty(t, b)
      PROVE  PlaceInv'
  <2>1. /\ at[t] = "idle" /\ b \in held /\ Retire(t, b)
        /\ held' = held \ {b} /\ live' = live /\ queue' = queue
    BY <1>5 DEF DropBuffer, ShrinkToEmpty, Idle
  <2>2. at[t] \notin Carrying /\ b \notin Carried
    BY <2>1 DEF Carrying, PlaceInv
  <2>3. Carried' = Carried \cup {b} /\ DistinctCarriers'
    BY <1>d, <2>1, <2>2, CarryBegins
  <2> QED BY <2>1, <2>3 DEF PlaceInv, DistinctCarriers
<1>6. ASSUME NEW t \in Threads, DropPool(t) \/ DropDone(t) PROVE PlaceInv'
  BY <1>6, PlaceSame DEF DropPool, DropDone, heapVars, callVars, CarryingThreads
<1>7. ASSUME NEW t \in Threads, AskPolicy(t) \/ Upgrade(t) PROVE PlaceInv'
  <2>1. PICK s \in {"unwind", "upgrade", "free", "push"} : Goto(t, s)
    BY <1>7, PolicyAnswers DEF Upgrade
  <2>2. s \in Steps /\ s \in Carrying /\ t \in CarryingThreads
    BY <1>7 DEF AskPolicy, Upgrade, Steps, Carrying, CarryingThreads
  <2>3. CarryingThreads' = CarryingThreads
    BY <2>1, <2>2, ThreadMoves
  <2> QED BY <1>7, <2>3, PlaceSame DEF AskPolicy, Upgrade, heapVars
<1>8. ASSUME NEW t \in Threads, Push(t) PROVE PlaceInv'
  <2>1. at[t] \in Carrying /\ t \in CarryingThreads /\ held' = held /\ live' = live
    BY <1>8 DEF Push, Carrying, CarryingThreads, heapVars
  <2>2. CASE Len(queue) < QueueCap
    <3>1. /\ queue' = Append(queue, raw[t]) /\ raw' = [raw EXCEPT ![t] = Nothing]
          /\ Goto(t, "release") /\ "release" \in Steps \ Carrying
      BY <1>8, <2>2 DEF Push, Steps, Carrying
    <3>2. Carried' = Carried \ {raw[t]} /\ raw[t] \in Carried /\ DistinctCarriers'
      BY <1>d, <2>1, <3>1, CarryEnds
    <3>3. raw[t] \in Blocks /\ raw[t] \notin Stored(queue) /\ raw[t] \notin held
      BY <2>1, <3>2 DEF Types, PlaceInv
    <3>4. Stored(queue') = Stored(queue) \cup {raw[t]} /\ Distinct(queue')
      BY <3>1, <3>3, AppendStored DEF Types, PlaceInv
    <3> QED BY <2>1, <3>2, <3>3, <3>4 DEF PlaceInv, DistinctCarriers
  <2>3. CASE ~(Len(queue) < QueueCap)
    <3>1. Goto(t, "reject") /\ "reject" \in Steps /\ "reject" \in Carrying /\ UNCHANGED <<queue, raw>>
      BY <1>8, <2>3 DEF Push, Steps, Carrying
    <3>2. CarryingThreads' = CarryingThreads
      BY <2>1, <3>1, ThreadMoves
    <3> QED BY <2>1, <3>1, <3>2, PlaceSame
  <2> QED BY <2>2, <2>3
<1>9. ASSUME NEW t \in Threads, Free(t) \/ Unwind(t) PROVE PlaceInv'
  <2>1. PICK s \in {"release", "idle"} : Goto(t, s)
    BY <1>9 DEF Free, Unwind
  <2>2. /\ s \in Steps \ Carrying /\ at[t] \in Carrying /\ raw' = [raw EXCEPT ![t] = Nothing]
        /\ live' = live \ {raw[t]} /\ queue' = queue
    BY <1>9 DEF Free, Unwind, Steps, Carrying
  <2>3. held' = held
    BY <1>9, UnwindLetsGo DEF Free, Unwind
  <2>4. Carried' = Carried \ {raw[t]} /\ raw[t] \in Carried /\ DistinctCarriers'
    BY <1>d, <2>1, <2>2, CarryEnds
  <2> QED BY <2>2, <2>3, <2>4 DEF PlaceInv, DistinctCarriers
<1>10. ASSUME NEW t \in Threads, Release(t) PROVE PlaceInv'
  <2>1. Goto(t, "idle") /\ "idle" \in Steps /\ "idle" \notin Carrying /\ t \notin CarryingThreads
    BY <1>10 DEF Release, Steps, Carrying, CarryingThreads
  <2>2. CarryingThreads' = CarryingThreads
    BY <2>1, ThreadMoves
  <2> QED BY <1>10, <2>2, PlaceSame DEF Release
<1>11. ASSUME NEW t \in Threads, DropStored(t) PROVE PlaceInv'
  <2>1. /\ Head(queue) \in Blocks /\ Head(queue) \in Stored(queue) /\ Distinct(Tail(queue))
        /\ Stored(Tail(queue)) = Stored(queue) \ {Head(queue)}
    BY <1>11, TailStored DEF DropStored, Types, PlaceInv
  <2>2. /\ at[t] \notin Carrying /\ Retire(t, Head(queue))
        /\ held' = held /\ live' = live /\ queue' = Tail(queue)
    BY <1>11 DEF DropStored, Carrying, heapVars
  <2>3. Head(queue) \notin Carried
    BY <2>1 DEF PlaceInv
  <2>4. Carried' = Carried \cup {Head(queue)} /\ DistinctCarriers'
    BY <1>d, <2>1, <2>2, <2>3, CarryBegins
  <2> QED BY <2>1, <2>2, <2>4 DEF PlaceInv, DistinctCarriers
<1>12. CASE UNCHANGED vars
  BY <1>12, PlaceSame DEF vars, heapVars, callVars, CarryingThreads
<1> QED
  BY <1>1, <1>2, <1>3, <1>4, <1>5, <1>6, <1>7, <1>8, <1>9, <1>10, <1>11, <1>12, Cases

-----------------------------------------------------------------------------
(* What the policy has said.                                               *)

LEMMA PolicyInit == Init => PolicyInv
BY EmptyStored, PoolAssumption DEF Init, PolicyInv, shrinking

\* No thread moves, and no block that is stored or on its way is resized.
LEMMA PolicyStays ==
    ASSUME Types, PolicyInv, UNCHANGED callVars, dropper' = dropper, Len(queue') <= QueueCap,
           Stored(queue') \subseteq Stored(queue),
           \A b \in Stored(queue) \cup Carried : cap'[b] = cap[b]
    PROVE  PolicyInv'
<1>1. \A t \in Threads : at[t] \in {"upgrade", "push"} => raw[t] \in Carried
  BY DEF Carried, CarryingThreads, Carrying
<1>2. shrinking' = shrinking
  BY DEF shrinking, callVars
<1> QED
  BY <1>1, <1>2 DEF PolicyInv, Retainable, callVars

\* One thread moves.
LEMMA PolicyMoves ==
    ASSUME Types, PolicyInv, NEW t \in Threads, NEW s \in Steps, Goto(t, s), cap' = cap,
           Len(queue') <= QueueCap, \A b \in Stored(queue') : Retainable(b),
           \A u \in Threads \ {t} : raw'[u] = raw[u],
           shrinking' \subseteq shrinking \cup {t},
           \A u \in Threads \ {t} : dropper = u => dropper' = u,
           s \in {"upgrade", "push"} => Retainable(raw'[t]),
           t \in shrinking' => s # "unwind" /\ (s = "idle" => dropper' = t)
    PROVE  PolicyInv'
<1>1. at'[t] = s /\ \A u \in Threads \ {t} : at'[u] = at[u]
  BY ThreadMoves
<1>2. \A u \in Threads : at'[u] \in {"upgrade", "push"} => Retainable(raw[u])' 
  BY <1>1 DEF PolicyInv, Retainable
<1>3. \A u \in shrinking' : at'[u] # "unwind" /\ (at'[u] = "idle" => dropper' = u)
  BY <1>1 DEF PolicyInv, shrinking
<1>4. \A b \in Stored(queue') : Retainable(b)'
  BY DEF Retainable
<1> QED
  BY <1>2, <1>3, <1>4 DEF PolicyInv

\* Whoever gives up the last Arc was not preceded.
LEMMA FirstDropper ==
    ASSUME Types, ArcInv, NEW t \in Threads, DropArc(t), strong # 0
    PROVE  dropper = Nothing /\ \A u \in Threads : dropper # u
BY PoolAssumption DEF ArcInv

LEMMA PolicyStep ==
    ASSUME NoPanicInShrink, Types, ArcInv, PlaceInv, PolicyInv, [Next]_vars
    PROVE  PolicyInv'
<1>q. /\ Len(queue) <= QueueCap /\ (\A b \in Stored(queue) : Retainable(b))
      /\ queue \in Seq(Blocks) /\ Len(queue) \in Nat /\ QueueCap \in Nat
      /\ Stored(queue) \subseteq Blocks
  BY EmptyStored, PoolAssumption DEF PolicyInv, Types
<1>t. queue # <<>> => /\ Len(Tail(queue)) <= QueueCap /\ Stored(Tail(queue)) \subseteq Stored(queue)
  BY <1>q, TailStored
<1>s. Steps = {"idle", "policy", "upgrade", "push", "reject", "free", "unwind", "release"}
  BY DEF Steps
<1>i. \A t \in Threads : Idle(t) => t \notin shrinking
  BY DEF Idle, PolicyInv
<1>1. ASSUME NEW t \in Threads, GetStored(t) PROVE PolicyInv'
  BY <1>1, <1>t, PolicyStays DEF GetStored, arcVars
<1>2. ASSUME NEW t \in Threads, GetNew(t) \/ DropEmpty(t) PROVE PolicyInv'
  BY <1>2, <1>q, PolicyStays DEF GetNew, DropEmpty, arcVars
<1>3. ASSUME NEW t \in Threads, NEW b \in Blocks, NEW c \in Capacities, Grow(t, b, c) \/ Resize(t, b, c)
      PROVE  PolicyInv'
  <2>1. b \notin Stored(queue) \cup Carried
    BY <1>3 DEF Grow, Resize, PlaceInv
  <2>2. queue' = queue /\ UNCHANGED callVars /\ cap' = [cap EXCEPT ![b] = c] /\ dropper' = dropper
    BY <1>3 DEF Grow, Resize, arcVars
  <2>3. \A d \in Blocks \ {b} : cap'[d] = cap[d]
    BY <2>2 DEF Types
  <2>4. Stored(queue) \cup Carried \subseteq Blocks
    BY <1>q DEF Types, Carried, CarryingThreads
  <2> QED BY <1>q, <2>1, <2>2, <2>3, <2>4, PolicyStays
<1>4. ASSUME NEW t \in Threads, NEW b \in Blocks, DropBuffer(t, b) \/ ShrinkToEmpty(t, b)
      PROVE  PolicyInv'
  <2>1. Goto(t, "policy") /\ raw' = [raw EXCEPT ![t] = b] /\ UNCHANGED <<queue, cap, dropper>>
    BY <1>4 DEF DropBuffer, ShrinkToEmpty, Retire, arcVars
  <2>2. shrinking' \subseteq shrinking \cup {t}
    BY <1>4, ShrinkSets DEF DropBuffer, ShrinkToEmpty
  <2>3. \A u \in Threads \ {t} : raw'[u] = raw[u]
    BY <2>1 DEF Types
  <2> QED BY <1>q, <1>s, <2>1, <2>2, <2>3, PolicyMoves
<1>5. ASSUME NEW t \in Threads, DropPool(t) PROVE PolicyInv'
  <2>1. /\ DropArc(t) /\ pool = TRUE /\ UNCHANGED <<queue, cap, callVars>>
    BY <1>5 DEF DropPool, heapVars, Types
  <2>2. strong # 0
    BY <2>1, PinnedFinite DEF ArcInv
  <2>3. dropper = Nothing
    BY <2>1, <2>2, FirstDropper
  <2>4. \A u \in shrinking : at[u] # "idle"
    BY <2>1, <2>2, <2>3, FirstDropper DEF PolicyInv, shrinking
  <2>5. shrinking' = shrinking /\ at' = at /\ raw' = raw
    BY <2>1 DEF callVars, shrinking
  <2> QED BY <2>1, <2>4, <2>5 DEF PolicyInv, Retainable
<1>6. ASSUME NEW t \in Threads, AskPolicy(t) PROVE PolicyInv'
  <2>1. UNCHANGED <<queue, cap, raw, shrunk, dropper>>
    BY <1>6 DEF AskPolicy, heapVars, arcVars
  <2>2. PICK s \in {"unwind", "upgrade", "free"} :
           /\ Goto(t, s)
           /\ s = "upgrade" => Retainable(raw[t])
           /\ s = "unwind" => (t \in shrinking => PanicsInShrink)
    BY <1>6, PolicyAnswers
  <2>3. shrinking' = shrinking /\ (t \in shrinking => s # "unwind")
    BY <2>1, <2>2, ShrinkSets DEF NoPanicInShrink
  <2> QED BY <1>q, <1>s, <2>1, <2>2, <2>3, PolicyMoves
<1>7. ASSUME NEW t \in Threads, Upgrade(t) PROVE PolicyInv'
  <2>1. UNCHANGED <<queue, cap, raw, shrunk, dropper>> /\ Retainable(raw[t])
    BY <1>7 DEF Upgrade, heapVars, PolicyInv
  <2>2. PICK s \in Steps : Goto(t, s) /\ s \in {"free", "push"}
    BY <1>7, <1>s DEF Upgrade
  <2>3. shrinking' = shrinking
    BY <2>1, ShrinkSets
  <2> QED BY <1>q, <2>1, <2>2, <2>3, PolicyMoves
<1>8. ASSUME NEW t \in Threads, Push(t) PROVE PolicyInv'
  <2>1. UNCHANGED <<cap, shrunk, dropper>> /\ Retainable(raw[t]) /\ raw[t] \in Blocks
    BY <1>8 DEF Push, heapVars, arcVars, PolicyInv, Types, Carrying
  <2>2. PICK s \in Steps : Goto(t, s) /\ s \in {"release", "reject"}
    BY <1>8, <1>s DEF Push
  <2>3. \A u \in Threads \ {t} : raw'[u] = raw[u]
    BY <1>8 DEF Push, Types
  <2>4. Len(queue') <= QueueCap /\ \A b \in Stored(queue') : Retainable(b)
    <3>1. CASE Len(queue) < QueueCap
      <4>1. queue' = Append(queue, raw[t])
        BY <1>8, <3>1 DEF Push
      <4>2. Len(queue') = Len(queue) + 1 /\ Stored(queue') = Stored(queue) \cup {raw[t]}
        BY <1>q, <2>1, <4>1, AppendStored
      <4> QED BY <1>q, <2>1, <3>1, <4>2
    <3>2. CASE ~(Len(queue) < QueueCap)
      BY <1>8, <1>q, <3>2 DEF Push
    <3> QED BY <3>1, <3>2
  <2>5. shrinking' = shrinking
    BY <2>1, ShrinkSets
  <2> QED BY <2>1, <2>2, <2>3, <2>4, <2>5, PolicyMoves
<1>9. ASSUME NEW t \in Threads, Free(t) PROVE PolicyInv'
  <2>1. UNCHANGED <<queue, cap, dropper>> /\ raw' = [raw EXCEPT ![t] = Nothing]
    BY <1>9 DEF Free, arcVars
  <2>2. PICK s \in Steps : Goto(t, s) /\ s \in {"release", "idle"} /\ (s = "release" <=> at[t] = "reject")
    BY <1>9, <1>s DEF Free
  <2>3. \A u \in Threads \ {t} : raw'[u] = raw[u]
    BY <2>1 DEF Types
  <2>4. shrinking' \subseteq shrinking \cup {t} /\ (s = "idle" => t \notin shrinking' \/ dropper = t)
    BY <1>9, <2>2, ShrinkSets DEF Free
  <2> QED BY <1>q, <2>1, <2>2, <2>3, <2>4, PolicyMoves
<1>10. ASSUME NEW t \in Threads, Unwind(t) PROVE PolicyInv'
  <2>1. /\ UNCHANGED <<queue, cap>> /\ raw' = [raw EXCEPT ![t] = Nothing]
        /\ Goto(t, "idle") /\ \A u \in Threads \ {t} : dropper = u => dropper' = u
    BY <1>10 DEF Unwind
  <2>2. shrinking' = shrinking \ {t}
    BY <1>10, ShrinkSets DEF Unwind
  <2>3. \A u \in Threads \ {t} : raw'[u] = raw[u]
    BY <2>1 DEF Types
  <2> QED BY <1>q, <1>s, <2>1, <2>2, <2>3, PolicyMoves
<1>11. ASSUME NEW t \in Threads, Release(t) PROVE PolicyInv'
  <2>1. /\ UNCHANGED <<queue, cap, raw, pool>> /\ Goto(t, "idle") /\ DropArc(t) /\ at[t] = "release"
    BY <1>11 DEF Release
  <2>2. strong # 0
    <3>1. t \in PinnedThreads
      BY <2>1 DEF PinnedThreads, Pinned
    <3> QED BY <3>1, PinnedFinite DEF ArcInv
  <2>3. \A u \in Threads : dropper # u
    BY <2>1, <2>2, FirstDropper
  <2>4. strong = 1 => shrinking' = shrinking /\ dropper' = t
    BY <1>11, <2>1, ShrinkSets DEF Release, DropArc
  <2>5. strong # 1 => shrinking' = shrinking \ {t}
    BY <1>11, ShrinkSets DEF Release
  <2> QED BY <1>q, <1>s, <2>1, <2>3, <2>4, <2>5, PolicyMoves
<1>12. ASSUME NEW t \in Threads, DropStored(t) PROVE PolicyInv'
  <2>1. /\ Goto(t, "policy") /\ raw' = [raw EXCEPT ![t] = Head(queue)]
        /\ queue' = Tail(queue) /\ queue # <<>> /\ UNCHANGED <<cap, shrunk, dropper>>
    BY <1>12 DEF DropStored, Retire, heapVars, arcVars
  <2>2. \A u \in Threads \ {t} : raw'[u] = raw[u]
    BY <2>1 DEF Types
  <2>3. Len(queue') <= QueueCap /\ \A b \in Stored(queue') : Retainable(b)
    BY <1>q, <1>t, <2>1
  <2>4. shrinking' = shrinking
    BY <2>1, ShrinkSets
  <2> QED BY <1>s, <2>1, <2>2, <2>3, <2>4, PolicyMoves
<1>13. ASSUME NEW t \in Threads, DropDone(t) PROVE PolicyInv'
  <2>1. /\ UNCHANGED <<queue, cap, at, raw>> /\ dropper = t
        /\ Returns(t) /\ at[t] = "idle" /\ Goto(t, "idle")
    BY <1>13 DEF DropDone, Goto, Types
  <2>2. shrinking' = shrinking \ {t}
    BY <2>1, ShrinkSets
  <2> QED BY <1>q, <1>s, <2>1, <2>2, PolicyMoves
<1>14. CASE UNCHANGED vars
  BY <1>14, <1>q, PolicyStays DEF vars, arcVars, heapVars
<1> QED
  BY <1>1, <1>2, <1>3, <1>4, <1>5, <1>6, <1>7, <1>8, <1>9, <1>10, <1>11, <1>12, <1>13, <1>14, Cases

-----------------------------------------------------------------------------
(* Empty buffers.                                                          *)

LEMMA ShrinkingFinite ==
    /\ IsFiniteSet(shrinking) /\ Cardinality(shrinking) \in Nat
    /\ \A S \in SUBSET shrinking : Cardinality(S) <= Cardinality(shrinking) /\ Cardinality(S) \in Nat
<1>1. IsFiniteSet(shrinking)
  BY PoolAssumption, FS_Subset DEF shrinking
<1> QED
  BY <1>1, FS_Subset, FS_CardinalityType

LEMMA EmptyInit == Init => EmptyInv
<1> SUFFICES ASSUME Init PROVE EmptyInv
  OBVIOUS
<1>1. shrinking = {}
  BY DEF Init, shrinking
<1> QED
  BY <1>1, PoolAssumption, FS_EmptySet DEF Init, EmptyInv

\* A shrink that returns trades its place for an empty buffer.
LEMMA ReturnKeepsEmpty ==
    ASSUME Types, EmptyInv, NEW t \in Threads, Returns(t)
    PROVE  EmptyInv'
<1>1. shrinking' = shrinking \ {t}
  BY ShrinkSets
<1>2. Cardinality(shrinking \ {t}) = IF t \in shrinking THEN Cardinality(shrinking) - 1 ELSE Cardinality(shrinking)
  BY ShrinkingFinite, FS_RemoveElement
<1> QED
  BY <1>1, <1>2, ShrinkingFinite DEF Returns, EmptyInv, Types

LEMMA EmptySame ==
    ASSUME Types, EmptyInv, empties' <= empties, empties' \in Nat, shrinking' \subseteq shrinking
    PROVE  EmptyInv'
BY ShrinkingFinite, PoolAssumption DEF EmptyInv, Types

LEMMA EmptyStep ==
    ASSUME Types, EmptyInv, [Next]_vars
    PROVE  EmptyInv'
<1>e. empties \in Nat
  BY DEF Types
<1>u. shrunk' = shrunk => shrinking' = shrinking
  BY DEF shrinking
<1>1. ASSUME NEW t \in Threads, GetNew(t) PROVE EmptyInv'
  BY <1>1, <1>e, <1>u, ShrinkingFinite, PoolAssumption DEF GetNew, callVars, EmptyInv
<1>2. ASSUME NEW t \in Threads, DropEmpty(t) PROVE EmptyInv'
  BY <1>2, <1>e, <1>u, EmptySame DEF DropEmpty, callVars
<1>3. ASSUME NEW t \in Threads, NEW b \in Blocks, NEW c \in Capacities, Grow(t, b, c) \/ Resize(t, b, c)
      PROVE  EmptyInv'
  BY <1>3, <1>e, <1>u, EmptySame DEF Grow, Resize, callVars
<1>4. ASSUME NEW t \in Threads, NEW b \in Blocks, DropBuffer(t, b) PROVE EmptyInv'
  BY <1>4, <1>e, <1>u, EmptySame DEF DropBuffer
<1>5. ASSUME NEW t \in Threads, NEW b \in Blocks, ShrinkToEmpty(t, b) PROVE EmptyInv'
  <2>1. /\ shrinking' = shrinking \cup {t} /\ empties' = empties
        /\ empties + Cardinality(shrinking) < MaxEmpty
    BY <1>5, ShrinkSets DEF ShrinkToEmpty
  <2>2. Cardinality(shrinking') \in {Cardinality(shrinking), Cardinality(shrinking) + 1}
    BY <2>1, ShrinkingFinite, FS_AddElement
  <2> QED BY <1>e, <2>1, <2>2, ShrinkingFinite, PoolAssumption DEF EmptyInv
<1>6. ASSUME NEW t \in Threads,
             GetStored(t) \/ DropPool(t) \/ AskPolicy(t) \/ Upgrade(t) \/ Push(t) \/ DropStored(t)
      PROVE  EmptyInv'
  BY <1>6, <1>e, <1>u, EmptySame
     DEF GetStored, DropPool, AskPolicy, Upgrade, Push, DropStored, heapVars, callVars
<1>7. ASSUME NEW t \in Threads, Free(t) \/ Release(t) \/ DropDone(t) PROVE EmptyInv'
  <2>1. Returns(t) \/ UNCHANGED <<empties, shrunk>>
    BY <1>7 DEF Free, Release, DropDone
  <2> QED BY <1>e, <1>u, <2>1, EmptySame, ReturnKeepsEmpty
<1>8. ASSUME NEW t \in Threads, Unwind(t) PROVE EmptyInv'
  <2>1. shrinking' \subseteq shrinking /\ empties' = empties
    BY <1>8, ShrinkSets DEF Unwind
  <2> QED BY <1>e, <2>1, EmptySame
<1>9. CASE UNCHANGED vars
  BY <1>9, <1>e, <1>u, EmptySame DEF vars, heapVars, callVars
<1> QED
  BY <1>1, <1>2, <1>3, <1>4, <1>5, <1>6, <1>7, <1>8, <1>9, Cases

-----------------------------------------------------------------------------
(* The theorems.                                                           *)

\* The counts hold whatever the policy does.
LEMMA CountsInductive == Spec => []CountInv
<1>1. Init => CountInv
  BY TypesInit, ArcInit, EmptyInit DEF CountInv
<1>2. CountInv /\ [Next]_vars => CountInv'
  BY TypesStep, ArcStep, EmptyStep DEF CountInv
<1> QED
  BY <1>1, <1>2, PTL DEF Spec

LEMMA Inductive ==
    ASSUME NoPanicInShrink
    PROVE  Spec => []IInv
<1>1. Init => IInv
  BY TypesInit, ArcInit, PlaceInit, PolicyInit, EmptyInit DEF IInv
<1>2. IInv /\ [Next]_vars => IInv'
  BY TypesStep, ArcStep, PlaceStep, PolicyStep, EmptyStep DEF IInv
<1> QED
  BY <1>1, <1>2, PTL DEF Spec

LEMMA TypesHold == CountInv => TypeOK
<1> SUFFICES ASSUME CountInv PROVE TypeOK
  OBVIOUS
<1>1. strong \in Nat
  BY PinnedFinite DEF CountInv, ArcInv
<1>2. empties \in 0 .. MaxEmpty
  BY ShrinkingFinite, PoolAssumption DEF CountInv, Types, EmptyInv
<1> QED
  BY <1>1, <1>2 DEF CountInv, Types, TypeOK

\* The type invariant, for a policy that may panic anywhere: the strong count is
\* never negative, and the program never holds more empty buffers than it may.
THEOREM TypesInvariant == Spec => []TypeOK
BY CountsInductive, TypesHold, PTL

\* A block's slots and carriers, and the sets the invariant speaks of.
LEMMA Places ==
    ASSUME Types, Distinct(queue), DistinctCarriers, NEW b \in Blocks
    PROVE  /\ Cardinality(Slots(b)) = IF b \in Stored(queue) THEN 1 ELSE 0
           /\ Cardinality(Carriers(b)) = IF b \in Carried THEN 1 ELSE 0
           /\ Slots(b) # {} <=> b \in Stored(queue)
           /\ Carriers(b) # {} <=> b \in Carried
<1>1. DOMAIN queue = 1 .. Len(queue)
  BY EmptyStored DEF Types
<1>2. Slots(b) # {} <=> b \in Stored(queue)
  BY <1>1 DEF Slots, Stored
<1>3. Carriers(b) # {} <=> b \in Carried
  BY DEF Carriers, Carried, CarryingThreads
<1>4. Slots(b) # {} => \E i : Slots(b) = {i}
  <2>1. \A i, j \in Slots(b) : i = j
    BY <1>1 DEF Slots, Distinct
  <2> QED BY <2>1
<1>5. Carriers(b) # {} => \E t : Carriers(b) = {t}
  <2>1. \A t, u \in Carriers(b) : t = u
    BY DEF Carriers, DistinctCarriers, CarryingThreads
  <2> QED BY <2>1
<1>6. Cardinality(Slots(b)) = IF b \in Stored(queue) THEN 1 ELSE 0
  BY <1>2, <1>4, FS_Singleton, FS_EmptySet
<1>7. Cardinality(Carriers(b)) = IF b \in Carried THEN 1 ELSE 0
  BY <1>3, <1>5, FS_Singleton, FS_EmptySet
<1> QED
  BY <1>2, <1>3, <1>6, <1>7

LEMMA BlocksHold == IInv => BlocksAccounted
<1> SUFFICES ASSUME IInv, NEW b \in Blocks
             PROVE  (IF b \in held THEN 1 ELSE 0) + Cardinality(Slots(b)) + Cardinality(Carriers(b))
                        = IF b \in live THEN 1 ELSE 0
  BY DEF BlocksAccounted
<1>1. /\ Cardinality(Slots(b)) = IF b \in Stored(queue) THEN 1 ELSE 0
      /\ Cardinality(Carriers(b)) = IF b \in Carried THEN 1 ELSE 0
  BY Places DEF IInv, PlaceInv, DistinctCarriers
<1>2. /\ b \in live <=> b \in held \/ b \in Stored(queue) \/ b \in Carried
      /\ ~(b \in held /\ b \in Stored(queue))
      /\ ~(b \in held /\ b \in Carried)
      /\ ~(b \in Stored(queue) /\ b \in Carried)
  BY DEF IInv, PlaceInv
<1> QED
  BY <1>1, <1>2

\* No block is freed twice, leaked or handed out twice, whatever the threads do
\* to the pool and its queue while deallocate_buffer runs.
THEOREM BlocksInvariant ==
    ASSUME NoPanicInShrink
    PROVE  Spec => []BlocksAccounted
BY Inductive, BlocksHold, PTL

LEMMA DropHolds == CountInv => DropIsFinal
<1> SUFFICES ASSUME CountInv PROVE DropIsFinal
  OBVIOUS
<1>1. ASSUME inner # "alive" PROVE ~pool /\ \A t \in Threads : at[t] \notin Pinned
  <2>1. Cardinality(PinnedThreads) + (IF pool THEN 1 ELSE 0) = 0
    BY <1>1 DEF CountInv, ArcInv
  <2>2. ~pool /\ Cardinality(PinnedThreads) = 0
    BY <2>1, PinnedFinite
  <2> QED BY <2>2, PinnedFinite DEF PinnedThreads
<1> QED
  BY <1>1 DEF DropIsFinal, CountInv, ArcInv

\* No thread is inside a pool whose queue is being dropped, was, or was left half
\* dropped by a panic, and nothing is left in a queue whose drop came to its end,
\* whatever the policy answers from one call to the next and wherever it panics.
THEOREM DropInvariant == Spec => []DropIsFinal
BY CountsInductive, DropHolds, PTL

LEMMA QuietHolds == IInv => QuietIsClean
<1> SUFFICES ASSUME IInv, \A t \in Threads : Idle(t)
             PROVE  /\ strong = IF pool THEN 1 ELSE 0
                    /\ inner \in IF pool THEN {"alive"} ELSE {"gone", "torn"}
                    /\ inner = "gone" => live = held
                    /\ inner = "torn" => live = held \cup Stored(queue)
  BY DEF QuietIsClean
<1>1. PinnedThreads = {} /\ CarryingThreads = {} /\ Carried = {}
  BY DEF Idle, PinnedThreads, CarryingThreads, Carried, Pinned, Carrying
<1>2. strong = IF pool THEN 1 ELSE 0
  BY <1>1, FS_EmptySet DEF IInv, ArcInv
<1>3. dropper = Nothing
  BY PoolAssumption DEF Idle, IInv, Types
<1>4. inner \in IF pool THEN {"alive"} ELSE {"gone", "torn"}
  BY <1>2, <1>3 DEF IInv, Types, ArcInv
<1>5. live = held \cup Stored(queue)
  BY <1>1 DEF IInv, PlaceInv
<1>6. inner = "gone" => live = held
  BY <1>5, EmptyStored DEF IInv, ArcInv
<1> QED
  BY <1>2, <1>4, <1>5, <1>6

\* Every upgraded Arc is given back, and a pool that was dropped leaves nothing
\* behind once the calls that were under way have ended, but for what it lost when
\* its policy panicked in the drop of the queue.
THEOREM QuietInvariant ==
    ASSUME NoPanicInShrink
    PROVE  Spec => []QuietIsClean
BY Inductive, QuietHolds, PTL

\* A policy that never panics on a capacity it may say yes to, as the two the crate
\* comes with.
KeepsItsWord ==
    \A c \in Capacities : ~({"retain", "panic"} \subseteq Policy[c])

\* The drop of the queue meets the same capacities the policy said yes to.
WordInv ==
    /\ inner # "torn"
    /\ \A b \in live : cap[b] \in Capacities
    /\ \A t \in Threads : dropper = t =>
        /\ at[t] # "unwind"
        /\ at[t] = "policy" => Retainable(raw[t])

\* A thread that does not drop the pool moves, or the one that does comes to a
\* harmless place.
LEMMA WordMoves ==
    ASSUME Types, WordInv, NEW t \in Threads, NEW s \in Steps, Goto(t, s),
           inner' # "torn", live' \subseteq live, cap' = cap,
           \A u \in Threads \ {t} : raw'[u] = raw[u] /\ (dropper' = u => dropper = u),
           dropper' = t => s # "unwind" /\ (s = "policy" => Retainable(raw'[t]))
    PROVE  WordInv'
<1>1. at'[t] = s /\ \A u \in Threads \ {t} : at'[u] = at[u]
  BY ThreadMoves
<1> QED
  BY <1>1 DEF WordInv, Retainable

LEMMA WordStep ==
    ASSUME KeepsItsWord, IInv, WordInv, [Next]_vars
    PROVE  WordInv'
<1>t. Types /\ ArcInv /\ PlaceInv /\ PolicyInv
  BY DEF IInv
<1>s. Steps = {"idle", "policy", "upgrade", "push", "reject", "free", "unwind", "release"}
  BY DEF Steps
<1>c. ASSUME NEW t \in Threads, at[t] \in Carrying PROVE raw[t] \in live /\ raw[t] \in Carried
  BY <1>c, <1>t DEF PlaceInv, Carried, CarryingThreads
<1>1. ASSUME NEW t \in Threads, GetStored(t) \/ GetNew(t) \/ DropEmpty(t) PROVE WordInv'
  BY <1>1 DEF GetStored, GetNew, DropEmpty, arcVars, callVars, WordInv, Retainable
<1>2. ASSUME NEW t \in Threads, NEW b \in Blocks, NEW c \in Capacities, Grow(t, b, c) \/ Resize(t, b, c)
      PROVE  WordInv'
  <2>1. /\ cap' = [cap EXCEPT ![b] = c] /\ live' \subseteq live \cup {b} /\ UNCHANGED <<arcVars, callVars>>
        /\ b \notin Carried
    BY <1>2, <1>t DEF Grow, Resize, PlaceInv
  <2>2. cap'[b] = c /\ \A d \in Blocks \ {b} : cap'[d] = cap[d]
    BY <1>t, <2>1 DEF Types
  <2>3. \A d \in live' : cap'[d] \in Capacities
    BY <1>t, <2>1, <2>2 DEF WordInv, Types
  <2>4. ASSUME NEW u \in Threads, dropper = u, at[u] = "policy" PROVE Retainable(raw[u])'
    <3>1. raw[u] \in Blocks \ {b} /\ raw'[u] = raw[u]
      BY <1>c, <1>t, <2>1, <2>4 DEF Carrying, Types, callVars
    <3> QED BY <2>2, <2>4, <3>1 DEF WordInv, Retainable
  <2> QED BY <2>1, <2>3, <2>4 DEF WordInv, arcVars, callVars
<1>3. ASSUME NEW t \in Threads, NEW b \in Blocks, DropBuffer(t, b) \/ ShrinkToEmpty(t, b)
      PROVE  WordInv'
  <2>1. /\ Goto(t, "policy") /\ raw' = [raw EXCEPT ![t] = b] /\ UNCHANGED <<live, cap, dropper, inner>>
        /\ dropper # t
    BY <1>3 DEF DropBuffer, ShrinkToEmpty, Retire, arcVars, Idle
  <2>2. \A u \in Threads \ {t} : raw'[u] = raw[u]
    BY <1>t, <2>1 DEF Types
  <2> QED BY <1>s, <1>t, <2>1, <2>2, WordMoves DEF WordInv
<1>4. ASSUME NEW t \in Threads, DropPool(t) PROVE WordInv'
  <2>1. Goto(t, "idle") /\ UNCHANGED <<live, cap, raw>> /\ DropArc(t)
    BY <1>4, <1>t DEF DropPool, Idle, Goto, Types, heapVars, callVars
  <2> QED BY <1>s, <1>t, <2>1, WordMoves DEF WordInv, DropArc
<1>5. ASSUME NEW t \in Threads, AskPolicy(t) PROVE WordInv'
  <2>1. at[t] = "policy" /\ UNCHANGED <<live, cap, raw, dropper, inner>>
    BY <1>5 DEF AskPolicy, heapVars, arcVars
  <2>2. PICK s \in {"unwind", "upgrade", "free"} :
           Goto(t, s) /\ (s = "unwind" => "panic" \in Policy[cap[raw[t]]])
    BY <1>5, <1>t, PolicyAnswers
  <2>3. dropper = t => "retain" \in Policy[cap[raw[t]]]
    BY <2>1 DEF WordInv, Retainable
  <2>4. cap[raw[t]] \in Capacities
    BY <1>c, <2>1 DEF WordInv, Carrying
  <2>5. dropper = t => s # "unwind"
    BY <2>2, <2>3, <2>4 DEF KeepsItsWord
  <2> QED BY <1>s, <1>t, <2>1, <2>2, <2>5, WordMoves DEF WordInv
<1>6. ASSUME NEW t \in Threads, Upgrade(t) \/ Push(t) \/ Free(t) PROVE WordInv'
  <2>1. PICK s \in {"free", "push", "release", "reject", "idle"} : Goto(t, s)
    BY <1>6 DEF Upgrade, Push, Free
  <2>2. live' \subseteq live /\ UNCHANGED <<cap, dropper, inner>>
    BY <1>6 DEF Upgrade, Push, Free, heapVars, arcVars
  <2>3. \A u \in Threads \ {t} : raw'[u] = raw[u]
    BY <1>6, <1>t DEF Upgrade, Push, Free, Types
  <2> QED BY <1>s, <1>t, <2>1, <2>2, <2>3, WordMoves DEF WordInv
<1>7. ASSUME NEW t \in Threads, Unwind(t) PROVE WordInv'
  <2>1. dropper # t
    BY <1>7 DEF Unwind, WordInv
  <2>2. /\ Goto(t, "idle") /\ live' \subseteq live /\ UNCHANGED <<cap, dropper, inner>>
        /\ raw' = [raw EXCEPT ![t] = Nothing]
    BY <1>7, <2>1 DEF Unwind
  <2>3. \A u \in Threads \ {t} : raw'[u] = raw[u]
    BY <1>t, <2>2 DEF Types
  <2> QED BY <1>s, <1>t, <2>2, <2>3, WordMoves DEF WordInv
<1>8. ASSUME NEW t \in Threads, Release(t) PROVE WordInv'
  <2>1. Goto(t, "idle") /\ UNCHANGED <<live, cap, raw>> /\ DropArc(t)
    BY <1>8 DEF Release
  <2> QED BY <1>s, <1>t, <2>1, WordMoves DEF WordInv, DropArc
<1>9. ASSUME NEW t \in Threads, DropStored(t) PROVE WordInv'
  <2>1. /\ Goto(t, "policy") /\ raw' = [raw EXCEPT ![t] = Head(queue)] /\ queue # <<>>
        /\ UNCHANGED <<live, cap, dropper, inner>>
    BY <1>9 DEF DropStored, Retire, heapVars, arcVars
  <2>2. raw'[t] = Head(queue) /\ \A u \in Threads \ {t} : raw'[u] = raw[u]
    BY <1>t, <2>1 DEF Types
  <2>3. Retainable(Head(queue))
    BY <1>t, <2>1, TailStored DEF Types, PolicyInv
  <2> QED BY <1>s, <1>t, <2>1, <2>2, <2>3, WordMoves DEF WordInv
<1>10. ASSUME NEW t \in Threads, DropDone(t) PROVE WordInv'
  <2>1. /\ UNCHANGED <<live, cap, at, raw>> /\ inner' = "gone" /\ dropper' = Nothing
    BY <1>10 DEF DropDone
  <2> QED BY <2>1, PoolAssumption DEF WordInv
<1>11. CASE UNCHANGED vars
  BY <1>11 DEF vars, arcVars, heapVars, callVars, WordInv, Retainable
<1> QED
  BY <1>1, <1>2, <1>3, <1>4, <1>5, <1>6, <1>7, <1>8, <1>9, <1>10, <1>11, Cases

\* The pool loses no block to a panic: its drop comes to an end as long as the
\* policy does not panic on what it once said yes to, nor under a shrink.
THEOREM NothingLost ==
    ASSUME NoPanicInShrink, KeepsItsWord
    PROVE  Spec => [](inner # "torn")
<1>1. Init => WordInv
  BY PoolAssumption DEF Init, WordInv
<1>2. IInv /\ WordInv /\ [Next]_vars => WordInv'
  BY WordStep
<1>3. WordInv => inner # "torn"
  BY DEF WordInv
<1> QED
  BY <1>1, <1>2, <1>3, Inductive, PTL DEF Spec

LEMMA BoundHolds == IInv => StorageBounded
<1> SUFFICES ASSUME IInv PROVE StorageBounded
  OBVIOUS
<1>1. \A i \in 1 .. Len(queue) : queue[i] \in Stored(queue)
  BY EmptyStored DEF IInv, Types, Stored
<1> QED
  BY <1>1 DEF IInv, PolicyInv, Retainable, StorageBounded

\* The queue holds at most QueueCap blocks, none of a capacity the policy never
\* retains, though it was asked long before the push.
THEOREM BoundInvariant ==
    ASSUME NoPanicInShrink
    PROVE  Spec => []StorageBounded
BY Inductive, BoundHolds, PTL

LEMMA DeallocHolds == IInv => DeallocIsSafe
<1> SUFFICES ASSUME IInv, NEW t \in Threads, at[t] = "policy"
             PROVE  /\ raw[t] \in live \ held
                    /\ Slots(raw[t]) = {} /\ Carriers(raw[t]) = {t}
  BY DEF DeallocIsSafe
<1>1. raw[t] \in Blocks /\ raw[t] \in Carried /\ t \in CarryingThreads
  BY DEF IInv, Types, Carrying, Carried, CarryingThreads
<1>2. raw[t] \in live /\ raw[t] \notin held /\ raw[t] \notin Stored(queue)
  BY <1>1 DEF IInv, PlaceInv
<1>3. Slots(raw[t]) = {}
  BY <1>1, <1>2, Places DEF IInv, PlaceInv, DistinctCarriers
<1>4. Carriers(raw[t]) = {t}
  BY <1>1 DEF Carriers, CarryingThreads, IInv, PlaceInv
<1> QED
  BY <1>2, <1>3, <1>4

\* deallocate_buffer is only called with an allocated block that nobody else has:
\* what a panicking policy breaks under shrink_to_fit holds where it does not
\* panic there.
THEOREM DeallocInvariant ==
    ASSUME NoPanicInShrink
    PROVE  Spec => []DeallocIsSafe
BY Inductive, DeallocHolds, PTL

-----------------------------------------------------------------------------
(* The refinement: every step is a step of Ownership or changes nothing it *)
(* can see.                                                                *)

\* The blocks a buffer has, in the program or in the queue.
Out == held \cup Stored(queue)

ModeOf(b) == IF b \notin live THEN "free" ELSE IF b \in Carried THEN "unheld" ELSE "exclusive"
HoldersOf(b) == IF b \in Out THEN {b} ELSE {}

Seen ==
    /\ AbstractMode = [b \in Blocks |-> ModeOf(b)]
    /\ AbstractHolders = [b \in Blocks |-> HoldersOf(b)]

LEMMA SeenNow == IInv => Seen
<1> SUFFICES ASSUME IInv PROVE Seen
  OBVIOUS
<1>1. ASSUME NEW b \in Blocks
      PROVE  (Slots(b) # {} <=> b \in Stored(queue)) /\ (Carriers(b) # {} <=> b \in Carried)
  BY Places DEF IInv, PlaceInv, DistinctCarriers
<1>2. AbstractMode = [b \in Blocks |-> ModeOf(b)]
  BY <1>1 DEF AbstractMode, ModeOf
<1>3. AbstractHolders = [b \in Blocks |-> HoldersOf(b)]
  BY <1>1 DEF AbstractHolders, HoldersOf, Out
<1> QED
  BY <1>2, <1>3 DEF Seen

LEMMA SeenNext == IInv' => Seen'
BY SeenNow, PTL

\* A step that moves one block.
LEMMA OneMoves ==
    ASSUME IInv, IInv', NEW b \in Blocks,
           live' \ {b} = live \ {b}, Carried' \ {b} = Carried \ {b}, Out' \ {b} = Out \ {b}
    PROVE  /\ AbstractMode' = [AbstractMode EXCEPT ![b] = ModeOf(b)']
           /\ AbstractHolders' = [AbstractHolders EXCEPT ![b] = HoldersOf(b)']
           /\ AbstractMode[b] = ModeOf(b) /\ AbstractHolders[b] = HoldersOf(b)
<1>1. \A d \in Blocks \ {b} : ModeOf(d)' = ModeOf(d) /\ HoldersOf(d)' = HoldersOf(d)
  BY DEF ModeOf, HoldersOf
<1> QED
  BY <1>1, SeenNow, SeenNext DEF Seen

\* A step that moves none.
LEMMA NoneMoves ==
    ASSUME IInv, IInv', live' = live, Carried' = Carried, Out' = Out
    PROVE  UNCHANGED <<AbstractMode, AbstractHolders>>
<1>1. \A d \in Blocks : ModeOf(d)' = ModeOf(d) /\ HoldersOf(d)' = HoldersOf(d)
  BY DEF ModeOf, HoldersOf
<1> QED
  BY <1>1, SeenNow, SeenNext DEF Seen

LEMMA AbstractInit == Init => Own!Init
<1> SUFFICES ASSUME Init PROVE Own!Init
  OBVIOUS
<1>1. IInv
  BY TypesInit, ArcInit, PlaceInit, PolicyInit, EmptyInit DEF IInv
<1>2. live = {} /\ Out = {}
  BY EmptyStored DEF Init, Out
<1> QED
  BY <1>1, <1>2, SeenNow DEF Seen, ModeOf, HoldersOf, Own!Init

\* A block that is free or on its way back gets a buffer.
LEMMA Acquires ==
    ASSUME IInv, IInv', NEW b \in Blocks, b \notin Out,
           b \notin live \/ b \in Carried,
           live' = live \cup {b}, Carried' = Carried \ {b}, Out' = Out \cup {b}
    PROVE  Own!Acquire(b, b)
<1>1. /\ AbstractMode' = [AbstractMode EXCEPT ![b] = ModeOf(b)']
      /\ AbstractHolders' = [AbstractHolders EXCEPT ![b] = HoldersOf(b)']
      /\ AbstractMode[b] = ModeOf(b)
  BY OneMoves
<1>2. ModeOf(b) \in {"free", "unheld"} /\ ModeOf(b)' = "exclusive" /\ HoldersOf(b)' = {b}
  BY DEF ModeOf, HoldersOf
<1>3. Own!Unattached(b)
  BY SeenNow DEF Own!Unattached, Seen, HoldersOf
<1> QED
  BY <1>1, <1>2, <1>3 DEF Own!Acquire

\* A buffer lets go of its block.
LEMMA Leaves ==
    ASSUME IInv, IInv', NEW b \in Blocks, b \in Out, b \in live,
           live' = live, Carried' = Carried \cup {b}, Out' = Out \ {b}
    PROVE  Own!Leave(b, b)
<1>1. /\ AbstractMode' = [AbstractMode EXCEPT ![b] = ModeOf(b)']
      /\ AbstractHolders' = [AbstractHolders EXCEPT ![b] = HoldersOf(b)']
      /\ AbstractHolders[b] = HoldersOf(b)
  BY OneMoves
<1>2. ModeOf(b)' = "unheld" /\ HoldersOf(b)' = {} /\ HoldersOf(b) = {b}
  BY DEF ModeOf, HoldersOf
<1> QED
  BY <1>1, <1>2 DEF Own!Leave

\* The allocator takes a block back.
LEMMA Reclaims ==
    ASSUME IInv, IInv', NEW b \in Blocks, b \in Carried, b \in live,
           live' = live \ {b}, Carried' = Carried \ {b}, Out' = Out
    PROVE  Own!Reclaim(b)
<1>1. /\ AbstractMode' = [AbstractMode EXCEPT ![b] = ModeOf(b)']
      /\ AbstractMode[b] = ModeOf(b)
  BY OneMoves
<1>2. ModeOf(b) = "unheld" /\ ModeOf(b)' = "free"
  BY DEF ModeOf
<1>3. AbstractHolders' = AbstractHolders
  BY SeenNow, SeenNext DEF Seen, HoldersOf
<1> QED
  BY <1>1, <1>2, <1>3 DEF Own!Reclaim

\* What the steps do to the three sets.
LEMMA StepRefines ==
    ASSUME IInv, IInv', [Next]_vars
    PROVE  Own!Next \/ UNCHANGED <<AbstractMode, AbstractHolders>>
<1> DEFINE Goal == Own!Next \/ UNCHANGED <<AbstractMode, AbstractHolders>>
<1>a. \A b \in Blocks : Own!Acquire(b, b) \/ Own!Leave(b, b) \/ Own!Reclaim(b) => Goal
  BY DEF Own!Next
<1>t. Types /\ DistinctCarriers /\ PlaceInv
  BY DEF IInv, PlaceInv, DistinctCarriers
<1>n. ASSUME live' = live, Carried' = Carried, Out' = Out PROVE Goal
  BY <1>n, NoneMoves
<1> HIDE DEF Goal
<1>1. ASSUME NEW t \in Threads, GetStored(t) PROVE Goal
  <2>1. Stored(Tail(queue)) = Stored(queue) \ {Head(queue)} /\ Head(queue) \in Stored(queue)
    BY <1>1, <1>t, TailStored DEF GetStored, Types, PlaceInv
  <2>2. Out' = Out
    BY <1>1, <2>1 DEF GetStored, Out
  <2>3. Carried' = Carried /\ live' = live
    BY <1>1 DEF GetStored, callVars, Carried, CarryingThreads
  <2> QED BY <1>n, <2>2, <2>3
<1>2. ASSUME NEW t \in Threads, GetNew(t) \/ DropEmpty(t) \/ DropPool(t) \/ DropDone(t) PROVE Goal
  BY <1>2, <1>n DEF GetNew, DropEmpty, DropPool, DropDone, callVars, heapVars, Carried, CarryingThreads, Out
<1>3. ASSUME NEW t \in Threads, NEW b \in Blocks, NEW c \in Capacities, Grow(t, b, c) PROVE Goal
  <2>1. /\ b \notin live /\ live' = live \cup {b} /\ Out' = Out \cup {b} /\ Carried' = Carried
    BY <1>3 DEF Grow, Out, callVars, Carried, CarryingThreads
  <2>2. b \notin Out /\ b \notin Carried
    BY <1>t, <2>1 DEF PlaceInv, Out
  <2>3. Carried' = Carried \ {b}
    BY <2>1, <2>2
  <2> QED BY <1>a, <2>1, <2>2, <2>3, Acquires
<1>4. ASSUME NEW t \in Threads, NEW b \in Blocks, NEW c \in Capacities, Resize(t, b, c) PROVE Goal
  BY <1>4, <1>n DEF Resize, callVars, Carried, CarryingThreads, Out
<1>5. ASSUME NEW t \in Threads, NEW b \in Blocks, DropBuffer(t, b) \/ ShrinkToEmpty(t, b) PROVE Goal
  <2>1. /\ at[t] = "idle" /\ b \in held /\ Retire(t, b)
        /\ held' = held \ {b} /\ live' = live /\ queue' = queue
    BY <1>5 DEF DropBuffer, ShrinkToEmpty, Idle
  <2>2. at[t] \notin Carrying /\ b \notin Carried /\ b \notin Stored(queue) /\ b \in live
    BY <1>t, <2>1 DEF Carrying, PlaceInv
  <2>3. Carried' = Carried \cup {b}
    BY <1>t, <2>1, <2>2, CarryBegins
  <2>4. b \in Out /\ Out' = Out \ {b}
    BY <2>1, <2>2 DEF Out
  <2> QED BY <1>a, <2>1, <2>2, <2>3, <2>4, Leaves
<1>6. ASSUME NEW t \in Threads, AskPolicy(t) \/ Upgrade(t) PROVE Goal
  <2>1. PICK s \in {"unwind", "upgrade", "free", "push"} : Goto(t, s)
    BY <1>6, <1>t, PolicyAnswers DEF Upgrade
  <2>2. /\ s \in Steps /\ s \in Carrying /\ t \in CarryingThreads /\ raw' = raw
        /\ live' = live /\ held' = held /\ queue' = queue
    BY <1>6 DEF AskPolicy, Upgrade, Steps, Carrying, CarryingThreads, heapVars
  <2>3. CarryingThreads' = CarryingThreads
    BY <1>t, <2>1, <2>2, ThreadMoves
  <2> QED BY <1>n, <2>2, <2>3 DEF Carried, Out
<1>7. ASSUME NEW t \in Threads, Push(t) PROVE Goal
  <2>1. at[t] \in Carrying /\ t \in CarryingThreads /\ held' = held /\ live' = live
    BY <1>7 DEF Push, Carrying, CarryingThreads, heapVars
  <2>2. CASE Len(queue) < QueueCap
    <3>1. /\ queue' = Append(queue, raw[t]) /\ raw' = [raw EXCEPT ![t] = Nothing]
          /\ Goto(t, "release") /\ "release" \in Steps \ Carrying
      BY <1>7, <2>2 DEF Push, Steps, Carrying
    <3>2. Carried' = Carried \ {raw[t]} /\ raw[t] \in Carried
      BY <1>t, <2>1, <3>1, CarryEnds
    <3>3. raw[t] \in Blocks /\ raw[t] \notin Out /\ raw[t] \in live
      BY <1>t, <2>1, <3>2 DEF Types, PlaceInv, Out
    <3>4. Stored(queue') = Stored(queue) \cup {raw[t]}
      BY <1>t, <3>1, <3>3, AppendStored DEF Types
    <3>5. PICK b \in Blocks : b = raw[t]
      BY <3>3
    <3>6. /\ b \notin Out /\ b \in Carried /\ live' = live \cup {b} /\ Carried' = Carried \ {b}
          /\ Out' = Out \cup {b}
      BY <2>1, <3>2, <3>3, <3>4, <3>5 DEF Out
    <3> QED BY <1>a, <3>6, Acquires
  <2>3. CASE ~(Len(queue) < QueueCap)
    <3>1. Goto(t, "reject") /\ "reject" \in Steps /\ "reject" \in Carrying /\ UNCHANGED <<queue, raw>>
      BY <1>7, <2>3 DEF Push, Steps, Carrying
    <3>2. CarryingThreads' = CarryingThreads
      BY <1>t, <2>1, <3>1, ThreadMoves
    <3> QED BY <1>n, <2>1, <3>1, <3>2 DEF Carried, Out
  <2> QED BY <2>2, <2>3
<1>8. ASSUME NEW t \in Threads, Free(t) \/ Unwind(t) PROVE Goal
  <2>1. PICK s \in {"release", "idle"} : Goto(t, s)
    BY <1>8 DEF Free, Unwind
  <2>2. /\ s \in Steps \ Carrying /\ at[t] \in Carrying /\ raw' = [raw EXCEPT ![t] = Nothing]
        /\ live' = live \ {raw[t]} /\ queue' = queue
    BY <1>8 DEF Free, Unwind, Steps, Carrying
  <2>3. held' = held
    BY <1>8, UnwindLetsGo DEF Free, Unwind, IInv
  <2>4. Carried' = Carried \ {raw[t]} /\ raw[t] \in Carried
    BY <1>t, <2>1, <2>2, CarryEnds
  <2>5. PICK b \in Blocks : b = raw[t]
    BY <1>t, <2>2 DEF Types
  <2>6. b \in Carried /\ b \in live /\ live' = live \ {b} /\ Carried' = Carried \ {b} /\ Out' = Out
    BY <1>t, <2>2, <2>3, <2>4, <2>5 DEF PlaceInv, Out
  <2> QED BY <1>a, <2>6, Reclaims
<1>9. ASSUME NEW t \in Threads, Release(t) PROVE Goal
  <2>1. Goto(t, "idle") /\ "idle" \in Steps /\ "idle" \notin Carrying /\ t \notin CarryingThreads
    BY <1>9 DEF Release, Steps, Carrying, CarryingThreads
  <2>2. CarryingThreads' = CarryingThreads
    BY <1>t, <2>1, ThreadMoves
  <2> QED BY <1>9, <1>n, <2>2 DEF Release, Carried, Out
<1>10. ASSUME NEW t \in Threads, DropStored(t) PROVE Goal
  <2>1. /\ Head(queue) \in Blocks /\ Head(queue) \in Stored(queue)
        /\ Stored(Tail(queue)) = Stored(queue) \ {Head(queue)}
    BY <1>10, <1>t, TailStored DEF DropStored, Types, PlaceInv
  <2>2. PICK b \in Blocks : b = Head(queue)
    BY <2>1
  <2>3. /\ at[t] \notin Carrying /\ Retire(t, b) /\ held' = held /\ live' = live /\ queue' = Tail(queue)
    BY <1>10, <2>2 DEF DropStored, Carrying, heapVars
  <2>4. b \notin Carried /\ b \notin held /\ b \in live /\ b \in Out
    BY <1>t, <2>1, <2>2 DEF PlaceInv, Out
  <2>5. Carried' = Carried \cup {b}
    BY <1>t, <2>3, <2>4, CarryBegins
  <2>6. Out' = Out \ {b}
    BY <2>1, <2>2, <2>3, <2>4 DEF Out
  <2> QED BY <1>a, <2>3, <2>4, <2>5, <2>6, Leaves
<1>11. ASSUME UNCHANGED vars PROVE Goal
  <2>1. live' = live /\ at' = at /\ raw' = raw /\ held' = held /\ queue' = queue
    BY <1>11 DEF vars, callVars, heapVars
  <2>2. Carried' = Carried /\ Out' = Out
    BY <2>1 DEF Carried, CarryingThreads, Out
  <2> QED BY <1>n, <2>1, <2>2
<1>12. Goal
  BY <1>1, <1>2, <1>3, <1>4, <1>5, <1>6, <1>7, <1>8, <1>9, <1>10, <1>11, Cases
<1> QED
  BY <1>12 DEF Goal

\* Giving blocks back through a pool that may be full, or dropped at any moment,
\* implements exclusive ownership: a block leaves unheld hands into the queue or
\* to the allocator, never both, and comes out of the queue with its own buffer.
THEOREM PoolRefinement ==
    ASSUME NoPanicInShrink
    PROVE  Spec => ImplementsOwnership
<1>1. Init => Own!Init
  BY AbstractInit
<1>2. IInv /\ IInv' /\ [Next]_vars => [Own!Next]_(Own!ownershipVars)
  BY StepRefines DEF Own!ownershipVars
<1> QED
  BY <1>1, <1>2, Inductive, PTL DEF Spec, ImplementsOwnership, Own!Spec
=============================================================================
