------------------------- MODULE ValidatorPoolProofs -------------------------
(***************************************************************************)
(* ValidatorPool is correct for any validators, addresses, types, capacity *)
(* and depth.                                                              *)
(***************************************************************************)
EXTENDS ValidatorPool, DataLemmas

-----------------------------------------------------------------------------
(* Type correctness.                                                       *)

LEMMA TypeInit == Init => TypeOK
  BY ValidatorAssumption, Empty DEF Init, TypeOK

LEMMA EntryType ==
    \A a \in Addresses, ty \in Types : Entry(a, ty, TRUE) \in Entries /\ Entry(a, ty, FALSE) \in Entries
  BY DEF Entry, Entries

LEMMA TypeStep == TypeOK /\ [Next]_vars => TypeOK'
  <1> SUFFICES ASSUME TypeOK, [Next]_vars PROVE TypeOK'
    OBVIOUS
  <1> USE ValidatorAssumption DEF TypeOK
  <1>1. CASE DropPool
    <2>1. <<>> \in Seq(SUBSET Entries) /\ Len(<<>>) <= Capacity
      BY Empty
    <2> QED BY <1>1, <2>1 DEF DropPool
  <1>2. ASSUME NEW v \in Validators, Get(v) PROVE TypeOK'
    <2>1. CASE queue = <<>>
      BY <1>2, <2>1 DEF Get
    <2>2. CASE queue # <<>>
      <3>1. /\ Tail(queue) \in Seq(SUBSET Entries) /\ Head(queue) \in SUBSET Entries
            /\ Len(Tail(queue)) <= Capacity
        BY <2>2, TailDomain, LenProperties
      <3> QED BY <1>2, <2>2, <3>1 DEF Get
    <2> QED BY <2>1, <2>2
  <1>3. ASSUME NEW v \in Validators, Drop(v) PROVE TypeOK'
    <2>1. queue' \in Seq(SUBSET Entries) /\ Len(queue') <= Capacity
      <3>1. Append(queue, {}) \in Seq(SUBSET Entries) /\ Len(Append(queue, {})) = Len(queue) + 1
        BY AppendProperties
      <3>2. Len(queue) \in Nat
        BY LenProperties
      <3> QED BY <1>3, <3>1, <3>2 DEF Drop
    <2> QED BY <1>3, <2>1 DEF Drop
  <1>4. ASSUME NEW v \in Validators, NEW a \in Addresses, NEW ty \in Types, StartShared(v, a, ty)
        PROVE  TypeOK'
    <2>1. <<a, ty>> \in Claims /\ calls[v] \in Seq(Claims)
      BY DEF Claims
    <2>2. Append(calls[v], <<a, ty>>) \in Seq(Claims)
      BY <2>1, AppendProperties
    <2>3. <<>> \in Seq(Claims)
      BY Empty
    <2>4. Entry(a, ty, FALSE) \in Entries
      BY EntryType
    <2>5. shared' \in [Validators -> SUBSET Entries]
      <3>1. shared[v] \cup {Entry(a, ty, FALSE)} \in SUBSET Entries
        BY <2>4
      <3>2. \/ shared' = [shared EXCEPT ![v] = shared[v] \cup {Entry(a, ty, FALSE)}]
            \/ shared' = shared
        BY <1>4 DEF StartShared
      <3> QED BY <3>1, <3>2
    <2>6. calls' \in [Validators -> Seq(Claims)]
      BY <1>4, <2>2, <2>3 DEF StartShared
    <2>7. skipped' \in [Validators -> SUBSET Claims]
      <3>1. skipped[v] \cup {<<a, ty>>} \in SUBSET Claims
        BY <2>1
      <3>2. \/ skipped' = [skipped EXCEPT ![v] = skipped[v] \cup {<<a, ty>>}]
            \/ skipped' = skipped
        BY <1>4 DEF StartShared
      <3> QED BY <3>1, <3>2
    <2> QED BY <1>4, <2>5, <2>6, <2>7 DEF StartShared
  <1>5. ASSUME NEW v \in Validators, FinishShared(v) PROVE TypeOK'
    <2>1. calls[v] \in Seq(Claims) /\ calls[v] # <<>>
      BY <1>5 DEF FinishShared
    <2>2. Last(calls[v]) \in Claims /\ Front(calls[v]) \in Seq(Claims)
      BY <2>1, FrontLast
    <2>3. PICK a \in Addresses, ty \in Types : Last(calls[v]) = <<a, ty>>
      BY <2>2 DEF Claims
    <2>4. <<>> \in Seq(Claims)
      BY Empty
    <2>5. Last(calls[v])[1] = a /\ Last(calls[v])[2] = ty /\ <<a, ty>> \in Claims
      BY <2>3 DEF Claims
    <2>6. Entry(a, ty, TRUE) \in Entries
      BY EntryType
    <2>7. shared' \in [Validators -> SUBSET Entries]
      <3>1. (shared[v] \ {Entry(a, ty, FALSE)}) \cup {Entry(a, ty, TRUE)} \in SUBSET Entries
        BY <2>6
      <3>2. \/ shared' = [shared EXCEPT ![v] =
                            (shared[v] \ {Entry(a, ty, FALSE)}) \cup {Entry(a, ty, TRUE)}]
            \/ shared' = shared
        BY <1>5, <2>5 DEF FinishShared
      <3> QED BY <3>1, <3>2
    <2>8. calls' \in [Validators -> Seq(Claims)]
      BY <1>5, <2>2, <2>4 DEF FinishShared
    <2>9. passed' \in [Validators -> SUBSET Claims]
      BY <1>5, <2>5 DEF FinishShared
    <2> QED BY <1>5, <2>7, <2>8, <2>9 DEF FinishShared
  <1>6. ASSUME NEW v \in Validators, Invalid(v) PROVE TypeOK'
    BY <1>6, Empty DEF Invalid
  <1>7. CASE UNCHANGED vars
    BY <1>7 DEF vars
  <1> QED BY <1>1, <1>2, <1>3, <1>4, <1>5, <1>6, <1>7 DEF Next

\* Every variable keeps its type, and the queue its capacity.
THEOREM TypeCorrect == Spec => []TypeOK
  BY TypeInit, TypeStep, PTL DEF Spec

-----------------------------------------------------------------------------
(* The invariant.                                                          *)

\* An address has one entry: whichever there is, is the one found.
LEMMA EntryAtOnly ==
    ASSUME OneEntryEach, NEW v \in Validators, NEW e \in shared[v]
    PROVE  EntryAt(v, e.address) = {e}
  <1>1. \A f \in shared[v] : f.address = e.address => f = e
    BY DEF OneEntryEach
  <1> QED BY <1>1 DEF EntryAt

LEMMA InvInit == Init => IInv
  BY TypeInit, Empty DEF Init, IInv, ClearedMaps, OneEntryEach, FinishedHavePassed, OpenAreEntered,
     SkipsOnlyChecked

\* A step that changes nothing of a validator but what it has begun, which it
\* may forget, keeps what the invariant says of validators.
LEMMA ForgetStep ==
    ASSUME IInv, NEW v \in Validators, calls' = [calls EXCEPT ![v] = <<>>],
           UNCHANGED <<pool, queue, exists, shared, passed, skipped>>
    PROVE  ClearedMaps' /\ OneEntryEach' /\ FinishedHavePassed' /\ OpenAreEntered' /\ SkipsOnlyChecked'
  <1>1. calls'[v] = <<>> /\ \A u \in Validators \ {v} : calls'[u] = calls[u]
    BY DEF IInv, TypeOK
  <1>2. ClearedMaps'
    <2>1. \A u \in Validators : ~exists[u] => calls'[u] = <<>>
      BY <1>1 DEF IInv, ClearedMaps
    <2> QED BY <2>1 DEF IInv, ClearedMaps
  <1>3. OneEntryEach'
    BY DEF IInv, OneEntryEach
  <1>4. FinishedHavePassed'
    BY DEF IInv, FinishedHavePassed
  <1>5. OpenAreEntered'
    <2>1. DOMAIN calls'[v] = {}
      BY <1>1, Empty
    <2>2. ASSUME NEW u \in Validators, NEW i \in DOMAIN calls'[u]
          PROVE  /\ Entry(calls'[u][i][1], calls'[u][i][2], FALSE) \in shared[u]
                 /\ \A j \in DOMAIN calls'[u] : calls'[u][i] = calls'[u][j] => i = j
      <3>1. calls'[u] = calls[u]
        BY <1>1, <2>1, <2>2
      <3> QED BY <2>2, <3>1 DEF IInv, OpenAreEntered
    <2> QED BY <2>2 DEF OpenAreEntered
  <1>6. SkipsOnlyChecked'
    BY DEF IInv, SkipsOnlyChecked
  <1> QED BY <1>2, <1>3, <1>4, <1>5, <1>6

LEMMA DropStep ==
    ASSUME IInv, NEW v \in Validators, Drop(v)
    PROVE  ClearedMaps' /\ OneEntryEach' /\ FinishedHavePassed' /\ OpenAreEntered' /\ SkipsOnlyChecked'
  <1> USE DEF IInv, TypeOK, Drop
  <1>1. ClearedMaps'
    <2>1. \A i \in DOMAIN queue' : queue'[i] = {}
      BY AppendDomain DEF ClearedMaps
    <2> QED BY <2>1 DEF ClearedMaps
  <1>2. OneEntryEach'
    BY DEF OneEntryEach
  <1>3. FinishedHavePassed'
    BY DEF FinishedHavePassed
  <1>4. OpenAreEntered'
    BY Empty DEF OpenAreEntered
  <1>5. SkipsOnlyChecked'
    BY DEF SkipsOnlyChecked
  <1> QED BY <1>1, <1>2, <1>3, <1>4, <1>5

\* A validator gets an empty map, from the queue or a new one.
LEMMA GetStep ==
    ASSUME IInv, NEW v \in Validators, Get(v)
    PROVE  ClearedMaps' /\ OneEntryEach' /\ FinishedHavePassed' /\ OpenAreEntered' /\ SkipsOnlyChecked'
  <1> USE DEF IInv, TypeOK
  <1>1. shared' = shared
    <2>1. queue # <<>> => Head(queue) = {}
      BY TailDomain DEF ClearedMaps
    <2>2. shared[v] = {}
      BY DEF Get, ClearedMaps
    <2> QED BY <2>1, <2>2 DEF Get
  <1>2. ClearedMaps'
    <2>1. \A i \in DOMAIN queue' : queue'[i] = {}
      BY TailDomain, Empty DEF Get, ClearedMaps
    <2> QED BY <1>1, <2>1 DEF Get, ClearedMaps
  <1>3. OneEntryEach' /\ FinishedHavePassed' /\ OpenAreEntered' /\ SkipsOnlyChecked'
    BY <1>1 DEF Get, OneEntryEach, FinishedHavePassed, OpenAreEntered, SkipsOnlyChecked
  <1> QED BY <1>2, <1>3

LEMMA StartStep ==
    ASSUME IInv, NEW v \in Validators, NEW a \in Addresses, NEW ty \in Types, StartShared(v, a, ty)
    PROVE  ClearedMaps' /\ OneEntryEach' /\ FinishedHavePassed' /\ OpenAreEntered' /\ SkipsOnlyChecked'
  <1>1. CASE calls' = [calls EXCEPT ![v] = <<>>] /\ UNCHANGED <<shared, skipped>>
    BY <1>1, ForgetStep DEF StartShared
  <1>2. CASE /\ Entry(a, ty, TRUE) \in shared[v]
             /\ skipped' = [skipped EXCEPT ![v] = @ \cup {<<a, ty>>}]
             /\ UNCHANGED <<shared, calls>>
    <2>1. <<a, ty>> \in passed[v]
      BY <1>2 DEF IInv, FinishedHavePassed
    <2>2. UNCHANGED <<pool, queue, exists, shared, calls, passed>>
      BY <1>2 DEF StartShared
    <2>3. ClearedMaps' /\ OneEntryEach'
      BY <2>2 DEF IInv, ClearedMaps, OneEntryEach
    <2>4. FinishedHavePassed' /\ OpenAreEntered'
      BY <2>2 DEF IInv, FinishedHavePassed, OpenAreEntered
    <2>5. SkipsOnlyChecked'
      <3>1. skipped'[v] = skipped[v] \cup {<<a, ty>>} /\ \A u \in Validators \ {v} : skipped'[u] = skipped[u]
        BY <1>2 DEF IInv, TypeOK
      <3> QED BY <2>1, <2>2, <3>1 DEF IInv, SkipsOnlyChecked
    <2> QED BY <2>3, <2>4, <2>5
  <1>3. CASE /\ EntryAt(v, a) = {}
             /\ shared' = [shared EXCEPT ![v] = @ \cup {Entry(a, ty, FALSE)}]
             /\ calls' = [calls EXCEPT ![v] = Append(@, <<a, ty>>)]
             /\ UNCHANGED skipped
    <2> USE DEF IInv, TypeOK
    <2>0. <<a, ty>> \in Claims /\ calls[v] \in Seq(Claims) /\ exists[v]
      BY DEF Claims, StartShared
    <2>1. \A e \in shared[v] : e.address # a
      BY <1>3 DEF EntryAt
    <2>2. ClearedMaps'
      BY <1>3, <2>0 DEF ClearedMaps, StartShared
    <2>3. OneEntryEach'
      <3>1. Entry(a, ty, FALSE).address = a
        BY DEF Entry
      <3>2. \A e, f \in shared'[v] : e.address = f.address => e = f
        BY <1>3, <2>1, <3>1 DEF OneEntryEach
      <3>3. \A u \in Validators \ {v} : shared'[u] = shared[u]
        BY <1>3
      <3> QED BY <3>2, <3>3 DEF OneEntryEach
    <2>4. FinishedHavePassed'
      BY <1>3 DEF FinishedHavePassed, StartShared, Entry
    <2>5. OpenAreEntered'
      <3>1. \A i \in DOMAIN calls[v] : calls[v][i] # <<a, ty>>
        <4> SUFFICES ASSUME NEW i \in DOMAIN calls[v], calls[v][i] = <<a, ty>> PROVE FALSE
          OBVIOUS
        <4>1. Entry(calls[v][i][1], calls[v][i][2], FALSE) \in shared[v]
          BY DEF OpenAreEntered
        <4>2. calls[v][i][1] = a
          OBVIOUS
        <4> QED BY <2>1, <4>1, <4>2 DEF Entry
      <3>2. /\ \A i \in DOMAIN calls'[v] : i \in DOMAIN calls[v] \/ i = Len(calls[v]) + 1
            /\ \A i \in DOMAIN calls[v] : calls'[v][i] = calls[v][i]
            /\ calls'[v][Len(calls[v]) + 1] = <<a, ty>>
        BY <1>3, <2>0, AppendDomain
      <3>5. shared[v] \subseteq shared'[v] /\ Entry(a, ty, FALSE) \in shared'[v]
        BY <1>3
      <3>6. \A i \in DOMAIN calls[v] : Entry(calls'[v][i][1], calls'[v][i][2], FALSE) \in shared'[v]
        BY <3>2, <3>5 DEF OpenAreEntered
      <3>7. calls'[v][Len(calls[v]) + 1][1] = a /\ calls'[v][Len(calls[v]) + 1][2] = ty
        BY <3>2
      <3>8. \A i, j \in DOMAIN calls'[v] : calls'[v][i] = calls'[v][j] => i = j
        BY <3>1, <3>2 DEF OpenAreEntered
      <3>3. \A i \in DOMAIN calls'[v] :
               /\ Entry(calls'[v][i][1], calls'[v][i][2], FALSE) \in shared'[v]
               /\ \A j \in DOMAIN calls'[v] : calls'[v][i] = calls'[v][j] => i = j
        BY <3>2, <3>5, <3>6, <3>7, <3>8
      <3>4. \A u \in Validators \ {v} : calls'[u] = calls[u] /\ shared'[u] = shared[u]
        BY <1>3
      <3> QED BY <3>3, <3>4 DEF OpenAreEntered
    <2>6. SkipsOnlyChecked'
      BY <1>3 DEF SkipsOnlyChecked, StartShared
    <2> QED BY <2>2, <2>3, <2>4, <2>5, <2>6
  <1> QED BY <1>1, <1>2, <1>3 DEF StartShared

LEMMA FinishStep ==
    ASSUME IInv, NEW v \in Validators, FinishShared(v)
    PROVE  ClearedMaps' /\ OneEntryEach' /\ FinishedHavePassed' /\ OpenAreEntered' /\ SkipsOnlyChecked'
  <1> USE DEF IInv, TypeOK
  <1>0. calls[v] \in Seq(Claims) /\ calls[v] # <<>> /\ exists[v]
    BY DEF FinishShared
  <1>1. PICK n \in DOMAIN calls[v] :
           /\ n = Len(calls[v]) /\ Last(calls[v]) = calls[v][n] /\ calls[v][n] \in Claims
           /\ DOMAIN Front(calls[v]) = DOMAIN calls[v] \ {n}
           /\ \A i \in DOMAIN Front(calls[v]) : Front(calls[v])[i] = calls[v][i]
    <2>1. /\ Last(calls[v]) = calls[v][Len(calls[v])] /\ Last(calls[v]) \in Claims
          /\ Len(calls[v]) \in DOMAIN calls[v]
          /\ DOMAIN Front(calls[v]) = DOMAIN calls[v] \ {Len(calls[v])}
          /\ \A i \in DOMAIN Front(calls[v]) : Front(calls[v])[i] = calls[v][i]
      BY <1>0, FrontLast
    <2> QED BY <2>1
  <1>2. PICK a \in Addresses, ty \in Types : calls[v][n] = <<a, ty>>
    BY <1>1 DEF Claims
  <1>a. calls[v][n][1] = a /\ calls[v][n][2] = ty /\ Last(calls[v])[1] = a /\ Last(calls[v])[2] = ty
    BY <1>1, <1>2
  <1>3. Entry(a, ty, FALSE) \in shared[v]
    <2>1. Entry(calls[v][n][1], calls[v][n][2], FALSE) \in shared[v]
      BY <1>1 DEF OpenAreEntered
    <2> QED BY <1>a, <2>1
  <1>b. Entry(a, ty, FALSE).address = a /\ Entry(a, ty, TRUE).address = a
    BY DEF Entry
  <1>4. EntryAt(v, a) = {Entry(a, ty, FALSE)}
    BY <1>3, <1>b, EntryAtOnly
  <1>5. /\ shared' = [shared EXCEPT ![v] = (@ \ {Entry(a, ty, FALSE)}) \cup {Entry(a, ty, TRUE)}]
        /\ calls' = [calls EXCEPT ![v] = Front(@)]
        /\ passed' = [passed EXCEPT ![v] = @ \cup {<<a, ty>>}]
        /\ UNCHANGED <<pool, queue, exists, skipped>>
    BY <1>a, <1>4 DEF FinishShared
  <1>6. \A e \in shared[v] : e.address = a => e = Entry(a, ty, FALSE)
    BY <1>3, <1>b DEF OneEntryEach
  <1>7. ClearedMaps'
    BY <1>0, <1>5 DEF ClearedMaps
  <1>8. OneEntryEach'
    <2>1. shared'[v] = (shared[v] \ {Entry(a, ty, FALSE)}) \cup {Entry(a, ty, TRUE)}
      BY <1>5
    <2>2. \A e, f \in shared'[v] : e.address = f.address => e = f
      BY <1>6, <1>b, <2>1 DEF OneEntryEach
    <2>3. \A u \in Validators \ {v} : shared'[u] = shared[u]
      BY <1>5
    <2> QED BY <2>2, <2>3 DEF OneEntryEach
  <1>9. FinishedHavePassed'
    <2>1. \A b \in Addresses, u \in Types :
             Entry(b, u, TRUE) \in shared'[v] <=>
                 Entry(b, u, TRUE) \in shared[v] \/ (b = a /\ u = ty)
      BY <1>5 DEF Entry
    <2>2. \A b \in Addresses, u \in Types :
             <<b, u>> \in passed'[v] <=> <<b, u>> \in passed[v] \/ (b = a /\ u = ty)
      BY <1>5
    <2>3. \A w \in Validators \ {v} : passed'[w] = passed[w] /\ shared'[w] = shared[w]
      BY <1>5
    <2> QED BY <2>1, <2>2, <2>3 DEF FinishedHavePassed
  <1>10. OpenAreEntered'
    <2>1. DOMAIN calls'[v] = DOMAIN calls[v] \ {n} /\ \A i \in DOMAIN calls'[v] : calls'[v][i] = calls[v][i]
      BY <1>1, <1>5
    <2>2. \A i \in DOMAIN calls[v] : calls[v][i][1] \in Addresses /\ calls[v][i][2] \in Types
                                     /\ calls[v][i] = <<calls[v][i][1], calls[v][i][2]>>
      BY <1>0, ElementOfSeq, LenProperties DEF Claims
    <2>3. \A i \in DOMAIN calls[v] \ {n} :
             Entry(calls[v][i][1], calls[v][i][2], FALSE) # Entry(a, ty, FALSE)
      BY <1>2, <2>2 DEF Entry, OpenAreEntered
    <2>4. \A i \in DOMAIN calls'[v] :
             /\ Entry(calls'[v][i][1], calls'[v][i][2], FALSE) \in shared'[v]
             /\ \A j \in DOMAIN calls'[v] : calls'[v][i] = calls'[v][j] => i = j
      <3>1. \A i \in DOMAIN calls'[v] : i \in DOMAIN calls[v] \ {n} /\ calls'[v][i] = calls[v][i]
        BY <2>1
      <3>2. \A e \in shared[v] : e # Entry(a, ty, FALSE) => e \in shared'[v]
        BY <1>5
      <3>3. \A i \in DOMAIN calls[v] : Entry(calls[v][i][1], calls[v][i][2], FALSE) \in shared[v]
        BY DEF OpenAreEntered
      <3>4. \A i \in DOMAIN calls'[v] : Entry(calls'[v][i][1], calls'[v][i][2], FALSE) \in shared'[v]
        <4> SUFFICES ASSUME NEW i \in DOMAIN calls'[v]
                     PROVE  Entry(calls'[v][i][1], calls'[v][i][2], FALSE) \in shared'[v]
          OBVIOUS
        <4>1. i \in DOMAIN calls[v] \ {n} /\ calls'[v][i] = calls[v][i]
          BY <3>1
        <4>2. /\ Entry(calls[v][i][1], calls[v][i][2], FALSE) \in shared[v]
              /\ Entry(calls[v][i][1], calls[v][i][2], FALSE) # Entry(a, ty, FALSE)
          BY <2>3, <3>3, <4>1
        <4> QED BY <3>2, <4>1, <4>2
      <3>5. \A i, j \in DOMAIN calls'[v] : calls'[v][i] = calls'[v][j] => i = j
        <4> SUFFICES ASSUME NEW i \in DOMAIN calls'[v], NEW j \in DOMAIN calls'[v],
                            calls'[v][i] = calls'[v][j]
                     PROVE  i = j
          OBVIOUS
        <4>1. i \in DOMAIN calls[v] /\ j \in DOMAIN calls[v] /\ calls[v][i] = calls[v][j]
          BY <3>1
        <4> QED BY <4>1 DEF OpenAreEntered
      <3> QED BY <3>4, <3>5
    <2>5. \A w \in Validators \ {v} : calls'[w] = calls[w] /\ shared'[w] = shared[w]
      BY <1>5
    <2> QED BY <2>4, <2>5 DEF OpenAreEntered
  <1>11. SkipsOnlyChecked'
    BY <1>5 DEF SkipsOnlyChecked
  <1> QED BY <1>7, <1>8, <1>9, <1>10, <1>11

LEMMA InvStep == IInv /\ [Next]_vars => IInv'
  <1> SUFFICES ASSUME IInv, [Next]_vars PROVE IInv'
    OBVIOUS
  <1>0. TypeOK'
    BY TypeStep DEF IInv
  <1> SUFFICES ClearedMaps' /\ OneEntryEach' /\ FinishedHavePassed' /\ OpenAreEntered' /\ SkipsOnlyChecked'
    BY <1>0 DEF IInv
  <1>1. CASE DropPool
    BY <1>1, Empty DEF DropPool, IInv, ClearedMaps, OneEntryEach, FinishedHavePassed, OpenAreEntered,
       SkipsOnlyChecked
  <1>2. ASSUME NEW v \in Validators, Invalid(v)
        PROVE  ClearedMaps' /\ OneEntryEach' /\ FinishedHavePassed' /\ OpenAreEntered' /\ SkipsOnlyChecked'
    BY <1>2, ForgetStep DEF Invalid
  <1>3. CASE UNCHANGED vars
    BY <1>3 DEF vars, IInv, ClearedMaps, OneEntryEach, FinishedHavePassed, OpenAreEntered, SkipsOnlyChecked
  <1> QED BY <1>1, <1>2, <1>3, GetStep, DropStep, StartStep, FinishStep DEF Next

\* The invariant the theorems below follow from holds in every reachable state.
THEOREM Inductive == Spec => []IInv
  BY InvInit, InvStep, PTL DEF Spec

-----------------------------------------------------------------------------
\* A shared pointer is accepted unchecked only if the same validator has checked
\* the value behind it, as the same type: a map the pool hands on carries nothing
\* over.
THEOREM OnlyCheckedSkipped == Spec => []SkipsOnlyChecked
  <1>1. IInv => SkipsOnlyChecked
    BY DEF IInv
  <1> QED BY <1>1, Inductive, PTL

\* Every claim a validator has accepted or is checking has an entry of its type.
LEMMA ClaimsAreEntered ==
    ASSUME IInv, NEW v \in Validators, NEW x \in passed[v] \cup skipped[v] \cup Range(calls[v])
    PROVE  \E e \in shared[v] : e.address = x[1] /\ e.type_id = x[2] /\ x = <<x[1], x[2]>>
  <1>1. CASE x \in passed[v]
    <2>1. PICK a \in Addresses, ty \in Types : x = <<a, ty>>
      BY <1>1 DEF IInv, TypeOK, Claims
    <2>2. Entry(a, ty, TRUE) \in shared[v]
      BY <1>1, <2>1 DEF IInv, FinishedHavePassed
    <2> QED BY <2>1, <2>2 DEF Entry
  <1>2. CASE x \in Range(calls[v])
    <2>1. PICK i \in DOMAIN calls[v] : x = calls[v][i]
      BY <1>2 DEF Range
    <2>2. x \in Claims
      BY <2>1, ElementOfSeq, LenProperties DEF IInv, TypeOK
    <2>3. Entry(x[1], x[2], FALSE) \in shared[v]
      BY <2>1 DEF IInv, OpenAreEntered
    <2> QED BY <2>2, <2>3 DEF Entry, Claims
  <1> QED BY <1>1, <1>2 DEF IInv, SkipsOnlyChecked

\* No address is accepted, or is being checked, as a value of two types.
THEOREM TypesAgree == Spec => []OneTypePerAddress
  <1>1. IInv => OneTypePerAddress
    <2> SUFFICES ASSUME IInv, NEW v \in Validators,
                        NEW x \in passed[v] \cup skipped[v] \cup Range(calls[v]),
                        NEW y \in passed[v] \cup skipped[v] \cup Range(calls[v]),
                        x[1] = y[1]
                 PROVE  x = y
      BY DEF OneTypePerAddress
    <2>1. PICK e \in shared[v] : e.address = x[1] /\ e.type_id = x[2] /\ x = <<x[1], x[2]>>
      BY ClaimsAreEntered
    <2>2. PICK f \in shared[v] : f.address = y[1] /\ f.type_id = y[2] /\ y = <<y[1], y[2]>>
      BY ClaimsAreEntered
    <2>3. e = f
      BY <2>1, <2>2 DEF IInv, OneEntryEach
    <2> QED BY <2>1, <2>2, <2>3
  <1> QED BY <1>1, Inductive, PTL

\* finish_shared finds the entry start_shared made, unfinished, and answers Ok.
THEOREM FinishSucceeds == Spec => []FinishNeverFails
  <1>1. IInv => FinishNeverFails
    <2> SUFFICES ASSUME IInv, NEW v \in Validators, NEW i \in DOMAIN calls[v]
                 PROVE  /\ EntryAt(v, calls[v][i][1]) = {Entry(calls[v][i][1], calls[v][i][2], FALSE)}
                        /\ \A j \in DOMAIN calls[v] : calls[v][i] = calls[v][j] => i = j
      BY DEF FinishNeverFails
    <2>1. /\ Entry(calls[v][i][1], calls[v][i][2], FALSE) \in shared[v]
          /\ \A j \in DOMAIN calls[v] : calls[v][i] = calls[v][j] => i = j
      BY DEF IInv, OpenAreEntered
    <2>2. Entry(calls[v][i][1], calls[v][i][2], FALSE).address = calls[v][i][1]
      BY DEF Entry
    <2>3. EntryAt(v, calls[v][i][1]) = {Entry(calls[v][i][1], calls[v][i][2], FALSE)}
      BY <2>1, <2>2, EntryAtOnly DEF IInv
    <2> QED BY <2>1, <2>3
  <1> QED BY <1>1, Inductive, PTL

-----------------------------------------------------------------------------
(* The pool cannot be seen.                                                *)

Claimed(v) == {<<e.address, e.type_id>> : e \in shared[v]}

LEMMA BegunIs == Begun = [v \in Validators |-> Claimed(v)]
  BY DEF Begun, Claimed

\* A step that changes the entries of one map at most.
LEMMA BegunChanges ==
    ASSUME NEW v \in Validators, NEW c,
           \A w \in Validators \ {v} : shared'[w] = shared[w],
           Claimed(v)' = c
    PROVE  Begun' = [Begun EXCEPT ![v] = c]
  <1>1. Begun' = [w \in Validators |-> Claimed(w)']
    BY DEF Begun, Claimed
  <1>2. \A w \in Validators \ {v} : Claimed(w)' = Claimed(w)
    BY DEF Claimed
  <1> QED BY <1>1, <1>2, BegunIs

LEMMA BegunSame ==
    ASSUME shared' = shared
    PROVE  Begun' = Begun
  BY DEF Begun

\* An address is known where there is an entry for it.
LEMMA KnownIsEntered ==
    ASSUME NEW v \in Validators, NEW a \in Addresses
    PROVE  Alone!Known(v, a) = {} <=> EntryAt(v, a) = {}
  <1>1. Alone!Known(v, a) = {x \in Claimed(v) : x[1] = a}
    BY BegunIs DEF Alone!Known
  <1>2. \A e \in shared[v] : <<e.address, e.type_id>> \in Claimed(v)
    BY DEF Claimed
  <1>3. \A x \in Claimed(v) : \E e \in shared[v] : x = <<e.address, e.type_id>>
    BY DEF Claimed
  <1>4. ASSUME NEW e \in EntryAt(v, a) PROVE Alone!Known(v, a) # {}
    <2>1. e \in shared[v] /\ e.address = a
      BY DEF EntryAt
    <2>2. <<e.address, e.type_id>>[1] = a
      BY <2>1
    <2> QED BY <1>1, <1>2, <2>1, <2>2
  <1>5. ASSUME NEW x \in Alone!Known(v, a) PROVE EntryAt(v, a) # {}
    <2>1. PICK e \in shared[v] : x = <<e.address, e.type_id>>
      BY <1>1, <1>3
    <2>2. e.address = a
      BY <1>1, <2>1
    <2> QED BY <2>2 DEF EntryAt
  <1> QED BY <1>4, <1>5

LEMMA AloneInit == Init => Alone!Init
  BY DEF Init, Alone!Init, Begun

LEMMA GetRefines ==
    ASSUME IInv, NEW v \in Validators, Get(v)
    PROVE  Alone!Begin(v)
  <1>1. shared[v] = {} /\ shared' = shared
    <2>1. queue # <<>> => Head(queue) = {}
      BY TailDomain DEF IInv, TypeOK, ClearedMaps
    <2> QED BY <2>1 DEF IInv, TypeOK, Get, ClearedMaps
  <1>2. Begun[v] = {}
    BY <1>1, BegunIs DEF Claimed
  <1> QED BY <1>1, <1>2, BegunSame DEF Get, Alone!Begin

LEMMA DropRefines ==
    ASSUME IInv, NEW v \in Validators, Drop(v)
    PROVE  Alone!End(v)
  <1>1. shared'[v] = {} /\ \A w \in Validators \ {v} : shared'[w] = shared[w]
    BY DEF Drop, IInv, TypeOK
  <1>2. Claimed(v)' = {}
    BY <1>1 DEF Claimed
  <1>3. Begun' = [Begun EXCEPT ![v] = {}]
    BY <1>1, <1>2, BegunChanges
  <1> QED BY <1>3 DEF Drop, Alone!End

LEMMA StartRefines ==
    ASSUME IInv, NEW v \in Validators, NEW a \in Addresses, NEW ty \in Types, StartShared(v, a, ty)
    PROVE  Alone!Check(v, a, ty) \/ Alone!Skip(v, a, ty) \/ Alone!Refuse(v, a, ty)
  <1>1. CASE /\ EntryAt(v, a) = {}
             /\ shared' = [shared EXCEPT ![v] = @ \cup {Entry(a, ty, FALSE)}]
             /\ calls' = [calls EXCEPT ![v] = Append(@, <<a, ty>>)]
             /\ UNCHANGED skipped
    <2>1. /\ shared'[v] = shared[v] \cup {Entry(a, ty, FALSE)}
          /\ \A w \in Validators \ {v} : shared'[w] = shared[w]
      BY <1>1 DEF IInv, TypeOK
    <2>2. Entry(a, ty, FALSE).address = a /\ Entry(a, ty, FALSE).type_id = ty
      BY DEF Entry
    <2>3. Claimed(v)' = Claimed(v) \cup {<<a, ty>>}
      BY <2>1, <2>2 DEF Claimed
    <2>4. Begun' = [Begun EXCEPT ![v] = Begun[v] \cup {<<a, ty>>}]
      BY <2>1, <2>3, BegunChanges, BegunIs
    <2>5. Alone!Known(v, a) = {}
      BY <1>1, KnownIsEntered
    <2> QED BY <1>1, <2>4, <2>5 DEF StartShared, Alone!Check
  <1>2. CASE /\ \E e \in EntryAt(v, a) : e.type_id # ty \/ ~e.finished
             /\ calls' = [calls EXCEPT ![v] = <<>>]
             /\ UNCHANGED <<shared, skipped>>
    <2>1. Alone!Known(v, a) # {}
      BY <1>2, KnownIsEntered
    <2>2. <<a, ty>> \notin passed[v]
      <3> SUFFICES ASSUME <<a, ty>> \in passed[v] PROVE FALSE
        OBVIOUS
      <3>1. PICK e \in shared[v] : e.address = a /\ (e.type_id # ty \/ ~e.finished)
        BY <1>2 DEF EntryAt
      <3>2. Entry(a, ty, TRUE) \in shared[v]
        BY DEF IInv, FinishedHavePassed
      <3>3. /\ Entry(a, ty, TRUE).address = a /\ Entry(a, ty, TRUE).type_id = ty
            /\ Entry(a, ty, TRUE).finished = TRUE
        BY DEF Entry
      <3>4. e = Entry(a, ty, TRUE)
        BY <3>1, <3>2, <3>3 DEF IInv, OneEntryEach
      <3> QED BY <3>1, <3>3, <3>4
    <2> QED BY <1>2, <2>1, <2>2, BegunSame DEF StartShared, Alone!Refuse
  <1>3. CASE /\ Entry(a, ty, TRUE) \in shared[v]
             /\ skipped' = [skipped EXCEPT ![v] = @ \cup {<<a, ty>>}]
             /\ UNCHANGED <<shared, calls>>
    <2>1. <<a, ty>> \in passed[v]
      BY <1>3 DEF IInv, FinishedHavePassed
    <2> QED BY <1>3, <2>1, BegunSame DEF StartShared, Alone!Skip
  <1> QED BY <1>1, <1>2, <1>3 DEF StartShared

LEMMA FinishRefines ==
    ASSUME IInv, NEW v \in Validators, FinishShared(v)
    PROVE  Alone!Pass(v)
  <1>1. calls[v] \in Seq(Claims) /\ calls[v] # <<>>
    BY DEF FinishShared, IInv, TypeOK
  <1>2. PICK n \in DOMAIN calls[v] : Last(calls[v]) = calls[v][n] /\ calls[v][n] \in Claims
    <2>1. /\ Last(calls[v]) = calls[v][Len(calls[v])] /\ Last(calls[v]) \in Claims
          /\ Len(calls[v]) \in DOMAIN calls[v]
      BY <1>1, FrontLast
    <2> QED BY <2>1
  <1>3. PICK a \in Addresses, ty \in Types : Last(calls[v]) = <<a, ty>>
    BY <1>2 DEF Claims
  <1>4. Last(calls[v])[1] = a /\ Last(calls[v])[2] = ty
    BY <1>3
  <1>5. Entry(a, ty, FALSE) \in shared[v]
    <2>1. Entry(calls[v][n][1], calls[v][n][2], FALSE) \in shared[v]
      BY <1>2 DEF IInv, OpenAreEntered
    <2> QED BY <1>2, <1>4, <2>1
  <1>6. /\ Entry(a, ty, FALSE).address = a /\ Entry(a, ty, FALSE).type_id = ty
        /\ Entry(a, ty, TRUE).address = a /\ Entry(a, ty, TRUE).type_id = ty
    BY DEF Entry
  <1>7. EntryAt(v, a) = {Entry(a, ty, FALSE)}
    BY <1>5, <1>6, EntryAtOnly DEF IInv
  <1>8. /\ shared' = [shared EXCEPT ![v] = (@ \ {Entry(a, ty, FALSE)}) \cup {Entry(a, ty, TRUE)}]
        /\ calls' = [calls EXCEPT ![v] = Front(@)]
        /\ passed' = [passed EXCEPT ![v] = @ \cup {<<a, ty>>}]
        /\ UNCHANGED <<exists, skipped>>
    BY <1>4, <1>7 DEF FinishShared
  <1>9. /\ shared'[v] = (shared[v] \ {Entry(a, ty, FALSE)}) \cup {Entry(a, ty, TRUE)}
        /\ \A w \in Validators \ {v} : shared'[w] = shared[w]
    BY <1>8 DEF IInv, TypeOK
  <1>10. Claimed(v)' = Claimed(v)
    BY <1>5, <1>6, <1>9 DEF Claimed
  <1>11. Begun' = [Begun EXCEPT ![v] = Claimed(v)]
    BY <1>9, <1>10, BegunChanges
  <1>12. Begun' = Begun
    BY <1>11, BegunIs
  <1>13. passed' = [passed EXCEPT ![v] = @ \cup {Last(calls[v])}]
    BY <1>3, <1>8
  <1> QED BY <1>1, <1>8, <1>12, <1>13 DEF Alone!Pass, Alone!Last, Alone!Front, Last, Front

LEMMA StepRefines == IInv /\ [Next]_vars => [Alone!Next]_(Alone!validationVars)
  <1> SUFFICES ASSUME IInv, [Next]_vars PROVE [Alone!Next]_(Alone!validationVars)
    OBVIOUS
  <1>1. CASE DropPool \/ UNCHANGED vars
    BY <1>1, BegunSame DEF DropPool, vars, Alone!validationVars
  <1>2. ASSUME NEW v \in Validators, Get(v) \/ Drop(v) PROVE Alone!StepOf(v)
    BY <1>2, GetRefines, DropRefines DEF Alone!StepOf
  <1>3. ASSUME NEW v \in Validators, NEW a \in Addresses, NEW ty \in Types, StartShared(v, a, ty)
        PROVE  Alone!StepOf(v)
    BY <1>3, StartRefines DEF Alone!StepOf
  <1>4. ASSUME NEW v \in Validators, FinishShared(v) PROVE Alone!StepOf(v)
    BY <1>4, FinishRefines DEF Alone!StepOf
  <1>5. ASSUME NEW v \in Validators, Invalid(v) PROVE Alone!StepOf(v)
    BY <1>5, BegunSame DEF Invalid, Alone!StepOf, Alone!Fail
  <1> QED BY <1>1, <1>2, <1>3, <1>4, <1>5 DEF Next, Alone!Next

\* The pool cannot be seen: a validator whose map was used by others before, and
\* put back after accesses that failed, takes the steps of one that begins
\* knowing nothing, and its finish_shared never fails.
THEOREM Refinement == Spec => ImplementsValidation
  BY AloneInit, StepRefines, Inductive, PTL DEF Spec, ImplementsValidation, Alone!Spec
=============================================================================
