----------------------------- MODULE DataLemmas -----------------------------
(***************************************************************************)
(* What the operators on stacks, queues and numbers return that the proofs *)
(* of the components rest on.                                              *)
(***************************************************************************)
EXTENDS Integers, Sequences, SequencesExt, SequenceTheorems, TLAPS

-----------------------------------------------------------------------------
(* Stacks and queues.                                                      *)

\* The top of a stack, and what is left without it.
LEMMA FrontLast ==
    ASSUME NEW S, NEW s \in Seq(S), s # <<>>
    PROVE  /\ Last(s) = s[Len(s)] /\ Last(s) \in S /\ Len(s) \in DOMAIN s
           /\ Front(s) \in Seq(S)
           /\ DOMAIN Front(s) = DOMAIN s \ {Len(s)}
           /\ \A i \in DOMAIN Front(s) : Front(s)[i] = s[i]
  <1>1. Len(s) \in Nat \ {0} /\ DOMAIN s = 1 .. Len(s) /\ \A i \in 1 .. Len(s) : s[i] \in S
    BY EmptySeq, LenProperties, ElementOfSeq
  <1>2. Last(s) = s[Len(s)]
    BY DEF Last
  <1>3. Front(s) = SubSeq(s, 1, Len(s) - 1)
    BY DEF Front
  <1>4. /\ Front(s) \in Seq(S) /\ Len(Front(s)) = Len(s) - 1
        /\ \A i \in 1 .. Len(s) - 1 : Front(s)[i] = s[i]
    BY <1>1, <1>3, SubSeqProperties
  <1>5. DOMAIN Front(s) = 1 .. Len(s) - 1
    BY <1>4, LenProperties
  <1> QED BY <1>1, <1>2, <1>4, <1>5

\* Pushing.
LEMMA AppendDomain ==
    ASSUME NEW S, NEW s \in Seq(S), NEW x \in S
    PROVE  /\ Append(s, x) \in Seq(S)
           /\ DOMAIN s = 1 .. Len(s) /\ Len(s) \in Nat
           /\ DOMAIN Append(s, x) = DOMAIN s \cup {Len(s) + 1}
           /\ \A i \in DOMAIN s : Append(s, x)[i] = s[i]
           /\ Append(s, x)[Len(s) + 1] = x
  BY AppendProperties, LenProperties

\* Taking from a queue.
LEMMA TailDomain ==
    ASSUME NEW S, NEW s \in Seq(S), s # <<>>
    PROVE  /\ Tail(s) \in Seq(S) /\ Head(s) \in S /\ Head(s) = s[1] /\ 1 \in DOMAIN s
           /\ Len(Tail(s)) < Len(s)
           /\ \A i \in DOMAIN Tail(s) : i + 1 \in DOMAIN s /\ Tail(s)[i] = s[i + 1]
  BY HeadTailProperties, LenProperties, EmptySeq

\* The empty sequence.
LEMMA Empty ==
    ASSUME NEW S
    PROVE  <<>> \in Seq(S) /\ DOMAIN <<>> = {} /\ Len(<<>>) = 0
  BY EmptySeq, LenProperties

-----------------------------------------------------------------------------
(* Division with remainder.                                                *)

\* A number is its quotient times the divisor plus its remainder.
LEMMA DivMod ==
    ASSUME NEW a \in Nat \ {0}, NEW x \in Int
    PROVE  /\ x \div a \in Int
           /\ x % a \in 0 .. a - 1
           /\ x = a * (x \div a) + (x % a)
BY SMT

\* And that is the only way to write it.
LEMMA ModUnique ==
    ASSUME NEW a \in Nat \ {0}, NEW q \in Int, NEW r \in 0 .. a - 1
    PROVE  (a * q + r) % a = r
BY SMT

\* A number below the divisor is its own remainder.
LEMMA ModBelow ==
    ASSUME NEW a \in Nat \ {0}, NEW x \in 0 .. a - 1
    PROVE  x % a = x
BY SMT

\* Multiples of the divisor do not matter.
LEMMA ModAddMultiple ==
    ASSUME NEW a \in Nat \ {0}, NEW x \in Int, NEW y \in Int, x % a = 0
    PROVE  (x + y) % a = y % a
<1> DEFINE q == x \div a + y \div a
<1>1. /\ x \div a \in Int /\ y \div a \in Int /\ y % a \in 0 .. a - 1
      /\ x = a * (x \div a) /\ y = a * (y \div a) + (y % a)
  BY DivMod
<1>2. x + y = a * q + (y % a)
  BY <1>1, SMT
<1>3. (a * q + (y % a)) % a = y % a
  <2>1. q \in Int /\ y % a \in 0 .. a - 1
    BY <1>1
  <2> HIDE DEF q
  <2> QED
    BY <2>1, ModUnique
<1> QED
  BY <1>2, <1>3

\* Divisibility is transitive.
LEMMA ModTrans ==
    ASSUME NEW a \in Nat \ {0}, NEW b \in Nat \ {0}, NEW x \in Int,
           x % b = 0, b % a = 0
    PROVE  x % a = 0
<1> DEFINE q == (b \div a) * (x \div b)
<1>1. x \div b \in Int /\ b \div a \in Int /\ x = b * (x \div b) /\ b = a * (b \div a)
  BY DivMod
<1>2. x = (a * (b \div a)) * (x \div b)
  BY <1>1
<1>3. (a * (b \div a)) * (x \div b) = a * q
  BY <1>1, SMT
<1>4. (a * q + 0) % a = 0
  <2>1. q \in Int /\ 0 \in 0 .. a - 1
    BY <1>1
  <2> HIDE DEF q
  <2> QED
    BY <2>1, ModUnique
<1>5. x = a * q + 0
  BY <1>1, <1>2, <1>3
<1> QED
  BY <1>4, <1>5
=============================================================================
