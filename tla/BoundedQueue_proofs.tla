------------------------- MODULE BoundedQueue_proofs -------------------------
(***************************************************************************)
(* Lemmas about queues that hold each element of a pool at most once.      *)
(***************************************************************************)
EXTENDS BoundedQueue, FiniteSetTheorems, TLAPS

(* A queue without repetitions has as many places as elements.             *)
LEMMA InjectiveCardinality ==
  ASSUME NEW S, IsFiniteSet(S), NEW q \in Seq(S), IsInjective(q)
  PROVE  /\ Range(q) \in SUBSET S
         /\ IsFiniteSet(Range(q))
         /\ Cardinality(Range(q)) = Len(q)
<1>1. DOMAIN q = 1 .. Len(q) /\ Len(q) \in Nat /\ \A i \in DOMAIN q : q[i] \in S
  OBVIOUS
<1>2. Range(q) \in SUBSET S
  BY <1>1 DEF Range
<1>3. q \in Bijection(1 .. Len(q), Range(q))
  BY <1>1 DEF Bijection, Injection, Surjection, Range, IsInjective
<1>4. IsFiniteSet(1 .. Len(q)) /\ Cardinality(1 .. Len(q)) = Len(q)
  BY <1>1, FS_Interval
<1>5. QED
  BY <1>2, <1>3, <1>4, FS_Bijection DEF ExistsBijection

(* A queue without repetitions that misses a buffer of the pool has room.  *)
LEMMA RoomForMissing ==
  ASSUME NEW S, IsFiniteSet(S), NEW n \in Nat, Cardinality(S) <= n,
         NEW q \in Seq(S), IsInjective(q), NEW b \in S, b \notin Range(q)
  PROVE  ~Full(q, n)
<1>1. Range(q) \in SUBSET (S \ {b}) /\ Cardinality(Range(q)) = Len(q)
  BY InjectiveCardinality
<1>2. /\ IsFiniteSet(S \ {b})
      /\ Cardinality(S \ {b}) = Cardinality(S) - 1
  BY FS_RemoveElement
<1>3. Cardinality(Range(q)) <= Cardinality(S) - 1
  BY <1>1, <1>2, FS_Subset
<1>4. Cardinality(S) \in Nat
  BY FS_CardinalityType
<1>5. Len(q) < n /\ Len(q) \in Nat
  BY <1>1, <1>3, <1>4
<1>6. QED
  BY <1>5  DEF Full

(* A queue without repetitions that is as long as the pool is large has    *)
(* every buffer.                                                           *)
LEMMA FullHasAll ==
  ASSUME NEW S, IsFiniteSet(S), NEW q \in Seq(S), IsInjective(q),
         Len(q) = Cardinality(S)
  PROVE  Range(q) = S
<1>1. Range(q) \in SUBSET S
  BY InjectiveCardinality
<1>2. ASSUME NEW b \in S, b \notin Range(q) PROVE FALSE
  <2>1. Cardinality(S) \in Nat /\ Cardinality(S) <= Cardinality(S)
    BY FS_CardinalityType
  <2>2. ~Full(q, Cardinality(S))
    BY <1>2, <2>1, RoomForMissing
  <2>3. QED
    BY <2>1, <2>2 DEF Full
<1>3. QED
  BY <1>1, <1>2

(* What appending a missing element does to a queue without repetitions.   *)
LEMMA AppendMissing ==
  ASSUME NEW S, NEW q \in Seq(S), IsInjective(q),
         NEW b \in S, b \notin Range(q)
  PROVE  /\ Append(q, b) \in Seq(S)
         /\ IsInjective(Append(q, b))
         /\ Range(Append(q, b)) = Range(q) \cup {b}
<1>1. /\ Append(q, b) \in Seq(S)
      /\ Len(q) \in Nat
      /\ DOMAIN q = 1 .. Len(q)
      /\ DOMAIN Append(q, b) = 1 .. Len(q) + 1
      /\ Append(q, b)[Len(q) + 1] = b
      /\ \A i \in 1 .. Len(q) : Append(q, b)[i] = q[i]
  OBVIOUS
<1>2. Range(Append(q, b)) = Range(q) \cup {b}
  BY <1>1 DEF Range
<1>3. IsInjective(Append(q, b))
  BY <1>1 DEF IsInjective, Range
<1>4. QED
  BY <1>1, <1>2, <1>3

(* The same for xQueueSend, which the missing element lets succeed.        *)
LEMMA SendMissing ==
  ASSUME NEW S, IsFiniteSet(S), NEW n \in Nat, Cardinality(S) <= n,
         NEW q \in Seq(S), IsInjective(q), NEW b \in S, b \notin Range(q)
  PROVE  /\ Send(q, n, b) \in Seq(S)
         /\ IsInjective(Send(q, n, b))
         /\ Range(Send(q, n, b)) = Range(q) \cup {b}
<1>1. Send(q, n, b) = Append(q, b)
  BY RoomForMissing DEF Send
<1>2. QED
  BY <1>1, AppendMissing

(* What receiving from a queue without repetitions does.                   *)
LEMMA HeadAndTail ==
  ASSUME NEW S, NEW q \in Seq(S), IsInjective(q), q # <<>>
  PROVE  /\ Head(q) \in S
         /\ Tail(q) \in Seq(S)
         /\ IsInjective(Tail(q))
         /\ Head(q) \in Range(q)
         /\ Range(Tail(q)) = Range(q) \ {Head(q)}
<1>1. /\ Len(q) \in Nat \ {0}
      /\ DOMAIN q = 1 .. Len(q)
      /\ Head(q) = q[1] /\ Head(q) \in S
      /\ Tail(q) \in Seq(S)
      /\ DOMAIN Tail(q) = 1 .. Len(q) - 1
      /\ \A i \in 1 .. Len(q) - 1 : Tail(q)[i] = q[i + 1]
  OBVIOUS
<1>2. IsInjective(Tail(q))
  BY <1>1 DEF IsInjective
<1>3. Range(Tail(q)) \subseteq Range(q) \ {Head(q)}
  <2> SUFFICES ASSUME NEW i \in 1 .. Len(q) - 1
               PROVE  q[i + 1] \in Range(q) /\ q[i + 1] # q[1]
    BY <1>1 DEF Range
  <2> QED BY <1>1 DEF Range, IsInjective
<1>4. Range(q) \ {Head(q)} \subseteq Range(Tail(q))
  <2> SUFFICES ASSUME NEW i \in 1 .. Len(q), q[i] # q[1]
               PROVE  q[i] \in Range(Tail(q))
    BY <1>1 DEF Range
  <2>1. i - 1 \in DOMAIN Tail(q) /\ Tail(q)[i - 1] = q[i]
    BY <1>1
  <2> QED BY <2>1 DEF Range
<1>5. Head(q) \in Range(q)
  BY <1>1 DEF Range
<1>6. QED
  BY <1>1, <1>2, <1>3, <1>4, <1>5
=============================================================================
