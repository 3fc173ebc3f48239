------------------------------ MODULE ListFacts ------------------------------
(* What the queue operations do to the set of the items on a list, for lists *)
(* without repetition.  The other proofs see lists as sets through these.    *)
(* At the end: least numbers, induction in a form the provers can use,       *)
(* functions that are defined step by step, and division.                    *)
EXTENDS Integers, FiniteSets, SequencesExt, TLAPS, WellFoundedInduction

\* waitqueue_add, runqueue_enqueue: the item joins the others at the end of the
\* list.
LEMMA AppendItem ==
  ASSUME NEW S, NEW q \in Seq(S), NEW e \in S
  PROVE  /\ Append(q, e) \in Seq(S)
         /\ Append(q, e) # << >>
         /\ Range(Append(q, e)) = Range(q) \cup {e}
         /\ e \notin Range(q) /\ IsInjective(q) => IsInjective(Append(q, e))
         /\ Len(Append(q, e)) = Len(q) + 1
<1> DEFINE p == Append(q, e)
<1>1. /\ p \in Seq(S) /\ p # << >> /\ Len(p) = Len(q) + 1 /\ Len(q) \in Nat
      /\ DOMAIN p = 1..Len(p) /\ DOMAIN q = 1..Len(q)
  OBVIOUS
<1>2. p[Len(p)] = e /\ \A i \in 1..Len(q) : p[i] = q[i]
  OBVIOUS
<1>3. \A i \in 1..Len(p) : i = Len(p) \/ i \in 1..Len(q)
  BY <1>1
<1> HIDE DEF p
<1>4. Range(p) = Range(q) \cup {e}
  <2>1. Range(p) \subseteq Range(q) \cup {e}
    BY <1>1, <1>2, <1>3 DEF Range
  <2>2. e \in Range(p)
    BY <1>1, <1>2 DEF Range
  <2>3. \A i \in 1..Len(q) : i \in 1..Len(p)
    BY <1>1
  <2>4. Range(q) \subseteq Range(p)
    BY <1>1, <1>2, <2>3 DEF Range
  <2>5. QED
    BY <2>1, <2>2, <2>4
<1>5. ASSUME e \notin Range(q), IsInjective(q)
      PROVE  IsInjective(p)
  BY <1>1, <1>2, <1>3, <1>5 DEF IsInjective, Range
<1>6. QED
  BY <1>1, <1>4, <1>5 DEF p

\* waitqueue_wake_one, runqueue_dequeue: taking the first item leaves the others.
LEMMA TakeItem ==
  ASSUME NEW S, NEW q \in Seq(S), q # << >>
  PROVE  /\ Head(q) \in S
         /\ Tail(q) \in Seq(S)
         /\ Range(q) = Range(Tail(q)) \cup {Head(q)}
         /\ IsInjective(q) => Head(q) \notin Range(Tail(q)) /\ IsInjective(Tail(q))
         /\ Len(Tail(q)) = Len(q) - 1
<1>1. Head(q) \in S /\ Tail(q) \in Seq(S) /\ Len(Tail(q)) = Len(q) - 1 /\ Len(q) > 0
  OBVIOUS
<1>d. DOMAIN q = 1..Len(q) /\ DOMAIN Tail(q) = 1..Len(Tail(q))
  BY <1>1
<1>2. \A i \in 1..Len(Tail(q)) : Tail(q)[i] = q[i + 1]
  OBVIOUS
<1>3. Range(q) = Range(Tail(q)) \cup {Head(q)}
  <2>1. ASSUME NEW i \in 1..Len(q)
        PROVE  q[i] = Head(q) \/ \E j \in 1..Len(Tail(q)) : q[i] = Tail(q)[j]
    <3>1. CASE i = 1
      BY <3>1
    <3>2. CASE i # 1
      <4>1. i - 1 \in 1..Len(Tail(q)) /\ Tail(q)[i - 1] = q[i]
        BY <3>2, <1>1, <1>2
      <4>2. QED
        BY <4>1
    <3>3. QED
      BY <3>1, <3>2
  <2>2. Head(q) = q[1] /\ 1 \in DOMAIN q
    BY <1>1
  <2>3. \A j \in 1..Len(Tail(q)) : Tail(q)[j] \in Range(q)
    BY <1>1, <1>2 DEF Range
  <2>4. Range(q) \subseteq Range(Tail(q)) \cup {Head(q)}
    <3> SUFFICES ASSUME NEW x \in Range(q) PROVE x = Head(q) \/ x \in Range(Tail(q))
      OBVIOUS
    <3>1. PICK i \in 1..Len(q) : x = q[i]
      BY <1>d DEF Range
    <3>2. CASE x = Head(q)
      BY <3>2
    <3>3. CASE \E j \in 1..Len(Tail(q)) : x = Tail(q)[j]
      BY <1>d, <3>3, Zenon DEF Range
    <3>4. QED
      BY <2>1, <3>1, <3>2, <3>3
  <2>5. Range(Tail(q)) \subseteq Range(q)
    BY <1>1, <2>3 DEF Range
  <2>6. Head(q) \in Range(q)
    BY <2>2 DEF Range
  <2>7. QED
    BY <2>4, <2>5, <2>6
<1>4. ASSUME IsInjective(q)
      PROVE  Head(q) \notin Range(Tail(q)) /\ IsInjective(Tail(q))
  <2>1. \A i \in 1..Len(Tail(q)) : Tail(q)[i] # Head(q)
    BY <1>1, <1>2, <1>4 DEF IsInjective
  <2>2. \A i, j \in 1..Len(Tail(q)) : Tail(q)[i] = Tail(q)[j] => i = j
    BY <1>1, <1>2, <1>4 DEF IsInjective
  <2>3. QED
    BY <1>1, <2>1, <2>2 DEF Range, IsInjective
<1>5. QED
  BY <1>1, <1>3, <1>4

\* Lists joined end to end: the sleepers a tick wakes, the joiners of a killed task.
LEMMA ConcatItems ==
  ASSUME NEW S, NEW p \in Seq(S), NEW q \in Seq(S)
  PROVE  /\ p \o q \in Seq(S)
         /\ Range(p \o q) = Range(p) \cup Range(q)
         /\ IsInjective(p) /\ IsInjective(q) /\ Range(p) \cap Range(q) = {} => IsInjective(p \o q)
<1> DEFINE r == p \o q
<1>1. /\ r \in Seq(S) /\ Len(r) = Len(p) + Len(q) /\ Len(p) \in Nat /\ Len(q) \in Nat
      /\ DOMAIN r = 1..Len(r) /\ DOMAIN p = 1..Len(p) /\ DOMAIN q = 1..Len(q)
  OBVIOUS
<1>2. /\ \A i \in 1..Len(p) : r[i] = p[i]
      /\ \A i \in 1..Len(q) : r[Len(p) + i] = q[i]
      /\ \A i \in 1..Len(r) : i \notin 1..Len(p) => i - Len(p) \in 1..Len(q) /\ r[i] = q[i - Len(p)]
  BY <1>1
<1> HIDE DEF r
<1>3. \A i \in 1..Len(p) : i \in 1..Len(r)
  BY <1>1
<1>4. \A i \in 1..Len(q) : Len(p) + i \in 1..Len(r)
  BY <1>1
<1>5. Range(r) = Range(p) \cup Range(q)
  <2>1. Range(r) \subseteq Range(p) \cup Range(q)
    BY <1>1, <1>2 DEF Range
  <2>2. Range(p) \subseteq Range(r)
    BY <1>1, <1>2, <1>3 DEF Range
  <2>3. Range(q) \subseteq Range(r)
    <3> SUFFICES ASSUME NEW x \in Range(q) PROVE x \in Range(r)
      OBVIOUS
    <3>1. PICK i \in 1..Len(q) : x = q[i]
      BY <1>1 DEF Range
    <3>2. x = r[Len(p) + i] /\ Len(p) + i \in DOMAIN r
      BY <3>1, <1>1, <1>2, <1>4
    <3>3. QED
      BY <3>2 DEF Range
  <2>4. QED
    BY <2>1, <2>2, <2>3
<1>6. ASSUME IsInjective(p), IsInjective(q), Range(p) \cap Range(q) = {}
      PROVE  IsInjective(r)
  <2>1. SUFFICES ASSUME NEW i \in 1..Len(r), NEW j \in 1..Len(r), r[i] = r[j] PROVE i = j
    BY <1>1 DEF IsInjective
  <2>2. CASE i \in 1..Len(p) /\ j \in 1..Len(p)
    BY <1>1, <1>2, <1>6, <2>1, <2>2 DEF IsInjective
  <2>3. CASE i \notin 1..Len(p) /\ j \notin 1..Len(p)
    <3>1. q[i - Len(p)] = q[j - Len(p)] /\ i - Len(p) \in 1..Len(q) /\ j - Len(p) \in 1..Len(q)
      BY <1>2, <2>1, <2>3
    <3>2. i - Len(p) = j - Len(p)
      BY <1>1, <1>6, <3>1 DEF IsInjective
    <3>3. QED
      BY <1>1, <2>1, <3>2
  <2>4. ASSUME NEW k \in 1..Len(r), NEW m \in 1..Len(r), k \in 1..Len(p), m \notin 1..Len(p)
        PROVE  r[k] # r[m]
    <3>1. r[k] \in Range(p) /\ r[m] \in Range(q)
      BY <1>1, <1>2, <2>4 DEF Range
    <3>2. QED
      BY <3>1, <1>6
  <2>5. QED
    BY <2>1, <2>2, <2>3, <2>4
<1>7. QED
  BY <1>1, <1>5, <1>6 DEF r

------------------------------------------------------------------------------
(* Least numbers, and induction.                                             *)

\* A set of naturals has a least member ...
LEMMA Least == ASSUME NEW S \in SUBSET Nat, S # {} PROVE \E x \in S : \A y \in S : x <= y
<1>1. IsWellFoundedOn(OpToRel(<, Nat), Nat)
  BY NatLessThanWellFounded
<1>2. \E x \in S : \A y \in S : ~(<<y, x>> \in OpToRel(<, Nat))
  BY <1>1, WFMin
<1>3. PICK x \in S : \A y \in S : ~(<<y, x>> \in OpToRel(<, Nat))
  BY <1>2
<1>4. ASSUME NEW y \in S PROVE x <= y
  <2>1. <<y, x>> \in Nat \X Nat /\ <<y, x>>[1] = y /\ <<y, x>>[2] = x
    OBVIOUS
  <2>2. ~(<<y, x>>[1] < <<y, x>>[2])
    BY <1>3, <2>1, Zenon DEF OpToRel
  <2> QED BY <2>1, <2>2
<1> QED BY <1>4

\* ... which is the one Min chooses.
LEMMA MinOf == ASSUME NEW S \in SUBSET Nat, S # {} PROVE Min(S) \in S /\ \A y \in S : Min(S) <= y
BY Least DEF Min

\* Induction, with the set of the numbers that have the property.
LEMMA SetInduction == ASSUME NEW S, 0 \in S, \A n \in Nat : n \in S => n + 1 \in S PROVE Nat \subseteq S
<1> DEFINE T == Nat \ S
<1>1. ASSUME T # {} PROVE FALSE
  <2>1. PICK n \in T : \A y \in T : n <= y
    BY <1>1, Least
  <2>2. n # 0 /\ n - 1 \in Nat /\ n - 1 \notin T
    BY <2>1
  <2> QED BY <2>1, <2>2
<1> QED BY <1>1

------------------------------------------------------------------------------
(* Recursive functions.                                                      *)

\* A function that is defined step by step: from b, by t.  It exists ...
Stepwise(f, S, b, t, n) ==
  f \in [0..n -> S] /\ f[0] = b /\ \A i \in 1..n : f[i] = t[<<f[i - 1], i>>]
\* ... when the steps stay in a set.
LEMMA StepsExist ==
  ASSUME NEW S, NEW b \in S, NEW t \in [S \X Nat -> S], NEW n \in Nat
  PROVE  \E f : Stepwise(f, S, b, t, n)
<1> DEFINE Good(k, f) == f[0] = b /\ \A i \in 1..k : f[i] = t[<<f[i - 1], i>>]
           N == { k \in Nat : \E f \in [0..k -> S] : Good(k, f) }
<1>1. 0 \in N
  <2>1. [i \in 0..0 |-> b] \in [0..0 -> S] /\ Good(0, [i \in 0..0 |-> b])
    OBVIOUS
  <2> QED BY <2>1
<1>2. ASSUME NEW k \in Nat, k \in N PROVE k + 1 \in N
  <2>1. PICK f \in [0..k -> S] : Good(k, f)
    BY <1>2
  <2> DEFINE v == t[<<f[k], k + 1>>]
             g == [i \in 0..(k + 1) |-> IF i = k + 1 THEN v ELSE f[i]]
  <2>2. v \in S
    OBVIOUS
  <2> HIDE DEF v
  <2>3. g \in [0..(k + 1) -> S]
    BY <2>2
  <2>4. g[0] = b
    BY <2>1
  <2>5. ASSUME NEW i \in 1..(k + 1) PROVE g[i] = t[<<g[i - 1], i>>]
    <3>1. CASE i = k + 1
      <4>1. g[i] = v /\ g[i - 1] = f[k]
        BY <3>1
      <4> QED BY <3>1, <4>1 DEF v
    <3>2. CASE i # k + 1
      <4>1. i \in 1..k /\ g[i] = f[i] /\ g[i - 1] = f[i - 1]
        BY <3>2
      <4> QED BY <2>1, <4>1
    <3> QED BY <3>1, <3>2
  <2> HIDE DEF g
  <2> QED BY <2>3, <2>4, <2>5
<1> HIDE DEF N
<1>3. n \in N
  BY <1>1, <1>2, SetInduction
<1> QED BY <1>3 DEF N, Stepwise

\* What every step keeps holds of all its values.
LEMMA StepsKeep ==
  ASSUME NEW P, NEW n \in Nat, 0 \in P, \A i \in 1..n : i - 1 \in P => i \in P
  PROVE  \A i \in 0..n : i \in P
<1> DEFINE N == { k \in Nat : k <= n => k \in P }
<1>1. 0 \in N /\ \A k \in Nat : k \in N => k + 1 \in N
  OBVIOUS
<1> HIDE DEF N
<1>2. Nat \subseteq N
  BY <1>1, SetInduction
<1> QED BY <1>2 DEF N

------------------------------------------------------------------------------
(* Division.                                                                 *)

\* A number is read as a quotient and a remainder ...
LEMMA DivMod ==
  ASSUME NEW x \in Nat, NEW n \in Nat, n > 0
  PROVE  /\ x \div n \in Nat /\ x % n \in 0..(n - 1) /\ x = n * (x \div n) + (x % n)
OBVIOUS

\* ... and in one way only.
LEMMA DivUnique ==
  ASSUME NEW n \in Nat, n > 0, NEW q \in Int, NEW r \in 0..(n - 1)
  PROVE  (n * q + r) \div n = q /\ (n * q + r) % n = r
OBVIOUS

\* Multiples of a number are ordered as their factors.
LEMMA Grows ==
  ASSUME NEW p \in Nat, p > 0, NEW u \in Int, NEW v \in Int
  PROVE  (p * u <= p * v <=> u <= v)
<1>1. ASSUME u <= v PROVE p * u <= p * v
  <2>1. PICK d \in Nat : v = u + d
    BY <1>1
  <2>2. p * (u + d) = p * u + p * d /\ p * d \in Nat /\ p * u \in Int
    OBVIOUS
  <2> QED BY <2>1, <2>2
<1>2. ASSUME v < u PROVE p * v < p * u
  <2>1. PICK d \in Nat : u = v + d + 1
    <3>1. u - v - 1 \in Nat /\ u = v + (u - v - 1) + 1
      BY <1>2
    <3> QED BY <3>1
  <2>2. p * (v + d + 1) = p * v + p * d + p /\ p * d \in Nat /\ p * v \in Int
    OBVIOUS
  <2> QED BY <2>1, <2>2
<1>3. p * u \in Int /\ p * v \in Int
  OBVIOUS
<1> QED BY <1>1, <1>2, <1>3
==============================================================================
