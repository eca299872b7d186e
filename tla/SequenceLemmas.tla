--------------------------- MODULE SequenceLemmas ---------------------------
(* Facts about the ranges of sequences, and about sequences without        *)
(* repetitions, that the proofs about the queues rest on; and induction    *)
(* over the natural numbers as a fact about sets, with what it says of the *)
(* folds of SequencesExt.                                                  *)
EXTENDS SequenceTheorems, WellFoundedInduction, FiniteSetTheorems, FiniteSetsExt, TLAPS

(* What appending an element, and taking the first one off, do to a range. *)
LEMMA RangeOfAppend ==
    ASSUME NEW S, NEW s \in Seq(S), NEW e \in S
    PROVE  Range(Append(s, e)) = Range(s) \union {e}
<1>1. /\ Append(s, e) \in Seq(S)
      /\ Len(Append(s, e)) = Len(s) + 1
      /\ \A i \in 1 .. Len(s) : Append(s, e)[i] = s[i]
      /\ Append(s, e)[Len(s) + 1] = e
  BY AppendProperties
<1>2. DOMAIN s = 1 .. Len(s) /\ DOMAIN Append(s, e) = 1 .. Len(s) + 1 /\ Len(s) \in Nat
  BY <1>1, LenProperties
<1> QED BY <1>1, <1>2 DEF Range

LEMMA RangeOfTail ==
    ASSUME NEW S, NEW s \in Seq(S), s # <<>>
    PROVE  /\ Head(s) \in S /\ Tail(s) \in Seq(S)
           /\ Range(s) = Range(Tail(s)) \union {Head(s)}
<1>1. /\ Head(s) = s[1] /\ Head(s) \in S
      /\ Tail(s) \in Seq(S)
      /\ Len(Tail(s)) = Len(s) - 1
      /\ \A i \in 1 .. Len(Tail(s)) : Tail(s)[i] = s[i + 1]
  BY HeadTailProperties
<1>2. /\ DOMAIN s = 1 .. Len(s) /\ DOMAIN Tail(s) = 1 .. Len(s) - 1
      /\ Len(s) \in Nat /\ Len(s) > 0
  BY <1>1, LenProperties, EmptySeq
<1>3. ASSUME NEW x \in Range(s) PROVE x \in Range(Tail(s)) \union {Head(s)}
  <2>1. PICK i \in 1 .. Len(s) : x = s[i]
    BY <1>2 DEF Range
  <2>2. CASE i = 1
    BY <2>1, <2>2, <1>1
  <2>3. CASE i # 1
    <3>1. i - 1 \in DOMAIN Tail(s) /\ Tail(s)[i - 1] = s[i]
      BY <2>3, <1>1, <1>2
    <3> QED BY <2>1, <3>1 DEF Range
  <2> QED BY <2>2, <2>3
<1>4. Range(Tail(s)) \union {Head(s)} \subseteq Range(s)
  <2>1. \A i \in DOMAIN Tail(s) : i + 1 \in DOMAIN s /\ Tail(s)[i] = s[i + 1]
    BY <1>1, <1>2
  <2> QED BY <2>1, <1>1, <1>2 DEF Range
<1> QED BY <1>1, <1>3, <1>4

(* Appending a new element to such a sequence gives such a sequence.       *)
LEMMA AppendNew ==
    ASSUME NEW S, NEW s \in Seq(S), NEW e \in S, e \notin Range(s), IsInjective(s)
    PROVE  /\ Append(s, e) \in Seq(S)
           /\ Range(Append(s, e)) = Range(s) \union {e}
           /\ IsInjective(Append(s, e))
<1>1. /\ Append(s, e) \in Seq(S)
      /\ Len(Append(s, e)) = Len(s) + 1
      /\ \A i \in 1 .. Len(s) : Append(s, e)[i] = s[i]
      /\ Append(s, e)[Len(s) + 1] = e
  BY AppendProperties
<1>2. DOMAIN s = 1 .. Len(s) /\ DOMAIN Append(s, e) = 1 .. Len(s) + 1 /\ Len(s) \in Nat
  BY <1>1, LenProperties
<1>3. Range(Append(s, e)) = Range(s) \union {e}
  BY <1>1, <1>2 DEF Range
<1>4. IsInjective(Append(s, e))
  BY <1>1, <1>2 DEF IsInjective, Range
<1> QED BY <1>1, <1>3, <1>4

(* Dropping the first element removes that element, and no other, from the *)
(* range.                                                                  *)
LEMMA TailDropsHead ==
    ASSUME NEW S, NEW s \in Seq(S), s # <<>>, IsInjective(s)
    PROVE  /\ Tail(s) \in Seq(S)
           /\ Head(s) \in S
           /\ Range(s) = Range(Tail(s)) \union {Head(s)}
           /\ Head(s) \notin Range(Tail(s))
           /\ IsInjective(Tail(s))
<1>1. /\ Head(s) = s[1] /\ Head(s) \in S
      /\ Tail(s) \in Seq(S)
      /\ Len(Tail(s)) = Len(s) - 1
      /\ \A i \in 1 .. Len(Tail(s)) : Tail(s)[i] = s[i + 1]
  BY HeadTailProperties
<1>2. DOMAIN s = 1 .. Len(s) /\ DOMAIN Tail(s) = 1 .. Len(s) - 1
      /\ Len(s) \in Nat /\ Len(s) > 0
  BY <1>1, LenProperties, EmptySeq
<1>3. Range(s) = Range(Tail(s)) \union {Head(s)}
  <2>1. ASSUME NEW i \in 1 .. Len(s), i # 1 PROVE s[i] = Tail(s)[i - 1] /\ i - 1 \in DOMAIN Tail(s)
    BY <2>1, <1>1, <1>2
  <2>2. ASSUME NEW i \in DOMAIN Tail(s) PROVE Tail(s)[i] = s[i + 1] /\ i + 1 \in DOMAIN s
    BY <2>2, <1>1, <1>2
  <2>3. ASSUME NEW x \in Range(s) PROVE x \in Range(Tail(s)) \union {Head(s)}
    <3>1. PICK i \in 1 .. Len(s) : x = s[i]
      BY <1>2 DEF Range
    <3>2. CASE i = 1
      BY <3>1, <3>2, <1>1
    <3>3. CASE i # 1
      BY <3>1, <3>3, <2>1 DEF Range
    <3> QED BY <3>2, <3>3
  <2>4. Range(Tail(s)) \union {Head(s)} \subseteq Range(s)
    BY <2>2, <1>1, <1>2 DEF Range
  <2> QED BY <2>3, <2>4
<1>4. Head(s) \notin Range(Tail(s))
  BY <1>1, <1>2 DEF Range, IsInjective
<1>5. IsInjective(Tail(s))
  BY <1>1, <1>2 DEF IsInjective
<1> QED BY <1>1, <1>3, <1>4, <1>5

(* The range of a concatenation.                                           *)
LEMMA RangeOfConcat ==
    ASSUME NEW S, NEW s \in Seq(S), NEW t \in Seq(S)
    PROVE  Range(s \o t) = Range(s) \union Range(t)
<1>1. /\ s \o t \in Seq(S)
      /\ Len(s \o t) = Len(s) + Len(t)
      /\ \A i \in 1 .. Len(s) + Len(t) :
            (s \o t)[i] = IF i <= Len(s) THEN s[i] ELSE t[i - Len(s)]
  BY ConcatProperties
<1>2. /\ DOMAIN s = 1 .. Len(s) /\ Len(s) \in Nat
      /\ DOMAIN t = 1 .. Len(t) /\ Len(t) \in Nat
      /\ DOMAIN (s \o t) = 1 .. Len(s) + Len(t)
  BY <1>1, LenProperties
<1>3. ASSUME NEW i \in DOMAIN (s \o t) PROVE (s \o t)[i] \in Range(s) \union Range(t)
  <2>1. CASE i <= Len(s)
    BY <2>1, <1>1, <1>2 DEF Range
  <2>2. CASE i > Len(s)
    <3>1. i - Len(s) \in DOMAIN t /\ (s \o t)[i] = t[i - Len(s)]
      BY <2>2, <1>1, <1>2
    <3> QED BY <3>1 DEF Range
  <2> QED BY <2>1, <2>2, <1>2
<1>4. ASSUME NEW i \in DOMAIN s PROVE i \in DOMAIN (s \o t) /\ (s \o t)[i] = s[i]
  BY <1>1, <1>2
<1>5. ASSUME NEW i \in DOMAIN t
      PROVE  Len(s) + i \in DOMAIN (s \o t) /\ (s \o t)[Len(s) + i] = t[i]
  BY <1>1, <1>2
<1>6. Range(s \o t) \subseteq Range(s) \union Range(t)
  BY <1>3 DEF Range
<1>7. Range(s) \subseteq Range(s \o t)
  BY <1>4 DEF Range
<1>8. Range(t) \subseteq Range(s \o t)
  BY <1>5 DEF Range
<1> QED BY <1>6, <1>7, <1>8

(* A concatenation grows at the end of its second part.                    *)
LEMMA ConcatAppend ==
    ASSUME NEW S, NEW s \in Seq(S), NEW t \in Seq(S), NEW e \in S
    PROVE  s \o Append(t, e) = Append(s \o t, e)
<1>1. <<e>> \in Seq(S) /\ s \o t \in Seq(S)
  BY ConcatProperties
<1>2. Append(t, e) = t \o <<e>> /\ Append(s \o t, e) = (s \o t) \o <<e>>
  BY <1>1, AppendIsConcat
<1> QED BY <1>1, <1>2, ConcatAssociative

(* A concatenation shrinks at the head of its first part.                  *)
LEMMA ConcatTail ==
    ASSUME NEW S, NEW s \in Seq(S), NEW t \in Seq(S), s # <<>>
    PROVE  /\ s \o t \in Seq(S) /\ s \o t # <<>>
           /\ Head(s \o t) = Head(s)
           /\ Tail(s \o t) = Tail(s) \o t
<1> DEFINE u == s \o t
           v == Tail(s) \o t
<1>1. /\ Len(s) \in Nat \ {0} /\ Len(t) \in Nat
      /\ Tail(s) \in Seq(S) /\ Len(Tail(s)) = Len(s) - 1
      /\ \A i \in 1 .. Len(Tail(s)) : Tail(s)[i] = s[i + 1]
  BY EmptySeq, LenProperties, HeadTailProperties
<1>2. /\ u \in Seq(S) /\ Len(u) = Len(s) + Len(t)
      /\ \A i \in 1 .. Len(s) + Len(t) : u[i] = IF i <= Len(s) THEN s[i] ELSE t[i - Len(s)]
  BY ConcatProperties
<1>3. u # <<>>
  BY <1>1, <1>2, EmptySeq
<1>4. Head(u) = u[1] /\ Head(s) = s[1]
  OBVIOUS
<1>5. /\ v \in Seq(S) /\ Len(v) = Len(s) - 1 + Len(t)
      /\ \A i \in 1 .. Len(s) - 1 + Len(t) :
            v[i] = IF i <= Len(s) - 1 THEN Tail(s)[i] ELSE t[i - (Len(s) - 1)]
  BY <1>1, ConcatProperties
<1>6. /\ Tail(u) \in Seq(S) /\ Len(Tail(u)) = Len(u) - 1
      /\ \A i \in 1 .. Len(Tail(u)) : Tail(u)[i] = u[i + 1]
  BY <1>2, <1>3, HeadTailProperties
<1>7. Len(Tail(u)) = Len(v)
  BY <1>1, <1>2, <1>5, <1>6
<1>8. ASSUME NEW i \in 1 .. Len(Tail(u)) PROVE Tail(u)[i] = v[i]
  <2>1. i \in 1 .. Len(s) - 1 + Len(t) /\ i + 1 \in 1 .. Len(s) + Len(t)
    BY <1>1, <1>2, <1>6
  <2>2. Tail(u)[i] = IF i + 1 <= Len(s) THEN s[i + 1] ELSE t[i + 1 - Len(s)]
    BY <2>1, <1>2, <1>6
  <2>3. i + 1 - Len(s) = i - (Len(s) - 1) /\ (i + 1 <= Len(s) <=> i <= Len(s) - 1)
    BY <2>1, <1>1
  <2>4. i <= Len(s) - 1 => Tail(s)[i] = s[i + 1]
    BY <2>1, <1>1
  <2> QED BY <2>1, <2>2, <2>3, <2>4, <1>5
<1>9. Tail(u) = v
  BY <1>5, <1>6, <1>7, <1>8, SeqEqual
<1> QED BY <1>1, <1>2, <1>3, <1>4, <1>9
-----------------------------------------------------------------------------
(* Induction.  The theorems of the library take the property as an         *)
(* operator; here it is a set.                                             *)

LEMMA LeastNatural ==
    ASSUME NEW T, T \subseteq Nat, T # {}
    PROVE  \E x \in T : \A y \in T : x <= y
<1> DEFINE R == OpToRel(<, Nat)
<1>1. IsWellFoundedOn(R, Nat)
  BY NatLessThanWellFounded
<1>2. \A x, y \in Nat : x < y => <<x, y>> \in R
  BY DEF OpToRel
<1> HIDE DEF R
<1>3. PICK x \in T : \A y \in T : ~ (<<y, x>> \in R)
  BY <1>1, WFMin
<1>4. \A y \in T : ~ (y < x)
  BY <1>2, <1>3
<1>5. \A y \in T : x <= y
  BY ONLY <1>4, T \subseteq Nat, x \in T
<1> QED BY <1>5

LEMMA InductionOnSets ==
    ASSUME NEW S, 0 \in S, \A n \in Nat : n \in S => n + 1 \in S
    PROVE  Nat \subseteq S
<1> SUFFICES ASSUME ~ Nat \subseteq S PROVE FALSE
  OBVIOUS
<1> DEFINE T == Nat \ S
<1>1. PICK x \in T : \A y \in T : x <= y
  BY LeastNatural
<1>2. x # 0 /\ x \in Nat /\ x \notin S
  OBVIOUS
<1>3. x - 1 \in Nat /\ ~ (x <= x - 1)
  BY <1>2
<1>4. x - 1 \in S
  BY <1>1, <1>3
<1> QED BY <1>2, <1>3, <1>4

-----------------------------------------------------------------------------
(* Folds.  FoldLeft chooses a function that folds over every set of        *)
(* indices, the greatest last.                                             *)

LEMMA MaxOfIndices ==
    ASSUME NEW n \in Nat, NEW s, s \subseteq 1 .. n, s # {}
    PROVE  Max(s) \in s /\ \A y \in s : Max(s) >= y
<1> DEFINE T == {n - x : x \in s}
<1>0. \A x \in s : x \in Nat /\ x <= n /\ n - x \in Nat
  OBVIOUS
<1>1. T \subseteq Nat /\ T # {}
  BY ONLY <1>0, s # {}
<1>2. PICK t \in T : \A u \in T : t <= u
  BY <1>1, LeastNatural
<1>3. PICK x \in s : t = n - x
  OBVIOUS
<1>4. \A y \in s : n - x <= n - y /\ x \in Int /\ y \in Int
  BY <1>0, <1>2, <1>3
<1>5. \A y \in s : x >= y
  BY <1>4
<1> QED BY <1>5 DEF Max

LEMMA MaxOfInterval ==
    ASSUME NEW k \in Nat
    PROVE  Max(1 .. k + 1) = k + 1 /\ (1 .. k + 1) \ {k + 1} = 1 .. k
<1>1. 1 .. k + 1 # {} /\ k + 1 \in Nat /\ k + 1 \in 1 .. k + 1
  OBVIOUS
<1>2. Max(1 .. k + 1) \in 1 .. k + 1 /\ \A y \in 1 .. k + 1 : Max(1 .. k + 1) >= y
  BY <1>1, MaxOfIndices
<1>3. Max(1 .. k + 1) >= k + 1
  BY <1>1, <1>2
<1> QED BY <1>2, <1>3

IsFold(it, G, base, seq, n) ==
    \A s \in SUBSET (1 .. n) :
       it[s] = IF s = {} THEN base ELSE G[<<it[s \ {Max(s)}], seq[Max(s)]>>]

(* There is such a function, and it has a type.  The operator that is      *)
(* folded is given as a function G.                                        *)
LEMMA FoldExists ==
    ASSUME NEW S, NEW T, NEW base \in S, NEW G \in [S \X T -> S],
           NEW n \in Nat, NEW seq \in [1 .. n -> T]
    PROVE  \E it \in [SUBSET (1 .. n) -> S] : IsFold(it, G, base, seq, n)
<1> DEFINE Rec(it, k) == \A s \in SUBSET (1 .. k) :
                 it[s] = IF s = {} THEN base ELSE G[<<it[s \ {Max(s)}], seq[Max(s)]>>]
           Done(k) == \E it \in [SUBSET (1 .. k) -> S] : Rec(it, k)
           K == {k \in Nat : k <= n => Done(k)}
<1>1. Done(0)
  <2> DEFINE it == [s \in SUBSET (1 .. 0) |-> base]
  <2>1. it \in [SUBSET (1 .. 0) -> S]
    OBVIOUS
  <2>2. \A s \in SUBSET (1 .. 0) : s = {}
    OBVIOUS
  <2>3. Rec(it, 0)
    BY <2>2
  <2> QED BY <2>1, <2>3
<1>2. ASSUME NEW k \in Nat, k + 1 <= n, Done(k) PROVE Done(k + 1)
  <2>1. k <= n
    BY <1>2
  <2>2. PICK g \in [SUBSET (1 .. k) -> S] : Rec(g, k)
    BY <1>2
  <2> DEFINE it == [s \in SUBSET (1 .. k + 1) |->
                       IF k + 1 \in s THEN G[<<g[s \ {k + 1}], seq[k + 1]>>] ELSE g[s]]
  <2>3. k + 1 \in 1 .. n /\ seq[k + 1] \in T
    BY <1>2
  <2>4. ASSUME NEW s \in SUBSET (1 .. k + 1)
        PROVE  /\ s \ {k + 1} \in SUBSET (1 .. k)
               /\ k + 1 \notin s => s \in SUBSET (1 .. k)
    OBVIOUS
  <2>5. it \in [SUBSET (1 .. k + 1) -> S]
    BY <2>3, <2>4
  <2>6. \A s \in SUBSET (1 .. k) : it[s] = g[s]
    <3>1. \A s \in SUBSET (1 .. k) : s \in SUBSET (1 .. k + 1) /\ k + 1 \notin s
      OBVIOUS
    <3> QED BY <3>1
  <2>7. ASSUME NEW s \in SUBSET (1 .. k + 1)
        PROVE  it[s] = IF s = {} THEN base ELSE G[<<it[s \ {Max(s)}], seq[Max(s)]>>]
    <3>1. CASE k + 1 \in s
      <4>1. s \in SUBSET (1 .. n)
        BY <2>1, <2>3
      <4>2. Max(s) \in s /\ Max(s) >= k + 1
        BY <3>1, <4>1, MaxOfIndices
      <4>3. Max(s) = k + 1
        <5>1. Max(s) \in 1 .. k + 1
          BY <4>2
        <5> QED BY ONLY <4>2, <5>1, k \in Nat
      <4>4. it[s] = G[<<g[s \ {k + 1}], seq[k + 1]>>]
        BY <3>1
      <4>5. it[s \ {k + 1}] = g[s \ {k + 1}]
        BY <2>4, <2>6
      <4> HIDE DEF it
      <4> QED BY <3>1, <4>3, <4>4, <4>5
    <3>2. CASE k + 1 \notin s
      <4>1. s \in SUBSET (1 .. k) /\ it[s] = g[s] /\ s \in SUBSET (1 .. n)
        BY <2>1, <2>4, <2>6, <3>2
      <4>2. g[s] = IF s = {} THEN base ELSE G[<<g[s \ {Max(s)}], seq[Max(s)]>>]
        BY <2>2, <4>1
      <4>3. s \ {Max(s)} \in SUBSET (1 .. k)
        BY <4>1
      <4>4. it[s \ {Max(s)}] = g[s \ {Max(s)}]
        BY <2>6, <4>3
      <4> HIDE DEF it
      <4> QED BY <4>1, <4>2, <4>4
    <3> QED BY <3>1, <3>2
  <2> QED BY <2>5, <2>7
<1> HIDE DEF Done
<1>3. 0 \in K /\ \A k \in Nat : k \in K => k + 1 \in K
  BY <1>1, <1>2
<1> HIDE DEF K
<1>4. n \in K
  BY <1>3, InductionOnSets
<1>5. Done(n)
  BY <1>4 DEF K
<1> QED BY <1>5 DEF Done, IsFold
-----------------------------------------------------------------------------
(* Sums over finite sets.  MapThenSumSet chooses a function that sums over  *)
(* every subset, an arbitrary element last.                                 *)

(* Induction on the subsets of a finite set, one element at a time.         *)
LEMMA InductionOnSubsets ==
    ASSUME NEW S, IsFiniteSet(S), NEW P, {} \in P,
           \A s \in SUBSET S : s # {} /\ (\A x \in s : s \ {x} \in P) => s \in P
    PROVE  SUBSET S \subseteq P
<1> DEFINE K == {k \in Nat : \A s \in SUBSET S : Cardinality(s) = k => s \in P}
<1>1. \A s \in SUBSET S : IsFiniteSet(s) /\ Cardinality(s) \in Nat
  BY FS_Subset, FS_CardinalityType
<1>2. 0 \in K
  BY <1>1, FS_EmptySet
<1>3. ASSUME NEW k \in Nat, k \in K PROVE k + 1 \in K
  <2>1. ASSUME NEW s \in SUBSET S, Cardinality(s) = k + 1 PROVE s \in P
    <3>1. s # {}
      BY <2>1, FS_EmptySet, k + 1 # 0
    <3>2. ASSUME NEW x \in s PROVE s \ {x} \in P
      <4>1. Cardinality(s \ {x}) = (k + 1) - 1 /\ s \ {x} \in SUBSET S
        BY <1>1, <2>1, FS_RemoveElement
      <4>2. (k + 1) - 1 = k
        OBVIOUS
      <4> QED BY <1>3, <4>1, <4>2
    <3> QED BY <3>1, <3>2
  <2> QED BY <2>1
<1> HIDE DEF K
<1>4. \A s \in SUBSET S : Cardinality(s) \in K
  BY <1>1, <1>2, <1>3, InductionOnSets
<1> QED BY <1>4 DEF K

Some(s) == CHOOSE x \in s : TRUE

IsSum(it, g, S) ==
    \A s \in SUBSET S : it[s] = IF s = {} THEN 0 ELSE g[Some(s)] + it[s \ {Some(s)}]

(* There is such a function.                                                *)
LEMMA SumExists ==
    ASSUME NEW S, IsFiniteSet(S), NEW g \in [S -> Nat]
    PROVE  \E it \in [SUBSET S -> Nat] : IsSum(it, g, S)
<1> DEFINE Sum(it, s) == IF s = {} THEN 0 ELSE g[Some(s)] + it[s \ {Some(s)}]
           Done(k) == \E it \in [SUBSET S -> Nat] :
                         \A s \in SUBSET S : Cardinality(s) <= k => it[s] = Sum(it, s)
           K == {k \in Nat : Done(k)}
<1>1. \A s \in SUBSET S : IsFiniteSet(s) /\ Cardinality(s) \in Nat
  BY FS_Subset, FS_CardinalityType
<1>2. \A s \in SUBSET S : s # {} => Some(s) \in s
  BY DEF Some
<1>3. \A s \in SUBSET S : s # {} =>
         /\ Cardinality(s \ {Some(s)}) = Cardinality(s) - 1
         /\ s \ {Some(s)} \in SUBSET S /\ Some(s) \in S
  BY <1>1, <1>2, FS_RemoveElement
<1>4. \A s \in SUBSET S : Cardinality(s) = 0 <=> s = {}
  BY <1>1, FS_EmptySet
<1>5. Done(0)
  <2> DEFINE it == [s \in SUBSET S |-> 0]
  <2>1. it \in [SUBSET S -> Nat]
    OBVIOUS
  <2>2. ASSUME NEW s \in SUBSET S, Cardinality(s) <= 0 PROVE it[s] = Sum(it, s)
    <3>1. s = {}
      BY <1>1, <1>4, <2>2
    <3> QED BY <3>1
  <2> QED BY <2>1, <2>2
<1>6. ASSUME NEW k \in Nat, Done(k) PROVE Done(k + 1)
  <2>1. PICK f \in [SUBSET S -> Nat] :
           \A s \in SUBSET S : Cardinality(s) <= k => f[s] = Sum(f, s)
    BY <1>6
  <2> DEFINE it == [s \in SUBSET S |-> IF Cardinality(s) = k + 1 THEN Sum(f, s) ELSE f[s]]
  <2>2. ASSUME NEW s \in SUBSET S PROVE Sum(f, s) \in Nat
    <3>1. CASE s = {}
      BY <3>1
    <3>2. CASE s # {}
      <4>1. g[Some(s)] \in Nat /\ f[s \ {Some(s)}] \in Nat
        BY <1>3, <3>2
      <4> QED BY <3>2, <4>1
    <3> QED BY <3>1, <3>2
  <2>3. it \in [SUBSET S -> Nat]
    BY <2>2
  <2>4. ASSUME NEW s \in SUBSET S, Cardinality(s) <= k + 1 PROVE it[s] = Sum(it, s)
    <3>1. it[s] = Sum(f, s)
      <4>1. Cardinality(s) = k + 1 \/ Cardinality(s) <= k
        BY <1>1, <2>4
      <4> QED BY <2>1, <4>1
    <3>2. CASE s = {}
      BY <3>1, <3>2
    <3>3. CASE s # {}
      <4>1. Cardinality(s \ {Some(s)}) # k + 1 /\ s \ {Some(s)} \in SUBSET S
        BY <1>1, <1>3, <2>4, <3>3
      <4>2. it[s \ {Some(s)}] = f[s \ {Some(s)}]
        BY <4>1
      <4> HIDE DEF it
      <4> QED BY <3>1, <3>3, <4>2
    <3> QED BY <3>2, <3>3
  <2> HIDE DEF it
  <2> QED BY <2>3, <2>4
<1> HIDE DEF Done
<1>7. \A k \in Nat : Done(k)
  <2>1. 0 \in K /\ \A k \in Nat : k \in K => k + 1 \in K
    BY <1>5, <1>6
  <2> HIDE DEF K
  <2>2. Nat \subseteq K
    BY <2>1, InductionOnSets
  <2> QED BY <2>2 DEF K
<1>8. Done(Cardinality(S)) /\ Cardinality(S) \in Nat
  BY <1>1, <1>7
<1>9. PICK it \in [SUBSET S -> Nat] :
         \A s \in SUBSET S : Cardinality(s) <= Cardinality(S) => it[s] = Sum(it, s)
  BY <1>8 DEF Done
<1>10. \A s \in SUBSET S : Cardinality(s) <= Cardinality(S)
  BY FS_Subset
<1> QED BY <1>9, <1>10 DEF IsSum

(* The element that is added last may be any.                               *)
AddsUp(it, g, S) ==
    /\ it[{}] = 0
    /\ \A s \in SUBSET S : it[s] \in Nat
    /\ \A s \in SUBSET S : \A x \in s : it[s] = g[x] + it[s \ {x}]

LEMMA SumWithout ==
    ASSUME NEW S, IsFiniteSet(S), NEW g \in [S -> Nat], NEW it, IsSum(it, g, S)
    PROVE  AddsUp(it, g, S)
<1> DEFINE Right(s) == \A x \in s : it[s] = g[x] + it[s \ {x}]
           N == {s \in SUBSET S : it[s] \in Nat}
           P == {s \in SUBSET S : Right(s)}
<1>1. \A s \in SUBSET S : it[s] = IF s = {} THEN 0 ELSE g[Some(s)] + it[s \ {Some(s)}]
  BY DEF IsSum
<1>2. it[{}] = 0
  BY <1>1
<1>3. \A s \in SUBSET S : s # {} => Some(s) \in s /\ g[Some(s)] \in Nat
  BY DEF Some
<1>4. SUBSET S \subseteq N
  <2>1. {} \in N
    BY <1>2
  <2>2. ASSUME NEW s \in SUBSET S, s # {}, \A x \in s : s \ {x} \in N PROVE s \in N
    <3>1. it[s \ {Some(s)}] \in Nat
      BY <1>3, <2>2
    <3> QED BY <1>1, <1>3, <2>2, <3>1
  <2> HIDE DEF N
  <2> QED BY <2>1, <2>2, InductionOnSubsets
<1>5. \A s \in SUBSET S : it[s] \in Nat
  BY <1>4
<1>6. {} \in P
  OBVIOUS
<1>7. ASSUME NEW s \in SUBSET S, s # {}, \A x \in s : s \ {x} \in P PROVE s \in P
  <2> DEFINE c == Some(s)
  <2>1. c \in s /\ c \in S /\ g[c] \in Nat /\ it[s] = g[c] + it[s \ {c}]
    BY <1>1, <1>3, <1>7
  <2> HIDE DEF c
  <2>2. ASSUME NEW x \in s, x # c PROVE it[s] = g[x] + it[s \ {x}]
    <3> DEFINE t == (s \ {c}) \ {x}
    <3>1. x \in s \ {c} /\ c \in s \ {x} /\ t = (s \ {x}) \ {c} /\ t \in SUBSET S
      BY <2>1, <2>2
    <3>2. it[s \ {c}] = g[x] + it[t] /\ it[s \ {x}] = g[c] + it[t]
      BY <1>7, <2>1, <3>1
    <3>3. it[t] \in Nat /\ g[x] \in Nat
      BY <1>5, <3>1
    <3> HIDE DEF t
    <3> QED BY <2>1, <3>2, <3>3
  <2> QED BY <2>1, <2>2
<1> HIDE DEF P
<1>8. SUBSET S \subseteq P
  BY <1>6, <1>7, InductionOnSubsets
<1> QED BY <1>2, <1>5, <1>8 DEF P, AddsUp
=============================================================================
