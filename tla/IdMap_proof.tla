---------------------------- MODULE IdMap_proof ----------------------------
(***************************************************************************)
(* Theorems about IdMap, for any names, threads, pattern file and reserved *)
(* size, and any names that main adds first.                               *)
(***************************************************************************)
EXTENDS IdMap, SequenceLemmas, TLAPS

-----------------------------------------------------------------------------
(* The pattern file: what the loop over its lines has made of any number   *)
(* of lines, by induction over that number.                                *)

LineType == [first : {"", "#", "!", "p"}, matches : SUBSET STRING]
FilterType == [positive : Seq(SUBSET STRING), negative : Seq(SUBSET STRING)]

(* Reading a line gives a filter again.                                    *)
LEMMA AddType == \A filter \in FilterType, line \in LineType : AddLine(filter, line) \in FilterType
<1> SUFFICES ASSUME NEW filter \in FilterType, NEW line \in LineType
             PROVE  AddLine(filter, line) \in FilterType
  OBVIOUS
<1>1. line.matches \in SUBSET STRING /\ filter.positive \in Seq(SUBSET STRING) /\ filter.negative \in Seq(SUBSET STRING)
  BY DEF FilterType, LineType
<1>2. /\ Append(filter.positive, line.matches) \in Seq(SUBSET STRING)
      /\ Append(filter.negative, line.matches) \in Seq(SUBSET STRING)
  BY <1>1, AppendProperties
<1> QED BY <1>2 DEF AddLine, AddPattern, FilterType

LEMMA EmptyType == EmptyFilter \in FilterType
<1>1. <<>> \in Seq(SUBSET STRING)
  BY EmptySeq
<1> QED BY <1>1 DEF EmptyFilter, FilterType

(* LoadPatterns reads the lines one after the other.                       *)
LEMMA LoadSteps ==
  ASSUME NEW lines \in Seq(LineType)
  PROVE \E it : /\ it[1 .. 0] = EmptyFilter
                /\ \A k \in 0 .. Len(lines) - 1 : it[1 .. k + 1] = AddLine(it[1 .. k], lines[k + 1])
                /\ LoadPatterns(lines) = it[1 .. Len(lines)]
<1> DEFINE n == Len(lines)
           G == [x \in FilterType \X LineType |-> AddLine(x[1], x[2])]
           IsIt(f) == f = [s \in SUBSET DOMAIN lines |->
                              IF s = {} THEN EmptyFilter
                              ELSE AddLine(f[s \ {Max(s)}], lines[Max(s)])]
           it == CHOOSE f : IsIt(f)
<1>1. LoadPatterns(lines) = it[DOMAIN lines]
  BY DEF LoadPatterns, FoldLeft, MapThenFoldSet
<1>2. n \in Nat /\ DOMAIN lines = 1 .. n /\ lines \in [1 .. n -> LineType]
  BY LenProperties
<1> HIDE DEF n
<1>3. \E f : IsIt(f)
  <2>1. G \in [FilterType \X LineType -> FilterType]
    BY AddType
  <2> HIDE DEF G
  <2>2. PICK f \in [SUBSET (1 .. n) -> FilterType] : IsFold(f, G, EmptyFilter, lines, n)
    BY <1>2, <2>1, EmptyType, FoldExists
  <2>3. ASSUME NEW s \in SUBSET (1 .. n), s # {}
        PROVE  G[<<f[s \ {Max(s)}], lines[Max(s)]>>] = AddLine(f[s \ {Max(s)}], lines[Max(s)])
    <3>1. Max(s) \in 1 .. n
      BY <1>2, <2>3, MaxOfIndices
    <3>2. f[s \ {Max(s)}] \in FilterType /\ lines[Max(s)] \in LineType
      BY <1>2, <3>1
    <3> QED BY <3>2 DEF G
  <2>4. \A s \in SUBSET (1 .. n) : f[s] = IF s = {} THEN EmptyFilter
                                    ELSE AddLine(f[s \ {Max(s)}], lines[Max(s)])
    BY <2>2, <2>3 DEF IsFold
  <2>5. IsIt(f)
    BY <1>2, <2>2, <2>4
  <2> QED BY <2>5
<1>4. IsIt(it)
  BY <1>3
<1> HIDE DEF it
<1>5. \A s \in SUBSET (1 .. n) : it[s] = IF s = {} THEN EmptyFilter
                                    ELSE AddLine(it[s \ {Max(s)}], lines[Max(s)])
  BY <1>2, <1>4
<1>6. it[1 .. 0] = EmptyFilter
  <2>1. 1 .. 0 = {} /\ 1 .. 0 \in SUBSET (1 .. n)
    OBVIOUS
  <2> QED BY <1>5, <2>1
<1>7. ASSUME NEW k \in 0 .. n - 1
      PROVE  it[1 .. k + 1] = AddLine(it[1 .. k], lines[k + 1])
  <2>1. k \in Nat /\ 1 .. k + 1 \in SUBSET (1 .. n) /\ 1 .. k + 1 # {}
    BY <1>2
  <2>2. Max(1 .. k + 1) = k + 1 /\ (1 .. k + 1) \ {k + 1} = 1 .. k
    BY <2>1, MaxOfInterval
  <2> QED BY <1>5, <2>1, <2>2
<1> QED BY <1>1, <1>2, <1>6, <1>7 DEF n

(* After k lines the filter has the patterns of the first k lines.         *)
LEMMA LoadedPatterns ==
    ASSUME NEW lines \in Seq(LineType)
    PROVE  LET filter == LoadPatterns(lines)
           IN  /\ filter \in FilterType
               /\ Range(filter.positive) =
                     {lines[i].matches : i \in {j \in DOMAIN lines : lines[j].first \notin {"", "#", "!"}}}
               /\ Range(filter.negative) =
                     {lines[i].matches : i \in {j \in DOMAIN lines : lines[j].first = "!"}}
<1>1. PICK it : /\ it[1 .. 0] = EmptyFilter
                /\ \A k \in 0 .. Len(lines) - 1 : it[1 .. k + 1] = AddLine(it[1 .. k], lines[k + 1])
                /\ LoadPatterns(lines) = it[1 .. Len(lines)]
  BY LoadSteps
<1> DEFINE n == Len(lines)
           filter(k) == it[1 .. k]
           plain(k) == {j \in 1 .. k : lines[j].first \notin {"", "#", "!"}}
           barred(k) == {j \in 1 .. k : lines[j].first = "!"}
           Right(k) == /\ filter(k) \in FilterType
                       /\ Range(filter(k).positive) = {lines[i].matches : i \in plain(k)}
                       /\ Range(filter(k).negative) = {lines[i].matches : i \in barred(k)}
           K == {k \in Nat : k <= n => Right(k)}
<1>2. n \in Nat /\ DOMAIN lines = 1 .. n /\ \A i \in 1 .. n : lines[i] \in LineType
  BY LenProperties
<1>3. Right(0)
  <2>1. filter(0) = EmptyFilter
    BY <1>1
  <2>2. Range(<<>>) = {}
    BY DEF Range
  <2>3. plain(0) = {} /\ barred(0) = {}
    OBVIOUS
  <2> HIDE DEF plain, barred, filter
  <2> QED BY <2>1, <2>2, <2>3, EmptyType DEF EmptyFilter
<1>4. ASSUME NEW k \in Nat, k + 1 <= n, Right(k) PROVE Right(k + 1)
  <2> DEFINE line == lines[k + 1]
  <2>0. k \in 0 .. n - 1 /\ k + 1 \in 1 .. n
    <3> HIDE DEF Right, n
    <3> QED BY <1>2, <1>4
  <2>1. k \in 0 .. n - 1 /\ line \in LineType
    BY <1>2, <2>0
  <2>2. filter(k + 1) = AddLine(filter(k), line)
    BY <1>1, <2>1
  <2>3. /\ plain(k + 1) = IF line.first \notin {"", "#", "!"} THEN plain(k) \union {k + 1} ELSE plain(k)
        /\ barred(k + 1) = IF line.first = "!" THEN barred(k) \union {k + 1} ELSE barred(k)
    <3>1. 1 .. k + 1 = (1 .. k) \union {k + 1} /\ k + 1 \notin 1 .. k
      OBVIOUS
    <3> QED BY <3>1
  <2>4. filter(k) \in FilterType
    BY <1>4
  <2>5. filter(k + 1) \in FilterType
    BY <2>1, <2>2, <2>4, AddType
  <2> HIDE DEF plain, barred, filter
  <2>6. line.matches \in SUBSET STRING /\ filter(k).positive \in Seq(SUBSET STRING)
        /\ filter(k).negative \in Seq(SUBSET STRING)
    BY <2>1, <2>4 DEF LineType, FilterType
  <2>7. /\ Range(Append(filter(k).positive, line.matches)) = Range(filter(k).positive) \union {line.matches}
        /\ Range(Append(filter(k).negative, line.matches)) = Range(filter(k).negative) \union {line.matches}
    BY <2>6, RangeOfAppend
  <2>8. CASE line.first \in {"", "#"}
    <3>1. filter(k + 1) = filter(k) /\ plain(k + 1) = plain(k) /\ barred(k + 1) = barred(k)
      BY <2>2, <2>3, <2>8 DEF AddLine
    <3> QED BY <1>4, <3>1
  <2>9. CASE line.first = "!"
    <3>1. /\ filter(k + 1) = [filter(k) EXCEPT !.negative = Append(@, line.matches)]
          /\ plain(k + 1) = plain(k) /\ barred(k + 1) = barred(k) \union {k + 1}
      BY <2>2, <2>3, <2>9 DEF AddLine, AddPattern
    <3>2. /\ filter(k + 1).negative = Append(filter(k).negative, line.matches)
          /\ filter(k + 1).positive = filter(k).positive
      BY <2>4, <3>1 DEF FilterType
    <3>3. {lines[i].matches : i \in barred(k + 1)}
            = {lines[i].matches : i \in barred(k)} \union {line.matches}
      BY <3>1
    <3> QED BY <1>4, <2>5, <2>7, <3>1, <3>2, <3>3
  <2>10. CASE line.first \notin {"", "#", "!"}
    <3>1. /\ filter(k + 1) = [filter(k) EXCEPT !.positive = Append(@, line.matches)]
          /\ plain(k + 1) = plain(k) \union {k + 1} /\ barred(k + 1) = barred(k)
      BY <2>2, <2>3, <2>10 DEF AddLine, AddPattern
    <3>2. /\ filter(k + 1).positive = Append(filter(k).positive, line.matches)
          /\ filter(k + 1).negative = filter(k).negative
      BY <2>4, <3>1 DEF FilterType
    <3>3. {lines[i].matches : i \in plain(k + 1)}
            = {lines[i].matches : i \in plain(k)} \union {line.matches}
      BY <3>1
    <3> QED BY <1>4, <2>5, <2>7, <3>1, <3>2, <3>3
  <2> QED BY <2>8, <2>9, <2>10
<1> HIDE DEF Right
<1>5. 0 \in K /\ \A k \in Nat : k \in K => k + 1 \in K
  BY <1>2, <1>3, <1>4
<1> HIDE DEF K
<1>6. n \in K
  BY <1>2, <1>5, InductionOnSets
<1>7. Right(n)
  BY <1>2, <1>6 DEF K
<1>8. LoadPatterns(lines) = filter(n)
  BY <1>1
<1> QED BY <1>2, <1>7, <1>8 DEF Right

(* What App::LookupNodeExtraInfo says of a name.                           *)
LEMMA LookupIsMatch ==
    \A name : LookupNodeExtraInfo(name) = (IsMatched(name, FALSE) /\ ~ IsMatched(name, TRUE))
<1> SUFFICES ASSUME NEW name
             PROVE  LookupNodeExtraInfo(name) = (IsMatched(name, FALSE) /\ ~ IsMatched(name, TRUE))
  OBVIOUS
<1> DEFINE filter == LoadPatterns(Lines)
<1>1. /\ Range(filter.positive) =
            {Lines[i].matches : i \in {j \in DOMAIN Lines : Lines[j].first \notin {"", "#", "!"}}}
      /\ Range(filter.negative) =
            {Lines[i].matches : i \in {j \in DOMAIN Lines : Lines[j].first = "!"}}
  BY LinesAssumption, LoadedPatterns DEF LineType
<1> HIDE DEF filter
<1>2. (\E i \in DOMAIN filter.positive : name \in filter.positive[i]) <=> IsMatched(name, FALSE)
  <2>1. (\E i \in DOMAIN filter.positive : name \in filter.positive[i])
           <=> \E m \in Range(filter.positive) : name \in m
    BY DEF Range
  <2>2. (\E m \in Range(filter.positive) : name \in m)
           <=> \E j \in DOMAIN Lines : Lines[j].first \notin {"", "#", "!"} /\ name \in Lines[j].matches
    BY <1>1
  <2>3. IsMatched(name, FALSE)
           <=> \E j \in DOMAIN Lines : Lines[j].first \notin {"", "#", "!"} /\ name \in Lines[j].matches
    BY DEF IsMatched
  <2> QED BY <2>1, <2>2, <2>3
<1>3. (\E i \in DOMAIN filter.negative : name \in filter.negative[i]) <=> IsMatched(name, TRUE)
  <2>1. (\E i \in DOMAIN filter.negative : name \in filter.negative[i])
           <=> \E m \in Range(filter.negative) : name \in m
    BY DEF Range
  <2>2. (\E m \in Range(filter.negative) : name \in m)
           <=> \E j \in DOMAIN Lines : Lines[j].first = "!" /\ name \in Lines[j].matches
    BY <1>1
  <2>3. IsMatched(name, TRUE)
           <=> \E j \in DOMAIN Lines : Lines[j].first = "!" /\ name \in Lines[j].matches
    BY DEF IsMatched
  <2> QED BY <2>1, <2>2, <2>3
<1>4. LookupNodeExtraInfo(name)
         = ((\E i \in DOMAIN filter.positive : name \in filter.positive[i])
            /\ \A i \in DOMAIN filter.negative : name \notin filter.negative[i])
  BY DEF LookupNodeExtraInfo, Search, filter
<1> QED BY <1>2, <1>3, <1>4

USE NamesAssumption, ReservedAssumption, NullAssumption

-----------------------------------------------------------------------------
(* Type correctness, and what a call of Add has in hand: after the first   *)
(* of its two critical sections the name has the id that was returned.     *)

ItemSet == [key : AllNames, anthropocene : BOOLEAN]

InFlight ==
    \A t \in Threads : pc[t] \in {"get", "store"} =>
        /\ key[t] \in Names
        /\ key[t] \in DOMAIN by_string
        /\ id[t] = by_string[key[t]]

(* A lookup of a pattern has a truth value.                                *)
LEMMA ItemType == \A n \in AllNames : Item(n) \in ItemSet
BY DEF Item, ItemSet, LookupNodeExtraInfo, Search

(* A function on 1 .. n is a sequence.                                     *)
LEMMA FunctionIsSequence ==
    ASSUME NEW S, NEW n \in Nat, NEW f \in [1 .. n -> S]
    PROVE  f \in Seq(S) /\ Len(f) = n
OBVIOUS

(* The names that main adds get the numbers from 0 on.                     *)
LEMMA FirstIds == \A i \in DOMAIN Preregistered : FirstId(Preregistered[i]) = i - 1
<1> SUFFICES ASSUME NEW i \in DOMAIN Preregistered
             PROVE  FirstId(Preregistered[i]) = i - 1
  OBVIOUS
<1> DEFINE j == CHOOSE k \in DOMAIN Preregistered : Preregistered[k] = Preregistered[i]
<1>1. j \in DOMAIN Preregistered /\ Preregistered[j] = Preregistered[i]
  OBVIOUS
<1>2. j = i
  BY <1>1
<1> QED BY <1>2 DEF FirstId

LEMMA TypeInit == Init => TypeOK /\ InFlight
<1> SUFFICES ASSUME Init PROVE TypeOK /\ InFlight
  OBVIOUS
<1>1. /\ DOMAIN Preregistered = 1 .. Len(Preregistered)
      /\ Len(Preregistered) \in Nat \ {0}
  BY LenProperties
<1>2. \A i \in DOMAIN Preregistered : Item(Preregistered[i]) \in ItemSet
  BY ItemType DEF AllNames, PreregisteredNames
<1>3. by_id \in Seq(ItemSet)
  BY <1>1, <1>2, FunctionIsSequence DEF Init
<1>4. \A n \in DOMAIN by_string : by_string[n] \in Nat
  <2>1. \A i \in DOMAIN Preregistered : FirstId(Preregistered[i]) \in Nat
    BY <1>1, FirstIds
  <2> QED BY <2>1 DEF Init, PreregisteredNames
<1>5. dirty \in Seq(Nat)
  <2>1. \A i \in 1 .. Len(Preregistered) : i - 1 \in Nat
    BY <1>1
  <2>2. dirty = [i \in 1 .. Len(Preregistered) |-> i - 1]
    BY <1>1 DEF Init
  <2>3. dirty \in [1 .. Len(Preregistered) -> Nat]
    BY <2>1, <2>2
  <2> QED BY <1>1, <2>3, FunctionIsSequence
<1>6. [i \in 1 .. Reserved |-> Null] \in Seq(Pointer \union {Null})
  BY FunctionIsSequence
<1>7. DOMAIN <<>> = {}
  OBVIOUS
<1> QED
  BY <1>3, <1>4, <1>5, <1>6, <1>7 DEF Init, TypeOK, InFlight, ItemSet, AllNames

(* A cache that is enlarged, if need be, and written.                      *)
HoldsAt(w, pointers, i, p) ==
    /\ w \in Seq(Pointer \union {Null})
    /\ Len(w) >= Len(pointers)
    /\ i < Len(pointers) => w[i + 1] = p
    /\ \A j \in 1 .. Len(pointers) : j # i + 1 => w[j] = pointers[j]

LEMMA WrittenProperties ==
    ASSUME NEW pointers \in Seq(Pointer \union {Null}), NEW i \in Nat,
           NEW p \in Pointer \union {Null}
    PROVE  HoldsAt(Written(Resize(pointers, i), i, p), pointers, i, p)
<1> DEFINE r == Resize(pointers, i)
           w == Written(r, i, p)
<1> SUFFICES HoldsAt(w, pointers, i, p)
  OBVIOUS
<1> USE DEF HoldsAt
<1>1. DOMAIN pointers = 1 .. Len(pointers) /\ Len(pointers) \in Nat
  BY LenProperties
<1>2. CASE i > Len(pointers)
  <2>1. r = [j \in 1 .. i + 1 |-> IF j <= Len(pointers) THEN pointers[j] ELSE Null]
    BY <1>2 DEF Resize
  <2>2. w = [j \in 1 .. i + 1 |-> IF j = i + 1 THEN p ELSE r[j]]
    BY <2>1 DEF Written
  <2>3. \A j \in 1 .. i + 1 : w[j] \in Pointer \union {Null}
    BY <1>1, <2>1, <2>2
  <2>4. w \in Seq(Pointer \union {Null}) /\ Len(w) = i + 1
    BY <2>2, <2>3, FunctionIsSequence
  <2>5. \A j \in 1 .. Len(pointers) : w[j] = pointers[j]
    <3>1. ASSUME NEW j \in 1 .. Len(pointers)
          PROVE  j \in 1 .. i + 1 /\ j # i + 1 /\ r[j] = pointers[j]
      BY <1>1, <1>2, <2>1
    <3> HIDE DEF r
    <3> QED BY <2>2, <3>1
  <2> HIDE DEF w
  <2> QED BY <1>1, <1>2, <2>4, <2>5
<1>3. CASE ~ (i > Len(pointers))
  <2>1. w = [j \in 1 .. Len(pointers) |-> IF j = i + 1 THEN p ELSE pointers[j]]
    BY <1>1, <1>3 DEF Resize, Written
  <2>2. \A j \in 1 .. Len(pointers) : w[j] \in Pointer \union {Null}
    BY <1>1, <2>1
  <2>3. w \in Seq(Pointer \union {Null}) /\ Len(w) = Len(pointers)
    BY <1>1, <2>1, <2>2, FunctionIsSequence
  <2> QED BY <1>1, <1>3, <2>1, <2>3
<1> QED BY <1>2, <1>3

(* A new name, in IdMap.                                                   *)
LEMMA PushProperties ==
    ASSUME TypeOK, NEW n \in Names, Push(n)
    PROVE  /\ by_id' \in Seq(ItemSet)
           /\ Len(by_id) \in Nat
           /\ Len(by_id') = Len(by_id) + 1
           /\ by_id'[Len(by_id) + 1] = Item(n)
           /\ \A i \in 1 .. Len(by_id) : by_id'[i] = by_id[i]
           /\ DOMAIN by_string' = DOMAIN by_string \union {n}
           /\ by_string'[n] = Len(by_id)
           /\ \A m \in DOMAIN by_string \ {n} : by_string'[m] = by_string[m]
           /\ dirty' \in Seq(Nat)
<1>1. by_id \in Seq(ItemSet) /\ Item(n) \in ItemSet /\ Len(by_id) \in Nat
  BY ItemType, LenProperties DEF TypeOK, ItemSet, AllNames
<1>2. by_id' = Append(by_id, Item(n)) /\ by_string' = With(by_string, n, Len(by_id))
      /\ dirty' = Append(dirty, Len(by_id))
  BY DEF Push, MarkDirty
<1>3. dirty' \in Seq(Nat)
  BY <1>1, <1>2, AppendProperties DEF TypeOK
<1>4. /\ by_id' \in Seq(ItemSet)
      /\ Len(by_id') = Len(by_id) + 1
      /\ by_id'[Len(by_id) + 1] = Item(n)
      /\ \A i \in 1 .. Len(by_id) : by_id'[i] = by_id[i]
  BY <1>1, <1>2, AppendProperties
<1>5. /\ DOMAIN by_string' = DOMAIN by_string \union {n}
      /\ by_string'[n] = Len(by_id)
      /\ \A m \in DOMAIN by_string \ {n} : by_string'[m] = by_string[m]
  BY <1>2 DEF With
<1> QED BY <1>1, <1>3, <1>4, <1>5

LEMMA TypeNext == TypeOK /\ InFlight /\ [Next]_vars => TypeOK' /\ InFlight'
<1> SUFFICES ASSUME TypeOK, InFlight, [Next]_vars PROVE TypeOK' /\ InFlight'
  OBVIOUS
<1>1. ASSUME NEW t \in Threads, NEW n \in Names, SharedAdd(t, n)
      PROVE  TypeOK' /\ InFlight'
  <2>1. CASE Found(n)
    BY <1>1, <2>1 DEF SharedAdd, Found, shared, caches, TypeOK, InFlight
  <2>2. CASE PushNew(n)
    <3>1. n \notin DOMAIN by_string /\ Push(n)
      BY <2>2 DEF PushNew
    <3>2. by_id' \in Seq([key : AllNames, anthropocene : BOOLEAN])
      BY <3>1, PushProperties DEF ItemSet
    <3>3. /\ DOMAIN by_string' = DOMAIN by_string \union {n}
          /\ by_string'[n] = Len(by_id) /\ Len(by_id) \in Nat
          /\ \A m \in DOMAIN by_string : by_string'[m] = by_string[m]
      BY <3>1, PushProperties
    <3>4. dirty' \in Seq(Nat)
      BY <3>1, PushProperties
    <3>5. capacity' \in Nat \ {0}
      <4>1. capacity \in Nat \ {0}
        BY DEF TypeOK
      <4>2. capacity' = capacity \/ capacity' = 2 * capacity
        BY <3>1 DEF Push
      <4> QED BY <4>1, <4>2
    <3>6. TypeOK'
      BY <1>1, <3>2, <3>3, <3>4, <3>5 DEF SharedAdd, caches, TypeOK, AllNames
    <3>7. InFlight'
      BY <1>1, <3>3 DEF SharedAdd, InFlight, TypeOK
    <3> QED BY <3>6, <3>7
  <2> QED BY <1>1, <2>1, <2>2 DEF SharedAdd
<1>2. ASSUME NEW t \in Threads, SharedGet(t) PROVE TypeOK' /\ InFlight'
  BY <1>2 DEF SharedGet, shared, caches, TypeOK, InFlight, Pointer
<1>3. ASSUME NEW t \in Threads, Store(t) PROVE TypeOK' /\ InFlight'
  <2>2. Written(Resize(local_by_id[t], id[t]), id[t], item[t]) \in Seq(Pointer \union {Null})
    <3>1. /\ local_by_id[t] \in Seq(Pointer \union {Null})
          /\ id[t] \in Nat /\ item[t] \in Pointer \union {Null}
      BY DEF TypeOK
    <3> QED BY <3>1, WrittenProperties DEF HoldsAt
  <2>3. key[t] \in Names /\ LocalIdFor(t) \in Nat
    BY <1>3 DEF Store, InFlight, LocalIdFor, TypeOK
  <2>4. local_by_id' \in [Threads -> Seq(Pointer \union {Null})]
    BY <1>3, <2>2 DEF Store, TypeOK
  <2>5. DOMAIN local_by_string' = Threads
    BY <1>3 DEF Store, TypeOK
  <2>6. ASSUME NEW u \in Threads
        PROVE  /\ DOMAIN local_by_string'[u] \subseteq Names
               /\ \A n \in DOMAIN local_by_string'[u] : local_by_string'[u][n] \in Nat
    <3>1. CASE u = t
      <4>1. local_by_string'[u] = With(local_by_string[t], key[t], LocalIdFor(t))
        BY <1>3, <3>1 DEF Store, TypeOK
      <4>2. DOMAIN local_by_string[t] \subseteq Names
            /\ \A n \in DOMAIN local_by_string[t] : local_by_string[t][n] \in Nat
        BY DEF TypeOK
      <4> QED BY <2>3, <3>1, <4>1, <4>2 DEF With
    <3>2. CASE u # t
      BY <1>3, <3>2 DEF Store, TypeOK
    <3> QED BY <3>1, <3>2
  <2> QED BY <1>3, <2>4, <2>5, <2>6 DEF Store, shared, TypeOK, InFlight
<1>4. ASSUME NEW t \in Threads, Overrun(t) PROVE TypeOK' /\ InFlight'
  BY <1>4 DEF Overrun, shared, caches, TypeOK, InFlight
<1>5. ASSUME NEW t \in Threads, ConsumerExit(t) PROVE TypeOK' /\ InFlight'
  BY <1>5 DEF ConsumerExit, shared, caches, TypeOK, InFlight
<1>6. CASE FlushNodeIdMap
  <2>1. <<>> \in Seq(Nat)
    BY EmptySeq
  <2> QED BY <1>6, <2>1 DEF FlushNodeIdMap, caches, TypeOK, InFlight
<1>7. CASE UNCHANGED vars
  BY <1>7 DEF vars, shared, caches, TypeOK, InFlight
<1> QED BY <1>1, <1>2, <1>3, <1>4, <1>5, <1>6, <1>7 DEF Next, Consumer

(* Every variable keeps its type, and a thread inside Add has the id of    *)
(* its name, whatever other threads add meanwhile.                         *)
THEOREM TypeCorrect == Spec => [](TypeOK /\ InFlight)
<1> QED BY TypeInit, TypeNext, PTL DEF Spec
-----------------------------------------------------------------------------
(* Ids and names are one to one, and no cache disagrees.  The two are      *)
(* inductive together: a cache gets its id from a call of Add in flight,   *)
(* and no action takes an id back.                                         *)

IdsInv == IdsAndNamesMatch /\ CachesAgree

LEMMA IdsInit == Init => IdsInv
<1> SUFFICES ASSUME Init PROVE IdsInv
  OBVIOUS
<1>1. DOMAIN by_string = {Preregistered[i] : i \in DOMAIN Preregistered}
  BY DEF Init, PreregisteredNames
<1>2. ASSUME NEW i \in DOMAIN Preregistered
      PROVE  /\ by_string[Preregistered[i]] = i - 1
             /\ by_id[i].key = Preregistered[i]
             /\ i - 1 + 1 = i
  <2>1. i \in 1 .. Len(Preregistered) /\ Len(Preregistered) \in Nat
    BY LenProperties
  <2>2. by_string[Preregistered[i]] = FirstId(Preregistered[i])
    BY DEF Init, PreregisteredNames
  <2>3. by_id[i] = Item(Preregistered[i])
    BY DEF Init
  <2>4. by_id[i].key = Preregistered[i]
    BY <2>3 DEF Item
  <2>5. by_string[Preregistered[i]] = i - 1
    BY <2>2, FirstIds
  <2> QED BY <2>1, <2>4, <2>5
<1>3. DOMAIN by_id = DOMAIN Preregistered
  BY DEF Init
<1>4. IdsAndNamesMatch
  BY <1>1, <1>2, <1>3 DEF IdsAndNamesMatch
<1>5. CachesAgree
  <2>1. DOMAIN <<>> = {}
    OBVIOUS
  <2> QED BY <2>1 DEF Init, CachesAgree
<1> QED BY <1>4, <1>5 DEF IdsInv

LEMMA IdsNext == TypeOK /\ InFlight /\ IdsInv /\ [Next]_vars => IdsInv'
<1> SUFFICES ASSUME TypeOK, InFlight, IdsInv, [Next]_vars PROVE IdsInv'
  OBVIOUS
<1> USE DEF IdsInv
<1>1. ASSUME NEW t \in Threads, NEW n \in Names, SharedAdd(t, n) PROVE IdsInv'
  <2>1. CASE Found(n)
    BY <1>1, <2>1 DEF SharedAdd, Found, shared, caches, IdsAndNamesMatch, CachesAgree
  <2>2. CASE PushNew(n)
    <3>1. n \notin DOMAIN by_string /\ Push(n)
      BY <2>2 DEF PushNew
    <3>2. /\ Len(by_id) \in Nat
          /\ Len(by_id') = Len(by_id) + 1 /\ by_id' \in Seq(ItemSet)
          /\ by_id'[Len(by_id) + 1] = Item(n)
          /\ \A i \in 1 .. Len(by_id) : by_id'[i] = by_id[i]
          /\ DOMAIN by_string' = DOMAIN by_string \union {n}
          /\ by_string'[n] = Len(by_id)
          /\ \A m \in DOMAIN by_string : by_string'[m] = by_string[m]
      BY <3>1, PushProperties
    <3>3. DOMAIN by_id = 1 .. Len(by_id) /\ DOMAIN by_id' = 1 .. Len(by_id) + 1
      BY <3>2, LenProperties DEF TypeOK
    <3>4. Item(n).key = n
      BY DEF Item
    <3>5. ASSUME NEW m \in DOMAIN by_string'
          PROVE  /\ by_string'[m] + 1 \in DOMAIN by_id'
                 /\ by_id'[by_string'[m] + 1].key = m
      <4>1. CASE m = n
        BY <3>2, <3>3, <3>4, <4>1
      <4>2. CASE m # n
        BY <3>2, <3>3, <4>2 DEF IdsAndNamesMatch
      <4> QED BY <4>1, <4>2
    <3>6. ASSUME NEW i \in DOMAIN by_id'
          PROVE  /\ by_id'[i].key \in DOMAIN by_string'
                 /\ by_string'[by_id'[i].key] = i - 1
      <4>1. CASE i = Len(by_id) + 1
        BY <3>2, <3>4, <4>1
      <4>2. CASE i # Len(by_id) + 1
        <5>1. i \in DOMAIN by_id /\ by_id'[i] = by_id[i]
          BY <3>2, <3>3, <4>2
        <5> QED BY <3>2, <5>1 DEF IdsAndNamesMatch
      <4> QED BY <4>1, <4>2
    <3>7. IdsAndNamesMatch'
      BY <3>5, <3>6 DEF IdsAndNamesMatch
    <3>8. CachesAgree'
      BY <1>1, <3>2 DEF SharedAdd, caches, CachesAgree
    <3> QED BY <3>7, <3>8
  <2> QED BY <1>1, <2>1, <2>2 DEF SharedAdd
<1>2. ASSUME NEW t \in Threads, Store(t) PROVE IdsInv'
  <2>1. IdsAndNamesMatch'
    BY <1>2 DEF Store, shared, IdsAndNamesMatch
  <2>2. UNCHANGED by_string
    BY <1>2 DEF Store, shared
  <2>3. ASSUME NEW u \in Threads, NEW n \in DOMAIN local_by_string'[u]
        PROVE  n \in DOMAIN by_string /\ local_by_string'[u][n] = by_string[n]
    <3>1. CASE u = t
      <4>1. local_by_string'[u] = With(local_by_string[t], key[t], id[t])
        BY <1>2, <3>1 DEF Store, LocalIdFor, TypeOK
      <4>2. key[t] \in DOMAIN by_string /\ id[t] = by_string[key[t]]
        BY <1>2 DEF Store, InFlight
      <4>3. \A m \in DOMAIN local_by_string[t] :
                m \in DOMAIN by_string /\ local_by_string[t][m] = by_string[m]
        BY DEF CachesAgree
      <4> QED BY <4>1, <4>2, <4>3 DEF With
    <3>2. CASE u # t
      <4>1. local_by_string'[u] = local_by_string[u]
        BY <1>2, <3>2 DEF Store, TypeOK
      <4> QED BY <4>1 DEF CachesAgree
    <3> QED BY <3>1, <3>2
  <2>4. CachesAgree'
    BY <2>2, <2>3 DEF CachesAgree
  <2> QED BY <2>1, <2>4
<1>3. ASSUME NEW t \in Threads, SharedGet(t) \/ Overrun(t) \/ ConsumerExit(t)
      PROVE  IdsInv'
  BY <1>3 DEF SharedGet, Overrun, ConsumerExit, shared, caches, IdsAndNamesMatch, CachesAgree
<1>4. CASE FlushNodeIdMap
  BY <1>4 DEF FlushNodeIdMap, caches, IdsAndNamesMatch, CachesAgree
<1>5. CASE UNCHANGED vars
  BY <1>5 DEF vars, shared, caches, IdsAndNamesMatch, CachesAgree
<1> QED BY <1>1, <1>2, <1>3, <1>4, <1>5 DEF Next, Consumer

LEMMA IdsInductive ==
    /\ Init => TypeOK /\ InFlight /\ IdsInv
    /\ TypeOK /\ InFlight /\ IdsInv /\ [Next]_vars => (TypeOK /\ InFlight /\ IdsInv)'
BY TypeInit, TypeNext, IdsInit, IdsNext

(* No two names share an id, no two items a name.                          *)
THEOREM NamesAreInterned == Spec => []IdsAndNamesMatch
<1> QED BY IdsInductive, PTL DEF Spec, IdsInv

(* No thread is told another id than its neighbours.                       *)
THEOREM CachesAreRight == Spec => []CachesAgree
<1> QED BY IdsInductive, PTL DEF Spec, IdsInv
-----------------------------------------------------------------------------
(* As long as the names fit the reserved array, a thread can read the item *)
(* of every name it has added.  The array is not replaced before it is     *)
(* full, so that every pointer is into the first one; a cache has at least *)
(* as many elements, so that every write is inside.                        *)

ArrayIsFirst == Len(by_id) <= Reserved => capacity = Reserved

CachesAreLarge == \A t \in Threads : Len(local_by_id[t]) >= Reserved

ItemInHand ==
    Len(by_id) <= Reserved =>
        \A t \in Threads : pc[t] = "store" => item[t] = [array |-> Reserved, id |-> id[t]]

PointersAreRight ==
    Len(by_id) <= Reserved =>
        \A t \in Threads : \A n \in DOMAIN local_by_string[t] :
            local_by_id[t][by_string[n] + 1] = [array |-> Reserved, id |-> by_string[n]]

ContentsAreRight == \A i \in DOMAIN by_id : by_id[i] = Item(by_id[i].key)

ReadInv == /\ ArrayIsFirst
           /\ CachesAreLarge
           /\ ItemInHand
           /\ PointersAreRight
           /\ ContentsAreRight

LEMMA ReadInit == Init => ReadInv
<1> SUFFICES ASSUME Init PROVE ReadInv
  OBVIOUS
<1>1. ArrayIsFirst
  BY DEF Init, ArrayIsFirst
<1>2. CachesAreLarge
  <2>1. Len([i \in 1 .. Reserved |-> Null]) = Reserved
    BY FunctionIsSequence
  <2>2. \A t \in Threads : local_by_id[t] = [i \in 1 .. Reserved |-> Null]
    BY DEF Init
  <2>3. Reserved >= Reserved
    OBVIOUS
  <2> QED BY <2>1, <2>2, <2>3 DEF CachesAreLarge
<1>3. ItemInHand
  BY DEF Init, ItemInHand
<1>4. PointersAreRight
  <2>1. DOMAIN <<>> = {}
    OBVIOUS
  <2> QED BY <2>1 DEF Init, PointersAreRight
<1>5. ContentsAreRight
  <2>1. ASSUME NEW i \in DOMAIN Preregistered PROVE by_id[i] = Item(by_id[i].key)
    <3>1. by_id[i] = Item(Preregistered[i])
      BY DEF Init
    <3>2. Item(Preregistered[i]).key = Preregistered[i]
      BY DEF Item
    <3> QED BY <3>1, <3>2
  <2> QED BY <2>1 DEF Init, ContentsAreRight
<1> QED BY <1>1, <1>2, <1>3, <1>4, <1>5 DEF ReadInv

LEMMA ReadNext == TypeOK /\ InFlight /\ IdsInv /\ ReadInv /\ [Next]_vars => ReadInv'
<1> SUFFICES ASSUME TypeOK, InFlight, IdsInv, ReadInv, [Next]_vars PROVE ReadInv'
  OBVIOUS
<1> USE DEF ReadInv
<1>1. ASSUME NEW t \in Threads, NEW n \in Names, SharedAdd(t, n) PROVE ReadInv'
  <2>1. CASE Found(n)
    BY <1>1, <2>1 DEF SharedAdd, Found, shared, caches, TypeOK, ArrayIsFirst,
          CachesAreLarge, ItemInHand, PointersAreRight, ContentsAreRight
  <2>2. CASE PushNew(n)
    <3>1. n \notin DOMAIN by_string /\ Push(n)
      BY <2>2 DEF PushNew
    <3>2. /\ Len(by_id) \in Nat
          /\ Len(by_id') = Len(by_id) + 1 /\ by_id' \in Seq(ItemSet)
          /\ by_id'[Len(by_id) + 1] = Item(n)
          /\ \A i \in 1 .. Len(by_id) : by_id'[i] = by_id[i]
          /\ \A m \in DOMAIN by_string : by_string'[m] = by_string[m]
      BY <3>1, PushProperties
    <3>3. DOMAIN by_id = 1 .. Len(by_id) /\ DOMAIN by_id' = 1 .. Len(by_id) + 1
      BY <3>2, LenProperties DEF TypeOK
    <3>4. Len(by_id') <= Reserved => Len(by_id) <= Reserved /\ Len(by_id) # Reserved
      BY <3>2
    <3>5. ArrayIsFirst'
      BY <3>1, <3>4 DEF ArrayIsFirst, Push
    <3>6. CachesAreLarge'
      BY <1>1 DEF SharedAdd, caches, CachesAreLarge
    <3>7. ItemInHand'
      BY <1>1, <3>4 DEF SharedAdd, ItemInHand, TypeOK
    <3>8. PointersAreRight'
      BY <1>1, <3>2, <3>4 DEF SharedAdd, caches, PointersAreRight, IdsInv, CachesAgree
    <3>9. ContentsAreRight'
      <4>1. Item(n).key = n
        BY DEF Item
      <4> QED BY <3>2, <3>3, <4>1 DEF ContentsAreRight
    <3> QED BY <3>5, <3>6, <3>7, <3>8, <3>9
  <2> QED BY <1>1, <2>1, <2>2 DEF SharedAdd
<1>2. ASSUME NEW t \in Threads, SharedGet(t) PROVE ReadInv'
  <2>1. ItemInHand'
    BY <1>2 DEF SharedGet, shared, ItemInHand, ArrayIsFirst, TypeOK
  <2> QED BY <1>2, <2>1 DEF SharedGet, shared, caches, ArrayIsFirst,
             CachesAreLarge, PointersAreRight, ContentsAreRight
<1>3. ASSUME NEW t \in Threads, Store(t) PROVE ReadInv'
  <2>a. PICK w : w = Written(Resize(local_by_id[t], id[t]), id[t], item[t])
    OBVIOUS
  <2>1. /\ key[t] \in DOMAIN by_string
        /\ id[t] = by_string[key[t]] /\ id[t] \in Nat
        /\ local_by_id[t] \in Seq(Pointer \union {Null})
        /\ item[t] \in Pointer \union {Null}
    BY <1>3 DEF Store, InFlight, TypeOK
  <2>2. /\ Len(w) >= Len(local_by_id[t])
        /\ id[t] < Len(local_by_id[t]) => w[id[t] + 1] = item[t]
        /\ \A j \in 1 .. Len(local_by_id[t]) : j # id[t] + 1 => w[j] = local_by_id[t][j]
        /\ w \in Seq(Pointer \union {Null})
    <3>1. HoldsAt(Written(Resize(local_by_id[t], id[t]), id[t], item[t]),
                  local_by_id[t], id[t], item[t])
      BY <2>1, WrittenProperties
    <3>2. HoldsAt(w, local_by_id[t], id[t], item[t])
      BY <2>a, <3>1
    <3> QED BY <3>2 DEF HoldsAt
  <2>3. /\ local_by_id'[t] = w
        /\ local_by_string'[t] = With(local_by_string[t], key[t], id[t])
        /\ \A u \in Threads \ {t} : /\ local_by_id'[u] = local_by_id[u]
                                    /\ local_by_string'[u] = local_by_string[u]
        /\ UNCHANGED shared
    BY <1>3, <2>a DEF Store, LocalIdFor, TypeOK
  <2>4. Len(local_by_id[t]) \in Nat /\ Len(local_by_id[t]) >= Reserved /\ Len(w) \in Nat
    BY <2>1, <2>2, LenProperties DEF CachesAreLarge
  <2>5. CachesAreLarge'
    BY <2>2, <2>3, <2>4 DEF CachesAreLarge
  <2>6. ItemInHand'
    BY <1>3, <2>3 DEF Store, shared, ItemInHand, TypeOK
  <2>7. ASSUME Len(by_id) <= Reserved, NEW u \in Threads, NEW n \in DOMAIN local_by_string'[u]
        PROVE  local_by_id'[u][by_string[n] + 1] = [array |-> Reserved, id |-> by_string[n]]
    <3>1. CASE u # t
      BY <2>3, <2>7, <3>1 DEF PointersAreRight
    <3>2. CASE u = t
      <4>1. n = key[t] \/ n \in DOMAIN local_by_string[t]
        BY <2>3, <3>2 DEF With
      <4>2. n \in DOMAIN by_string
        BY <2>1, <4>1 DEF IdsInv, CachesAgree
      <4>3. by_string[n] \in Nat /\ by_string[n] + 1 \in 1 .. Len(by_id)
        <5>1. by_string[n] + 1 \in DOMAIN by_id /\ by_string[n] \in Nat
          BY <4>2 DEF IdsInv, IdsAndNamesMatch, TypeOK
        <5>2. DOMAIN by_id = 1 .. Len(by_id)
          BY LenProperties DEF TypeOK
        <5> QED BY <5>1, <5>2
      <4>4. Len(by_id) \in Nat
        BY LenProperties DEF TypeOK
      <4>5. by_string[n] < Len(local_by_id[t]) /\ by_string[n] + 1 \in 1 .. Len(local_by_id[t])
        BY <2>4, <2>7, <4>3, <4>4
      <4>6. item[t] = [array |-> Reserved, id |-> id[t]]
        BY <1>3, <2>7 DEF Store, ItemInHand
      <4>7. CASE by_string[n] = id[t]
        BY <2>2, <2>3, <3>2, <4>5, <4>6, <4>7
      <4>8. CASE by_string[n] # id[t]
        <5>1. n \in DOMAIN local_by_string[t]
          BY <2>1, <4>1, <4>8
        <5>2. w[by_string[n] + 1] = local_by_id[t][by_string[n] + 1]
          <6>1. by_string[n] + 1 # id[t] + 1
            BY <2>1, <4>3, <4>8
          <6> QED BY <2>2, <4>5, <6>1
        <5> QED BY <2>3, <2>7, <3>2, <5>1, <5>2 DEF PointersAreRight
      <4> QED BY <4>7, <4>8
    <3> QED BY <3>1, <3>2
  <2>8. PointersAreRight'
    BY <2>3, <2>7 DEF PointersAreRight, shared
  <2>9. ArrayIsFirst' /\ ContentsAreRight'
    BY <2>3 DEF shared, ArrayIsFirst, ContentsAreRight
  <2> QED BY <2>5, <2>6, <2>8, <2>9
<1>4. ASSUME NEW t \in Threads, Overrun(t) \/ ConsumerExit(t) PROVE ReadInv'
  <2>1. UNCHANGED <<shared, caches, id, item>>
    BY <1>4 DEF Overrun, ConsumerExit
  <2>2. \A u \in Threads : pc'[u] = "store" => pc[u] = "store"
    BY <1>4 DEF Overrun, ConsumerExit, TypeOK
  <2>3. ItemInHand'
    BY <2>1, <2>2 DEF shared, ItemInHand
  <2> QED BY <2>1, <2>3 DEF shared, caches, ArrayIsFirst, CachesAreLarge,
             PointersAreRight, ContentsAreRight
<1>5. CASE FlushNodeIdMap
  BY <1>5 DEF FlushNodeIdMap, caches, ArrayIsFirst, CachesAreLarge, ItemInHand,
        PointersAreRight, ContentsAreRight
<1>6. CASE UNCHANGED vars
  BY <1>6 DEF vars, shared, caches, ArrayIsFirst, CachesAreLarge, ItemInHand,
        PointersAreRight, ContentsAreRight
<1> QED BY <1>1, <1>2, <1>3, <1>4, <1>5, <1>6 DEF Next, Consumer

LEMMA ReadingWorks == TypeOK /\ IdsInv /\ ReadInv => ReservedItemsCanBeRead
<1> SUFFICES ASSUME TypeOK, IdsInv, ReadInv, Len(by_id) <= Reserved,
                    NEW t \in Threads, NEW n \in DOMAIN local_by_string[t]
             PROVE  /\ CanGet(t, local_by_string[t][n])
                    /\ Get(t, local_by_string[t][n]) = Item(n)
  BY DEF ReservedItemsCanBeRead, AddedItemsCanBeRead
<1> DEFINE i == by_string[n]
<1>1. /\ local_by_string[t][n] = i /\ n \in DOMAIN by_string
      /\ i \in Nat /\ i + 1 \in DOMAIN by_id /\ by_id[i + 1].key = n
  BY DEF IdsInv, IdsAndNamesMatch, CachesAgree, TypeOK
<1>2. DOMAIN by_id = 1 .. Len(by_id) /\ Len(by_id) \in Nat
  BY LenProperties DEF TypeOK
<1>3. DOMAIN local_by_id[t] = 1 .. Len(local_by_id[t]) /\ Len(local_by_id[t]) \in Nat
  BY LenProperties DEF TypeOK
<1>4. i + 1 \in DOMAIN local_by_id[t]
  BY <1>1, <1>2, <1>3 DEF ReadInv, CachesAreLarge
<1>5. local_by_id[t][i + 1] = [array |-> Reserved, id |-> i] /\ capacity = Reserved
  BY DEF ReadInv, PointersAreRight, ArrayIsFirst
<1>6. [array |-> Reserved, id |-> i] # Null
  <2>1. [array |-> Reserved, id |-> i] \in [array : Nat, id : Nat]
    BY <1>1
  <2> QED BY <2>1
<1>7. CanGet(t, local_by_string[t][n])
  BY <1>1, <1>4, <1>5, <1>6 DEF CanGet
<1>8. by_id[i + 1] = Item(n)
  BY <1>1 DEF ReadInv, ContentsAreRight
<1>9. Get(t, local_by_string[t][n]) = Item(n)
  BY <1>1, <1>5, <1>8 DEF Get
<1> QED BY <1>7, <1>9

LEMMA ReadInductive ==
    /\ Init => TypeOK /\ InFlight /\ IdsInv /\ ReadInv
    /\ TypeOK /\ InFlight /\ IdsInv /\ ReadInv /\ [Next]_vars
          => (TypeOK /\ InFlight /\ IdsInv /\ ReadInv)'
BY IdsInductive, ReadInit, ReadNext

(* What a thread has added it can read, while the names fit the array that *)
(* was reserved for them.                                                  *)
THEOREM ReadsAreSafe == Spec => []ReservedItemsCanBeRead
<1> QED BY ReadInductive, ReadingWorks, PTL DEF Spec
-----------------------------------------------------------------------------
(* The table of nodes.  Until the flush, the dirty ids are those of all    *)
(* items; after it, no thread is left to add another.                      *)

TableFollowsIds ==
    IF node_table = {} THEN GetDirty = {i - 1 : i \in DOMAIN by_id}
    ELSE /\ \A t \in Threads : pc[t] = "done"
         /\ dirty = <<>>
         /\ node_table = {NodeRow(i - 1) : i \in DOMAIN by_id}

LEMMA TableInit == Init => TableFollowsIds
<1> SUFFICES ASSUME Init PROVE TableFollowsIds
  OBVIOUS
<1>1. /\ node_table = {}
      /\ dirty = [i \in DOMAIN Preregistered |-> i - 1]
      /\ by_id = [i \in DOMAIN Preregistered |-> Item(Preregistered[i])]
  BY DEF Init
<1>2. DOMAIN by_id = DOMAIN dirty /\ \A i \in DOMAIN dirty : dirty[i] = i - 1
  BY ONLY <1>1
<1>3. {dirty[i] : i \in DOMAIN dirty} = {i - 1 : i \in DOMAIN by_id}
  BY ONLY <1>2
<1> QED BY ONLY <1>1, <1>3 DEF TableFollowsIds, GetDirty

LEMMA TableNext == TypeOK /\ TableFollowsIds /\ [Next]_vars => TableFollowsIds'
<1> SUFFICES ASSUME TypeOK, TableFollowsIds, [Next]_vars PROVE TableFollowsIds'
  OBVIOUS
<1>1. ASSUME NEW t \in Threads, NEW n \in Names, SharedAdd(t, n) PROVE TableFollowsIds'
  <2>1. node_table = {} /\ node_table' = {} /\ GetDirty = {i - 1 : i \in DOMAIN by_id}
    BY <1>1 DEF SharedAdd, TableFollowsIds
  <2>2. CASE Found(n)
    BY <2>1, <2>2 DEF Found, shared, TableFollowsIds, GetDirty
  <2>3. CASE PushNew(n)
    <3>1. by_id' = Append(by_id, Item(n)) /\ dirty' = Append(dirty, Len(by_id))
      BY <2>3 DEF PushNew, Push, MarkDirty
    <3>2. /\ Len(by_id) \in Nat /\ DOMAIN by_id = 1 .. Len(by_id)
          /\ DOMAIN by_id' = 1 .. Len(by_id) + 1
      BY <1>1, <2>3, PushProperties, LenProperties DEF PushNew, TypeOK
    <3>3. Range(dirty') = Range(dirty) \union {Len(by_id)}
      BY <3>1, <3>2, RangeOfAppend DEF TypeOK
    <3>4. GetDirty = Range(dirty) /\ GetDirty' = Range(dirty')
      BY DEF GetDirty, Range
    <3>5. {i - 1 : i \in DOMAIN by_id'} = {i - 1 : i \in DOMAIN by_id} \union {Len(by_id)}
      <4> DEFINE len == Len(by_id)
      <4>1. len \in Nat /\ DOMAIN by_id = 1 .. len /\ DOMAIN by_id' = 1 .. len + 1
        BY <3>2
      <4> HIDE DEF len
      <4>2. 1 .. len + 1 = (1 .. len) \union {len + 1} /\ (len + 1) - 1 = len
        BY ONLY <4>1
      <4>3. {i - 1 : i \in DOMAIN by_id'} = {i - 1 : i \in DOMAIN by_id} \union {len}
        BY ONLY <4>1, <4>2
      <4> QED BY <4>3 DEF len
    <3> QED BY <2>1, <3>3, <3>4, <3>5 DEF TableFollowsIds
  <2> QED BY <1>1, <2>2, <2>3 DEF SharedAdd
<1>2. ASSUME NEW t \in Threads, SharedGet(t) \/ Store(t) \/ Overrun(t) \/ ConsumerExit(t)
      PROVE  TableFollowsIds'
  <2>1. UNCHANGED <<by_id, dirty, node_table>> /\ pc[t] # "done"
    BY <1>2 DEF SharedGet, Store, Overrun, ConsumerExit, shared
  <2>2. node_table = {}
    BY <2>1 DEF TableFollowsIds
  <2> QED BY <2>1, <2>2 DEF TableFollowsIds, GetDirty
<1>3. CASE FlushNodeIdMap
  <2>1. /\ dirty # <<>> /\ dirty' = <<>> /\ \A t \in Threads : pc'[t] = "done"
        /\ node_table' = node_table \union {NodeRow(i) : i \in GetDirty}
        /\ UNCHANGED by_id
    BY <1>3 DEF FlushNodeIdMap
  <2>2. node_table = {} /\ GetDirty = {i - 1 : i \in DOMAIN by_id}
    BY <2>1 DEF TableFollowsIds
  <2>3. \A i : NodeRow(i)' = NodeRow(i)
    BY <2>1 DEF NodeRow
  <2>4. node_table' = {NodeRow(i - 1)' : i \in DOMAIN by_id'}
    BY <2>1, <2>2, <2>3
  <2>5. GetDirty # {}
    <3>1. dirty \in Seq(Nat) /\ Len(dirty) \in Nat /\ DOMAIN dirty = 1 .. Len(dirty)
      BY LenProperties DEF TypeOK
    <3>2. Len(dirty) # 0
      BY ONLY <2>1, <3>1, EmptySeq
    <3>3. 1 \in DOMAIN dirty
      BY ONLY <3>1, <3>2
    <3> QED BY ONLY <3>3 DEF GetDirty
  <2>6. node_table' # {}
    BY <2>1, <2>5
  <2> QED BY <2>1, <2>4, <2>6 DEF TableFollowsIds
<1>4. CASE UNCHANGED vars
  BY <1>4 DEF vars, shared, TableFollowsIds, GetDirty, NodeRow
<1> QED BY <1>1, <1>2, <1>3, <1>4 DEF Next, Consumer

LEMMA TableIsComplete ==
    TypeOK /\ IdsAndNamesMatch /\ ContentsAreRight /\ TableFollowsIds => NodeTableIsComplete
<1> SUFFICES ASSUME TypeOK, IdsAndNamesMatch, ContentsAreRight, TableFollowsIds, node_table # {}
             PROVE  node_table = {[node_id |-> by_string[n], name |-> n,
                                   special |-> IsMatched(n, FALSE) /\ ~ IsMatched(n, TRUE)] :
                                  n \in DOMAIN by_string}
  BY DEF NodeTableIsComplete
<1> DEFINE row(n) == [node_id |-> by_string[n], name |-> n,
                      special |-> IsMatched(n, FALSE) /\ ~ IsMatched(n, TRUE)]
<1>1. DOMAIN by_id = 1 .. Len(by_id) /\ Len(by_id) \in Nat
  BY LenProperties DEF TypeOK
<1>2. ASSUME NEW i \in DOMAIN by_id
      PROVE  by_id[i].key \in DOMAIN by_string /\ NodeRow(i - 1) = row(by_id[i].key)
  <2>1. /\ by_id[i].key \in DOMAIN by_string /\ by_string[by_id[i].key] = i - 1
        /\ by_id[i] = Item(by_id[i].key)
    BY DEF IdsAndNamesMatch, ContentsAreRight
  <2>2. i - 1 + 1 = i
    BY <1>1
  <2>3. by_id[i].anthropocene = LookupNodeExtraInfo(by_id[i].key)
    BY <2>1 DEF Item
  <2>4. by_id[i].anthropocene
          = (IsMatched(by_id[i].key, FALSE) /\ ~ IsMatched(by_id[i].key, TRUE))
    BY <2>3, LookupIsMatch
  <2> QED BY <2>1, <2>2, <2>4 DEF NodeRow
<1>3. ASSUME NEW n \in DOMAIN by_string
      PROVE  \E i \in DOMAIN by_id : by_id[i].key = n
  BY DEF IdsAndNamesMatch
<1>4. node_table = {NodeRow(i - 1) : i \in DOMAIN by_id}
  BY DEF TableFollowsIds
<1> HIDE DEF row
<1>5. node_table = {row(n) : n \in DOMAIN by_string}
  BY <1>2, <1>3, <1>4
<1> QED BY <1>5 DEF row

(* The flush writes a row for each name any thread was given an id for,    *)
(* with that id, special as the lines of the pattern file say.             *)
THEOREM NodeTableComplete == Spec => []NodeTableIsComplete
<1>1. ReadInv => ContentsAreRight
  BY DEF ReadInv
<1>2. IdsInv => IdsAndNamesMatch
  BY DEF IdsInv
<1> QED BY <1>1, <1>2, ReadInductive, TableInit, TableNext, TableIsComplete, PTL DEF Spec
-----------------------------------------------------------------------------
(* IdMap and its caches implement Interner: a Push is an Assign, a Store a *)
(* Tell, and all else a stutter.  The length of by_id is the next id since *)
(* the items behind the ids fill by_id.                                    *)

LEMMA LengthIsNextId == TypeOK /\ IdsAndNamesMatch => Len(by_id) \in I!NextIds
<1> SUFFICES ASSUME TypeOK, IdsAndNamesMatch PROVE Len(by_id) \in I!NextIds
  OBVIOUS
<1>1. DOMAIN by_id = 1 .. Len(by_id) /\ Len(by_id) \in Nat
  BY LenProperties DEF TypeOK
<1>2. Len(by_id) \notin I!Used
  <2>1. ASSUME NEW n \in DOMAIN by_string PROVE by_string[n] # Len(by_id)
    <3>1. by_string[n] \in Nat /\ by_string[n] + 1 \in 1 .. Len(by_id)
      BY <1>1 DEF IdsAndNamesMatch, TypeOK
    <3> QED BY <1>1, <3>1
  <2> QED BY <2>1 DEF I!Used
<1>3. CASE Len(by_id) = 0
  BY <1>2, <1>3 DEF I!NextIds
<1>4. CASE Len(by_id) # 0
  <2> DEFINE last == by_id[Len(by_id)].key
  <2>1. Len(by_id) \in DOMAIN by_id
    BY <1>1, <1>4
  <2>2. last \in DOMAIN by_string /\ by_string[last] = Len(by_id) - 1
    BY <2>1 DEF IdsAndNamesMatch
  <2>3. Len(by_id) - 1 \in I!Used
    BY <2>2 DEF I!Used
  <2>4. Len(by_id) = (Len(by_id) - 1) + 1
    BY <1>1
  <2> QED BY <1>2, <2>3, <2>4 DEF I!NextIds
<1> QED BY <1>3, <1>4

LEMMA InternerInit == Init => I!Init
BY DEF Init, I!Init

LEMMA InternerNext ==
    TypeOK /\ InFlight /\ IdsInv /\ [Next]_vars => [I!Next]_<<by_string, local_by_string>>
<1> SUFFICES ASSUME TypeOK, InFlight, IdsInv, [Next]_vars
             PROVE  [I!Next]_<<by_string, local_by_string>>
  OBVIOUS
<1>1. ASSUME NEW t \in Threads, NEW n \in Names, SharedAdd(t, n)
      PROVE  I!Next \/ UNCHANGED <<by_string, local_by_string>>
  <2>1. CASE Found(n)
    BY <1>1, <2>1 DEF SharedAdd, Found, shared, caches
  <2>2. CASE PushNew(n)
    <3>1. n \notin DOMAIN by_string /\ by_string' = With(by_string, n, Len(by_id))
      BY <2>2 DEF PushNew, Push
    <3>2. Len(by_id) \in I!NextIds
      BY LengthIsNextId DEF IdsInv
    <3>3. UNCHANGED local_by_string
      BY <1>1 DEF SharedAdd, caches
    <3>4. With(by_string, n, Len(by_id)) = I!Extend(by_string, n, Len(by_id))
      BY DEF I!Extend, With
    <3>5. I!Assign(n)
      BY <3>1, <3>2, <3>3, <3>4 DEF I!Assign
    <3> QED BY <3>5 DEF I!Next
  <2> QED BY <1>1, <2>1, <2>2 DEF SharedAdd
<1>2. ASSUME NEW t \in Threads, Store(t) PROVE I!Next
  <2>1. /\ key[t] \in Names /\ key[t] \in DOMAIN by_string
        /\ id[t] = by_string[key[t]]
    BY <1>2 DEF Store, InFlight
  <2>2. /\ local_by_string' = [local_by_string EXCEPT ![t] = With(@, key[t], id[t])]
        /\ UNCHANGED by_string
    BY <1>2 DEF Store, LocalIdFor, shared
  <2>3. I!Tell(t, key[t])
    BY <2>1, <2>2 DEF I!Tell, I!Extend, With
  <2> QED BY <2>1, <2>3 DEF I!Next
<1>3. ASSUME NEW t \in Threads, SharedGet(t) \/ Overrun(t) \/ ConsumerExit(t)
      PROVE  UNCHANGED <<by_string, local_by_string>>
  BY <1>3 DEF SharedGet, Overrun, ConsumerExit, shared, caches
<1>4. CASE FlushNodeIdMap
  BY <1>4 DEF FlushNodeIdMap, caches
<1>5. CASE UNCHANGED vars
  BY <1>5 DEF vars, shared, caches
<1> QED BY <1>1, <1>2, <1>3, <1>4, <1>5 DEF Next, Consumer

(* Every behaviour of the threads is one of Interner: each name gets one   *)
(* id, the next number, and every thread is told that id.                  *)
THEOREM ImplementsInterner == Spec => InternerSpec
<1>1. /\ Init => TypeOK /\ InFlight /\ IdsInv
      /\ TypeOK /\ InFlight /\ IdsInv /\ [Next]_vars => (TypeOK /\ InFlight /\ IdsInv)'
  BY IdsInductive
<1> QED BY <1>1, InternerInit, InternerNext, PTL DEF Spec, InternerSpec, I!Spec
=============================================================================
