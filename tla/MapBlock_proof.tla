---------------------------- MODULE MapBlock_proof ----------------------------
(***************************************************************************)
(* Proofs about MapBlock, for files of any length and with any contents:   *)
(* a file passes if and only if the code supports it, and the nodes of a   *)
(* good file are then what it says.                                        *)
(***************************************************************************)
EXTENDS MapBlock, SequenceLemmas, FiniteSetTheorems, TLAPS
-----------------------------------------------------------------------------
(* The inventories.                                                        *)

Texts == STRING \union {""}

Inventories == UNION {[D -> Seq(Items)] : D \in SUBSET Texts}

Parsers == [lists : Inventories, list_name : Texts, current : Seq(Items),
            status : {"reading", "done", "failed"}]

(* Changing one list gives lists again.                                    *)
LEMMA PutType ==
    ASSUME NEW f \in Inventories, NEW x \in Texts, NEW y \in Seq(Items)
    PROVE  Put(f, x, y) \in Inventories
<1>1. PICK D \in SUBSET Texts : f \in [D -> Seq(Items)]
  BY DEF Inventories
<1>2. DOMAIN f = D
  BY <1>1
<1>3. Put(f, x, y) \in [D \union {x} -> Seq(Items)]
  BY <1>1, <1>2 DEF Put
<1> QED BY <1>3 DEF Inventories

(* A line keeps the types of the local variables.                          *)
LEMMA ParseType ==
    ASSUME NEW p \in Parsers, NEW line \in InventoryLines
    PROVE  ParseLine(p, line) \in Parsers
<1>1. /\ p.lists \in Inventories /\ p.list_name \in Texts /\ p.current \in Seq(Items)
      /\ line.word \in Words /\ line.name \in Texts /\ line.item \in Items
  BY DEF Parsers, InventoryLines, Texts
<1>2. Failed(p) \in Parsers
  BY DEF Failed, Parsers
<1>3. AddSlot(p, line) \in Parsers
  <2>1. Append(p.current, line.item) \in Seq(Items)
    BY <1>1, AppendProperties
  <2> DEFINE a == Append(p.current, line.item)
  <2> HIDE DEF a
  <2>2. [p EXCEPT !.current = a] \in Parsers
    BY <2>1 DEF a, Parsers
  <2> QED BY <1>2, <2>2 DEF AddSlot, a
<1>4. [p EXCEPT !.list_name = line.name, !.current = <<>>] \in Parsers
  <2> DEFINE q == [p EXCEPT !.list_name = line.name]
             e == <<>>
  <2>1. q \in Parsers
    BY <1>1 DEF Parsers
  <2>2. e \in Seq(Items)
    BY EmptySeq
  <2> HIDE DEF q, e
  <2>3. [q EXCEPT !.current = e] \in Parsers
    BY <2>1, <2>2 DEF Parsers
  <2> QED BY <2>3 DEF q, e
<1>5. EndInventoryList(p) \in Parsers
  <2> DEFINE f == Put(p.lists, p.list_name, p.current)
             e == <<>>
             n == ""
             q == [p EXCEPT !.lists = f]
             r == [q EXCEPT !.list_name = n]
  <2>1. f \in Inventories
    BY <1>1, PutType
  <2>2. e \in Seq(Items)
    BY EmptySeq
  <2>3. n \in Texts
    BY DEF Texts
  <2> HIDE DEF f, e, n
  <2>4. q \in Parsers
    BY <2>1 DEF Parsers
  <2> HIDE DEF q
  <2>5. r \in Parsers
    BY <2>3, <2>4 DEF Parsers
  <2> HIDE DEF r
  <2>6. [r EXCEPT !.current = e] \in Parsers
    BY <2>2, <2>5 DEF Parsers
  <2> QED BY <2>6 DEF EndInventoryList, f, e, n, q, r
<1>6. [p EXCEPT !.status = "done"] \in Parsers
  BY DEF Parsers
<1> QED BY <1>2, <1>3, <1>4, <1>5, <1>6 DEF ParseLine

(* The local variables before the first line.                              *)
LEMMA StartType == \A lists \in Inventories : StartInventory(lists) \in Parsers
<1> SUFFICES ASSUME NEW lists \in Inventories PROVE StartInventory(lists) \in Parsers
  OBVIOUS
<1> DEFINE e == <<>>
           n == ""
           r == "reading"
<1>1. e \in Seq(Items)
  BY EmptySeq
<1>2. n \in Texts /\ r \in {"reading", "done", "failed"}
  BY DEF Texts
<1> HIDE DEF e, n, r
<1>3. [lists |-> lists, list_name |-> n, current |-> e, status |-> r] \in Parsers
  BY <1>1, <1>2 DEF Parsers
<1> QED BY <1>3 DEF StartInventory, e, n, r

(* A node without lists.                                                   *)
LEMMA NoInventoryType == NoInventory \in Inventories
<1>1. <<>> \in [{} -> Seq(Items)]
  OBVIOUS
<1> QED BY <1>1 DEF NoInventory, Inventories

(* The lines are parsed one after the other.                               *)
LEMMA ParseSteps ==
  ASSUME NEW lists \in Inventories, NEW lines \in Seq(InventoryLines)
  PROVE \E it : /\ it[1 .. 0] = StartInventory(lists)
                /\ \A k \in 0 .. Len(lines) - 1 :
                      it[1 .. k + 1] = ParseLine(it[1 .. k], lines[k + 1])
                /\ deserialize_inventory(lists, lines) = it[1 .. Len(lines)]
<1> DEFINE n == Len(lines)
           start == StartInventory(lists)
           G == [x \in Parsers \X InventoryLines |-> ParseLine(x[1], x[2])]
           IsIt(f) == f = [s \in SUBSET DOMAIN lines |->
                              IF s = {} THEN start
                              ELSE ParseLine(f[s \ {Max(s)}], lines[Max(s)])]
           it == CHOOSE f : IsIt(f)
<1>1. deserialize_inventory(lists, lines) = it[DOMAIN lines]
  BY DEF deserialize_inventory, FoldLeft, MapThenFoldSet
<1>2. n \in Nat /\ DOMAIN lines = 1 .. n /\ lines \in [1 .. n -> InventoryLines]
  BY LenProperties
<1>3. start \in Parsers
  BY StartType
<1> HIDE DEF n, start
<1>4. \E f : IsIt(f)
  <2>1. G \in [Parsers \X InventoryLines -> Parsers]
    BY ParseType
  <2> HIDE DEF G
  <2>2. PICK f \in [SUBSET (1 .. n) -> Parsers] : IsFold(f, G, start, lines, n)
    BY <1>2, <1>3, <2>1, FoldExists
  <2>3. ASSUME NEW s \in SUBSET (1 .. n), s # {}
        PROVE  G[<<f[s \ {Max(s)}], lines[Max(s)]>>]
                 = ParseLine(f[s \ {Max(s)}], lines[Max(s)])
    <3>1. Max(s) \in 1 .. n
      BY <1>2, <2>3, MaxOfIndices
    <3>2. f[s \ {Max(s)}] \in Parsers /\ lines[Max(s)] \in InventoryLines
      BY <1>2, <3>1
    <3> QED BY <3>2 DEF G
  <2>4. \A s \in SUBSET (1 .. n) : f[s] = IF s = {} THEN start
                                    ELSE ParseLine(f[s \ {Max(s)}], lines[Max(s)])
    BY <2>2, <2>3 DEF IsFold
  <2>5. IsIt(f)
    BY <1>2, <2>2, <2>4
  <2> QED BY <2>5
<1>5. IsIt(it)
  BY <1>4
<1> HIDE DEF it
<1>6. \A s \in SUBSET (1 .. n) : it[s] = IF s = {} THEN start
                                    ELSE ParseLine(it[s \ {Max(s)}], lines[Max(s)])
  BY <1>2, <1>5
<1>7. it[1 .. 0] = start
  <2>1. 1 .. 0 = {} /\ 1 .. 0 \in SUBSET (1 .. n)
    OBVIOUS
  <2> QED BY <1>6, <2>1
<1>8. ASSUME NEW k \in 0 .. n - 1
      PROVE  it[1 .. k + 1] = ParseLine(it[1 .. k], lines[k + 1])
  <2>1. k \in Nat /\ k + 1 \in 1 .. k + 1 /\ 1 .. k + 1 \in SUBSET (1 .. n)
    BY ONLY <1>2, k \in 0 .. n - 1
  <2>2. Max(1 .. k + 1) = k + 1 /\ (1 .. k + 1) \ {k + 1} = 1 .. k
    BY <2>1, MaxOfInterval
  <2>3. 1 .. k + 1 # {}
    BY ONLY <2>1
  <2> QED BY ONLY <1>6, <2>1, <2>2, <2>3
<1> QED BY <1>1, <1>2, <1>7, <1>8 DEF n, start

(* Whether a slot line is in a list depends on the lines before it.        *)
LEMMA InListNext ==
    ASSUME NEW lines, NEW k \in Nat
    PROVE  /\ ~ InList(lines, 1)
           /\ InList(lines, k + 2) <=>
                 IF lines[k + 1].word = "List" THEN lines[k + 1].name # ""
                 ELSE lines[k + 1].word # "EndInventoryList" /\ InList(lines, k + 1)
<1> DEFINE Opens(j) == lines[j].word = "List" /\ lines[j].name # ""
           Stays(i) == lines[i].word \notin {"List", "EndInventoryList"}
           In(m) == \E j \in 1 .. m - 1 : Opens(j)
                    /\ \A i \in j + 1 .. m - 1 : Stays(i)
<1>1. \A m : InList(lines, m) <=> In(m)
  BY DEF InList
<1>2. lines[k + 1].word = "List" => ~ Stays(k + 1)
  OBVIOUS
<1>3. lines[k + 1].word # "List" => ~ Opens(k + 1)
  OBVIOUS
<1>4. Stays(k + 1) <=> lines[k + 1].word \notin {"List", "EndInventoryList"}
  OBVIOUS
<1>5. lines[k + 1].word = "List" => (Opens(k + 1) <=> lines[k + 1].name # "")
  OBVIOUS
<1> HIDE DEF Opens, Stays
<1>6. ~ In(1)
  OBVIOUS
<1>7. In(k + 2) <=> Opens(k + 1) \/ (Stays(k + 1) /\ In(k + 1))
  <2>1. 1 .. (k + 2) - 1 = (1 .. (k + 1) - 1) \union {k + 1}
    OBVIOUS
  <2>2. \A j \in 1 .. (k + 1) - 1 :
           j + 1 .. (k + 2) - 1 = (j + 1 .. (k + 1) - 1) \union {k + 1}
    OBVIOUS
  <2>3. k + 1 + 1 .. (k + 2) - 1 = {}
    OBVIOUS
  <2> QED BY <2>1, <2>2, <2>3
<1> HIDE DEF In
<1> QED BY <1>1, <1>2, <1>3, <1>4, <1>5, <1>6, <1>7

LegalLine(lines, k) ==
    \/ lines[k].word \in {"List", "Width", "EndInventoryList"}
    \/ (lines[k].word \in {"Item", "Empty"} /\ InList(lines, k))
    \/ (lines[k].word = "Item" /\ lines[k].item.huge)

(* The parser is done after an inventory, and fails at the first line that *)
(* does not belong there.                                                  *)
LEMMA InventoryIsAccepted ==
    ASSUME NEW lists \in Inventories, NEW lines \in Seq(InventoryLines)
    PROVE  /\ deserialize_inventory(lists, lines) \in Parsers
           /\ deserialize_inventory(lists, lines).status = "done"
                 <=> IsInventory(lines)
<1>1. PICK it : /\ it[1 .. 0] = StartInventory(lists)
                /\ \A k \in 0 .. Len(lines) - 1 :
                      it[1 .. k + 1] = ParseLine(it[1 .. k], lines[k + 1])
                /\ deserialize_inventory(lists, lines) = it[1 .. Len(lines)]
  BY ParseSteps
<1> DEFINE n == Len(lines)
           p(k) == it[1 .. k]
           All(k) == \A j \in 1 .. k : LegalLine(lines, j)
           Ended(k) == \E m \in 1 .. k : lines[m].word = "EndInventory" /\ All(m - 1)
           Right(k) == /\ p(k) \in Parsers
                       /\ p(k).status = "reading" <=> All(k)
                       /\ p(k).status = "done" <=> Ended(k)
                       /\ p(k).status = "reading" =>
                             (p(k).list_name # "" <=> InList(lines, k + 1))
           K == {k \in Nat : k <= n => Right(k)}
<1>2. n \in Nat /\ DOMAIN lines = 1 .. n
      /\ \A i \in 1 .. n : lines[i] \in InventoryLines
  BY LenProperties
<1> HIDE DEF n
<1>3. Right(0)
  <2>1. p(0) = StartInventory(lists)
    BY <1>1
  <2>2. p(0) \in Parsers
    BY <2>1, StartType
  <2>3. p(0).status = "reading" /\ p(0).list_name = ""
    <3>1. StartInventory(lists).status = "reading"
          /\ StartInventory(lists).list_name = ""
      BY ONLY DEF StartInventory
    <3> QED BY ONLY <2>1, <3>1
  <2>4. All(0) /\ ~ Ended(0)
    OBVIOUS
  <2>5. ~ InList(lines, 0 + 1)
    <3>1. 0 + 1 = 1
      OBVIOUS
    <3> QED BY <3>1, InListNext
  <2> HIDE DEF p, All, Ended
  <2> QED BY <2>2, <2>3, <2>4, <2>5
<1>4. ASSUME NEW k \in Nat, k + 1 <= n, Right(k) PROVE Right(k + 1)
  <2> DEFINE line == lines[k + 1]
             q == p(k)
             r == p(k + 1)
  <2>0. k \in 0 .. n - 1 /\ k + 1 \in 1 .. n
    BY ONLY <1>2, k \in Nat, k + 1 <= n
  <2>1. r = ParseLine(q, line)
    BY <1>1, <2>0 DEF n
  <2>2. line \in InventoryLines
    BY <1>2, <2>0
  <2>3. r \in Parsers
    BY <1>4, <2>1, <2>2, ParseType
  <2>4. All(k + 1) <=> All(k) /\ LegalLine(lines, k + 1)
    <3>1. 1 .. k + 1 = (1 .. k) \union {k + 1}
      OBVIOUS
    <3> QED BY <3>1
  <2>5. Ended(k + 1) <=> Ended(k) \/ (line.word = "EndInventory" /\ All(k))
    <3>1. 1 .. k + 1 = (1 .. k) \union {k + 1} /\ k + 1 - 1 = k
      OBVIOUS
    <3> HIDE DEF All
    <3> QED BY <3>1
  <2>6. InList(lines, k + 2) <=>
           IF line.word = "List" THEN line.name # ""
           ELSE line.word # "EndInventoryList" /\ InList(lines, k + 1)
    BY InListNext
  <2>7. LegalLine(lines, k + 1) <=>
           \/ line.word \in {"List", "Width", "EndInventoryList"}
           \/ (line.word \in {"Item", "Empty"} /\ InList(lines, k + 1))
           \/ (line.word = "Item" /\ line.item.huge)
    BY DEF LegalLine
  <2>8. /\ q \in Parsers
        /\ q.status = "reading" <=> All(k)
        /\ q.status = "done" <=> Ended(k)
        /\ q.status = "reading" => (q.list_name # "" <=> InList(lines, k + 1))
    BY <1>4
  <2>9. line.word \in Words /\ line.item.huge \in BOOLEAN
    BY <2>2 DEF InventoryLines, Items
  <2> SUFFICES /\ r.status = "reading" <=> All(k + 1)
               /\ r.status = "done" <=> Ended(k + 1)
               /\ r.status = "reading" => (r.list_name # "" <=> InList(lines, k + 2))
    <3>1. k + 1 + 1 = k + 2
      BY ONLY k \in Nat
    <3> HIDE DEF r, All, Ended
    <3> QED BY <2>3, <3>1 DEF r
  <2> HIDE DEF line, q, r, All, Ended
  <2>10. CASE q.status # "reading"
    <3>1. r = q
      BY <2>1, <2>10 DEF ParseLine
    <3> QED BY <2>4, <2>5, <2>8, <2>10, <3>1
  <2>11. CASE q.status = "reading"
    <3>1. ~ Ended(k) /\ All(k)
      BY <2>8, <2>11
    <3>2. CASE line.word = "List"
      <4>1. r = [q EXCEPT !.list_name = line.name, !.current = <<>>]
        BY <2>1, <2>11, <3>2 DEF ParseLine
      <4>2. r.status = "reading" /\ r.list_name = line.name
        BY <2>8, <2>11, <4>1 DEF Parsers
      <4> QED BY <2>3, <2>4, <2>5, <2>6, <2>7, <3>1, <3>2, <4>2
    <3>3. CASE line.word = "Width"
      <4>1. r = q
        BY <2>1, <2>11, <3>3 DEF ParseLine
      <4> QED BY <2>3, <2>4, <2>5, <2>6, <2>7, <2>8, <2>11, <3>1, <3>3, <4>1
    <3>4. CASE line.word \in {"Item", "Empty"}
      <4>1. r = AddSlot(q, line)
        BY <2>1, <2>11, <3>4 DEF ParseLine
      <4>2. CASE q.list_name = "" /\ ~ (line.word = "Item" /\ line.item.huge)
        <5>1. r.status = "failed"
          BY <2>8, <4>1, <4>2 DEF AddSlot, Failed, Parsers
        <5> QED BY <2>3, <2>4, <2>5, <2>6, <2>7, <2>8, <2>11, <3>1, <3>4, <4>2, <5>1
      <4>3. CASE ~ (q.list_name = "" /\ ~ (line.word = "Item" /\ line.item.huge))
        <5>1. r = [q EXCEPT !.current = Append(q.current, line.item)]
          BY <4>1, <4>3 DEF AddSlot
        <5>2. r.status = "reading" /\ r.list_name = q.list_name
          BY <2>8, <2>11, <5>1 DEF Parsers
        <5> QED BY <2>3, <2>4, <2>5, <2>6, <2>7, <2>8, <2>11, <3>1, <3>4, <4>3, <5>2
      <4> QED BY <4>2, <4>3
    <3>5. CASE line.word = "EndInventoryList"
      <4>1. r = EndInventoryList(q)
        BY <2>1, <2>11, <3>5 DEF ParseLine
      <4>2. r.status = "reading" /\ r.list_name = ""
        BY <2>8, <2>11, <4>1 DEF EndInventoryList, Parsers
      <4> QED BY <2>3, <2>4, <2>5, <2>6, <2>7, <3>1, <3>5, <4>2
    <3>6. CASE line.word = "EndInventory"
      <4>1. r = [q EXCEPT !.status = "done"]
        BY <2>1, <2>11, <3>6 DEF ParseLine
      <4>2. r.status = "done"
        BY <2>8, <4>1 DEF Parsers
      <4> QED BY <2>3, <2>4, <2>5, <2>6, <2>7, <3>1, <3>6, <4>2
    <3>7. CASE line.word = "Junk"
      <4>1. r = Failed(q)
        BY <2>1, <2>11, <3>7 DEF ParseLine
      <4>2. r.status = "failed"
        BY <2>8, <4>1 DEF Failed, Parsers
      <4> QED BY <2>3, <2>4, <2>5, <2>6, <2>7, <3>1, <3>7, <4>2
    <3> QED BY <2>9, <3>2, <3>3, <3>4, <3>5, <3>6, <3>7 DEF Words
  <2> QED BY <2>10, <2>11
<1>9. \A k \in Nat : Right(k) => p(k) \in Parsers
      /\ (p(k).status = "done" <=> Ended(k))
  OBVIOUS
<1> HIDE DEF Right
<1>5. 0 \in K /\ \A k \in Nat : k \in K => k + 1 \in K
  BY <1>2, <1>3, <1>4
<1> HIDE DEF K
<1>6. n \in K
  BY <1>2, <1>5, InductionOnSets
<1>7. p(n) \in Parsers /\ (p(n).status = "done" <=> Ended(n))
  BY <1>2, <1>6, <1>9 DEF K
<1>8. Ended(n) <=> IsInventory(lines)
  BY <1>2 DEF IsInventory, LegalLine
<1> QED BY <1>1, <1>7, <1>8 DEF n
-----------------------------------------------------------------------------
(* Sequences.                                                              *)

Drop(s, k) == SubSeq(s, k + 1, Len(s))

(* The minimum of natural numbers is one of them.                          *)
LEMMA MinOfNaturals ==
    ASSUME NEW T, T \subseteq Nat, T # {}
    PROVE  Min(T) \in T /\ \A y \in T : Min(T) <= y
<1>1. \E x \in T : \A y \in T : x <= y
  BY LeastNatural
<1> QED BY <1>1 DEF Min

(* What a file holds is a sequence of its elements.                        *)
LEMMA SequenceType ==
    ASSUME NEW s, IsSequence(s)
    PROVE  /\ s \in Seq(Range(s)) /\ Len(s) \in Nat /\ DOMAIN s = 1 .. Len(s)
<1>1. Len(s) \in Nat /\ s = [k \in 1 .. Len(s) |-> s[k]]
  BY DEF IsSequence
<1>2. DOMAIN s = 1 .. Len(s)
  BY <1>1
<1>3. \A k \in 1 .. Len(s) : s[k] \in Range(s)
  BY <1>2 DEF Range
<1>4. s \in [1 .. Len(s) -> Range(s)]
  BY <1>1, <1>3
<1> QED BY <1>1, <1>2, <1>4, IsASeq

(* Taking the head off what is left drops one more.                        *)
LEMMA DropSteps ==
    ASSUME NEW S, NEW s \in Seq(S), NEW k \in Nat, k <= Len(s)
    PROVE  /\ Drop(s, k) \in Seq(S)
           /\ Drop(s, k) = <<>> <=> k = Len(s)
           /\ k < Len(s) => /\ Head(Drop(s, k)) = s[k + 1]
                            /\ Tail(Drop(s, k)) = Drop(s, k + 1)
           /\ Drop(s, 0) = s
           /\ Len(Drop(s, k)) = Len(s) - k
<1> DEFINE n == Len(s)
<1>1. n \in Nat /\ DOMAIN s = 1 .. n /\ s \in [1 .. n -> S]
  BY LenProperties
<1> HIDE DEF n
<1>2. ASSUME NEW j \in 0 .. n
      PROVE  /\ Drop(s, j) \in Seq(S)
             /\ Len(Drop(s, j)) = n - j
             /\ \A i \in 1 .. n - j : Drop(s, j)[i] = s[j + i]
  <2>1. j + 1 \in 1 .. n + 1 /\ \A i \in j + 1 .. n : s[i] \in S
    BY <1>1
  <2>2. Drop(s, j) = SubSeq(s, j + 1, n)
    BY DEF Drop, n
  <2>3. /\ SubSeq(s, j + 1, n) \in Seq(S)
        /\ Len(SubSeq(s, j + 1, n)) = IF j + 1 <= n THEN n - (j + 1) + 1 ELSE 0
        /\ \A i \in 1 .. n - (j + 1) + 1 : SubSeq(s, j + 1, n)[i] = s[(j + 1) + i - 1]
    BY <1>1, <2>1, SubSeqProperties DEF n
  <2> DEFINE t == SubSeq(s, j + 1, n)
  <2> HIDE DEF t
  <2>4. Len(t) = n - j
    BY <1>1, <2>3 DEF t
  <2>5. ASSUME NEW i \in 1 .. n - j PROVE t[i] = s[j + i]
    <3>1. i \in 1 .. n - (j + 1) + 1 /\ (j + 1) + i - 1 = j + i
      BY <1>1
    <3> QED BY <2>3, <3>1 DEF t
  <2> QED BY <2>2, <2>3, <2>4, <2>5 DEF t
<1>3. k \in 0 .. n /\ 0 \in 0 .. n
  BY <1>1 DEF n
<1>4. Drop(s, k) = <<>> <=> k = n
  <2>1. Drop(s, k) \in Seq(S) /\ Len(Drop(s, k)) = n - k
    BY <1>2, <1>3
  <2>2. Drop(s, k) = <<>> <=> Len(Drop(s, k)) = 0
    BY <2>1, EmptySeq
  <2> QED BY ONLY <1>1, <1>3, <2>1, <2>2
<1>5. Drop(s, 0) = s
  <2>1. Drop(s, 0) \in Seq(S) /\ Len(Drop(s, 0)) = n
        /\ \A i \in 1 .. n : Drop(s, 0)[i] = s[i]
    <3>1. n - 0 = n /\ \A i \in 1 .. n : 0 + i = i
      BY <1>1
    <3> QED BY <1>2, <1>3, <3>1
  <2>2. Len(s) = n
    BY DEF n
  <2> QED BY <2>1, <2>2, SeqEqual
<1>6. ASSUME k < n
      PROVE  Head(Drop(s, k)) = s[k + 1] /\ Tail(Drop(s, k)) = Drop(s, k + 1)
  <2> DEFINE t == Drop(s, k)
             u == Drop(s, k + 1)
  <2>1. k + 1 \in 0 .. n /\ 1 \in 1 .. n - k /\ n - (k + 1) = (n - k) - 1
    BY <1>1, <1>3, <1>6
  <2>2. t \in Seq(S) /\ Len(t) = n - k /\ \A i \in 1 .. n - k : t[i] = s[k + i]
    BY <1>2, <1>3
  <2>3. u \in Seq(S) /\ Len(u) = (n - k) - 1
        /\ \A i \in 1 .. (n - k) - 1 : u[i] = s[(k + 1) + i]
    BY <1>2, <2>1
  <2> HIDE DEF t, u
  <2>4. t # <<>>
    BY <2>1, <2>2, EmptySeq
  <2>5. /\ Head(t) = t[1] /\ Tail(t) \in Seq(S) /\ Len(Tail(t)) = Len(t) - 1
        /\ \A i \in 1 .. Len(Tail(t)) : Tail(t)[i] = t[i + 1]
    BY <2>2, <2>4, HeadTailProperties
  <2>6. ASSUME NEW i \in 1 .. (n - k) - 1 PROVE Tail(t)[i] = u[i]
    <3>1. i + 1 \in 1 .. n - k /\ k + (i + 1) = (k + 1) + i
      BY <1>1, <1>3
    <3> QED BY <2>2, <2>3, <2>5, <3>1
  <2>7. Tail(t) = u
    BY <2>2, <2>3, <2>5, <2>6, SeqEqual
  <2> QED BY <2>1, <2>2, <2>5, <2>7 DEF t, u
<1>7. Len(Drop(s, k)) = n - k /\ Drop(s, k) \in Seq(S)
  BY <1>2, <1>3
<1> QED BY <1>4, <1>5, <1>6, <1>7 DEF n
-----------------------------------------------------------------------------
(* The mapping of content ids to names.                                    *)

(* The result of SelectInSeq is an index or 0.                             *)
LEMMA FirstIndex ==
    ASSUME NEW n \in Nat, NEW T, T \subseteq 1 .. n
    PROVE  (IF T # {} THEN Min(T) ELSE 0) \in 0 .. n
<1>1. T \subseteq Nat
  OBVIOUS
<1>2. T # {} => Min(T) \in T
  BY <1>1, MinOfNaturals
<1>3. 0 \in 0 .. n /\ 1 .. n \subseteq 0 .. n
  OBVIOUS
<1> QED BY <1>2, <1>3

(* The fields of an entry of the mapping.                                  *)
LEMMA MappingEntry ==
    ASSUME NEW x \in MappingEntries
    PROVE  x.id \in U16 /\ x.id \in Nat /\ x.name \in STRING
<1>1. x.id \in U16 /\ x.name \in STRING
  BY DEF MappingEntries
<1>2. U16 \subseteq Nat
  BY DEF U16
<1> QED BY <1>1, <1>2

(* The entries up to the first illegal id are all of them if no id is.     *)
LEMMA LegalEntriesAre ==
    ASSUME NEW entries \in Seq(MappingEntries)
    PROVE  /\ LegalEntries(entries) \in Seq(MappingEntries)
           /\ LegalEntries(entries) = entries
                 <=> \A e \in DOMAIN entries : entries[e].id < IdLimit
<1> DEFINE n == Len(entries)
           more == Append(entries, [id |-> IdLimit])
           T == {i \in 1 .. Len(more) : more[i].id >= IdLimit}
           first == SelectInSeq(more, LAMBDA e : e.id >= IdLimit)
<1>1. n \in Nat /\ DOMAIN entries = 1 .. n
      /\ \A i \in 1 .. n : entries[i] \in MappingEntries
  BY LenProperties
<1>2. /\ Len(more) = n + 1 /\ \A i \in 1 .. n : more[i] = entries[i]
      /\ more[n + 1] = [id |-> IdLimit]
  <2>1. entries \in Seq(MappingEntries \union {[id |-> IdLimit]})
    BY SeqMonotonic
  <2> QED BY <2>1, AppendProperties
<1>3. first = IF T # {} THEN Min(T) ELSE 0
  BY DEF SelectInSeq
<1>4. LegalEntries(entries) = SubSeq(entries, 1, first - 1)
  BY DEF LegalEntries
<1> HIDE DEF more, n, first
<1>5. IdLimit \in Nat
  BY IdLimitAssumption
<1>6. n + 1 \in T
  <2>1. more[n + 1].id = IdLimit /\ n + 1 \in 1 .. Len(more)
    BY <1>1, <1>2
  <2> QED BY <1>5, <2>1
<1>8. T \subseteq 1 .. n + 1 /\ T \subseteq Nat
  BY <1>1, <1>2
<1>7. first \in T /\ \A i \in T : first <= i
  BY <1>3, <1>6, <1>8, MinOfNaturals
<1>9. first \in 1 .. n + 1
  BY <1>7, <1>8
<1>10. /\ LegalEntries(entries) \in Seq(MappingEntries)
       /\ Len(LegalEntries(entries)) = first - 1
       /\ \A i \in 1 .. first - 1 : LegalEntries(entries)[i] = entries[i]
  <2>1. \A i \in 1 .. first - 1 : i \in 1 .. n
    BY <1>1, <1>9
  <2>2. 1 \in Int /\ first - 1 \in Int
        /\ \A i \in 1 .. first - 1 : entries[i] \in MappingEntries
    BY <1>1, <1>9, <2>1
  <2> DEFINE m == first - 1
             t == SubSeq(entries, 1, m)
  <2> HIDE DEF m
  <2>3. /\ t \in Seq(MappingEntries)
        /\ Len(t) = IF 1 <= m THEN m - 1 + 1 ELSE 0
        /\ \A i \in 1 .. m - 1 + 1 : t[i] = entries[1 + i - 1]
    BY <2>2, SubSeqProperties DEF m
  <2> HIDE DEF t
  <2>4. m \in 0 .. n
    BY <1>1, <1>9 DEF m
  <2>5. Len(t) = m
    BY <1>1, <2>3, <2>4
  <2>6. ASSUME NEW i \in 1 .. m PROVE t[i] = entries[i]
    <3>1. m - 1 + 1 = m /\ 1 + i - 1 = i
      BY <1>1, <2>4
    <3> QED BY <2>3, <3>1
  <2> QED BY <1>4, <2>3, <2>5, <2>6 DEF m, t
<1>11. ASSUME \A e \in DOMAIN entries : entries[e].id < IdLimit
       PROVE  LegalEntries(entries) = entries
  <2>1. ASSUME NEW i \in 1 .. n PROVE i \notin T
    <3>1. more[i].id = entries[i].id /\ entries[i].id \in Nat
          /\ entries[i].id < IdLimit
      BY <1>1, <1>2, <1>11, MappingEntry
    <3>2. ~ (more[i].id >= IdLimit)
      BY <1>5, <3>1
    <3> QED BY <3>2
  <2> HIDE DEF T
  <2>2. first = n + 1
    BY <1>1, <1>7, <1>9, <2>1
  <2>3. Len(LegalEntries(entries)) = n
        /\ \A i \in 1 .. n : LegalEntries(entries)[i] = entries[i]
    BY <1>1, <1>10, <2>2
  <2> QED BY <1>10, <2>3, SeqEqual DEF n
<1>12. ASSUME LegalEntries(entries) = entries, NEW e \in DOMAIN entries
       PROVE  entries[e].id < IdLimit
  <2>1. first - 1 = n
    BY <1>10, <1>12 DEF n
  <2>2. e \notin T /\ e \in 1 .. n
    BY <1>1, <1>7, <1>9, <2>1
  <2>3. e \in 1 .. Len(more) /\ more[e] = entries[e] /\ entries[e].id \in Nat
    <3>1. entries[e] \in MappingEntries /\ more[e] = entries[e]
      BY <1>1, <1>2, <2>2
    <3>2. entries[e].id \in Nat
      BY <3>1, MappingEntry
    <3>3. e \in 1 .. n + 1
      BY <1>1, <2>2
    <3> QED BY <1>2, <3>1, <3>2, <3>3
  <2>4. ~ (more[e].id >= IdLimit)
    BY <2>2, <2>3
  <2> QED BY <1>5, <2>3, <2>4
<1> QED BY <1>10, <1>11, <1>12

(* The id of a name that is there, and -1 otherwise, as a place in the     *)
(* table.                                                                  *)
LEMMA IdOfIs ==
    ASSUME NEW ids \in Seq(STRING), NEW name
    PROVE  /\ IdOf(ids, name) \in -1 .. Len(ids) - 1
           /\ Contains(ids, name) => /\ IdOf(ids, name) \in Nat
                                     /\ ids[IdOf(ids, name) + 1] = name
<1> DEFINE n == Len(ids)
           T == {i \in 1 .. n : ids[i] = name}
           first == SelectInSeq(ids, LAMBDA m : m = name)
<1>1. n \in Nat
  BY LenProperties
<1>2. first = IF T # {} THEN Min(T) ELSE 0
  BY DEF SelectInSeq
<1>3. IdOf(ids, name) = first - 1
  BY DEF IdOf
<1>4. Contains(ids, name) <=> T # {}
  BY DEF Contains
<1> HIDE DEF n, first
<1>5. T # {} => first \in T
  BY <1>2, MinOfNaturals
<1>6. first \in 0 .. n
  BY <1>1, <1>2, <1>5
<1>7. first - 1 \in -1 .. n - 1
  BY <1>1, <1>6
<1>8. ASSUME T # {} PROVE first - 1 \in Nat /\ ids[first - 1 + 1] = name
  <2>1. first \in 1 .. n /\ ids[first] = name
    BY <1>5, <1>8
  <2>2. first - 1 \in Nat /\ first - 1 + 1 = first
    BY <1>1, <2>1
  <2> QED BY <2>1, <2>2
<1> QED BY <1>3, <1>4, <1>7, <1>8 DEF n

(* Adding a name keeps the ids there are.                                  *)
LEMMA AddType ==
    ASSUME NEW ids \in Seq(STRING), NEW name \in STRING
    PROVE  /\ Add(ids, name) \in Seq(STRING)
           /\ Contains(Add(ids, name), name)
           /\ Len(ids) <= Len(Add(ids, name))
           /\ \A i \in 1 .. Len(ids) : Add(ids, name)[i] = ids[i]
<1>1. Len(ids) \in Nat
  BY LenProperties
<1>2. CASE Contains(ids, name)
  BY <1>1, <1>2 DEF Add
<1>3. CASE ~ Contains(ids, name)
  <2> DEFINE more == Append(ids, name)
  <2>1. /\ more \in Seq(STRING) /\ Len(more) = Len(ids) + 1
        /\ \A i \in 1 .. Len(ids) : more[i] = ids[i]
        /\ more[Len(ids) + 1] = name
    BY AppendProperties
  <2>2. Add(ids, name) = more
    BY <1>3 DEF Add
  <2> HIDE DEF more
  <2>3. Len(ids) + 1 \in 1 .. Len(more) /\ Len(ids) <= Len(more)
    BY <1>1, <2>1
  <2>4. Contains(more, name)
    BY <2>1, <2>3 DEF Contains
  <2> QED BY <2>1, <2>2, <2>3, <2>4
<1> QED BY <1>2, <1>3

\* The names known when those of the entries are added.
AllNames(ids, entries) == FoldLeft(LAMBDA s, e : Add(s, e.name), ids, entries)

(* The names are added one after the other.                                *)
LEMMA NamesSteps ==
  ASSUME NEW ids \in Seq(STRING), NEW entries \in Seq(MappingEntries)
  PROVE \E it : /\ it[1 .. 0] = ids
                /\ \A k \in 0 .. Len(entries) - 1 :
                      it[1 .. k + 1] = Add(it[1 .. k], entries[k + 1].name)
                /\ AllNames(ids, entries) = it[1 .. Len(entries)]
<1> DEFINE n == Len(entries)
           S == Seq(STRING)
           T == MappingEntries
           G == [x \in S \X T |-> Add(x[1], x[2].name)]
           IsIt(f) == f = [s \in SUBSET DOMAIN entries |->
                              IF s = {} THEN ids
                              ELSE Add(f[s \ {Max(s)}], entries[Max(s)].name)]
           it == CHOOSE f : IsIt(f)
<1>1. AllNames(ids, entries) = it[DOMAIN entries]
  BY DEF AllNames, FoldLeft, MapThenFoldSet
<1>2. n \in Nat /\ DOMAIN entries = 1 .. n /\ entries \in [1 .. n -> T]
  BY LenProperties
<1> HIDE DEF n
<1>4. \E f : IsIt(f)
  <2>1. G \in [S \X T -> S]
    BY AddType, MappingEntry
  <2> HIDE DEF G
  <2>2. PICK f \in [SUBSET (1 .. n) -> S] : IsFold(f, G, ids, entries, n)
    BY <1>2, <2>1, FoldExists
  <2>3. ASSUME NEW s \in SUBSET (1 .. n), s # {}
        PROVE  G[<<f[s \ {Max(s)}], entries[Max(s)]>>]
                 = Add(f[s \ {Max(s)}], entries[Max(s)].name)
    <3>1. Max(s) \in 1 .. n
      BY <1>2, <2>3, MaxOfIndices
    <3>2. f[s \ {Max(s)}] \in S /\ entries[Max(s)] \in T
      BY <1>2, <3>1
    <3> HIDE DEF S, T
    <3> QED BY <3>2 DEF G
  <2>4. \A s \in SUBSET (1 .. n) : f[s] = IF s = {} THEN ids
                                    ELSE Add(f[s \ {Max(s)}], entries[Max(s)].name)
    BY <2>2, <2>3 DEF IsFold
  <2>5. IsIt(f)
    BY <1>2, <2>2, <2>4
  <2> QED BY <2>5
<1>5. IsIt(it)
  BY <1>4
<1> HIDE DEF it
<1>6. \A s \in SUBSET (1 .. n) : it[s] = IF s = {} THEN ids
                                    ELSE Add(it[s \ {Max(s)}], entries[Max(s)].name)
  BY <1>2, <1>5
<1>7. it[1 .. 0] = ids
  <2>1. 1 .. 0 = {} /\ 1 .. 0 \in SUBSET (1 .. n)
    OBVIOUS
  <2> QED BY <1>6, <2>1
<1>8. ASSUME NEW k \in 0 .. n - 1
      PROVE  it[1 .. k + 1] = Add(it[1 .. k], entries[k + 1].name)
  <2>1. k \in Nat /\ k + 1 \in 1 .. k + 1 /\ 1 .. k + 1 \in SUBSET (1 .. n)
    BY ONLY <1>2, k \in 0 .. n - 1
  <2>2. Max(1 .. k + 1) = k + 1 /\ (1 .. k + 1) \ {k + 1} = 1 .. k
    BY <2>1, MaxOfInterval
  <2>3. 1 .. k + 1 # {}
    BY ONLY <2>1
  <2> QED BY ONLY <1>6, <2>1, <2>2, <2>3
<1> QED BY <1>1, <1>2, <1>7, <1>8 DEF n

(* Afterwards all names have ids, and those that had one have kept it.     *)
LEMMA NamesAdded ==
    ASSUME NEW ids \in Seq(STRING), NEW entries \in Seq(MappingEntries)
    PROVE  LET all == AllNames(ids, entries)
           IN  /\ all \in Seq(STRING)
               /\ Len(ids) <= Len(all)
               /\ \A i \in 1 .. Len(ids) : all[i] = ids[i]
               /\ \A e \in DOMAIN entries : Contains(all, entries[e].name)
<1>1. PICK it : /\ it[1 .. 0] = ids
                /\ \A k \in 0 .. Len(entries) - 1 :
                      it[1 .. k + 1] = Add(it[1 .. k], entries[k + 1].name)
                /\ AllNames(ids, entries) = it[1 .. Len(entries)]
  BY NamesSteps
<1> DEFINE n == Len(entries)
           all(k) == it[1 .. k]
           Right(k) == /\ all(k) \in Seq(STRING)
                       /\ Len(ids) <= Len(all(k))
                       /\ \A i \in 1 .. Len(ids) : all(k)[i] = ids[i]
                       /\ \A e \in 1 .. k : Contains(all(k), entries[e].name)
           K == {k \in Nat : k <= n => Right(k)}
<1>2. n \in Nat /\ DOMAIN entries = 1 .. n
      /\ \A i \in 1 .. n : entries[i] \in MappingEntries
  BY LenProperties
<1>3. \A k \in 0 .. n - 1 : all(k + 1) = Add(all(k), entries[k + 1].name)
  BY <1>1
<1> HIDE DEF n
<1>4. Right(0)
  <2>1. all(0) = ids /\ Len(ids) \in Nat
    BY <1>1, LenProperties
  <2> HIDE DEF all
  <2> QED BY <2>1
<1> HIDE DEF all
<1>5. ASSUME NEW k \in Nat, k + 1 <= n, Right(k) PROVE Right(k + 1)
  <2> DEFINE old == all(k)
             new == all(k + 1)
             name == entries[k + 1].name
  <2>1. k \in 0 .. n - 1 /\ k + 1 \in 1 .. n /\ 1 .. k + 1 = (1 .. k) \union {k + 1}
    BY ONLY <1>2, k \in Nat, k + 1 <= n
  <2>2. new = Add(old, name) /\ name \in STRING
    BY <1>2, <1>3, <2>1, MappingEntry
  <2>3. /\ old \in Seq(STRING) /\ Len(ids) <= Len(old)
        /\ \A i \in 1 .. Len(ids) : old[i] = ids[i]
        /\ \A e \in 1 .. k : Contains(old, entries[e].name)
    BY <1>5
  <2> HIDE DEF old, new, name
  <2>4. /\ new \in Seq(STRING) /\ Contains(new, name) /\ Len(old) <= Len(new)
        /\ \A i \in 1 .. Len(old) : new[i] = old[i]
    BY <2>2, <2>3, AddType
  <2>5. Len(ids) \in Nat /\ Len(old) \in Nat /\ Len(new) \in Nat
    BY <2>3, <2>4, LenProperties
  <2>6. 1 .. Len(ids) \subseteq 1 .. Len(old) /\ Len(ids) <= Len(new)
    BY <2>3, <2>4, <2>5
  <2>7. \A x : Contains(old, x) => Contains(new, x)
    <3>1. 1 .. Len(old) \subseteq 1 .. Len(new)
      BY <2>4, <2>5
    <3> QED BY <2>4, <3>1 DEF Contains
  <2>8. \A e \in 1 .. k + 1 : Contains(new, entries[e].name)
    BY <2>1, <2>3, <2>4, <2>7 DEF name
  <2>9. \A i \in 1 .. Len(ids) : new[i] = ids[i]
    BY <2>3, <2>4, <2>6
  <2> QED BY <2>4, <2>6, <2>8, <2>9 DEF new
<1> HIDE DEF Right
<1>6. 0 \in K /\ \A k \in Nat : k \in K => k + 1 \in K
  <2>1. ASSUME NEW k \in Nat, k \in K PROVE k + 1 \in K
    <3>1. k + 1 \in Nat /\ (k + 1 <= n => k <= n)
      BY ONLY <1>2, k \in Nat
    <3> QED BY <1>5, <2>1, <3>1
  <2> QED BY <1>4, <2>1
<1> HIDE DEF K
<1>7. n \in K
  BY <1>2, <1>6, InductionOnSets
<1>8. Right(n)
  BY <1>2, <1>7 DEF K
<1> QED BY <1>1, <1>2, <1>8 DEF Right, all, n

(* new is map with value at the id, if map is long enough.                 *)
Replaces(new, map, id, value) ==
    \A i \in 1 .. Len(map) : new[i] = IF i = id + 1 THEN value ELSE map[i]

(* Storing at an id never shrinks the map, and changes no other place.     *)
LEMMA MapParam0Type ==
    ASSUME NEW V, -1 \in V, NEW map \in Seq(V), NEW id \in Nat, NEW value \in V
    PROVE  /\ MapParam0(map, id, value) \in Seq(V)
           /\ Len(map) <= Len(MapParam0(map, id, value))
           /\ Replaces(MapParam0(map, id, value), map, id, value)
<1> DEFINE n == Len(map)
           m == n + (IF id > n THEN id - n ELSE 0)
           F(i) == IF i = id + 1 THEN value ELSE IF i <= n THEN map[i] ELSE -1
           new == [i \in 1 .. m |-> F(i)]
<1>1. n \in Nat /\ m \in Nat /\ n <= m /\ \A i \in 1 .. n : map[i] \in V
  BY LenProperties
<1>2. MapParam0(map, id, value) = new
  BY DEF MapParam0
<1> HIDE DEF m, n
<1>3. \A i \in 1 .. m : F(i) \in V
  <2>1. \A i \in 1 .. m : i <= n => i \in 1 .. n
    BY <1>1
  <2> QED BY <1>1, <2>1
<1>4. \A i \in 1 .. n : i <= n /\ i \in 1 .. m
  BY <1>1
<1> HIDE DEF F
<1>5. new \in Seq(V)
  BY <1>1, <1>3, IsASeq
<1>6. Len(new) = m
  BY <1>1, <1>5, LenProperties
<1>7. \A i \in 1 .. n : new[i] = IF i = id + 1 THEN value ELSE map[i]
  BY <1>4 DEF F
<1> HIDE DEF new
<1>8. Replaces(new, map, id, value)
  BY <1>7 DEF Replaces, n
<1> QED BY <1>1, <1>2, <1>5, <1>6, <1>8 DEF n

(* The map starts with as many places as the mapping has entries.          *)
LEMMA EmptyMappingType ==
    ASSUME NEW V, -1 \in V, NEW count \in Nat
    PROVE  EmptyMapping(count) \in Seq(V) /\ Len(EmptyMapping(count)) = count
<1>1. EmptyMapping(count) \in [1 .. count -> V]
  BY DEF EmptyMapping
<1>2. EmptyMapping(count) \in Seq(V)
  BY <1>1
<1>3. DOMAIN EmptyMapping(count) = 1 .. count
  BY <1>1
<1> QED BY <1>2, <1>3, LenProperties

PairStored(ids, map, entry) == MapParam0(map, entry.id, IdOf(ids, entry.name))

(* An entry stores the id of a name.                                       *)
LEMMA MappingStepType ==
    ASSUME NEW ids \in Seq(STRING), NEW map \in Seq(-1 .. Len(ids) - 1),
           NEW entry \in MappingEntries
    PROVE  PairStored(ids, map, entry) \in Seq(-1 .. Len(ids) - 1)
<1>1. -1 \in -1 .. Len(ids) - 1
  BY LenProperties
<1>2. IdOf(ids, entry.name) \in -1 .. Len(ids) - 1
  BY IdOfIs
<1> QED BY <1>1, <1>2, MappingEntry, MapParam0Type DEF PairStored

\* The map when those of the entries are stored.
AllPairs(ids, count, entries) ==
    FoldLeft(LAMBDA m, e : MapParam0(m, e.id, IdOf(ids, e.name)), EmptyMapping(count),
             entries)

(* The pairs are stored one after the other.                               *)
LEMMA MappingSteps ==
  ASSUME NEW ids \in Seq(STRING), NEW count \in Nat,
         NEW entries \in Seq(MappingEntries)
  PROVE \E it : /\ it[1 .. 0] = EmptyMapping(count)
                /\ \A k \in 0 .. Len(entries) - 1 :
                      it[1 .. k + 1] = PairStored(ids, it[1 .. k], entries[k + 1])
                /\ AllPairs(ids, count, entries) = it[1 .. Len(entries)]
<1> DEFINE n == Len(entries)
           S == Seq(-1 .. Len(ids) - 1)
           T == MappingEntries
           G == [x \in S \X T |-> PairStored(ids, x[1], x[2])]
           IsIt(f) == f = [s \in SUBSET DOMAIN entries |->
                              IF s = {} THEN EmptyMapping(count)
                              ELSE PairStored(ids, f[s \ {Max(s)}], entries[Max(s)])]
           it == CHOOSE f : IsIt(f)
<1>1. AllPairs(ids, count, entries) = it[DOMAIN entries]
  BY DEF AllPairs, PairStored, FoldLeft, MapThenFoldSet
<1>2. n \in Nat /\ DOMAIN entries = 1 .. n /\ entries \in [1 .. n -> T]
  BY LenProperties
<1> HIDE DEF n
<1>3. EmptyMapping(count) \in S
  <2>1. -1 \in -1 .. Len(ids) - 1
    BY LenProperties
  <2> QED BY <2>1, EmptyMappingType
<1>4. \E f : IsIt(f)
  <2>1. G \in [S \X T -> S]
    BY MappingStepType
  <2> HIDE DEF G
  <2>2. PICK f \in [SUBSET (1 .. n) -> S] :
                IsFold(f, G, EmptyMapping(count), entries, n)
    BY <1>2, <1>3, <2>1, FoldExists
  <2>3. ASSUME NEW s \in SUBSET (1 .. n), s # {}
        PROVE  G[<<f[s \ {Max(s)}], entries[Max(s)]>>]
                 = PairStored(ids, f[s \ {Max(s)}], entries[Max(s)])
    <3>1. Max(s) \in 1 .. n
      BY <1>2, <2>3, MaxOfIndices
    <3>2. f[s \ {Max(s)}] \in S /\ entries[Max(s)] \in T
      BY <1>2, <3>1
    <3> HIDE DEF S, T
    <3> QED BY <3>2 DEF G
  <2>4. \A s \in SUBSET (1 .. n) : f[s] = IF s = {} THEN EmptyMapping(count)
                                    ELSE PairStored(ids, f[s \ {Max(s)}], entries[Max(s)])
    BY <2>2, <2>3 DEF IsFold
  <2>5. IsIt(f)
    BY <1>2, <2>2, <2>4
  <2> QED BY <2>5
<1>5. IsIt(it)
  BY <1>4
<1> HIDE DEF it
<1>6. \A s \in SUBSET (1 .. n) : it[s] = IF s = {} THEN EmptyMapping(count)
                                    ELSE PairStored(ids, it[s \ {Max(s)}], entries[Max(s)])
  BY <1>2, <1>5
<1>7. it[1 .. 0] = EmptyMapping(count)
  <2>1. 1 .. 0 = {} /\ 1 .. 0 \in SUBSET (1 .. n)
    OBVIOUS
  <2> QED BY <1>6, <2>1
<1>8. ASSUME NEW k \in 0 .. n - 1
      PROVE  it[1 .. k + 1] = PairStored(ids, it[1 .. k], entries[k + 1])
  <2>1. k \in Nat /\ k + 1 \in 1 .. k + 1 /\ 1 .. k + 1 \in SUBSET (1 .. n)
    BY ONLY <1>2, k \in 0 .. n - 1
  <2>2. Max(1 .. k + 1) = k + 1 /\ (1 .. k + 1) \ {k + 1} = 1 .. k
    BY <2>1, MaxOfInterval
  <2>3. 1 .. k + 1 # {}
    BY ONLY <2>1
  <2> QED BY ONLY <1>6, <2>1, <2>2, <2>3
<1> QED BY <1>1, <1>2, <1>7, <1>8 DEF n

\* An id that is less than the count, and the id of one entry only, has the
\* name of that entry.
IsStored(map, ids, count, entries, e) ==
    entries[e].id < count
          /\ (\A d \in DOMAIN entries : entries[d].id = entries[e].id => d = e)
       => map[entries[e].id + 1] = IdOf(ids, entries[e].name)

AllStored(map, ids, count, entries) ==
    \A e \in DOMAIN entries : IsStored(map, ids, count, entries, e)

(* Afterwards all pairs are in the map.                                    *)
LEMMA MappingStored ==
    ASSUME NEW ids \in Seq(STRING), NEW count \in Nat,
           NEW entries \in Seq(MappingEntries)
    PROVE  LET map == AllPairs(ids, count, entries)
           IN  /\ map \in Seq(-1 .. Len(ids) - 1)
               /\ count <= Len(map)
               /\ AllStored(map, ids, count, entries)
<1>1. PICK it : /\ it[1 .. 0] = EmptyMapping(count)
                /\ \A k \in 0 .. Len(entries) - 1 :
                      it[1 .. k + 1] = PairStored(ids, it[1 .. k], entries[k + 1])
                /\ AllPairs(ids, count, entries) = it[1 .. Len(entries)]
  BY MappingSteps
<1> DEFINE n == Len(entries)
           Values == -1 .. Len(ids) - 1
           stored(k) == it[1 .. k]
           Alone(e) == /\ entries[e].id < count
                       /\ \A d \in 1 .. n : entries[d].id = entries[e].id => d = e
           Value(e) == IdOf(ids, entries[e].name)
           Right(k) == /\ stored(k) \in Seq(Values)
                       /\ count <= Len(stored(k))
                       /\ \A e \in 1 .. k : Alone(e)
                             => stored(k)[entries[e].id + 1] = Value(e)
           K == {k \in Nat : k <= n => Right(k)}
<1>2. n \in Nat /\ DOMAIN entries = 1 .. n
      /\ \A i \in 1 .. n : entries[i] \in MappingEntries
  BY LenProperties
<1>3. \A k \in 0 .. n - 1 :
         stored(k + 1) = MapParam0(stored(k), entries[k + 1].id, Value(k + 1))
  BY <1>1 DEF PairStored
<1> HIDE DEF n, Value
<1>4. -1 \in Values /\ \A e : Value(e) \in Values
  <2>1. Len(ids) \in Nat
    BY LenProperties
  <2> QED BY <2>1, IdOfIs DEF Value
<1>5. \A i \in 1 .. n : entries[i].id \in Nat
  BY <1>2, MappingEntry
<1> HIDE DEF Values
<1>6. Right(0)
  <2>1. stored(0) = EmptyMapping(count)
    BY <1>1
  <2> HIDE DEF stored
  <2>2. stored(0) \in Seq(Values) /\ Len(stored(0)) = count
    BY <1>4, <2>1, EmptyMappingType
  <2> QED BY <2>2
<1> HIDE DEF stored
<1>7. ASSUME NEW k \in Nat, k + 1 <= n, Right(k) PROVE Right(k + 1)
  <2> DEFINE old == stored(k)
             new == stored(k + 1)
             id == entries[k + 1].id
  <2>1. k \in 0 .. n - 1 /\ k + 1 \in 1 .. n /\ 1 .. k + 1 = (1 .. k) \union {k + 1}
    BY ONLY <1>2, k \in Nat, k + 1 <= n
  <2>2. id \in Nat /\ new = MapParam0(old, id, Value(k + 1))
    BY <1>3, <1>5, <2>1
  <2>3. /\ old \in Seq(Values) /\ count <= Len(old)
        /\ \A e \in 1 .. k : Alone(e) => old[entries[e].id + 1] = Value(e)
    BY <1>7
  <2>4. \A e \in 1 .. k : e \in 1 .. n /\ e # k + 1
    BY ONLY <1>2, k \in Nat, k + 1 <= n
  <2> DEFINE v == Value(k + 1)
  <2>10. -1 \in Values /\ v \in Values
    BY <1>4
  <2> HIDE DEF old, new, id, v
  <2>5. /\ new \in Seq(Values) /\ Len(old) <= Len(new)
        /\ \A i \in 1 .. Len(old) : new[i] = IF i = id + 1 THEN v ELSE old[i]
    <3>1. new = MapParam0(old, id, v)
      BY <2>2 DEF v
    <3>2. id \in Nat /\ v \in Values /\ old \in Seq(Values) /\ -1 \in Values
      BY <2>2, <2>3, <2>10
    <3>3. /\ MapParam0(old, id, v) \in Seq(Values)
          /\ Len(old) <= Len(MapParam0(old, id, v))
          /\ Replaces(MapParam0(old, id, v), old, id, v)
      BY ONLY <3>2, MapParam0Type, Zenon
    <3> QED BY ONLY <3>1, <3>3 DEF Replaces
  <2>6. Len(old) \in Nat /\ Len(new) \in Nat /\ count <= Len(new)
    BY <2>3, <2>5, LenProperties
  <2>7. ASSUME NEW e \in 1 .. k + 1, Alone(e) PROVE new[entries[e].id + 1] = Value(e)
    <3>1. e \in 1 .. n /\ entries[e].id \in Nat /\ entries[e].id < count
      BY <1>5, <2>1, <2>4, <2>7
    <3> DEFINE i == entries[e].id
    <3>2. i \in Nat /\ i < count
      BY <3>1
    <3> HIDE DEF i
    <3>3. i + 1 \in 1 .. Len(old)
      BY ONLY <2>3, <2>6, <3>2, count \in Nat
    <3>4. CASE e = k + 1
      BY <2>5, <3>3, <3>4 DEF i, id, v
    <3>5. CASE e # k + 1
      <4>1. e \in 1 .. k
        BY <2>1, <3>5
      <4>2. i # id
        BY <2>1, <2>7, <3>5 DEF i, id
      <4>3. i + 1 # id + 1
        BY <2>2, <3>2, <4>2
      <4>4. new[i + 1] = old[i + 1]
        BY <2>5, <3>3, <4>3
      <4> QED BY <2>3, <2>7, <4>1, <4>4 DEF i
    <3> QED BY <3>4, <3>5
  <2> QED BY <2>5, <2>6, <2>7 DEF new
<1>8. \A k \in Nat : Right(k) /\ k = n =>
         \A e \in 1 .. n : Alone(e) => stored(n)[entries[e].id + 1] = Value(e)
  OBVIOUS
<1>9. \A k \in Nat : Right(k) => stored(k) \in Seq(Values) /\ count <= Len(stored(k))
  OBVIOUS
<1> HIDE DEF Right
<1>10. 0 \in K /\ \A k \in Nat : k \in K => k + 1 \in K
  <2>1. ASSUME NEW k \in Nat, k \in K PROVE k + 1 \in K
    <3>1. k + 1 \in Nat /\ (k + 1 <= n => k <= n)
      BY ONLY <1>2, k \in Nat
    <3> QED BY <1>7, <2>1, <3>1
  <2> QED BY <1>6, <2>1
<1> HIDE DEF K
<1>11. n \in K
  BY <1>2, <1>10, InductionOnSets
<1>12. Right(n)
  BY <1>2, <1>11 DEF K
<1>13. \A e \in DOMAIN entries : Alone(e) => stored(n)[entries[e].id + 1] = Value(e)
  BY <1>2, <1>8, <1>12
<1>14. stored(n) \in Seq(Values) /\ count <= Len(stored(n))
  BY <1>2, <1>9, <1>12
<1> QED BY <1>1, <1>2, <1>13, <1>14 DEF stored, n, Values, Value, IsStored, AllStored
-----------------------------------------------------------------------------
(* The metadata.                                                           *)

NodeType == [param_0 : U16, metadata : Seq(Variables), inventory : Inventories]
NodesType == [0 .. NodesPerBlock - 1 -> NodeType]

MetadataAdded(ns, entry) == [ns EXCEPT ![entry.pos] = MetadataOf(@, entry)]

(* A node before anything is read.                                         *)
LEMMA NewNodeType == NewNode \in NodeType
<1>1. 0 \in U16
  BY DEF U16
<1>2. <<>> \in Seq(Variables)
  BY EmptySeq
<1>3. NoInventory \in Inventories
  BY NoInventoryType
<1> DEFINE e == <<>>
<1> HIDE DEF e
<1>4. [param_0 |-> 0, metadata |-> e, inventory |-> NoInventory] \in NodeType
  BY <1>1, <1>2, <1>3 DEF NodeType, e
<1> QED BY <1>4 DEF NewNode, e

(* Metadata does not change param_0.                                       *)
LEMMA MetadataOfType ==
    ASSUME NEW node \in NodeType, NEW entry \in MetadataEntries
    PROVE  /\ MetadataOf(node, entry) \in NodeType
           /\ MetadataOf(node, entry).param_0 = node.param_0
<1> DEFINE m == node.metadata \o entry.vars
           l == deserialize_inventory(node.inventory, entry.lines).lists
           a == [node EXCEPT !.metadata = m]
           b == [a EXCEPT !.inventory = l]
<1>1. /\ node.metadata \in Seq(Variables) /\ entry.vars \in Seq(Variables)
      /\ node.inventory \in Inventories /\ entry.lines \in Seq(InventoryLines)
  BY DEF NodeType, MetadataEntries
<1>2. m \in Seq(Variables)
  BY <1>1, ConcatProperties
<1>3. deserialize_inventory(node.inventory, entry.lines) \in Parsers
  BY <1>1, InventoryIsAccepted
<1>4. l \in Inventories
  BY <1>3 DEF Parsers
<1>5. MetadataOf(node, entry) = b
  BY DEF MetadataOf, NodeType
<1> HIDE DEF m, l
<1>6. a \in NodeType /\ a.param_0 = node.param_0
  BY <1>2 DEF NodeType
<1> HIDE DEF a
<1>7. b \in NodeType /\ b.param_0 = a.param_0
  BY <1>4, <1>6 DEF NodeType
<1> QED BY <1>5, <1>6, <1>7

(* An entry changes the metadata of one node.                              *)
LEMMA MetadataAddedType ==
    ASSUME NEW ns \in NodesType, NEW entry \in MetadataEntries
    PROVE  /\ MetadataAdded(ns, entry) \in NodesType
           /\ \A i \in 0 .. NodesPerBlock - 1 :
                 MetadataAdded(ns, entry)[i].param_0 = ns[i].param_0
<1> DEFINE N == 0 .. NodesPerBlock - 1
           new == MetadataAdded(ns, entry)
<1>1. ns \in [N -> NodeType]
  BY DEF NodesType
<1>2. new = [i \in N |-> IF i = entry.pos THEN MetadataOf(ns[i], entry) ELSE ns[i]]
  BY <1>1 DEF MetadataAdded
<1> HIDE DEF N, new
<1>3. \A i \in N :
         /\ new[i] = IF i = entry.pos THEN MetadataOf(ns[i], entry) ELSE ns[i]
         /\ ns[i] \in NodeType
         /\ MetadataOf(ns[i], entry) \in NodeType
         /\ MetadataOf(ns[i], entry).param_0 = ns[i].param_0
  BY <1>1, <1>2, MetadataOfType
<1>4. \A i \in N : new[i] \in NodeType /\ new[i].param_0 = ns[i].param_0
  BY <1>3
<1>5. new \in [N -> NodeType]
  BY <1>2, <1>4
<1> QED BY <1>4, <1>5 DEF new, N, NodesType

\* The nodes when the entries are added.
AllMetadata(ns, entries) ==
    FoldLeft(LAMBDA m, e : [m EXCEPT ![e.pos] = MetadataOf(@, e)], ns, entries)

(* The entries are added one after the other.                              *)
LEMMA MetadataSteps ==
  ASSUME NEW ns \in NodesType, NEW entries \in Seq(MetadataEntries)
  PROVE \E it : /\ it[1 .. 0] = ns
                /\ \A k \in 0 .. Len(entries) - 1 :
                      it[1 .. k + 1] = MetadataAdded(it[1 .. k], entries[k + 1])
                /\ AllMetadata(ns, entries) = it[1 .. Len(entries)]
<1> DEFINE n == Len(entries)
           S == NodesType
           T == MetadataEntries
           G == [x \in S \X T |-> MetadataAdded(x[1], x[2])]
           IsIt(f) == f = [s \in SUBSET DOMAIN entries |->
                              IF s = {} THEN ns
                              ELSE MetadataAdded(f[s \ {Max(s)}], entries[Max(s)])]
           it == CHOOSE f : IsIt(f)
<1>1. AllMetadata(ns, entries) = it[DOMAIN entries]
  BY DEF AllMetadata, MetadataAdded, FoldLeft, MapThenFoldSet
<1>2. n \in Nat /\ DOMAIN entries = 1 .. n /\ entries \in [1 .. n -> T]
  BY LenProperties
<1> HIDE DEF n
<1>4. \E f : IsIt(f)
  <2>1. G \in [S \X T -> S]
    BY MetadataAddedType
  <2> HIDE DEF G
  <2>2. PICK f \in [SUBSET (1 .. n) -> S] : IsFold(f, G, ns, entries, n)
    BY <1>2, <2>1, FoldExists
  <2>3. ASSUME NEW s \in SUBSET (1 .. n), s # {}
        PROVE  G[<<f[s \ {Max(s)}], entries[Max(s)]>>]
                 = MetadataAdded(f[s \ {Max(s)}], entries[Max(s)])
    <3>1. Max(s) \in 1 .. n
      BY <1>2, <2>3, MaxOfIndices
    <3>2. f[s \ {Max(s)}] \in S /\ entries[Max(s)] \in T
      BY <1>2, <3>1
    <3> HIDE DEF S, T
    <3> QED BY <3>2 DEF G
  <2>4. \A s \in SUBSET (1 .. n) : f[s] = IF s = {} THEN ns
                                    ELSE MetadataAdded(f[s \ {Max(s)}], entries[Max(s)])
    BY <2>2, <2>3 DEF IsFold
  <2>5. IsIt(f)
    BY <1>2, <2>2, <2>4
  <2> QED BY <2>5
<1>5. IsIt(it)
  BY <1>4
<1> HIDE DEF it
<1>6. \A s \in SUBSET (1 .. n) : it[s] = IF s = {} THEN ns
                                    ELSE MetadataAdded(it[s \ {Max(s)}], entries[Max(s)])
  BY <1>2, <1>5
<1>7. it[1 .. 0] = ns
  <2>1. 1 .. 0 = {} /\ 1 .. 0 \in SUBSET (1 .. n)
    OBVIOUS
  <2> QED BY <1>6, <2>1
<1>8. ASSUME NEW k \in 0 .. n - 1
      PROVE  it[1 .. k + 1] = MetadataAdded(it[1 .. k], entries[k + 1])
  <2>1. k \in Nat /\ k + 1 \in 1 .. k + 1 /\ 1 .. k + 1 \in SUBSET (1 .. n)
    BY ONLY <1>2, k \in 0 .. n - 1
  <2>2. Max(1 .. k + 1) = k + 1 /\ (1 .. k + 1) \ {k + 1} = 1 .. k
    BY <2>1, MaxOfInterval
  <2>3. 1 .. k + 1 # {}
    BY ONLY <2>1
  <2> QED BY ONLY <1>6, <2>1, <2>2, <2>3
<1> QED BY <1>1, <1>2, <1>7, <1>8 DEF n

(* All entries together do not change a param_0 either.                    *)
LEMMA MetadataStored ==
    ASSUME NEW ns \in NodesType, NEW entries \in Seq(MetadataEntries)
    PROVE  LET all == AllMetadata(ns, entries)
           IN  /\ all \in NodesType
               /\ \A i \in 0 .. NodesPerBlock - 1 : all[i].param_0 = ns[i].param_0
<1>1. PICK it : /\ it[1 .. 0] = ns
                /\ \A k \in 0 .. Len(entries) - 1 :
                      it[1 .. k + 1] = MetadataAdded(it[1 .. k], entries[k + 1])
                /\ AllMetadata(ns, entries) = it[1 .. Len(entries)]
  BY MetadataSteps
<1> DEFINE n == Len(entries)
           all(k) == it[1 .. k]
           Right(k) == /\ all(k) \in NodesType
                       /\ \A i \in 0 .. NodesPerBlock - 1 :
                             all(k)[i].param_0 = ns[i].param_0
           K == {k \in Nat : k <= n => Right(k)}
<1>2. n \in Nat /\ \A i \in 1 .. n : entries[i] \in MetadataEntries
  BY LenProperties
<1>3. \A k \in 0 .. n - 1 : all(k + 1) = MetadataAdded(all(k), entries[k + 1])
  BY <1>1
<1> HIDE DEF n
<1>4. Right(0)
  BY <1>1
<1> HIDE DEF all
<1>5. ASSUME NEW k \in Nat, k + 1 <= n, Right(k) PROVE Right(k + 1)
  <2>1. k \in 0 .. n - 1 /\ k + 1 \in 1 .. n
    BY ONLY <1>2, k \in Nat, k + 1 <= n
  <2>2. /\ MetadataAdded(all(k), entries[k + 1]) \in NodesType
        /\ \A i \in 0 .. NodesPerBlock - 1 :
              MetadataAdded(all(k), entries[k + 1])[i].param_0 = all(k)[i].param_0
    BY <1>2, <1>5, <2>1, MetadataAddedType
  <2> QED BY <1>3, <1>5, <2>1, <2>2
<1> HIDE DEF Right
<1>6. 0 \in K /\ \A k \in Nat : k \in K => k + 1 \in K
  <2>1. ASSUME NEW k \in Nat, k \in K PROVE k + 1 \in K
    <3>1. k + 1 \in Nat /\ (k + 1 <= n => k <= n)
      BY ONLY <1>2, k \in Nat
    <3> QED BY <1>5, <2>1, <3>1
  <2> QED BY <1>4, <2>1
<1> HIDE DEF K
<1>7. n \in K
  BY <1>2, <1>6, InductionOnSets
<1>8. Right(n)
  BY <1>2, <1>7 DEF K
<1> QED BY <1>1, <1>2, <1>8 DEF Right, all, n
-----------------------------------------------------------------------------
(* The formats, and the parts of a file.                                   *)

PartNames == {"version", "zstd", "header", "widths", "nodes_28", "metadata_28",
             "nodes_29",
              "metadata_29", "objects", "timestamp", "mapping", "timers", "remap",
              "verify"}

Todo(blob) == IF HasFormat(blob, 28) THEN Format28 ELSE Tail(Format29)

\* The data is that of a block, behind the version and in one stream.
HasBody(blob) == HasFormat(blob, 28) \/ (HasFormat(blob, 29) /\ Len(blob) = 2)

(* The parts of format 28 in their order.                                  *)
LEMMA Format28Is ==
    /\ Format28 \in Seq(PartNames) /\ Len(Format28) = 10
    /\ Format28[1] = "header" /\ Format28[2] = "widths" /\ Format28[3] = "nodes_28"
    /\ Format28[4] = "metadata_28" /\ Format28[5] = "objects"
    /\ Format28[6] = "timestamp" /\ Format28[7] = "mapping" /\ Format28[8] = "timers"
    /\ Format28[9] = "remap" /\ Format28[10] = "verify"
  BY DEF Format28, PartNames

(* The parts of format 29 in their order.                                  *)
LEMMA Format29Is ==
    /\ Format29 \in Seq(PartNames) /\ Len(Format29) = 12 /\ Format29 # <<>>
    /\ Format29[1] = "zstd" /\ Format29[2] = "header" /\ Format29[3] = "timestamp"
    /\ Format29[4] = "mapping" /\ Format29[5] = "widths" /\ Format29[6] = "nodes_29"
    /\ Format29[7] = "metadata_29" /\ Format29[8] = "objects"
          /\ Format29[9] = "timers"
    /\ Format29[10] = "verify" /\ Format29[11] = "remap" /\ Format29[12] = "verify"
  BY DEF Format29, PartNames

(* What is to read behind the version and the start of the stream.         *)
LEMMA TodoIs ==
    ASSUME NEW blob
    PROVE  /\ Todo(blob) \in Seq(PartNames)
           /\ HasFormat(blob, 28) => Todo(blob) = Format28
           /\ ~ HasFormat(blob, 28) =>
                 /\ Len(Todo(blob)) = 11
                 /\ \A k \in 1 .. 11 : Todo(blob)[k] = Format29[k + 1]
<1>1. /\ Tail(Format29) \in Seq(PartNames) /\ Len(Tail(Format29)) = 12 - 1
      /\ \A k \in 1 .. Len(Tail(Format29)) : Tail(Format29)[k] = Format29[k + 1]
  BY Format29Is, HeadTailProperties
<1>2. 12 - 1 = 11
  OBVIOUS
<1> QED BY <1>1, <1>2, Format28Is DEF Todo

(* What is read as part k has the kind of part k of the file.              *)
LEMMA KindsAgree ==
    ASSUME NEW blob, NEW k \in 1 .. 8
    PROVE  /\ HasFormat(blob, 28) => Kind(Todo(blob)[k]) = Order28[k]
           /\ ~ HasFormat(blob, 28) => Kind(Todo(blob)[k]) = Order29[k]
           /\ Todo(blob)[k] \notin {"remap", "verify", "version", "zstd"}
           /\ k \in DOMAIN Order28 /\ k \in DOMAIN Order29
<1>1. \A j \in 1 .. 8 : Kind(Format28[j]) = Order28[j]
  <2>1. /\ Order28[1] = "header" /\ Order28[2] = "widths" /\ Order28[3] = "zlib"
        /\ Order28[4] = "zlib" /\ Order28[5] = "objects" /\ Order28[6] = "timestamp"
        /\ Order28[7] = "mapping" /\ Order28[8] = "timers"
    BY DEF Order28
  <2> QED BY <2>1, Format28Is DEF Kind
<1>2. \A j \in 1 .. 8 : Kind(Format29[j + 1]) = Order29[j]
  <2>1. /\ Order29[1] = "header" /\ Order29[2] = "timestamp" /\ Order29[3] = "mapping"
        /\ Order29[4] = "widths" /\ Order29[5] = "nodes" /\ Order29[6] = "metadata"
        /\ Order29[7] = "objects" /\ Order29[8] = "timers"
    BY DEF Order29
  <2> QED BY <2>1, Format29Is DEF Kind
<1>3. k \in DOMAIN Order28 /\ k \in DOMAIN Order29
  BY DEF Order28, Order29
<1>4. k \in 1 .. 11
  OBVIOUS
<1>5. \A j \in 1 .. 8 : Format28[j] \notin {"remap", "verify", "version", "zstd"}
  BY Format28Is
<1>6. \A j \in 1 .. 8 : Format29[j + 1] \notin {"remap", "verify", "version", "zstd"}
  BY Format29Is
<1> QED BY <1>1, <1>2, <1>3, <1>4, <1>5, <1>6, TodoIs

FieldKinds == {"header", "timestamp", "version", "widths", "nodes", "metadata",
              "mapping",
               "objects", "timers"}

(* A field is a part that is not compressed.                               *)
LEMMA FieldIsPart ==
    ASSUME NEW p, IsField(p)
    PROVE  IsPart(p) /\ p.kind \in FieldKinds
  BY DEF IsField, IsPart, FieldKinds

(* The file as a sequence of parts.                                        *)
LEMMA BlobIs ==
    ASSUME NEW f \in AllFiles
    PROVE  /\ f.blob \in Seq(Range(f.blob)) /\ Len(f.blob) \in Nat
           /\ DOMAIN f.blob = 1 .. Len(f.blob)
           /\ \A k \in 1 .. Len(f.blob) : IsPart(f.blob[k])
           /\ f.blob # <<>> => f.blob[1].kind = "version" /\ 1 \in 1 .. Len(f.blob)
           /\ HasFormat(f.blob, 28) => ~ HasFormat(f.blob, 29)
<1>1. IsBlob(f.blob)
  BY FilesAssumption
<1>2. IsSequence(f.blob) /\ \A k \in DOMAIN f.blob : IsPart(f.blob[k])
  BY <1>1 DEF IsBlob
<1>3. f.blob \in Seq(Range(f.blob)) /\ Len(f.blob) \in Nat
      /\ DOMAIN f.blob = 1 .. Len(f.blob)
  BY <1>2, SequenceType
<1>4. f.blob # <<>> => 1 \in 1 .. Len(f.blob)
  BY <1>3, EmptySeq
<1>5. f.blob # <<>> => f.blob[1].kind = "version"
  BY <1>1 DEF IsBlob
<1>6. HasFormat(f.blob, 28) => ~ HasFormat(f.blob, 29)
  BY DEF HasFormat
<1> QED BY <1>2, <1>3, <1>4, <1>5, <1>6

\* the kinds of the parts in their order
Order(blob) == IF HasFormat(blob, 28) THEN Order28 ELSE Order29

(* What comes behind the version, as a sequence of parts in their order.   *)
LEMMA BodyIs ==
    ASSUME NEW f \in AllFiles, HasBody(f.blob)
    PROVE  /\ Body(f.blob) \in Seq(Range(Body(f.blob))) /\ Len(Body(f.blob)) \in Nat
           /\ DOMAIN Body(f.blob) = 1 .. Len(Body(f.blob))
           /\ \A k \in 1 .. Len(Body(f.blob)) : IsPart(Body(f.blob)[k])
           /\ Follows(Body(f.blob), Order(f.blob))
           /\ HasFormat(f.blob, 28) => /\ StartsWith(Body(f.blob), 3, "nodes")
                                       /\ StartsWith(Body(f.blob), 4, "metadata")
<1> DEFINE blob == f.blob
           body == Body(blob)
<1>1. IsBlob(blob)
  BY FilesAssumption
<1>2. /\ blob \in Seq(Range(blob)) /\ Len(blob) \in Nat
      /\ \A k \in 1 .. Len(blob) : IsPart(blob[k])
  BY BlobIs
<1>3. HasFormat(blob, 28) => /\ Follows(body, Order28)
                             /\ StartsWith(body, 3, "nodes")
                                   /\ StartsWith(body, 4, "metadata")
  BY <1>1 DEF IsBlob
<1>4. HasFormat(blob, 29) /\ Len(blob) = 2 => blob[2].kind = "zstd"
      /\ Follows(body, Order29)
  BY <1>1 DEF IsBlob
<1>5. Follows(body, Order(blob))
  BY <1>3, <1>4 DEF Order, HasBody
<1>6. CASE HasFormat(blob, 28)
  <2>1. body = Tail(blob) /\ blob # <<>>
    BY <1>6 DEF Body, HasFormat
  <2> HIDE DEF body, blob
  <2>2. /\ body \in Seq(Range(blob)) /\ Len(body) = Len(blob) - 1
        /\ \A k \in 1 .. Len(body) : body[k] = blob[k + 1]
    BY <1>2, <2>1, HeadTailProperties
  <2>3. Len(body) \in Nat /\ DOMAIN body = 1 .. Len(body)
        /\ body \in [1 .. Len(body) -> Range(blob)]
    BY <2>2, LenProperties
  <2>4. body \in [1 .. Len(body) -> Range(body)]
    BY <2>3 DEF Range
  <2>5. body \in Seq(Range(body))
    BY <2>3, <2>4, IsASeq
  <2>6. \A k \in 1 .. Len(body) : k + 1 \in 1 .. Len(blob)
    BY <1>2, <2>2, <2>3
  <2>7. \A k \in 1 .. Len(body) : IsPart(body[k])
    BY <1>2, <2>2, <2>6
  <2> QED BY <1>3, <1>5, <2>3, <2>5, <2>7 DEF body, blob
<1>7. CASE ~ HasFormat(blob, 28)
  <2>1. Len(blob) = 2 /\ blob[2].kind = "zstd"
    BY <1>4, <1>7 DEF HasBody
  <2>2. 2 \in 1 .. Len(blob)
    BY <2>1
  <2>3. body = blob[2].content
    BY <1>7 DEF Body
  <2>4. IsPart(blob[2])
    BY <1>2, <2>2
  <2>5. AreFields(body)
    BY <2>1, <2>3, <2>4 DEF IsPart
  <2> HIDE DEF body, blob
  <2>6. IsSequence(body) /\ \A k \in DOMAIN body : IsField(body[k])
    BY <2>5 DEF AreFields
  <2>7. body \in Seq(Range(body)) /\ Len(body) \in Nat /\ DOMAIN body = 1 .. Len(body)
    BY <2>6, SequenceType
  <2>8. \A k \in 1 .. Len(body) : IsPart(body[k])
    BY <2>6, <2>7, FieldIsPart
  <2> QED BY <1>5, <1>7, <2>7, <2>8 DEF body, blob
<1> QED BY <1>6, <1>7
-----------------------------------------------------------------------------
(* The inductive invariant.                                                *)

PartsRead(k) == IF k < 8 THEN k ELSE 8

NodesRead(blob, k) == IF HasFormat(blob, 28) THEN k \in 3 .. 8 ELSE k \in 5 .. 9
MappingRead(blob, k) == IF HasFormat(blob, 28) THEN k >= 7 ELSE k >= 3

IsAfter(blob, k) ==
    /\ k \in 0 .. Len(Todo(blob)) - 1
    /\ todo = Drop(Todo(blob), k)
    /\ PartsRead(k) <= Len(Body(blob))
    /\ rest = Drop(Body(blob), PartsRead(k))

ReadParts(blob, k) ==
    /\ \A j \in 1 .. PartsRead(k) :
          \/ IsSupportedPart(Body(blob)[j])
          \/ HasFormat(blob, 28) /\ j = 4 /\ ~ Body(blob)[4].whole
    /\ ~ HasFormat(blob, 28) /\ k > 8 => Len(Body(blob)) = 8
    /\ NodesRead(blob, k) =>
          \A i \in DOMAIN nodes : nodes[i].param_0 = NodesIn(blob).entries[i + 1]
    /\ MappingRead(blob, k) => Len(param0_map) >= MappingIn(blob).count

Stage(blob) ==
    \/ rest = blob /\ todo = <<"version">>
    \/ HasFormat(blob, 29) /\ rest = Tail(blob) /\ todo = Format29
    \/ HasBody(blob) /\ \E k \in 0 .. 11 : IsAfter(blob, k) /\ ReadParts(blob, k)

Verdict(blob) ==
    CASE outcome = "reading"  -> Stage(blob)
      [] outcome = "ok"       -> IsSupported(blob)
      [] outcome = "rejected" -> ~ IsSupported(blob)
      [] outcome \in {"aborted", "undefined"} -> ~ IdsAreMapped(blob)

Types ==
    /\ nodes \in NodesType
    /\ node_ids \in Seq(STRING)
    /\ param0_map \in Seq(-1 .. Len(node_ids) - 1)
    /\ outcome \in {"reading", "ok", "rejected", "aborted", "undefined"}

(* At part k of the file, the part that is read has the kind it should.    *)
LEMMA PartAt ==
    ASSUME NEW f \in AllFiles, HasBody(f.blob), NEW k \in 0 .. 7, IsAfter(f.blob, k),
           rest # <<>>
    PROVE  /\ k + 1 \in 1 .. Len(Body(f.blob))
           /\ Head(rest) = Body(f.blob)[k + 1] /\ IsPart(Head(rest))
           /\ Tail(rest) = Drop(Body(f.blob), k + 1)
           /\ Head(rest).kind = Kind(Head(todo))
           /\ k + 1 \in 1 .. 8
<1> DEFINE body == Body(f.blob)
           t == Todo(f.blob)
<1>1. body \in Seq(Range(body)) /\ Len(body) \in Nat /\ DOMAIN body = 1 .. Len(body)
      /\ \A j \in 1 .. Len(body) : IsPart(body[j])
      /\ Follows(body, Order(f.blob))
  BY BodyIs
<1>2. PartsRead(k) = k /\ k \in Nat /\ k + 1 \in 1 .. 8
  BY DEF PartsRead
<1>3. k <= Len(body) /\ rest = Drop(body, k) /\ todo = Drop(t, k)
  BY <1>2 DEF IsAfter
<1>4. t \in Seq(PartNames) /\ Len(t) \in Nat /\ k <= Len(t) /\ k < Len(t)
  <2> DEFINE m == Len(t)
  <2>1. m = 10 \/ m = 11
    BY TodoIs, Format28Is
  <2>2. t \in Seq(PartNames)
    BY TodoIs
  <2> HIDE DEF m
  <2>3. m \in Nat /\ k <= m /\ k < m
    BY <2>1
  <2> QED BY <2>2, <2>3 DEF m
<1> HIDE DEF body, t
<1>5. k < Len(body)
  BY <1>1, <1>2, <1>3, DropSteps
<1>6. Head(rest) = body[k + 1] /\ Tail(rest) = Drop(body, k + 1)
  <2>1. k <= Len(body)
    BY <1>3
  <2>2. k < Len(body) => Head(Drop(body, k)) = body[k + 1]
        /\ Tail(Drop(body, k)) = Drop(body, k + 1)
    BY <1>1, <1>2, <2>1, DropSteps
  <2> QED BY <1>3, <1>5, <2>2
<1>7. Head(todo) = t[k + 1]
  BY <1>2, <1>3, <1>4, DropSteps
<1>8. k + 1 \in 1 .. Len(body)
  BY <1>1, <1>2, <1>5
<1>9. k + 1 \in DOMAIN Order28 /\ k + 1 \in DOMAIN Order29
  BY <1>2, KindsAgree
<1>10. k + 1 \in DOMAIN body \intersect DOMAIN Order(f.blob)
  BY <1>1, <1>8, <1>9 DEF Order
<1>11. body[k + 1].kind = Order(f.blob)[k + 1]
  BY <1>1, <1>10 DEF Follows
<1>12. Order(f.blob)[k + 1] = Kind(t[k + 1])
  BY <1>2, KindsAgree DEF Order, t
<1> QED BY <1>1, <1>2, <1>6, <1>7, <1>8, <1>11, <1>12 DEF body
-----------------------------------------------------------------------------
(* Steps.                                                                  *)

NodesPart(blob) == IF HasFormat(blob, 28) THEN 2 ELSE 4
MappingPart(blob) == IF HasFormat(blob, 28) THEN 6 ELSE 2

(* The place of each part in the two formats.                              *)
LEMMA PlaceOf ==
    ASSUME NEW blob, NEW k \in 0 .. Len(Todo(blob)) - 1
    PROVE  LET part == Todo(blob)[k + 1]
           IN  /\ part \notin {"version", "zstd"}
               /\ part \notin {"remap", "verify"} <=> k \in 0 .. 7
               /\ part \in {"nodes_28", "nodes_29"} <=> k = NodesPart(blob)
               /\ part \in {"metadata_28", "metadata_29"} <=> k = NodesPart(blob) + 1
               /\ part = "mapping" <=> k = MappingPart(blob)
               /\ part \in {"nodes_28", "metadata_28"} => HasFormat(blob, 28)
               /\ part \in {"nodes_29", "metadata_29"} => ~ HasFormat(blob, 28)
               /\ part = "metadata_28" => k = 3
               /\ part = "remap" => k = IF HasFormat(blob, 28) THEN 8 ELSE 9
               /\ part = "verify"
                     => k \in IF HasFormat(blob, 28) THEN {9} ELSE {8, 10}
<1>1. CASE HasFormat(blob, 28)
  <2>1. Todo(blob) = Format28 /\ k \in 0 .. 9
    <3>1. Todo(blob) = Format28 /\ Len(Todo(blob)) = 10
      BY <1>1, TodoIs, Format28Is
    <3> QED BY <3>1
  <2>2. k \in 0 .. 7 <=> k \notin {8, 9}
    BY <2>1
  <2>3. \A j \in 0 .. 9 :
            /\ Format28[j + 1] \notin {"version", "zstd", "nodes_29", "metadata_29"}
            /\ Format28[j + 1] \notin {"remap", "verify"} <=> j \notin {8, 9}
            /\ Format28[j + 1] = "nodes_28" <=> j = 2
            /\ Format28[j + 1] = "mapping" <=> j = 6
            /\ Format28[j + 1] = "metadata_28" <=> j = 3
            /\ Format28[j + 1] = "remap" => j = 8
            /\ Format28[j + 1] = "verify" => j = 9
    BY Format28Is
  <2> QED BY <1>1, <2>1, <2>2, <2>3 DEF NodesPart, MappingPart
<1>2. CASE ~ HasFormat(blob, 28)
  <2>1. k \in 0 .. 10 /\ Todo(blob)[k + 1] = Format29[k + 2]
    <3>1. Len(Todo(blob)) = 11 /\ \A j \in 1 .. 11 : Todo(blob)[j] = Format29[j + 1]
      BY <1>2, TodoIs
    <3>2. k \in 0 .. 10 /\ k + 1 \in 1 .. 11 /\ k + 1 + 1 = k + 2
      BY <3>1
    <3> QED BY <3>1, <3>2
  <2>2. k \in 0 .. 7 <=> k \notin {8, 9, 10}
    BY <2>1
  <2>3. \A j \in 0 .. 10 :
            /\ Format29[j + 2] \notin {"version", "zstd", "nodes_28", "metadata_28"}
            /\ Format29[j + 2] \notin {"remap", "verify"} <=> j \notin {8, 9, 10}
            /\ Format29[j + 2] = "nodes_29" <=> j = 4
            /\ Format29[j + 2] = "metadata_29" <=> j = 5
            /\ Format29[j + 2] = "mapping" <=> j = 2
            /\ Format29[j + 2] = "remap" => j = 9
            /\ Format29[j + 2] = "verify" => j \in {8, 10}
    BY Format29Is
  <2> QED BY <1>2, <2>1, <2>2, <2>3 DEF NodesPart, MappingPart
<1> QED BY <1>1, <1>2

(* What is to read when k parts are behind.                                *)
LEMMA AfterIs ==
    ASSUME NEW blob, NEW k, IsAfter(blob, k)
    PROVE  /\ Head(todo) = Todo(blob)[k + 1]
           /\ k + 1 < Len(Todo(blob)) => Tail(todo) = Drop(Todo(blob), k + 1)
           /\ Len(todo) = Len(Todo(blob)) - k
           /\ todo \in Seq(PartNames)
           /\ k \in 0 .. Len(Todo(blob)) - 1 /\ k \in Nat
           /\ Len(Todo(blob)) = IF HasFormat(blob, 28) THEN 10 ELSE 11
<1> DEFINE t == Todo(blob)
           n == Len(t)
<1>1. t \in Seq(PartNames)
  BY TodoIs
<1>2. n = IF HasFormat(blob, 28) THEN 10 ELSE 11
  BY TodoIs, Format28Is
<1>3. k \in 0 .. n - 1 /\ todo = Drop(t, k)
  BY DEF IsAfter
<1> HIDE DEF n
<1>4. k \in Nat /\ k < n /\ k <= n
  BY <1>2, <1>3
<1> HIDE DEF t
<1>5. k <= Len(t) /\ k < Len(t)
  BY <1>4 DEF n
<1>6. /\ Drop(t, k) \in Seq(PartNames)
      /\ Head(Drop(t, k)) = t[k + 1] /\ Tail(Drop(t, k)) = Drop(t, k + 1)
      /\ Len(Drop(t, k)) = Len(t) - k
  BY <1>1, <1>4, <1>5, DropSteps
<1> QED BY <1>2, <1>3, <1>4, <1>6 DEF n, t

(* Where the program is when it reads a part.                              *)
LEMMA PlaceInFile ==
    ASSUME NEW f \in AllFiles, Verdict(f.blob), outcome = "reading"
    PROVE  \/ rest = f.blob /\ Head(todo) = "version"
           \/ HasFormat(f.blob, 29) /\ rest = Tail(f.blob) /\ todo = Format29
                 /\ Head(todo) = "zstd"
           \/ /\ HasBody(f.blob) /\ Head(todo) \notin {"version", "zstd"}
              /\ \E k \in 0 .. 11 : IsAfter(f.blob, k) /\ ReadParts(f.blob, k)
<1>1. Stage(f.blob)
  BY DEF Verdict
<1>2. todo = <<"version">> => Head(todo) = "version"
  OBVIOUS
<1>3. todo = Format29 => Head(todo) = "zstd"
  BY Format29Is
<1>4. ASSUME NEW k, IsAfter(f.blob, k) PROVE Head(todo) \notin {"version", "zstd"}
  BY <1>4, AfterIs, PlaceOf
<1> QED BY <1>1, <1>2, <1>3, <1>4 DEF Stage

(* Rejecting is right if the file is not supported.                        *)
LEMMA IsRejected ==
    ASSUME NEW blob, Reject, ~ IsSupported(blob)
    PROVE  Verdict(blob)'
  BY DEF Reject, Verdict

(* A file with one unsupported part is not supported.                      *)
LEMMA NotSupported ==
    ASSUME NEW f \in AllFiles, NEW k \in 1 .. 8, ~ IsSupportedPart(Body(f.blob)[k])
    PROVE  ~ IsSupported(f.blob)
  BY DEF IsSupported

(* Going on to the next part, when what was read is supported.             *)
LEMMA GoesOn ==
    ASSUME NEW f \in AllFiles, HasBody(f.blob),
           NEW k \in 0 .. 7, IsAfter(f.blob, k), ReadParts(f.blob, k), rest # <<>>,
           Continue, outcome = "reading",
           \/ IsSupportedPart(Body(f.blob)[k + 1])
           \/ HasFormat(f.blob, 28) /\ k = 3 /\ ~ Body(f.blob)[4].whole,
           \/ /\ k = NodesPart(f.blob)
              /\ \A i \in DOMAIN nodes' :
                    nodes'[i].param_0 = NodesIn(f.blob).entries[i + 1]
           \/ /\ k # NodesPart(f.blob) /\ DOMAIN nodes' = DOMAIN nodes
              /\ \A i \in DOMAIN nodes : nodes'[i].param_0 = nodes[i].param_0,
           \/ k = MappingPart(f.blob) /\ Len(param0_map') >= MappingIn(f.blob).count
           \/ k # MappingPart(f.blob) /\ UNCHANGED param0_map
    PROVE  Verdict(f.blob)'
<1> DEFINE blob == f.blob
           j == k + 1
<1>1. /\ j \in 1 .. Len(Body(blob)) /\ j \in 1 .. 8
            /\ Tail(rest) = Drop(Body(blob), j)
  BY PartAt
<1>2. /\ rest' = Drop(Body(blob), j) /\ outcome' = "reading" /\ todo' = Tail(todo)
  BY <1>1 DEF Continue
<1>3. /\ k + 1 < Len(Todo(blob)) => Tail(todo) = Drop(Todo(blob), k + 1)
      /\ k \in Nat /\ Len(Todo(blob)) = IF HasFormat(blob, 28) THEN 10 ELSE 11
  BY AfterIs
<1>4. PartsRead(j) = j /\ PartsRead(k) = k /\ j \in 0 .. 11
      /\ j \in 0 .. Len(Todo(blob)) - 1
  BY <1>1, <1>3 DEF PartsRead
<1>5. todo' = Drop(Todo(blob), j)
  BY <1>2, <1>3, <1>4
<1>6. j <= Len(Body(blob))
  BY <1>1
<1>7. IsAfter(blob, j)'
  BY <1>2, <1>4, <1>5, <1>6 DEF IsAfter
<1>8. \A m \in 1 .. j : m \in 1 .. k \/ m = k + 1
  BY <1>3
<1>9. \A m \in 1 .. PartsRead(j) :
          \/ IsSupportedPart(Body(blob)[m])
          \/ HasFormat(blob, 28) /\ m = 4 /\ ~ Body(blob)[4].whole
  BY <1>3, <1>4, <1>8 DEF ReadParts
<1>10. ~ (j > 8)
  BY <1>1
<1>11. NodesRead(blob, j) => NodesRead(blob, k) \/ k = NodesPart(blob)
  BY DEF NodesRead, NodesPart
<1>12. MappingRead(blob, j) => MappingRead(blob, k) \/ k = MappingPart(blob)
  BY DEF MappingRead, MappingPart
<1>13. ~ (k = NodesPart(blob) /\ NodesRead(blob, k))
  BY DEF NodesRead, NodesPart
<1>14. NodesRead(blob, j) =>
          \A i \in DOMAIN nodes' : nodes'[i].param_0 = NodesIn(blob).entries[i + 1]
  BY <1>11, <1>13 DEF ReadParts
<1>15. ~ (k = MappingPart(blob) /\ MappingRead(blob, k))
  BY DEF MappingRead, MappingPart
<1>16. MappingRead(blob, j) => Len(param0_map') >= MappingIn(blob).count
  BY <1>12, <1>15 DEF ReadParts
<1>17. ReadParts(blob, j)'
  BY <1>9, <1>10, <1>14, <1>16 DEF ReadParts
<1>18. Stage(blob)'
  BY <1>4, <1>7, <1>17 DEF Stage
<1> QED BY <1>2, <1>18 DEF Verdict

\* p is a part of the kind that a step reads.
LEMMA PartIs ==
    ASSUME NEW p, IsPart(p)
    PROVE  /\ p.kind = "nodes" => p.entries \in Seq(U16)
           /\ p.kind = "metadata" => p.entries \in Seq(MetadataEntries)
           /\ p.kind = "mapping" => p.entries \in Seq(MappingEntries)
                 /\ p.count \in Nat
           /\ p.kind = "zlib" => AreFields(p.content) /\ p.whole \in BOOLEAN
<1>1. U16 \subseteq Nat
  BY DEF U16
<1> QED BY <1>1 DEF IsPart, IsField

(* Reading a part of the body of the file.                                 *)
LEMMA ReadingPart ==
    ASSUME NEW f \in AllFiles, Verdict(f.blob), NEW part, Reading(part),
           part \notin {"version", "zstd", "remap", "verify"}
    PROVE  /\ HasBody(f.blob) /\ outcome = "reading" /\ rest # <<>>
           /\ Head(rest).kind = Kind(part) /\ IsPart(Head(rest))
           /\ \E k \in 0 .. 7 :
                 /\ IsAfter(f.blob, k) /\ ReadParts(f.blob, k)
                 /\ k \in 0 .. Len(Todo(f.blob)) - 1
                 /\ Todo(f.blob)[k + 1] = part
                 /\ Head(rest) = Body(f.blob)[k + 1] /\ k + 1 \in 1 .. 8
                 /\ k + 1 \in 1 .. Len(Body(f.blob))
<1>1. /\ outcome = "reading" /\ Head(todo) = part /\ rest # <<>>
            /\ Head(rest).kind = Kind(part)
  BY DEF Reading, Due
<1>2. HasBody(f.blob) /\ \E k \in 0 .. 11 : IsAfter(f.blob, k) /\ ReadParts(f.blob, k)
  BY <1>1, PlaceInFile
<1>3. PICK k \in 0 .. 11 : IsAfter(f.blob, k) /\ ReadParts(f.blob, k)
  BY <1>2
<1>4. k \in 0 .. Len(Todo(f.blob)) - 1 /\ Todo(f.blob)[k + 1] = part
  BY <1>1, <1>3, AfterIs
<1>5. k \in 0 .. 7
  BY <1>4, PlaceOf
<1>6. /\ Head(rest) = Body(f.blob)[k + 1] /\ IsPart(Head(rest)) /\ k + 1 \in 1 .. 8
      /\ k + 1 \in 1 .. Len(Body(f.blob))
  BY <1>1, <1>2, <1>3, <1>5, PartAt
<1> QED BY <1>1, <1>2, <1>3, <1>4, <1>5, <1>6

\* A step on a part that is neither the nodes nor the mapping.
LEMMA OtherPart ==
    ASSUME NEW f \in AllFiles, Verdict(f.blob), NEW part, Reading(part),
           part \in {"header", "timestamp", "widths", "objects", "timers"},
           \/ Continue /\ UNCHANGED block /\ IsSupportedField(Head(rest))
           \/ Reject /\ ~ IsSupportedField(Head(rest))
    PROVE  Verdict(f.blob)'
<1>1. /\ HasBody(f.blob) /\ outcome = "reading" /\ rest # <<>>
      /\ Head(rest).kind = Kind(part)
  BY ReadingPart
<1>2. PICK k \in 0 .. 7 : /\ IsAfter(f.blob, k) /\ ReadParts(f.blob, k)
                          /\ k \in 0 .. Len(Todo(f.blob)) - 1
                          /\ Todo(f.blob)[k + 1] = part
                          /\ Head(rest) = Body(f.blob)[k + 1] /\ k + 1 \in 1 .. 8
  BY ReadingPart
<1>3. k # NodesPart(f.blob) /\ k # MappingPart(f.blob)
  BY <1>2, PlaceOf
<1>4. Head(rest).kind # "zlib"
  BY <1>1 DEF Kind
<1>5. IsSupportedPart(Body(f.blob)[k + 1]) <=> IsSupportedField(Head(rest))
  BY <1>2, <1>4 DEF IsSupportedPart
<1>6. CASE Continue /\ UNCHANGED block /\ IsSupportedField(Head(rest))
  <2>1. UNCHANGED nodes /\ UNCHANGED param0_map
    BY <1>6 DEF block
  <2> QED BY <1>1, <1>2, <1>3, <1>5, <1>6, <2>1, GoesOn
<1>7. CASE Reject /\ ~ IsSupportedField(Head(rest))
  BY <1>2, <1>5, <1>7, NotSupported, IsRejected
<1> QED BY <1>6, <1>7

LEMMA SameTypes ==
    ASSUME Types, UNCHANGED <<block, node_ids>>,
           outcome' \in {"reading", "ok", "rejected", "aborted", "undefined"}
    PROVE  Types'
  BY DEF Types, block

LEMMA RejectTypes ==
    ASSUME Types, Reject, UNCHANGED node_ids
    PROVE  Types'
  BY DEF Types, Reject

LEMMA ContinueTypes ==
    ASSUME Types, Continue, UNCHANGED <<block, node_ids>>
    PROVE  Types'
  BY DEF Types, Continue, block

(* The lemmas on the steps: each action keeps the types, and what the      *)
(* outcome says of the file.                                               *)
LEMMA PlainFieldStep ==
    ASSUME NEW f \in AllFiles, Types, Verdict(f.blob), PlainField
    PROVE  Types' /\ Verdict(f.blob)'
<1>1. PICK part \in {"header", "timestamp"} : Reading(part)
  BY DEF PlainField
<1>2. Continue /\ UNCHANGED block /\ UNCHANGED node_ids
  BY DEF PlainField, block
<1>3. IsSupportedField(Head(rest))
  BY <1>1 DEF Reading, Kind, IsSupportedField
<1>4. Verdict(f.blob)'
  BY <1>1, <1>2, <1>3, OtherPart
<1>5. Types'
  BY <1>2, ContinueTypes
<1> QED BY <1>4, <1>5

LEMMA WidthsStep ==
    ASSUME NEW f \in AllFiles, Types, Verdict(f.blob), Widths
    PROVE  Types' /\ Verdict(f.blob)'
<1>1. Reading("widths") /\ UNCHANGED node_ids
  BY DEF Widths
<1>2. IsSupportedField(Head(rest))
         <=> Head(rest).content_width = 2 /\ Head(rest).params_width = 2
  BY <1>1 DEF Reading, Kind, IsSupportedField
<1>3. \/ Continue /\ UNCHANGED block /\ IsSupportedField(Head(rest))
      \/ Reject /\ ~ IsSupportedField(Head(rest))
  BY <1>2 DEF Widths
<1>4. Verdict(f.blob)'
  BY <1>1, <1>3, OtherPart
<1>5. Types'
  BY <1>1, <1>3, ContinueTypes, RejectTypes
<1> QED BY <1>4, <1>5

LEMMA ObjectsStep ==
    ASSUME NEW f \in AllFiles, Types, Verdict(f.blob), deserialize_static_objects
    PROVE  Types' /\ Verdict(f.blob)'
<1>1. Reading("objects") /\ UNCHANGED node_ids
  BY DEF deserialize_static_objects
<1>2. IsSupportedField(Head(rest)) <=> Head(rest).version = 0 /\ Counted(Head(rest))
  BY <1>1 DEF Reading, Kind, IsSupportedField, Counted, IsComplete
<1>3. \/ Continue /\ UNCHANGED block /\ IsSupportedField(Head(rest))
      \/ Reject /\ ~ IsSupportedField(Head(rest))
  BY <1>2 DEF deserialize_static_objects
<1>4. Verdict(f.blob)'
  BY <1>1, <1>3, OtherPart
<1>5. Types'
  BY <1>1, <1>3, ContinueTypes, RejectTypes
<1> QED BY <1>4, <1>5

LEMMA TimersStep ==
    ASSUME NEW f \in AllFiles, Types, Verdict(f.blob), deserialize_node_timers
    PROVE  Types' /\ Verdict(f.blob)'
<1>1. Reading("timers") /\ UNCHANGED node_ids
  BY DEF deserialize_node_timers
<1>2. IsSupportedField(Head(rest)) <=> Counted(Head(rest))
  BY <1>1 DEF Reading, Kind, IsSupportedField, Counted, IsComplete
<1>3. \/ Continue /\ UNCHANGED block /\ IsSupportedField(Head(rest))
      \/ Reject /\ ~ IsSupportedField(Head(rest))
  BY <1>2 DEF deserialize_node_timers
<1>4. Verdict(f.blob)'
  BY <1>1, <1>3, OtherPart
<1>5. Types'
  BY <1>1, <1>3, ContinueTypes, RejectTypes
<1> QED BY <1>4, <1>5

\* format 28 and format 29, and everything else
LEMMA VersionStep ==
    ASSUME NEW f \in AllFiles, Types, Verdict(f.blob), deserialize
    PROVE  Types' /\ Verdict(f.blob)'
<1> DEFINE blob == f.blob
<1>1. /\ outcome = "reading" /\ Head(todo) = "version" /\ rest # <<>>
            /\ UNCHANGED node_ids
  BY DEF deserialize, Reading, Due
<1>2. rest = blob
  BY <1>1, PlaceInFile
<1>3. Head(rest) = blob[1]
  BY <1>1, <1>2, BlobIs, HeadTailProperties
<1>4. CASE Head(rest).version = 28
  <2>1. todo' = Format28 /\ rest' = Tail(rest) /\ UNCHANGED <<file, outcome, block>>
    BY <1>4 DEF deserialize
  <2>2. HasFormat(blob, 28)
    BY <1>1, <1>2, <1>3, <1>4 DEF HasFormat
  <2>3. Body(blob) = Tail(blob) /\ Todo(blob) = Format28
    BY <2>2 DEF Body, Todo
  <2>4. HasBody(blob)
    BY <2>2 DEF HasBody
  <2>5. Stage(blob)'
    <3>1. Body(blob) \in Seq(Range(Body(blob))) /\ Len(Body(blob)) \in Nat
      BY <2>4, BodyIs
    <3>2. Drop(Body(blob), 0) = Body(blob)
      BY <3>1, DropSteps
    <3>3. Drop(Format28, 0) = Format28 /\ 0 \in 0 .. Len(Format28) - 1
      BY Format28Is, DropSteps
    <3>4. PartsRead(0) = 0 /\ 0 <= Len(Body(blob)) /\ 1 .. 0 = {}
      BY <3>1 DEF PartsRead
    <3>5. IsAfter(blob, 0)'
      BY <1>2, <2>1, <2>3, <3>2, <3>3, <3>4 DEF IsAfter
    <3>6. ~ NodesRead(blob, 0) /\ ~ MappingRead(blob, 0)
      BY DEF NodesRead, MappingRead
    <3>7. ReadParts(blob, 0)'
      BY <3>4, <3>6 DEF ReadParts
    <3>8. 0 \in 0 .. 11
      OBVIOUS
    <3> QED BY <2>4, <3>5, <3>7, <3>8 DEF Stage
  <2>6. Verdict(blob)'
    BY <1>1, <2>1, <2>5 DEF Verdict
  <2>7. Types'
    BY <1>1, <2>1, SameTypes DEF Types
  <2> QED BY <2>6, <2>7
<1>5. CASE Head(rest).version = 29
  <2>1. todo' = Format29 /\ rest' = Tail(rest) /\ UNCHANGED <<file, outcome, block>>
    BY <1>5 DEF deserialize
  <2>2. HasFormat(blob, 29)
    BY <1>1, <1>2, <1>3, <1>5 DEF HasFormat
  <2>3. Stage(blob)'
    BY <1>2, <2>1, <2>2 DEF Stage
  <2>6. Verdict(blob)'
    BY <1>1, <2>1, <2>3 DEF Verdict
  <2>7. Types'
    BY <1>1, <2>1, SameTypes DEF Types
  <2> QED BY <2>6, <2>7
<1>6. CASE Head(rest).version \notin {28, 29}
  <2>1. Reject
    BY <1>6 DEF deserialize
  <2>2. ~ IsSupported(blob)
    BY <1>2, <1>3, <1>6 DEF IsSupported, HasFormat
  <2> QED BY <1>1, <2>1, <2>2, IsRejected, RejectTypes
<1> QED BY <1>4, <1>5, <1>6

LEMMA ZstdStep ==
    ASSUME NEW f \in AllFiles, Types, Verdict(f.blob), decompress_zstd
    PROVE  Types' /\ Verdict(f.blob)'
<1> DEFINE blob == f.blob
<1>1. /\ outcome = "reading" /\ Head(todo) = "zstd" /\ rest # <<>>
            /\ UNCHANGED node_ids
  BY DEF decompress_zstd, Reading, Due
<1>2. HasFormat(blob, 29) /\ rest = Tail(blob) /\ todo = Format29
  BY <1>1, PlaceInFile
<1>3. /\ blob \in Seq(Range(blob)) /\ Len(blob) \in Nat /\ blob # <<>>
      /\ ~ HasFormat(blob, 28)
  BY <1>2, BlobIs DEF HasFormat
<1>4. /\ rest \in Seq(Range(blob)) /\ Len(rest) = Len(blob) - 1 /\ Len(rest) \in Nat
      /\ Head(rest) = rest[1] /\ rest[1] = blob[2]
  <2> HIDE DEF blob
  <2>1. /\ rest \in Seq(Range(blob)) /\ Len(rest) = Len(blob) - 1
        /\ \A i \in 1 .. Len(rest) : rest[i] = blob[i + 1]
    BY <1>2, <1>3, HeadTailProperties
  <2>2. Len(rest) \in Nat /\ Head(rest) = rest[1] /\ Len(rest) # 0
    BY <1>1, <2>1, HeadTailProperties, LenProperties, EmptySeq
  <2>3. 1 \in 1 .. Len(rest) /\ 1 + 1 = 2
    BY <2>2
  <2> QED BY <2>1, <2>2, <2>3
<1>5. CASE Len(rest) = 1
  <2>1. rest' = Head(rest).content /\ todo' = Tail(todo)
        /\ UNCHANGED <<file, outcome, block>>
    BY <1>5 DEF decompress_zstd
  <2>2. Len(blob) = 2 /\ HasBody(blob)
    BY <1>2, <1>3, <1>4, <1>5 DEF HasBody
  <2>3. Body(blob) = blob[2].content /\ Todo(blob) = Tail(Format29)
    BY <1>3 DEF Body, Todo
  <2>4. rest' = Body(blob) /\ todo' = Todo(blob)
    BY <1>2, <1>4, <2>1, <2>3
  <2>5. Stage(blob)'
    <3>1. Body(blob) \in Seq(Range(Body(blob))) /\ Len(Body(blob)) \in Nat
      BY <2>2, BodyIs
    <3>2. Drop(Body(blob), 0) = Body(blob)
      BY <3>1, DropSteps
    <3>3. Drop(Todo(blob), 0) = Todo(blob) /\ 0 \in 0 .. Len(Todo(blob)) - 1
      <4>1. Todo(blob) \in Seq(PartNames) /\ Len(Todo(blob)) = 11
        BY <1>3, TodoIs
      <4> QED BY <4>1, DropSteps
    <3>4. PartsRead(0) = 0 /\ 0 <= Len(Body(blob)) /\ 1 .. 0 = {}
      BY <3>1 DEF PartsRead
    <3>5. IsAfter(blob, 0)'
      BY <2>4, <3>2, <3>3, <3>4 DEF IsAfter
    <3>6. ~ NodesRead(blob, 0) /\ ~ MappingRead(blob, 0)
      BY DEF NodesRead, MappingRead
    <3>7. ReadParts(blob, 0)'
      BY <3>4, <3>6 DEF ReadParts
    <3>8. 0 \in 0 .. 11
      OBVIOUS
    <3> QED BY <2>2, <3>5, <3>7, <3>8 DEF Stage
  <2>6. Verdict(blob)'
    BY <1>1, <2>1, <2>5 DEF Verdict
  <2>7. Types'
    BY <1>1, <2>1, SameTypes DEF Types
  <2> QED BY <2>6, <2>7
<1>6. CASE Len(rest) # 1
  <2>1. Reject
    BY <1>6 DEF decompress_zstd
  <2>2. Len(blob) # 2
    BY <1>3, <1>4, <1>6
  <2>3. ~ IsSupported(blob)
    BY <1>3, <2>2 DEF IsSupported
  <2> QED BY <1>1, <2>1, <2>3, IsRejected, RejectTypes
<1> QED BY <1>5, <1>6

LEMMA OutOfDataStep ==
    ASSUME NEW f \in AllFiles, Types, Verdict(f.blob), OutOfData
    PROVE  Types' /\ Verdict(f.blob)'
<1> DEFINE blob == f.blob
<1>1. /\ outcome = "reading" /\ rest = <<>> /\ Head(todo) \notin {"remap", "verify"}
      /\ Reject /\ UNCHANGED node_ids
  BY DEF OutOfData
<1>2. ASSUME rest = blob PROVE ~ IsSupported(blob)
  BY <1>1, <1>2 DEF IsSupported, HasFormat
<1>3. ASSUME HasFormat(blob, 29), rest = Tail(blob) PROVE ~ IsSupported(blob)
  <2>1. /\ blob \in Seq(Range(blob)) /\ blob # <<>> /\ ~ HasFormat(blob, 28)
              /\ Len(blob) \in Nat
    BY <1>3, BlobIs DEF HasFormat
  <2> HIDE DEF blob
  <2>2. Len(rest) = Len(blob) - 1 /\ rest \in Seq(Range(blob))
    BY <1>3, <2>1, HeadTailProperties
  <2>3. Len(rest) = 0
    BY <1>1, <2>2, EmptySeq
  <2>4. Len(blob) # 2
    BY <2>1, <2>2, <2>3
  <2> QED BY <2>1, <2>4 DEF IsSupported
<1>4. ASSUME HasBody(blob), \E k \in 0 .. 11 : IsAfter(blob, k) /\ ReadParts(blob, k)
      PROVE  ~ IsSupported(blob)
  <2>1. PICK k \in 0 .. 11 : IsAfter(blob, k)
    BY <1>4
  <2>2. k \in 0 .. Len(Todo(blob)) - 1 /\ Head(todo) = Todo(blob)[k + 1]
    BY <2>1, AfterIs
  <2>3. k \in 0 .. 7
    BY <1>1, <2>2, PlaceOf
  <2>4. /\ Body(blob) \in Seq(Range(Body(blob))) /\ Len(Body(blob)) \in Nat
    BY <1>4, BodyIs
  <2>5. rest = Drop(Body(blob), k) /\ k <= Len(Body(blob)) /\ k \in Nat
    BY <2>1, <2>3 DEF IsAfter, PartsRead
  <2>6. k = Len(Body(blob))
    BY <1>1, <2>4, <2>5, DropSteps
  <2>7. Len(Body(blob)) \in 0 .. 7
    BY <2>3, <2>6
  <2>8. 8 \notin 0 .. 7
    OBVIOUS
  <2> QED BY <2>7, <2>8 DEF IsSupported
<1>5. ~ IsSupported(blob)
  BY <1>1, <1>2, <1>3, <1>4, PlaceInFile
<1> QED BY <1>1, <1>5, IsRejected, RejectTypes

(* Every node gets its param_0.                                            *)
LEMMA StoreNodesType ==
    ASSUME nodes \in NodesType,
           NEW param0s \in Seq(U16), Len(param0s) = NodesPerBlock,
           StoreNodes(param0s)
    PROVE  /\ nodes' \in NodesType
           /\ \A i \in DOMAIN nodes' : nodes'[i].param_0 = param0s[i + 1]
<1> DEFINE N == 0 .. NodesPerBlock - 1
           node(x) == [NewNode EXCEPT !.param_0 = x]
<1>1. DOMAIN nodes = N
  BY DEF NodesType
<1>2. nodes' = [i \in N |-> node(param0s[i + 1])]
  BY <1>1 DEF StoreNodes
<1>3. \A x \in U16 : node(x) \in NodeType /\ node(x).param_0 = x
  BY NewNodeType DEF NodeType
<1>4. \A i \in N : param0s[i + 1] \in U16
  <2>1. \A i \in N : i + 1 \in 1 .. Len(param0s)
    BY NodesAssumption
  <2> QED BY <2>1
<1> HIDE DEF N, node
<1>5. \A i \in N : node(param0s[i + 1]) \in NodeType
      /\ node(param0s[i + 1]).param_0 = param0s[i + 1]
  BY <1>3, <1>4
<1>6. nodes' \in [N -> NodeType] /\ \A i \in N : nodes'[i].param_0 = param0s[i + 1]
  BY <1>2, <1>5
<1> QED BY <1>6 DEF NodesType, N

\* The nodes are stored, or the data is not supported.
LEMMA NodesStored ==
    ASSUME NEW f \in AllFiles, Types, HasBody(f.blob), outcome = "reading",
           rest # <<>>,
           NEW k \in 0 .. 7, IsAfter(f.blob, k), ReadParts(f.blob, k),
           k = NodesPart(f.blob), k # MappingPart(f.blob),
           NEW list, list = NodesIn(f.blob), list.entries \in Seq(U16),
           Len(list.entries) = NodesPerBlock, IsSupportedPart(Body(f.blob)[k + 1]),
           StoreNodes(list.entries), Continue, UNCHANGED <<param0_map, node_ids>>
    PROVE  Types' /\ Verdict(f.blob)'
<1>1. nodes \in NodesType
  BY DEF Types
<1>2. /\ nodes' \in NodesType
      /\ \A i \in DOMAIN nodes' : nodes'[i].param_0 = list.entries[i + 1]
  BY <1>1, StoreNodesType
<1>3. Types'
  BY <1>2 DEF Types, Continue
<1>4. Verdict(f.blob)'
  BY <1>2, GoesOn
<1> QED BY <1>3, <1>4

LEMMA Nodes29Step ==
    ASSUME NEW f \in AllFiles, Types, Verdict(f.blob), deserialize_nodes_29
    PROVE  Types' /\ Verdict(f.blob)'
<1> DEFINE blob == f.blob
           list == Head(rest)
<1>1. Reading("nodes_29") /\ UNCHANGED node_ids
  BY DEF deserialize_nodes_29
<1>2. /\ HasBody(blob) /\ outcome = "reading" /\ rest # <<>>
      /\ list.kind = "nodes" /\ IsPart(list)
  BY <1>1, ReadingPart DEF Kind
<1>3. PICK k \in 0 .. 7 : /\ IsAfter(blob, k) /\ ReadParts(blob, k)
                          /\ k \in 0 .. Len(Todo(blob)) - 1
                          /\ Todo(blob)[k + 1] = "nodes_29"
                          /\ list = Body(blob)[k + 1] /\ k + 1 \in 1 .. 8
  BY <1>1, ReadingPart
<1>4. k = NodesPart(blob) /\ k # MappingPart(blob) /\ ~ HasFormat(blob, 28)
  BY <1>3, PlaceOf
<1>5. list = NodesIn(blob)
  BY <1>3, <1>4 DEF NodesPart, NodesIn
<1>6. list.entries \in Seq(U16)
  BY <1>2, PartIs
<1>7. IsSupportedPart(Body(blob)[k + 1]) <=> Len(list.entries) = NodesPerBlock
  BY <1>2, <1>3 DEF IsSupportedPart, IsSupportedField
<1>8. CASE Len(list.entries) = NodesPerBlock
  <2>1. StoreNodes(list.entries) /\ Continue /\ UNCHANGED <<param0_map, node_ids>>
    BY <1>8 DEF deserialize_nodes_29
  <2> HIDE DEF list
  <2> QED BY <1>2, <1>3, <1>4, <1>5, <1>6, <1>7, <1>8, <2>1, NodesStored
<1>9. CASE Len(list.entries) # NodesPerBlock
  <2>1. Reject
    BY <1>9 DEF deserialize_nodes_29
  <2> QED BY <1>1, <1>3, <1>7, <1>9, <2>1, NotSupported, IsRejected, RejectTypes
<1> QED BY <1>8, <1>9

LEMMA Nodes28Step ==
    ASSUME NEW f \in AllFiles, Types, Verdict(f.blob), deserialize_nodes_28
    PROVE  Types' /\ Verdict(f.blob)'
<1> DEFINE blob == f.blob
           part == Head(rest)
           list == part.content[1]
<1>1. Reading("nodes_28") /\ UNCHANGED node_ids
  BY DEF deserialize_nodes_28
<1>2. /\ HasBody(blob) /\ outcome = "reading" /\ rest # <<>>
      /\ part.kind = "zlib" /\ IsPart(part)
  BY <1>1, ReadingPart DEF Kind
<1>3. PICK k \in 0 .. 7 : /\ IsAfter(blob, k) /\ ReadParts(blob, k)
                          /\ k \in 0 .. Len(Todo(blob)) - 1
                          /\ Todo(blob)[k + 1] = "nodes_28"
                          /\ part = Body(blob)[k + 1] /\ k + 1 \in 1 .. 8
                          /\ k + 1 \in 1 .. Len(Body(blob))
  BY <1>1, ReadingPart
<1>4. k = NodesPart(blob) /\ k # MappingPart(blob) /\ HasFormat(blob, 28) /\ k = 2
  BY <1>3, PlaceOf DEF NodesPart
<1>5. part = Body(blob)[3] /\ list = NodesIn(blob)
  BY <1>3, <1>4 DEF NodesIn
<1>6. AreFields(part.content) /\ part.whole \in BOOLEAN
  BY <1>2, PartIs
<1>7. ASSUME part.content # <<>>
      PROVE  list.kind = "nodes" /\ IsField(list)
  <2>1. StartsWith(Body(blob), 3, "nodes") /\ 3 \in DOMAIN Body(blob)
    BY <1>2, <1>3, <1>4, BodyIs
  <2>2. Follows(part.content, <<"nodes">>)
    BY <1>5, <1>7, <2>1 DEF StartsWith
  <2> DEFINE c == part.content
  <2>3. IsSequence(c) /\ \A j \in DOMAIN c : IsField(c[j])
    BY <1>6 DEF AreFields
  <2> HIDE DEF c
  <2>4. c \in Seq(Range(c)) /\ DOMAIN c = 1 .. Len(c) /\ Len(c) \in Nat
    BY <2>3, SequenceType
  <2>5. Len(c) # 0
    BY <1>7, <2>4, EmptySeq DEF c
  <2>6. 1 \in DOMAIN c
    BY <2>4, <2>5
  <2>7. c[1].kind = "nodes"
    BY <2>2, <2>6 DEF Follows, c
  <2> QED BY <2>3, <2>6, <2>7 DEF c
<1> DEFINE right == /\ part.whole /\ Len(part.content) = 1
                    /\ Len(list.entries) = NodesPerBlock
<1>8. IsSupportedPart(Body(blob)[k + 1]) <=> right
  <2>1. Len(part.content) = 1 => part.content # <<>>
    OBVIOUS
  <2>2. IsSupportedPart(Body(blob)[k + 1]) <=> IsSupportedStream(part)
    BY <1>2, <1>3 DEF IsSupportedPart
  <2>3. part.content # <<>> =>
           (IsSupportedField(list) <=> Len(list.entries) = NodesPerBlock)
    BY <1>7 DEF IsSupportedField
  <2> QED BY <1>7, <2>1, <2>2, <2>3 DEF IsSupportedStream
<1>9. CASE right
  <2>1. StoreNodes(list.entries) /\ Continue /\ UNCHANGED <<param0_map, node_ids>>
    BY <1>9 DEF deserialize_nodes_28, decompress_zlib
  <2>2. list.entries \in Seq(U16)
    <3>1. Len(part.content) = 1 => part.content # <<>>
      OBVIOUS
    <3> QED BY <1>7, <1>9, <3>1, FieldIsPart, PartIs
  <2>3. Len(list.entries) = NodesPerBlock
    BY <1>9
  <2> HIDE DEF list, part, right
  <2> QED BY <1>2, <1>3, <1>4, <1>5, <1>8, <1>9, <2>1, <2>2, <2>3, NodesStored
<1>10. CASE ~ right
  <2>1. Reject
    BY <1>10 DEF deserialize_nodes_28, decompress_zlib
  <2> QED BY <1>1, <1>3, <1>8, <1>10, <2>1, NotSupported, IsRejected, RejectTypes
<1> QED BY <1>9, <1>10

(* The code accepts the entries of the metadata that are supported.        *)
LEMMA EntryIsLegal ==
    ASSUME NEW entry \in MetadataEntries
    PROVE  LegalMetadata(entry) <=> IsSupportedEntry(entry)
<1>1. entry.lines \in Seq(InventoryLines)
  BY DEF MetadataEntries
<1>2. deserialize_inventory(NoInventory, entry.lines).status = "done"
         <=> IsInventory(entry.lines)
  BY <1>1, NoInventoryType, InventoryIsAccepted
<1> QED BY <1>2 DEF LegalMetadata, IsSupportedEntry

SameParams ==
    /\ DOMAIN nodes' = DOMAIN nodes
    /\ \A i \in DOMAIN nodes : nodes'[i].param_0 = nodes[i].param_0

(* The metadata is stored, or rejected if it is not supported.             *)
LEMMA MetadataIsStored ==
    ASSUME Types,
           NEW list, IsField(list), list.kind = "metadata", StoreMetadata(list),
           UNCHANGED node_ids
    PROVE  /\ Types'
           /\ \/ Continue /\ IsSupportedField(list) /\ UNCHANGED param0_map
                    /\ SameParams
              \/ Reject /\ ~ IsSupportedField(list)
<1>1. list.entries \in Seq(MetadataEntries)
  BY FieldIsPart, PartIs
<1> DEFINE Legal == /\ list.version = 2 /\ Counted(list)
                    /\ \A e \in DOMAIN list.entries : LegalMetadata(list.entries[e])
<1>2. \A e \in DOMAIN list.entries : LegalMetadata(list.entries[e])
                                        <=> IsSupportedEntry(list.entries[e])
  <2>1. \A e \in DOMAIN list.entries : list.entries[e] \in MetadataEntries
    BY <1>1
  <2> QED BY <2>1, EntryIsLegal
<1>3. IsSupportedField(list) <=> list.version = 0 \/ Legal
  BY <1>2 DEF IsSupportedField, Counted, IsComplete
<1>4. CASE list.version = 0
  <2>1. Continue /\ UNCHANGED block
    BY <1>4 DEF StoreMetadata
  <2> QED BY <1>3, <1>4, <2>1, ContinueTypes DEF SameParams, block
<1>5. CASE list.version # 0 /\ Legal
  <2>1. /\ nodes' = AllMetadata(nodes, list.entries)
        /\ Continue /\ UNCHANGED param0_map
    BY <1>5 DEF StoreMetadata, AllMetadata
  <2>2. nodes \in NodesType
    BY DEF Types
  <2>3. /\ nodes' \in NodesType
        /\ \A i \in 0 .. NodesPerBlock - 1 : nodes'[i].param_0 = nodes[i].param_0
    BY <1>1, <2>1, <2>2, MetadataStored
  <2>4. DOMAIN nodes = 0 .. NodesPerBlock - 1
        /\ DOMAIN nodes' = 0 .. NodesPerBlock - 1
    BY <2>2, <2>3 DEF NodesType
  <2>5. SameParams
    BY <2>3, <2>4 DEF SameParams
  <2>6. Types'
    BY <2>1, <2>3 DEF Types, Continue
  <2> QED BY <1>3, <1>5, <2>1, <2>5, <2>6
<1>6. CASE list.version # 0 /\ ~ Legal
  <2>1. Reject
    BY <1>6 DEF StoreMetadata
  <2> QED BY <1>3, <1>6, <2>1, RejectTypes
<1> QED BY <1>4, <1>5, <1>6

LEMMA Metadata29Step ==
    ASSUME NEW f \in AllFiles, Types, Verdict(f.blob), deserialize_metadata_29
    PROVE  Types' /\ Verdict(f.blob)'
<1> DEFINE blob == f.blob
           list == Head(rest)
<1>1. Reading("metadata_29") /\ UNCHANGED node_ids /\ StoreMetadata(list)
  BY DEF deserialize_metadata_29
<1>2. /\ HasBody(blob) /\ outcome = "reading" /\ rest # <<>>
      /\ list.kind = "metadata" /\ IsPart(list)
  BY <1>1, ReadingPart DEF Kind
<1>3. PICK k \in 0 .. 7 : /\ IsAfter(blob, k) /\ ReadParts(blob, k)
                          /\ k \in 0 .. Len(Todo(blob)) - 1
                          /\ Todo(blob)[k + 1] = "metadata_29"
                          /\ list = Body(blob)[k + 1] /\ k + 1 \in 1 .. 8
  BY <1>1, ReadingPart
<1>4. k # NodesPart(blob) /\ k # MappingPart(blob)
  BY <1>3, PlaceOf
<1>5. IsField(list)
  BY <1>2 DEF IsPart
<1>6. IsSupportedPart(Body(blob)[k + 1]) <=> IsSupportedField(list)
  BY <1>2, <1>3 DEF IsSupportedPart
<1>7. /\ Types'
      /\ \/ Continue /\ IsSupportedField(list) /\ UNCHANGED param0_map /\ SameParams
         \/ Reject /\ ~ IsSupportedField(list)
  BY <1>1, <1>2, <1>5, MetadataIsStored
<1>8. CASE Continue /\ IsSupportedField(list) /\ UNCHANGED param0_map /\ SameParams
  BY <1>2, <1>3, <1>4, <1>6, <1>7, <1>8, GoesOn DEF SameParams
<1>9. CASE Reject /\ ~ IsSupportedField(list)
  BY <1>3, <1>6, <1>7, <1>9, NotSupported, IsRejected
<1> QED BY <1>7, <1>8, <1>9

LEMMA Metadata28Step ==
    ASSUME NEW f \in AllFiles, Types, Verdict(f.blob), deserialize_metadata_28
    PROVE  Types' /\ Verdict(f.blob)'
<1> DEFINE blob == f.blob
           part == Head(rest)
           c == part.content
           list == c[1]
<1>1. Reading("metadata_28") /\ UNCHANGED node_ids
  BY DEF deserialize_metadata_28
<1>2. /\ HasBody(blob) /\ outcome = "reading" /\ rest # <<>>
      /\ part.kind = "zlib" /\ IsPart(part)
  BY <1>1, ReadingPart DEF Kind
<1>3. PICK k \in 0 .. 7 : /\ IsAfter(blob, k) /\ ReadParts(blob, k)
                          /\ k \in 0 .. Len(Todo(blob)) - 1
                          /\ Todo(blob)[k + 1] = "metadata_28"
                          /\ part = Body(blob)[k + 1] /\ k + 1 \in 1 .. 8
                          /\ k + 1 \in 1 .. Len(Body(blob))
  BY <1>1, ReadingPart
<1>4. k # NodesPart(blob) /\ k # MappingPart(blob) /\ HasFormat(blob, 28) /\ k = 3
  BY <1>3, PlaceOf
<1>5. part = Body(blob)[4]
  BY <1>3, <1>4
<1>6. AreFields(c) /\ part.whole \in BOOLEAN
  BY <1>2, PartIs
<1>7. StartsWith(Body(blob), 4, "metadata") /\ 4 \in DOMAIN Body(blob)
  BY <1>2, <1>3, <1>4, BodyIs
<1>8. Follows(c, <<"metadata">>)
  BY <1>5, <1>7 DEF StartsWith
<1>9. /\ IsSupportedPart(Body(blob)[k + 1]) => part.whole /\ c # <<>>
      /\ c # <<>> /\ list.kind # "nodes" =>
            (IsSupportedPart(Body(blob)[k + 1]) <=> part.whole /\ IsSupportedField(list))
  BY <1>2, <1>3 DEF IsSupportedPart, IsSupportedStream
<1>12. CASE c = <<>> /\ part.whole
  <2>1. Reject
    BY <1>12 DEF deserialize_metadata_28, decompress_zlib
  <2> QED BY <1>1, <1>3, <1>9, <1>12, <2>1, NotSupported, IsRejected, RejectTypes
<1>10. CASE c = <<>> /\ ~ part.whole
  <2>1. Continue /\ UNCHANGED block
    BY <1>10 DEF deserialize_metadata_28, decompress_zlib
  <2>2. ~ Body(blob)[4].whole
    BY <1>5, <1>10
  <2>3. Types'
    BY <1>1, <2>1, ContinueTypes
  <2>4. UNCHANGED nodes /\ UNCHANGED param0_map
    BY <2>1 DEF block
  <2>5. Verdict(blob)'
    BY <1>2, <1>3, <1>4, <2>1, <2>2, <2>4, GoesOn
  <2> QED BY <2>3, <2>5
<1>11. CASE c # <<>>
  <2>1. IsField(list) /\ list.kind = "metadata" /\ Head(c) = list
    <3>1. IsSequence(c) /\ \A j \in DOMAIN c : IsField(c[j])
      BY <1>6 DEF AreFields
    <3> HIDE DEF c
    <3>2. c \in Seq(Range(c)) /\ DOMAIN c = 1 .. Len(c) /\ Len(c) \in Nat
      BY <3>1, SequenceType
    <3>3. Len(c) # 0 /\ Head(c) = list
      BY <1>11, <3>2, EmptySeq, HeadTailProperties
    <3>4. 1 \in DOMAIN c
      BY <3>2, <3>3
    <3>5. list.kind = "metadata"
      BY <1>8, <3>4 DEF Follows
    <3> QED BY <3>1, <3>3, <3>4, <3>5
  <2>2. StoreMetadata(list)
    BY <1>11, <2>1 DEF deserialize_metadata_28, decompress_zlib
  <2>3. /\ Types'
        /\ \/ Continue /\ IsSupportedField(list) /\ UNCHANGED param0_map /\ SameParams
           \/ Reject /\ ~ IsSupportedField(list)
    BY <1>1, <2>1, <2>2, MetadataIsStored
  <2>4. CASE Continue /\ IsSupportedField(list) /\ UNCHANGED param0_map /\ SameParams
    <3>1. \/ IsSupportedPart(Body(blob)[k + 1])
          \/ HasFormat(blob, 28) /\ k = 3 /\ ~ Body(blob)[4].whole
      BY <1>4, <1>5, <1>9, <1>11, <2>1, <2>4
    <3> QED BY <1>2, <1>3, <1>4, <2>3, <2>4, <3>1, GoesOn DEF SameParams
  <2>5. CASE Reject /\ ~ IsSupportedField(list)
    BY <1>3, <1>9, <1>11, <2>1, <2>3, <2>5, NotSupported, IsRejected
  <2> QED BY <2>3, <2>4, <2>5
<1> QED BY <1>10, <1>11, <1>12

(* A body is what comes behind the version.                                *)
LEMMA BodyHasParts ==
    ASSUME NEW blob, HasBody(blob)
    PROVE  HasParts(blob)
<1>1. Len(blob) = 2 => Len(blob) > 1
  OBVIOUS
<1> QED BY <1>1 DEF HasBody, HasParts

LEMMA MappingStep ==
    ASSUME NEW f \in AllFiles, Types, Verdict(f.blob), deserialize_name_id_mapping
    PROVE  Types' /\ Verdict(f.blob)'
<1> DEFINE blob == f.blob
           list == Head(rest)
           legal == LegalEntries(list.entries)
           ids == AllNames(node_ids, legal)
           map == AllPairs(ids, list.count, legal)
<1>1. Reading("mapping")
  BY DEF deserialize_name_id_mapping
<1>2. /\ HasBody(blob) /\ outcome = "reading" /\ rest # <<>>
      /\ list.kind = "mapping" /\ IsPart(list)
  BY <1>1, ReadingPart DEF Kind
<1>3. PICK k \in 0 .. 7 : /\ IsAfter(blob, k) /\ ReadParts(blob, k)
                          /\ k \in 0 .. Len(Todo(blob)) - 1
                          /\ Todo(blob)[k + 1] = "mapping"
                          /\ list = Body(blob)[k + 1] /\ k + 1 \in 1 .. 8
  BY <1>1, ReadingPart
<1>4. k = MappingPart(blob) /\ k # NodesPart(blob)
  BY <1>3, PlaceOf
<1>5. list = MappingIn(blob)
  BY <1>3, <1>4 DEF MappingPart, MappingIn
<1>6. list.entries \in Seq(MappingEntries) /\ list.count \in Nat
  BY <1>2, PartIs
<1>7. /\ legal \in Seq(MappingEntries)
      /\ legal = list.entries
            <=> \A e \in DOMAIN list.entries : list.entries[e].id < IdLimit
  BY <1>6, LegalEntriesAre
<1>8. IsSupportedPart(Body(blob)[k + 1])
         <=> list.version = 0 /\ Counted(list) /\ legal = list.entries
  BY <1>2, <1>3, <1>7 DEF IsSupportedPart, IsSupportedField, Counted, IsComplete
<1>9. node_ids \in Seq(STRING) /\ param0_map \in Seq(-1 .. Len(node_ids) - 1)
  BY DEF Types
<1>10. ids \in Seq(STRING) /\ Len(node_ids) <= Len(ids)
  BY <1>7, <1>9, NamesAdded
<1>11. CASE list.version # 0
  <2>1. Reject /\ UNCHANGED node_ids
    BY <1>11 DEF deserialize_name_id_mapping
  <2> QED BY <1>3, <1>8, <1>11, <2>1, NotSupported, IsRejected, RejectTypes
<1>12. CASE list.version = 0 /\ Counted(list) /\ legal = list.entries
  <2>1. node_ids' = ids /\ param0_map' = map /\ Continue /\ UNCHANGED nodes
    BY <1>12 DEF deserialize_name_id_mapping, AllNames, AllPairs
  <2>2. map \in Seq(-1 .. Len(ids) - 1) /\ list.count <= Len(map)
    <3> HIDE DEF legal, ids
    <3> QED BY <1>6, <1>7, <1>10, MappingStored
  <2> HIDE DEF list, ids, map
  <2>3. Types'
    BY <1>10, <2>1, <2>2 DEF Types, Continue
  <2>4. Len(param0_map') >= MappingIn(blob).count
    <3>1. Len(map) \in Nat
      BY <2>2, LenProperties
    <3> QED BY <1>5, <1>6, <2>1, <2>2, <3>1
  <2>5. Verdict(blob)'
    BY <1>2, <1>3, <1>4, <1>8, <1>12, <2>1, <2>4, GoesOn
  <2> QED BY <2>3, <2>5
<1>13. CASE list.version = 0 /\ ~ (Counted(list) /\ legal = list.entries)
  <2>1. node_ids' = ids /\ Reject
    BY <1>13 DEF deserialize_name_id_mapping, AllNames
  <2> HIDE DEF ids
  <2>2. Len(node_ids) \in Nat /\ Len(ids) \in Nat
    BY <1>9, <1>10, LenProperties
  <2>3. -1 .. Len(node_ids) - 1 \subseteq -1 .. Len(ids) - 1
    BY <1>10, <2>2
  <2>4. param0_map \in Seq(-1 .. Len(ids) - 1)
    BY <1>9, <2>3, SeqMonotonic
  <2>5. Types'
    BY <1>10, <2>1, <2>4 DEF Types, Reject
  <2>6. Verdict(blob)'
    BY <1>3, <1>8, <1>13, <2>1, NotSupported, IsRejected
  <2> QED BY <2>5, <2>6
<1> QED BY <1>11, <1>12, <1>13

(* A write behind the end comes from a legal id that is too great.         *)
LEMMA OverrunStep ==
    ASSUME NEW f \in AllFiles, Types, Verdict(f.blob), Overrun
    PROVE  Types' /\ Verdict(f.blob)'
<1> DEFINE blob == f.blob
           list == Head(rest)
<1>1. /\ Reading("mapping") /\ outcome' = "undefined"
      /\ UNCHANGED <<block, node_ids>>
  BY DEF Overrun
<1>2. PICK e \in DOMAIN list.entries : /\ list.entries[e].id >= list.count
                                       /\ \A d \in 1 .. e : list.entries[d].id < IdLimit
  BY DEF Overrun
<1>3. HasBody(blob) /\ list.kind = "mapping" /\ IsPart(list)
  BY <1>1, ReadingPart DEF Kind
<1>4. PICK k \in 0 .. 7 : list = Body(blob)[k + 1] /\ k + 1 \in 1 .. Len(Body(blob))
  BY <1>1, ReadingPart
<1>5. k + 1 \in DOMAIN Body(blob)
  BY <1>3, <1>4, BodyIs
<1>6. ~ IdsFit(list)
  <2>1. list.entries \in Seq(MappingEntries) /\ list.count \in Nat
    BY <1>3, PartIs
  <2> HIDE DEF list
  <2>2. e \in 1 .. e /\ list.entries[e] \in MappingEntries
    BY <1>2, <2>1
  <2>3. list.entries[e].id \in Nat /\ list.entries[e].id < IdLimit
    BY <1>2, <2>2, MappingEntry
  <2> DEFINE id == list.entries[e].id
             count == list.count
  <2>4. id \in Nat /\ count \in Nat /\ id >= count /\ id < IdLimit
    BY <1>2, <2>1, <2>3
  <2> HIDE DEF id, count
  <2>5. ~ (id < count) /\ ~ (id >= IdLimit)
    BY <2>4, IdLimitAssumption
  <2> QED BY <1>2, <2>5 DEF IdsFit, id, count
<1>7. ~ IdsAreMapped(blob)
  <2>1. HasParts(blob)
    BY <1>3, BodyHasParts
  <2> HIDE DEF list, blob
  <2> QED BY <1>3, <1>4, <1>5, <1>6, <2>1 DEF IdsAreMapped
<1>8. Verdict(blob)'
  BY <1>1, <1>7 DEF Verdict
<1>9. Types'
  BY <1>1, SameTypes
<1> QED BY <1>8, <1>9

\* Behind the last part of the file.
LEMMA BehindParts ==
    ASSUME NEW f \in AllFiles, Verdict(f.blob), outcome = "reading",
           Head(todo) \in {"remap", "verify"}
    PROVE  /\ HasBody(f.blob)
           /\ \E k \in {8, 9, 10} :
                 /\ IsAfter(f.blob, k) /\ ReadParts(f.blob, k)
                 /\ k \in 0 .. Len(Todo(f.blob)) - 1
                 /\ Todo(f.blob)[k + 1] = Head(todo)
                 /\ 8 <= Len(Body(f.blob)) /\ rest = Drop(Body(f.blob), 8)
                 /\ rest = <<>> <=> Len(Body(f.blob)) = 8
<1>1. HasBody(f.blob) /\ \E k \in 0 .. 11 : IsAfter(f.blob, k) /\ ReadParts(f.blob, k)
  BY PlaceInFile
<1>2. PICK k \in 0 .. 11 : IsAfter(f.blob, k) /\ ReadParts(f.blob, k)
  BY <1>1
<1>3. k \in 0 .. Len(Todo(f.blob)) - 1 /\ Todo(f.blob)[k + 1] = Head(todo)
      /\ Len(Todo(f.blob)) = IF HasFormat(f.blob, 28) THEN 10 ELSE 11
  BY <1>2, AfterIs
<1>4. k \notin 0 .. 7
  <2>1. Todo(f.blob)[k + 1] \in {"remap", "verify"}
    BY <1>3
  <2> QED BY <1>3, <2>1, PlaceOf
<1>5. k \in {8, 9, 10}
  BY <1>3, <1>4
<1>6. PartsRead(k) = 8
  BY <1>5 DEF PartsRead
<1>7. 8 <= Len(Body(f.blob)) /\ rest = Drop(Body(f.blob), 8)
  BY <1>2, <1>6 DEF IsAfter
<1>8. Body(f.blob) \in Seq(Range(Body(f.blob))) /\ Len(Body(f.blob)) \in Nat
  BY <1>1, BodyIs
<1>9. rest = <<>> <=> Len(Body(f.blob)) = 8
  <2>1. 8 \in Nat /\ 8 <= Len(Body(f.blob))
    BY <1>7
  <2>2. Drop(Body(f.blob), 8) = <<>> <=> 8 = Len(Body(f.blob))
    BY <1>8, <2>1, DropSteps
  <2> QED BY <1>7, <2>2
<1> QED BY <1>1, <1>2, <1>3, <1>5, <1>7, <1>9

\* To the next step of those behind the parts.
LEMMA GoesOnBehind ==
    ASSUME NEW f \in AllFiles, HasBody(f.blob), NEW k \in {8, 9, 10},
           IsAfter(f.blob, k), ReadParts(f.blob, k), k + 1 < Len(Todo(f.blob)),
           ~ HasFormat(f.blob, 28) => Len(Body(f.blob)) = 8 \/ k > 8,
           todo' = Tail(todo), UNCHANGED <<rest, param0_map>>, outcome' = "reading",
           \/ UNCHANGED nodes
           \/ k = IF HasFormat(f.blob, 28) THEN 8 ELSE 9
    PROVE  Verdict(f.blob)'
<1> DEFINE blob == f.blob
           j == k + 1
<1>1. /\ Tail(todo) = Drop(Todo(blob), j)
      /\ k \in Nat /\ Len(Todo(blob)) = IF HasFormat(blob, 28) THEN 10 ELSE 11
  BY AfterIs
<1>2. PartsRead(j) = 8 /\ PartsRead(k) = 8 /\ j \in 0 .. 11
      /\ j \in 0 .. Len(Todo(blob)) - 1
  BY <1>1 DEF PartsRead
<1>3. IsAfter(blob, j)'
  BY <1>1, <1>2 DEF IsAfter
<1>4. ~ HasFormat(blob, 28) => Len(Body(blob)) = 8
  BY DEF ReadParts
<1>5. NodesRead(blob, j) => NodesRead(blob, k) /\ UNCHANGED nodes
  BY <1>1 DEF NodesRead
<1>6. MappingRead(blob, k)
  BY DEF MappingRead
<1>7. ReadParts(blob, j)'
  BY <1>2, <1>4, <1>5, <1>6 DEF ReadParts
<1>8. Stage(blob)'
  BY <1>2, <1>3, <1>7 DEF Stage
<1> QED BY <1>8 DEF Verdict

\* The nodes and the mapping of a file with all parts.
LEMMA BodyPartIs ==
    ASSUME NEW f \in AllFiles, HasBody(f.blob), 8 <= Len(Body(f.blob)),
           NEW j \in 1 .. 8
    PROVE  /\ IsPart(Body(f.blob)[j]) /\ j \in DOMAIN Body(f.blob)
           /\ Body(f.blob)[j].kind = Order(f.blob)[j]
<1>1. /\ Len(Body(f.blob)) \in Nat /\ DOMAIN Body(f.blob) = 1 .. Len(Body(f.blob))
      /\ \A k \in 1 .. Len(Body(f.blob)) : IsPart(Body(f.blob)[k])
      /\ Follows(Body(f.blob), Order(f.blob))
  BY BodyIs
<1>2. j \in 1 .. Len(Body(f.blob))
  BY <1>1
<1>3. j \in DOMAIN Order(f.blob)
  BY KindsAgree DEF Order
<1> QED BY <1>1, <1>2, <1>3 DEF Follows

LEMMA MappingInIs ==
    ASSUME NEW f \in AllFiles, HasBody(f.blob), 8 <= Len(Body(f.blob))
    PROVE  MappingIn(f.blob).count \in Nat
<1> DEFINE j == MappingPart(f.blob) + 1
<1>1. j \in 1 .. 8 /\ MappingIn(f.blob) = Body(f.blob)[j]
      /\ Order(f.blob)[j] = "mapping"
  BY DEF MappingPart, MappingIn, Order, Order28, Order29
<1>2. IsPart(Body(f.blob)[j]) /\ Body(f.blob)[j].kind = "mapping"
  BY <1>1, BodyPartIs
<1> QED BY <1>1, <1>2, PartIs

LEMMA NodesInAre ==
    ASSUME NEW f \in AllFiles, HasBody(f.blob), 8 <= Len(Body(f.blob)),
           IsSupportedPart(Body(f.blob)[NodesPart(f.blob) + 1])
    PROVE  /\ NodesIn(f.blob).entries \in Seq(U16)
           /\ Len(NodesIn(f.blob).entries) = NodesPerBlock
           /\ HasNodes(f.blob)
<1> DEFINE blob == f.blob
           list == NodesIn(blob)
           part == Body(blob)[NodesPart(blob) + 1]
           c == part.content
<1>1. NodesPart(blob) + 1 \in 1 .. 8
  BY DEF NodesPart
<1>2. IsPart(part) /\ part.kind = Order(blob)[NodesPart(blob) + 1]
  BY <1>1, BodyPartIs
<1>5. Len(Body(blob)) >= 8
  BY BodyIs
<1>3. CASE HasFormat(blob, 28)
  <2>1. NodesPart(blob) + 1 = 3 /\ list = c[1] /\ part.kind = "zlib"
    BY <1>2, <1>3 DEF NodesPart, NodesIn, Order, Order28
  <2>2. StartsWith(Body(blob), 3, "nodes") /\ 3 \in DOMAIN Body(blob)
    BY <1>1, <1>3, <2>1, BodyIs, BodyPartIs
  <2>3. part.whole /\ c # <<>> /\ IsSupportedField(list)
    BY <2>1 DEF IsSupportedPart, IsSupportedStream
  <2>4. AreFields(c) /\ Follows(c, <<"nodes">>)
    BY <1>2, <2>1, <2>2, PartIs DEF StartsWith
  <2>5. IsField(list) /\ list.kind = "nodes"
    <3>0. list = c[1]
      BY <2>1
    <3> HIDE DEF c, list
    <3>1. IsSequence(c) /\ \A j \in DOMAIN c : IsField(c[j])
      BY <2>4 DEF AreFields
    <3>2. c \in Seq(Range(c)) /\ DOMAIN c = 1 .. Len(c) /\ Len(c) \in Nat
      BY <3>1, SequenceType
    <3>3. Len(c) # 0
      BY <2>3, <3>2, EmptySeq
    <3>4. 1 \in DOMAIN c
      BY <3>2, <3>3
    <3> QED BY <2>4, <3>0, <3>1, <3>4 DEF Follows
  <2>6. list.entries \in Seq(U16)
    BY <2>5, FieldIsPart, PartIs
  <2>7. HasNodes(blob)
    BY <1>5, <2>1, <2>3 DEF HasNodes
  <2> QED BY <2>3, <2>5, <2>6, <2>7 DEF IsSupportedField
<1>4. CASE ~ HasFormat(blob, 28)
  <2>1. NodesPart(blob) + 1 = 5 /\ list = part /\ list.kind = "nodes"
    BY <1>2, <1>4 DEF NodesPart, NodesIn, Order, Order29
  <2>2. list.entries \in Seq(U16)
    BY <1>2, <2>1, PartIs
  <2>3. HasNodes(blob)
    BY <1>4, <1>5 DEF HasNodes
  <2> QED BY <2>1, <2>2, <2>3 DEF IsSupportedPart, IsSupportedField
<1> QED BY <1>3, <1>4

LEMMA RemapStep ==
    ASSUME NEW f \in AllFiles, Types, Verdict(f.blob), remap_param0
    PROVE  Types' /\ Verdict(f.blob)'
<1> DEFINE blob == f.blob
           AllMapped == \A i \in DOMAIN nodes :
                           nodes[i].param_0 + 1 \in DOMAIN param0_map
<1>1. /\ outcome = "reading" /\ Head(todo) = "remap"
      /\ UNCHANGED <<file, rest, param0_map, node_ids>>
  BY DEF remap_param0, Due
<1>2. HasBody(blob)
  BY <1>1, BehindParts
<1>3. PICK k \in {8, 9, 10} : /\ IsAfter(blob, k) /\ ReadParts(blob, k)
                              /\ k \in 0 .. Len(Todo(blob)) - 1
                              /\ Todo(blob)[k + 1] = "remap"
                              /\ 8 <= Len(Body(blob))
  BY <1>1, BehindParts
<1>4. k = IF HasFormat(blob, 28) THEN 8 ELSE 9
  BY <1>3, PlaceOf
<1>5. Len(Todo(blob)) = IF HasFormat(blob, 28) THEN 10 ELSE 11
  BY <1>3, AfterIs
<1>6. k + 1 < Len(Todo(blob))
  BY <1>4, <1>5
<1>7. /\ nodes \in NodesType /\ node_ids \in Seq(STRING)
      /\ param0_map \in Seq(-1 .. Len(node_ids) - 1)
      /\ Len(param0_map) \in Nat /\ DOMAIN param0_map = 1 .. Len(param0_map)
  BY LenProperties DEF Types
<1>8. CASE AllMapped
  <2>1. /\ nodes' = [i \in DOMAIN nodes |-> Remapped(nodes[i])]
        /\ todo' = Tail(todo) /\ UNCHANGED outcome
    BY <1>8 DEF remap_param0
  <2>2. Verdict(blob)'
    <3>1. ~ HasFormat(blob, 28) => Len(Body(blob)) = 8 \/ k > 8
      BY <1>4
    <3> QED BY <1>1, <1>2, <1>3, <1>4, <1>6, <2>1, <3>1, GoesOnBehind
  <2>3. ASSUME NEW i \in DOMAIN nodes PROVE Remapped(nodes[i]) \in NodeType
    <3> DEFINE x == param0_map[nodes[i].param_0 + 1]
    <3>1. nodes[i] \in NodeType
      BY <1>7 DEF NodesType
    <3>2. x \in -1 .. Len(node_ids) - 1
      BY <1>7, <1>8
    <3>3. Len(node_ids) \in Nat
      BY <1>7, LenProperties
    <3> HIDE DEF x
    <3>4. x \in Int
      BY <3>2, <3>3
    <3>5. x % 65536 \in U16
      BY <3>4 DEF U16
    <3>6. Remapped(nodes[i]) = [nodes[i] EXCEPT !.param_0 = x % 65536]
      BY DEF Remapped, x
    <3> QED BY <3>1, <3>5, <3>6 DEF NodeType
  <2>4. nodes' \in NodesType
    BY <1>7, <2>1, <2>3 DEF NodesType
  <2>5. Types'
    BY <1>1, <2>1, <2>4 DEF Types
  <2> QED BY <2>2, <2>5
<1>9. CASE ~ AllMapped
  <2>1. outcome' = "aborted" /\ UNCHANGED <<todo, nodes>>
    BY <1>9 DEF remap_param0
  <2>2. PICK i \in DOMAIN nodes : nodes[i].param_0 + 1 \notin DOMAIN param0_map
    BY <1>9
  <2> DEFINE x == nodes[i].param_0
             list == NodesIn(blob)
             count == MappingIn(blob).count
  <2>3. x = list.entries[i + 1] /\ Len(param0_map) >= count
    <3>1. NodesRead(blob, k) /\ MappingRead(blob, k)
      BY <1>4 DEF NodesRead, MappingRead
    <3> QED BY <1>3, <3>1 DEF ReadParts
  <2>4. x \in Nat /\ i \in 0 .. NodesPerBlock - 1
    <3>1. i \in 0 .. NodesPerBlock - 1 /\ nodes[i] \in NodeType
      BY <1>7 DEF NodesType
    <3>2. x \in U16
      BY <3>1 DEF NodeType
    <3> HIDE DEF x
    <3> QED BY <3>1, <3>2 DEF U16
  <2>5. list.entries \in Seq(U16) /\ Len(list.entries) = NodesPerBlock
        /\ HasNodes(blob)
    <3>1. PartsRead(k) = 8 /\ NodesPart(blob) + 1 \in 1 .. 8
          /\ ~ (HasFormat(blob, 28) /\ NodesPart(blob) + 1 = 4)
      BY <1>4 DEF PartsRead, NodesPart
    <3>2. IsSupportedPart(Body(blob)[NodesPart(blob) + 1])
      BY <1>3, <3>1 DEF ReadParts
    <3> QED BY <1>2, <1>3, <3>2, NodesInAre
  <2>6. ~ IdsAreMapped(blob)
    <3>1. i + 1 \in DOMAIN list.entries
      BY <2>4, <2>5
    <3>2. HasParts(blob)
      BY <1>2, BodyHasParts
    <3>3. ~ (list.entries[i + 1] < count)
      <4>1. ASSUME x < count PROVE FALSE
        <5>1. x + 1 \notin 1 .. Len(param0_map)
          BY <1>7, <2>2
        <5>2. Len(param0_map) <= x
          BY <1>7, <2>4, <5>1
        <5>3. count \in Int
          BY <1>2, <1>3, MappingInIs
        <5> HIDE DEF x, count
        <5> QED BY <1>7, <2>3, <2>4, <4>1, <5>2, <5>3
      <4> QED BY <2>3, <4>1
    <3> QED BY <2>5, <3>1, <3>2, <3>3 DEF IdsAreMapped
  <2>7. Verdict(blob)'
    BY <2>1, <2>6 DEF Verdict
  <2>8. Types'
    BY <1>1, <2>1 DEF Types
  <2> QED BY <2>7, <2>8
<1> QED BY <1>8, <1>9

LEMMA VerifyStep ==
    ASSUME NEW f \in AllFiles, Types, Verdict(f.blob), verify_all_data_consumed
    PROVE  Types' /\ Verdict(f.blob)'
<1> DEFINE blob == f.blob
<1>1. /\ outcome = "reading" /\ Head(todo) = "verify" /\ UNCHANGED node_ids
  BY DEF verify_all_data_consumed, Due
<1>2. HasBody(blob)
  BY <1>1, BehindParts
<1>3. PICK k \in {8, 9, 10} : /\ IsAfter(blob, k) /\ ReadParts(blob, k)
                              /\ k \in 0 .. Len(Todo(blob)) - 1
                              /\ Todo(blob)[k + 1] = "verify"
                              /\ rest = <<>> <=> Len(Body(blob)) = 8
  BY <1>1, BehindParts
<1>4. k \in IF HasFormat(blob, 28) THEN {9} ELSE {8, 10}
  BY <1>3, PlaceOf
<1>5. /\ Len(Todo(blob)) = IF HasFormat(blob, 28) THEN 10 ELSE 11
      /\ Len(todo) = Len(Todo(blob)) - k
  BY <1>3, AfterIs
<1>6. CASE rest = <<>>
  <2>1. /\ todo' = Tail(todo)
        /\ outcome' = IF Len(todo) = 1 THEN "ok" ELSE "reading"
        /\ UNCHANGED <<file, rest, block>>
    BY <1>6 DEF verify_all_data_consumed, AllDataConsumed
  <2>2. UNCHANGED nodes /\ UNCHANGED <<rest, param0_map>>
    BY <2>1 DEF block
  <2>3. Types'
    BY <1>1, <2>1, SameTypes
  <2>4. Len(todo) = 1 <=> ~ (~ HasFormat(blob, 28) /\ k = 8)
    BY <1>4, <1>5
  <2>5. CASE ~ HasFormat(blob, 28) /\ k = 8
    <3>1. outcome' = "reading" /\ k + 1 < Len(Todo(blob))
      BY <1>5, <2>1, <2>4, <2>5
    <3> QED BY <1>2, <1>3, <1>6, <2>1, <2>2, <2>3, <3>1, GoesOnBehind
  <2>6. CASE ~ (~ HasFormat(blob, 28) /\ k = 8)
    <3>1. outcome' = "ok"
      BY <2>1, <2>4, <2>6
    <3>2. PartsRead(k) = 8 /\ Len(Body(blob)) = 8
      BY <1>3, <1>6 DEF PartsRead
    <3>3. ASSUME NEW j \in 1 .. 8 PROVE IsSupportedPart(Body(blob)[j])
      <4>1. ASSUME HasFormat(blob, 28), j = 4, ~ Body(blob)[4].whole PROVE FALSE
        <5>1. StartsWith(Body(blob), 4, "metadata") /\ 4 \in DOMAIN Body(blob)
          BY <1>2, <3>2, <4>1, BodyIs
        <5> QED BY <3>2, <4>1, <5>1 DEF StartsWith
      <4> QED BY <1>3, <3>2, <4>1 DEF ReadParts
    <3>4. IsSupported(blob)
      BY <1>2, <3>2, <3>3 DEF IsSupported, HasBody
    <3> QED BY <2>3, <3>1, <3>4 DEF Verdict
  <2> QED BY <2>5, <2>6
<1>7. CASE rest # <<>>
  <2>1. Reject
    BY <1>7 DEF verify_all_data_consumed, AllDataConsumed
  <2>2. ~ IsSupported(blob)
    BY <1>3, <1>7 DEF IsSupported
  <2> QED BY <1>1, <2>1, <2>2, IsRejected, RejectTypes
<1> QED BY <1>6, <1>7
-----------------------------------------------------------------------------
(* The money.                                                              *)

(* A pile of minegeld has the worth of its pieces.                         *)
LEMMA WorthIs ==
    ASSUME NEW item \in Items
    PROVE  Worth(item) \in Nat /\ ParseCurrencyMinegeld(item) = Worth(item)
<1>1. item.denomination \in Nat /\ item.count \in Nat \union {-1}
  BY DEF Items
<1> DEFINE d == item.denomination
           c == item.count
<1>2. d \in Nat /\ (c \in Nat \/ c = -1)
  BY <1>1
<1>3. Worth(item) = d * (IF c = -1 THEN 1 ELSE c)
  BY DEF Worth
<1>4. ParseCurrencyMinegeld(item) = IF c = -1 THEN d ELSE d * c
  BY DEF ParseCurrencyMinegeld
<1> HIDE DEF d, c
<1>5. c \in Nat => d * c \in Nat /\ c # -1
  BY <1>2
<1>6. d * 1 = d
  BY <1>2
<1> QED BY <1>2, <1>3, <1>4, <1>5, <1>6

(* The money of a list is added up slot by slot.                           *)
LEMMA ListSteps ==
  ASSUME NEW items \in Seq(Items)
  PROVE \E it : /\ it[1 .. 0] = 0
                /\ \A k \in 0 .. Len(items) - 1 :
                      it[1 .. k + 1] = it[1 .. k] + ParseCurrencyMinegeld(items[k + 1])
                /\ ListMinegeld(items) = it[1 .. Len(items)]
<1> DEFINE n == Len(items)
           G == [x \in Nat \X Items |-> x[1] + ParseCurrencyMinegeld(x[2])]
           IsIt(f) == f = [s \in SUBSET DOMAIN items |->
                              IF s = {} THEN 0
                              ELSE f[s \ {Max(s)}] + ParseCurrencyMinegeld(items[Max(s)])]
           it == CHOOSE f : IsIt(f)
<1>1. ListMinegeld(items) = it[DOMAIN items]
  BY DEF ListMinegeld, FoldLeft, MapThenFoldSet
<1>2. n \in Nat /\ DOMAIN items = 1 .. n /\ items \in [1 .. n -> Items]
  BY LenProperties
<1> HIDE DEF n
<1>3. \A x \in Nat, item \in Items : x + ParseCurrencyMinegeld(item) \in Nat
  BY WorthIs
<1>4. \E f : IsIt(f)
  <2>1. G \in [Nat \X Items -> Nat]
    BY <1>3
  <2> HIDE DEF G
  <2>2. PICK f \in [SUBSET (1 .. n) -> Nat] : IsFold(f, G, 0, items, n)
    BY <1>2, <2>1, FoldExists
  <2>3. ASSUME NEW s \in SUBSET (1 .. n), s # {}
        PROVE  G[<<f[s \ {Max(s)}], items[Max(s)]>>]
                 = f[s \ {Max(s)}] + ParseCurrencyMinegeld(items[Max(s)])
    <3>1. Max(s) \in 1 .. n
      BY <1>2, <2>3, MaxOfIndices
    <3>2. f[s \ {Max(s)}] \in Nat /\ items[Max(s)] \in Items
      BY <1>2, <3>1
    <3> QED BY <3>2 DEF G
  <2>4. \A s \in SUBSET (1 .. n) :
           f[s] = IF s = {} THEN 0
                  ELSE f[s \ {Max(s)}] + ParseCurrencyMinegeld(items[Max(s)])
    BY <2>2, <2>3 DEF IsFold
  <2>5. IsIt(f)
    BY <1>2, <2>2, <2>4
  <2> QED BY <2>5
<1>5. IsIt(it)
  BY <1>4
<1> HIDE DEF it
<1>6. \A s \in SUBSET (1 .. n) :
         it[s] = IF s = {} THEN 0
                 ELSE it[s \ {Max(s)}] + ParseCurrencyMinegeld(items[Max(s)])
  BY <1>2, <1>5
<1>7. it[1 .. 0] = 0
  <2>1. 1 .. 0 = {} /\ 1 .. 0 \in SUBSET (1 .. n)
    OBVIOUS
  <2> QED BY <1>6, <2>1
<1>8. ASSUME NEW k \in 0 .. n - 1
      PROVE  it[1 .. k + 1] = it[1 .. k] + ParseCurrencyMinegeld(items[k + 1])
  <2>1. k \in Nat /\ k + 1 \in 1 .. k + 1 /\ 1 .. k + 1 \in SUBSET (1 .. n)
    BY ONLY <1>2, k \in 0 .. n - 1
  <2>2. Max(1 .. k + 1) = k + 1 /\ (1 .. k + 1) \ {k + 1} = 1 .. k
    BY <2>1, MaxOfInterval
  <2>3. 1 .. k + 1 # {}
    BY ONLY <2>1
  <2> QED BY ONLY <1>6, <2>1, <2>2, <2>3
<1> QED BY <1>1, <1>2, <1>7, <1>8 DEF n

(* The lists of a node, added up in any order of their names.              *)
LEMMA ListsSum ==
    ASSUME NEW D, IsFiniteSet(D), NEW lists \in [D -> Seq(Items)],
           \A name \in D : ListMinegeld(lists[name]) \in Nat
    PROVE  LET g == [name \in D |-> ListMinegeld(lists[name])]
           IN  \E it : IsSum(it, g, D) /\ total_minegeld(lists) = it[D]
<1> DEFINE g == [name \in D |-> ListMinegeld(lists[name])]
           IsIt(f) == f = [s \in SUBSET D |->
                             IF s = {} THEN 0
                             ELSE ListMinegeld(lists[CHOOSE x \in s : TRUE])
                                    + f[s \ {CHOOSE x \in s : TRUE}]]
           it == CHOOSE f : IsIt(f)
<1>0. DOMAIN lists = D
  OBVIOUS
<1>1. total_minegeld(lists) = it[D]
  BY <1>0 DEF total_minegeld, MapThenSumSet, MapThenFoldSet
<1>2. g \in [D -> Nat]
  OBVIOUS
<1>3. \A s \in SUBSET D : s # {} => Some(s) \in s /\ g[Some(s)] = ListMinegeld(lists[Some(s)])
  BY DEF Some
<1> HIDE DEF g
<1>4. PICK f \in [SUBSET D -> Nat] : IsSum(f, g, D)
  BY <1>2, SumExists
<1>5. IsIt(f)
  <2>1. \A s \in SUBSET D : f[s] = IF s = {} THEN 0
                                   ELSE ListMinegeld(lists[Some(s)]) + f[s \ {Some(s)}]
    BY <1>3, <1>4 DEF IsSum
  <2> QED BY <1>4, <2>1 DEF Some
<1>6. IsIt(it)
  BY <1>5
<1> HIDE DEF it
<1>7. IsSum(it, g, D)
  <2>1. \A s \in SUBSET D : it[s] = IF s = {} THEN 0
                                   ELSE ListMinegeld(lists[Some(s)]) + it[s \ {Some(s)}]
    BY <1>6 DEF Some
  <2> QED BY <1>3, <2>1 DEF IsSum
<1> QED BY <1>1, <1>7 DEF g

(* The slots of the lists, added up in any order.                          *)
LEMMA SlotsSum ==
    ASSUME NEW lists, IsFiniteSet(Slots(lists)),
           \A s \in Slots(lists) : Worth(lists[s[1]][s[2]]) \in Nat
    PROVE  LET g == [s \in Slots(lists) |-> Worth(lists[s[1]][s[2]])]
           IN  \E it : IsSum(it, g, Slots(lists)) /\ Money(lists) = it[Slots(lists)]
<1> DEFINE D == Slots(lists)
           g == [s \in D |-> Worth(lists[s[1]][s[2]])]
           W(s) == Worth(lists[s[1]][s[2]])
           IsIt(f) == f = [s \in SUBSET D |->
                             IF s = {} THEN 0
                             ELSE W(CHOOSE x \in s : TRUE)
                                    + f[s \ {CHOOSE x \in s : TRUE}]]
           it == CHOOSE f : IsIt(f)
<1>1. Money(lists) = it[D]
  BY DEF Money, MapThenSumSet, MapThenFoldSet
<1>2. g \in [D -> Nat]
  OBVIOUS
<1> HIDE DEF D
<1>3. \A s \in SUBSET D : s # {} => Some(s) \in s /\ g[Some(s)] = W(Some(s))
  BY DEF Some
<1> HIDE DEF g, W
<1>4. PICK f \in [SUBSET D -> Nat] : IsSum(f, g, D)
  BY <1>2, SumExists DEF D
<1>5. IsIt(f)
  <2>1. \A s \in SUBSET D : f[s] = IF s = {} THEN 0 ELSE W(Some(s)) + f[s \ {Some(s)}]
    BY <1>3, <1>4 DEF IsSum
  <2> QED BY <1>4, <2>1 DEF Some
<1>6. IsIt(it)
  BY <1>5
<1> HIDE DEF it
<1>7. IsSum(it, g, D)
  <2>1. \A s \in SUBSET D : it[s] = IF s = {} THEN 0 ELSE W(Some(s)) + it[s \ {Some(s)}]
    BY <1>6 DEF Some
  <2> QED BY <1>3, <2>1 DEF IsSum
<1> QED BY <1>1, <1>7 DEF g, D, W

SlotsOf(lists, E) == UNION {{name} \X DOMAIN lists[name] : name \in E}

SlotsAnd(lists, E, x) == SlotsOf(lists, E) \union ({x} \X DOMAIN lists[x])

(* The slots of one more list.                                             *)
LEMMA OneListMore ==
    ASSUME NEW lists, NEW E, NEW x \in E
    PROVE  SlotsOf(lists, E) = SlotsAnd(lists, E \ {x}, x)
  BY DEF SlotsOf, SlotsAnd

(* There are finitely many.                                                *)
LEMMA FinitelyManySlots ==
    ASSUME NEW D, IsFiniteSet(D), NEW lists \in [D -> Seq(Items)]
    PROVE  \A E \in SUBSET D : IsFiniteSet(SlotsOf(lists, E))
<1> DEFINE P == {E \in SUBSET D : IsFiniteSet(SlotsOf(lists, E))}
<1>1. {} \in P
  <2>1. SlotsOf(lists, {}) = {}
    BY DEF SlotsOf
  <2> QED BY <2>1, FS_EmptySet
<1>2. ASSUME NEW E \in SUBSET D, E # {}, \A x \in E : E \ {x} \in P PROVE E \in P
  <2>1. PICK x \in E : TRUE
    BY <1>2
  <2>2. IsFiniteSet(SlotsOf(lists, E \ {x}))
    BY <1>2
  <2>3. IsFiniteSet({x} \X DOMAIN lists[x])
    <3>1. lists[x] \in Seq(Items)
      OBVIOUS
    <3>2. DOMAIN lists[x] = 1 .. Len(lists[x]) /\ Len(lists[x]) \in Nat
      BY <3>1, LenProperties
    <3>3. IsFiniteSet(DOMAIN lists[x])
      BY <3>2, FS_Interval
    <3> QED BY <3>3, FS_Singleton, FS_Product
  <2>4. IsFiniteSet(SlotsOf(lists, E))
    <3> DEFINE A == SlotsOf(lists, E \ {x})
               B == {x} \X DOMAIN lists[x]
    <3>1. SlotsOf(lists, E) = SlotsAnd(lists, E \ {x}, x)
      BY OneListMore
    <3>2. SlotsAnd(lists, E \ {x}, x) = A \union B
      BY DEF SlotsAnd
    <3>3. IsFiniteSet(A) /\ IsFiniteSet(B)
      BY <2>2, <2>3
    <3> HIDE DEF A, B
    <3>4. IsFiniteSet(A \union B)
      BY <3>3, FS_Union
    <3> QED BY <3>1, <3>2, <3>4
  <2> QED BY <2>4
<1> HIDE DEF P
<1>3. SUBSET D \subseteq P
  BY <1>1, <1>2, InductionOnSubsets
<1> QED BY <1>3 DEF P

WorthOf(lists) == [s \in Slots(lists) |-> Worth(lists[s[1]][s[2]])]

\* it[...] grows by the worth of list x.
GrowsBy(it, lists, E, x) ==
    /\ ListMinegeld(lists[x]) \in Nat
    /\ it[SlotsAnd(lists, E, x)] = it[SlotsOf(lists, E)] + ListMinegeld(lists[x])

(* The money of a list and of others before it.                            *)
LEMMA ListAdded ==
    ASSUME NEW D, IsFiniteSet(D), NEW lists \in [D -> Seq(Items)],
           NEW it, IsSum(it, WorthOf(lists), Slots(lists)),
           NEW E \in SUBSET D, NEW x \in D \ E
    PROVE  GrowsBy(it, lists, E, x)
<1> DEFINE items == lists[x]
           n == Len(items)
           S == Slots(lists)
           g == [s \in S |-> Worth(lists[s[1]][s[2]])]
           B == SlotsOf(lists, E)
           upTo(k) == B \union ({x} \X (1 .. k))
<1>1. /\ items \in Seq(Items) /\ n \in Nat /\ DOMAIN items = 1 .. n
      /\ \A k \in 1 .. n : items[k] \in Items
  <2>1. items \in Seq(Items)
    OBVIOUS
  <2> QED BY <2>1, LenProperties
<1>2. PICK f : /\ f[1 .. 0] = 0
               /\ \A k \in 0 .. n - 1 : f[1 .. k + 1] = f[1 .. k] + ParseCurrencyMinegeld(items[k + 1])
               /\ ListMinegeld(items) = f[1 .. n]
  BY <1>1, ListSteps
<1>3. IsFiniteSet(S) /\ S = SlotsOf(lists, D)
  <2>1. S = SlotsOf(lists, D)
    BY DEF Slots, SlotsOf
  <2> QED BY <2>1, FinitelyManySlots
<1>4. ASSUME NEW s \in S PROVE Worth(lists[s[1]][s[2]]) \in Nat
  <2>1. PICK name \in D : s \in {name} \X DOMAIN lists[name]
    BY <1>3 DEF SlotsOf
  <2>2. s[1] = name /\ s[2] \in DOMAIN lists[name] /\ lists[name] \in Seq(Items)
    BY <2>1
  <2>3. lists[name][s[2]] \in Items
    BY <2>2, LenProperties
  <2> QED BY <2>2, <2>3, WorthIs
<1>5. g \in [S -> Nat] /\ IsSum(it, g, S)
  BY <1>4 DEF WorthOf
<1>6. /\ \A s \in SUBSET S : it[s] \in Nat
      /\ \A s \in SUBSET S : \A y \in s : it[s] = g[y] + it[s \ {y}]
  <2>1. IsFiniteSet(S)
    BY <1>3
  <2> HIDE DEF S, g
  <2>2. AddsUp(it, g, S)
    BY <1>5, <2>1, SumWithout
  <2> QED BY <2>2 DEF AddsUp
<1>7. \A k \in 1 .. n : <<x, k>> \in S /\ g[<<x, k>>] = Worth(items[k]) /\ <<x, k>> \notin B
  <2>1. ASSUME NEW k \in 1 .. n PROVE <<x, k>> \in S /\ <<x, k>> \notin B
    BY <1>1, <1>3 DEF SlotsOf
  <2> QED BY <2>1
<1>8. B \in SUBSET S
  BY <1>3 DEF SlotsOf
<1> HIDE DEF S, g, B, n, items
<1> DEFINE Right(k) == f[1 .. k] \in Nat /\ it[upTo(k)] = it[B] + f[1 .. k]
           K == {k \in Nat : k <= n => Right(k)}
<1>9. Right(0)
  <2>1. upTo(0) = B
    OBVIOUS
  <2>2. it[B] \in Nat
    BY <1>6, <1>8
  <2> HIDE DEF upTo
  <2> QED BY <1>2, <2>1, <2>2
<1>10. ASSUME NEW k \in Nat, k + 1 <= n, Right(k) PROVE Right(k + 1)
  <2>1. k \in 0 .. n - 1 /\ k + 1 \in 1 .. n
    BY ONLY <1>1, <1>10
  <2>2. f[1 .. k + 1] = f[1 .. k] + Worth(items[k + 1]) /\ Worth(items[k + 1]) \in Nat
    BY <1>1, <1>2, <2>1, WorthIs
  <2> DEFINE y == <<x, k + 1>>
  <2>3. y \in S /\ g[y] = Worth(items[k + 1]) /\ y \notin B
    BY <1>7, <2>1
  <2>4. upTo(k + 1) \in SUBSET S
    <3>1. ASSUME NEW j \in 1 .. k + 1 PROVE <<x, j>> \in S
      <4>1. j \in 1 .. n
        BY <1>1, <1>10
      <4> QED BY <1>7, <4>1
    <3> QED BY <1>8, <3>1
  <2>5. y \in upTo(k + 1) /\ upTo(k + 1) \ {y} = upTo(k)
    <3>1. 1 .. k + 1 = (1 .. k) \union {k + 1} /\ k + 1 \notin 1 .. k
      BY ONLY k \in Nat
    <3> QED BY <2>3, <3>1
  <2> HIDE DEF upTo, y
  <2>6. it[upTo(k + 1)] = g[y] + it[upTo(k)]
    BY <1>6, <2>4, <2>5
  <2>7. it[B] \in Nat
    BY <1>6, <1>8
  <2> QED BY <1>10, <2>2, <2>3, <2>6, <2>7
<1>11. 0 \in K /\ \A k \in Nat : k \in K => k + 1 \in K
  <2> HIDE DEF Right
  <2>1. ASSUME NEW k \in Nat, k \in K PROVE k + 1 \in K
    <3>1. k + 1 \in Nat /\ (k + 1 <= n => k <= n)
      BY ONLY <1>1, k \in Nat
    <3> QED BY <1>10, <2>1, <3>1
  <2> QED BY <1>9, <2>1
<1> HIDE DEF K, Right
<1>12. n \in K
  BY <1>1, <1>11, InductionOnSets
<1>13. Right(n)
  BY <1>1, <1>12 DEF K
<1> QED BY <1>1, <1>2, <1>13 DEF Right, B, items, SlotsAnd, GrowsBy

(* The sum over the lists of the sums over their items is the sum over all *)
(* slots (Inventory::total_minegeld).                                      *)
LEMMA MoneyIs ==
    ASSUME NEW D, IsFiniteSet(D), NEW lists \in [D -> Seq(Items)]
    PROVE  total_minegeld(lists) = Money(lists)
<1> DEFINE S == Slots(lists)
           W == [s \in S |-> Worth(lists[s[1]][s[2]])]
           L == [name \in D |-> ListMinegeld(lists[name])]
<1>1. S = SlotsOf(lists, D) /\ IsFiniteSet(S)
  <2>1. S = SlotsOf(lists, D)
    BY DEF Slots, SlotsOf
  <2> QED BY <2>1, FinitelyManySlots
<1>2. ASSUME NEW s \in S PROVE Worth(lists[s[1]][s[2]]) \in Nat
  <2>1. PICK name \in D : s \in {name} \X DOMAIN lists[name]
    BY <1>1 DEF SlotsOf
  <2>2. s[1] = name /\ s[2] \in DOMAIN lists[name] /\ lists[name] \in Seq(Items)
    BY <2>1
  <2>3. lists[name][s[2]] \in Items
    BY <2>2, LenProperties
  <2> QED BY <2>2, <2>3, WorthIs
<1>3. PICK it : IsSum(it, W, S) /\ Money(lists) = it[S]
  BY <1>1, <1>2, SlotsSum
<1>4. ASSUME NEW E \in SUBSET D, NEW x \in D \ E
      PROVE  GrowsBy(it, lists, E, x)
  <2>1. IsSum(it, WorthOf(lists), Slots(lists))
    BY <1>3 DEF WorthOf
  <2> HIDE DEF S, W
  <2> QED BY <2>1, ListAdded
<1>5. \A x \in D : ListMinegeld(lists[x]) \in Nat
  <2>1. {} \in SUBSET D /\ \A x \in D : x \in D \ {}
    OBVIOUS
  <2> QED BY <1>4, <2>1 DEF GrowsBy
<1>6. PICK jt : IsSum(jt, L, D) /\ total_minegeld(lists) = jt[D]
  BY <1>5, ListsSum
<1>7. L \in [D -> Nat] /\ \A x \in D : L[x] = ListMinegeld(lists[x])
  BY <1>5
<1>8. W \in [S -> Nat]
  BY <1>2
<1> HIDE DEF L, W, S
<1>9. /\ jt[{}] = 0 /\ \A E \in SUBSET D : jt[E] \in Nat
      /\ \A E \in SUBSET D : \A x \in E : jt[E] = L[x] + jt[E \ {x}]
  <2>1. AddsUp(jt, L, D)
    BY <1>6, <1>7, SumWithout
  <2> QED BY <2>1 DEF AddsUp
<1>10. it[{}] = 0
  <2>1. AddsUp(it, W, S)
    BY <1>1, <1>3, <1>8, SumWithout
  <2> QED BY <2>1 DEF AddsUp
<1> DEFINE P == {E \in SUBSET D : it[SlotsOf(lists, E)] = jt[E]}
<1>11. {} \in P
  <2>1. SlotsOf(lists, {}) = {}
    BY DEF SlotsOf
  <2> QED BY <1>9, <1>10, <2>1
<1>12. ASSUME NEW E \in SUBSET D, E # {}, \A x \in E : E \ {x} \in P PROVE E \in P
  <2>1. PICK x \in E : TRUE
    BY <1>12
  <2>2. /\ it[SlotsOf(lists, E \ {x})] = jt[E \ {x}]
        /\ jt[E] = L[x] + jt[E \ {x}] /\ jt[E \ {x}] \in Nat
        /\ L[x] = ListMinegeld(lists[x]) /\ L[x] \in Nat
    BY <1>5, <1>7, <1>9, <1>12
  <2>3. it[SlotsOf(lists, E)] = it[SlotsOf(lists, E \ {x})] + ListMinegeld(lists[x])
    BY <1>4, OneListMore DEF GrowsBy
  <2>4. it[SlotsOf(lists, E)] = jt[E]
    BY <2>2, <2>3
  <2> QED BY <2>4
<1> HIDE DEF P
<1>13. SUBSET D \subseteq P
  BY <1>11, <1>12, InductionOnSubsets
<1>14. it[SlotsOf(lists, D)] = jt[D]
  BY <1>13 DEF P
<1> QED BY <1>1, <1>3, <1>6, <1>14

-----------------------------------------------------------------------------
(* The lists of an inventory are read as they were written.                *)

(* What each line of an inventory does.                                    *)
LEMMA ParseLineIs ==
    ASSUME NEW p \in Parsers, p.status = "reading", NEW line \in InventoryLines
    PROVE  LET r == ParseLine(p, line)
           IN  /\ line.word = "List" => /\ r.status = "reading" /\ r.lists = p.lists
                                        /\ r.list_name = line.name /\ r.current = <<>>
               /\ line.word = "Width" => r = p
               /\ line.word \in {"Item", "Empty"} /\ p.list_name # "" =>
                     /\ r.status = "reading" /\ r.lists = p.lists
                     /\ r.list_name = p.list_name
                     /\ r.current = Append(p.current, line.item)
               /\ line.word = "EndInventoryList" =>
                     /\ r.status = "reading"
                     /\ r.lists = Put(p.lists, p.list_name, p.current)
               /\ line.word = "EndInventory" => r.lists = p.lists
<1>1. line.word \in Words
  BY DEF InventoryLines
<1>2. CASE line.word = "List"
  <2>1. ParseLine(p, line) = [p EXCEPT !.list_name = line.name, !.current = <<>>]
    BY <1>2 DEF ParseLine
  <2> QED BY <1>2, <2>1 DEF Parsers
<1>3. CASE line.word = "Width"
  BY <1>3 DEF ParseLine
<1>4. CASE line.word \in {"Item", "Empty"}
  <2>1. ParseLine(p, line) = AddSlot(p, line)
    BY <1>4 DEF ParseLine
  <2>2. p.list_name # "" => AddSlot(p, line) = [p EXCEPT !.current = Append(@, line.item)]
    BY DEF AddSlot
  <2> QED BY <1>4, <2>1, <2>2 DEF Parsers
<1>5. CASE line.word = "EndInventoryList"
  <2>1. ParseLine(p, line) = EndInventoryList(p)
    BY <1>5 DEF ParseLine
  <2> QED BY <1>5, <2>1 DEF EndInventoryList, Parsers
<1>6. CASE line.word = "EndInventory"
  <2>1. ParseLine(p, line) = [p EXCEPT !.status = "done"]
    BY <1>6 DEF ParseLine
  <2> QED BY <1>6, <2>1 DEF Parsers
<1>7. CASE line.word = "Junk"
  BY <1>7
<1> QED BY <1>1, <1>2, <1>3, <1>4, <1>5, <1>6, <1>7 DEF Words

\* line k is one of list x
IsOf(start, lists, x, k) == k \in start[x] .. EndOf(start[x], lists[x])

\* what line k of list x is
LineIs(lines, s, items, k) ==
    /\ k = s => lines[k].word = "List"
    /\ k = s + 1 => lines[k].word = "Width"
    /\ k > s + 1 /\ k < EndOf(s, items) =>
          /\ lines[k].word \in {"Item", "Empty"}
          /\ k - s - 1 \in 1 .. Len(items)
          /\ lines[k].item = items[k - s - 1]
    /\ k = EndOf(s, items) => lines[k].word = "EndInventoryList"
    /\ lines[k].word \in {"List", "Width", "Item", "Empty", "EndInventoryList"}
    /\ lines[k].word = "List" => k = s
    /\ lines[k].word = "EndInventoryList" => k = EndOf(s, items)

Starts(lines, lists, start) ==
    /\ start \in [DOMAIN lists -> Nat]
    /\ lists \in [DOMAIN lists -> Seq(Items)]
    /\ \A x \in DOMAIN lists : SaysList(lines, start[x], x, lists[x])

(* The lines of a list.                                                    *)
LEMMA LinesOfList ==
    ASSUME NEW lines, NEW s \in Nat, NEW x, NEW items \in Seq(Items),
           SaysList(lines, s, x, items),
           NEW k \in Nat, k \in s .. EndOf(s, items)
    PROVE  LineIs(lines, s, items, k)
<1> DEFINE n == Len(items)
           e == EndOf(s, items)
<1>1. n \in Nat /\ DOMAIN items = 1 .. n
  BY LenProperties
<1>2. e = s + n + 2
  BY DEF EndOf
<1> HIDE DEF n, e
<1>3. e \in Nat
  BY <1>1, <1>2
<1>4. s <= k /\ k <= e
  BY <1>3 DEF e
<1>5. CASE k > s + 1 /\ k < e
  <2>1. k - s - 1 \in 1 .. n /\ s + (k - s - 1) + 1 = k
    BY <1>1, <1>2, <1>5
  <2>2. k # s /\ k # s + 1 /\ k # e
    BY <1>3, <1>5
  <2>3. \A j \in DOMAIN items : /\ lines[s + j + 1].word \in {"Item", "Empty"}
                                /\ lines[s + j + 1].item = items[j]
    BY DEF SaysList
  <2>4. /\ lines[s + (k - s - 1) + 1].word \in {"Item", "Empty"}
        /\ lines[s + (k - s - 1) + 1].item = items[k - s - 1]
    BY <1>1, <2>1, <2>3
  <2> QED BY <2>1, <2>2, <2>4 DEF LineIs, e, n
<1>6. CASE k = s
  <2>1. lines[k].word = "List"
    BY <1>6 DEF SaysList
  <2>2. k # s + 1 /\ k # e /\ ~ (k > s + 1)
    BY <1>1, <1>2, <1>6
  <2> QED BY <1>6, <2>1, <2>2 DEF LineIs, e
<1>7. CASE k = s + 1
  <2>1. lines[k].word = "Width"
    BY <1>7 DEF SaysList
  <2>2. k # s /\ k # e /\ ~ (k > s + 1)
    BY <1>1, <1>2, <1>7
  <2> QED BY <1>7, <2>1, <2>2 DEF LineIs, e
<1>8. CASE k = e
  <2>1. lines[k].word = "EndInventoryList"
    BY <1>8 DEF SaysList, e
  <2>2. k # s /\ k # s + 1 /\ ~ (k < e)
    BY <1>1, <1>2, <1>8
  <2> QED BY <1>8, <2>1, <2>2 DEF LineIs, e
<1>9. k = s \/ k = s + 1 \/ (k > s + 1 /\ k < e) \/ k = e
  BY <1>3, <1>4
<1> QED BY <1>5, <1>6, <1>7, <1>8, <1>9

LEMMA ListIs ==
    ASSUME NEW lines, NEW lists, NEW start, Starts(lines, lists, start),
           NEW x \in DOMAIN lists
    PROVE  /\ start[x] \in Nat /\ lists[x] \in Seq(Items)
           /\ Len(lists[x]) \in Nat /\ DOMAIN lists[x] = 1 .. Len(lists[x])
           /\ EndOf(start[x], lists[x]) = start[x] + Len(lists[x]) + 2
           /\ EndOf(start[x], lists[x]) \in Nat
<1>1. start[x] \in Nat /\ lists[x] \in Seq(Items)
  BY DEF Starts
<1> DEFINE n == Len(lists[x])
           s == start[x]
           e == EndOf(s, lists[x])
<1>2. n \in Nat /\ DOMAIN lists[x] = 1 .. n
  BY <1>1, LenProperties
<1>3. e = s + n + 2
  BY DEF EndOf
<1> HIDE DEF n, s, e
<1>4. e \in Nat
  BY <1>1, <1>2, <1>3 DEF s
<1> QED BY <1>1, <1>2, <1>3, <1>4 DEF n, s, e

LEMMA NameIs ==
    ASSUME NEW lines, NEW lists, NEW start, Starts(lines, lists, start),
           NEW x \in DOMAIN lists
    PROVE  lines[start[x]].name = x /\ x # ""
<1>1. SaysList(lines, start[x], x, lists[x])
  BY DEF Starts
<1> QED BY <1>1 DEF SaysList

LEMMA LineOfList ==
    ASSUME NEW lines, NEW lists, NEW start, Starts(lines, lists, start),
           NEW x \in DOMAIN lists, NEW k \in Nat, IsOf(start, lists, x, k)
    PROVE  LineIs(lines, start[x], lists[x], k)
<1>1. start[x] \in Nat /\ lists[x] \in Seq(Items) /\ SaysList(lines, start[x], x, lists[x])
  BY DEF Starts
<1>2. k \in start[x] .. EndOf(start[x], lists[x])
  BY DEF IsOf
<1> QED BY <1>1, <1>2, LinesOfList

(* Different lists have no line together.                                  *)
LEMMA ListsAreApart ==
    ASSUME NEW lines, NEW lists, NEW start, Starts(lines, lists, start),
           NEW x \in DOMAIN lists, NEW y \in DOMAIN lists, NEW k \in Nat,
           IsOf(start, lists, x, k), IsOf(start, lists, y, k)
    PROVE  x = y
<1>1. ASSUME NEW a \in DOMAIN lists, NEW b \in DOMAIN lists,
             IsOf(start, lists, a, k), IsOf(start, lists, b, k), start[a] <= start[b]
      PROVE  a = b
  <2> DEFINE e == EndOf(start[a], lists[a])
             f == EndOf(start[b], lists[b])
             s == start[a]
             t == start[b]
  <2>1. s \in Nat /\ e \in Nat
    BY ListIs
  <2>2. t \in Nat /\ f \in Nat
    BY ListIs
  <2>3. lines[s].name = a
    BY NameIs
  <2>4. lines[t].name = b
    BY NameIs
  <2>5. k \in s .. e /\ k \in t .. f /\ s <= t
    BY <1>1 DEF IsOf
  <2> HIDE DEF e, f
  <2>6. t \in t .. f /\ t \in s .. e
    <3> HIDE DEF s, t
    <3> QED BY <2>1, <2>2, <2>5
  <2>7. IsOf(start, lists, b, t) /\ IsOf(start, lists, a, t)
    BY <2>6 DEF IsOf, e, f
  <2>8. LineIs(lines, t, lists[b], t) /\ LineIs(lines, s, lists[a], t)
    BY <2>2, <2>7, LineOfList
  <2>9. lines[t].word = "List"
    BY <2>8 DEF LineIs
  <2>10. t = s
    BY <2>8, <2>9 DEF LineIs
  <2> QED BY <2>3, <2>4, <2>10
<1>2. start[x] \in Nat /\ start[y] \in Nat
  BY ListIs
<1>3. start[x] <= start[y] \/ start[y] <= start[x]
  BY <1>2
<1> QED BY <1>1, <1>3

(* The lists that end within the first k lines.                            *)
ListsUpTo(start, lists, k) == {x \in DOMAIN lists : EndOf(start[x], lists[x]) <= k}

\* what the parser has of list x after line k
HasOfList(parser, start, items, x, k) ==
    start[x] <= k /\ k < EndOf(start[x], items) =>
        /\ parser.list_name = x
        /\ Len(parser.current) = IF k = start[x] THEN 0 ELSE k - start[x] - 1
        /\ \A j \in 1 .. Len(parser.current) : parser.current[j] = items[j]

HasParsed(parser, start, lists, k) ==
    /\ parser.status = "reading"
    /\ DOMAIN parser.lists = ListsUpTo(start, lists, k)
    /\ \A x \in ListsUpTo(start, lists, k) : parser.lists[x] = lists[x]
    /\ \A x \in DOMAIN lists : HasOfList(parser, start, lists[x], x, k)

(* One more line.                                                          *)
LEMMA OneLineMore ==
    ASSUME NEW lines \in Seq(InventoryLines), NEW lists, NEW start,
           Starts(lines, lists, start), NEW k \in Nat, NEW j \in 1 .. Len(lines), j = k + 1,
           NEW x \in DOMAIN lists, IsOf(start, lists, x, j),
           NEW p \in Parsers, HasParsed(p, start, lists, k)
    PROVE  HasParsed(ParseLine(p, lines[j]), start, lists, j)
<1> DEFINE line == lines[j]
           r == ParseLine(p, line)
           s == start[x]
           items == lists[x]
           e == EndOf(s, items)
           n == Len(items)
<1>1. /\ s \in Nat /\ items \in Seq(Items) /\ n \in Nat /\ DOMAIN items = 1 .. n
      /\ e = s + n + 2 /\ e \in Nat
  BY ListIs
<1>2. s <= j /\ j <= e /\ j \in s .. e
  BY <1>1 DEF IsOf
<1>3. LineIs(lines, s, items, j) /\ lines[s].name = x /\ x # ""
  <2>1. j \in Nat
    OBVIOUS
  <2>2. LineIs(lines, s, items, j)
    BY <2>1, LineOfList
  <2>3. lines[s].name = x /\ x # ""
    BY NameIs
  <2> QED BY <2>2, <2>3
<1>31. /\ j = s => line.word = "List" /\ line.name = x
       /\ j = s + 1 => line.word = "Width"
       /\ j > s + 1 /\ j < e =>
             /\ line.word \in {"Item", "Empty"}
             /\ j - s - 1 \in 1 .. n
             /\ line.item = items[j - s - 1]
       /\ j = e => line.word = "EndInventoryList"
  <2> HIDE DEF s, items
  <2>1. /\ j = s + 1 => lines[j].word = "Width"
        /\ j = s => lines[j].word = "List"
        /\ j > s + 1 /\ j < e =>
             /\ lines[j].word \in {"Item", "Empty"}
             /\ j - s - 1 \in 1 .. n
             /\ lines[j].item = items[j - s - 1]
        /\ j = e => lines[j].word = "EndInventoryList"
    BY <1>3 DEF LineIs
  <2> HIDE DEF e, n
  <2> QED BY <1>3, <2>1
<1>4. line \in InventoryLines
  BY LenProperties
<1>5. p.status = "reading" /\ p.current \in Seq(Items) /\ Len(p.current) \in Nat
  <2>1. p.status = "reading" /\ p.current \in Seq(Items)
    BY DEF HasParsed, Parsers
  <2> QED BY <2>1, LenProperties
<1>6. ASSUME NEW y \in DOMAIN lists, IsOf(start, lists, y, j) PROVE y = x
  BY <1>6, ListsAreApart
\* other lists are not concerned
<1>7. ASSUME NEW y \in DOMAIN lists, y # x
      PROVE  /\ EndOf(start[y], lists[y]) <= j <=> EndOf(start[y], lists[y]) <= k
             /\ ~ (start[y] <= j /\ j < EndOf(start[y], lists[y]))
  <2>1. ~ (j \in start[y] .. EndOf(start[y], lists[y]))
    BY <1>6, <1>7 DEF IsOf
  <2> DEFINE t == start[y]
             m == Len(lists[y])
             f == EndOf(t, lists[y])
  <2>2. t \in Nat /\ f \in Nat /\ m \in Nat /\ f = t + m + 2
    BY ListIs
  <2> HIDE DEF t, f, m
  <2> QED BY <2>1, <2>2 DEF t, f
<1>8. \A y \in DOMAIN lists : y # x => HasOfList(r, start, lists[y], y, j)
  BY <1>7 DEF HasOfList
<1>9. /\ DOMAIN p.lists = ListsUpTo(start, lists, k)
      /\ \A y \in ListsUpTo(start, lists, k) : p.lists[y] = lists[y]
      /\ HasOfList(p, start, items, x, k)
  BY DEF HasParsed
<1>10. ListsUpTo(start, lists, j) =
          IF j = e THEN ListsUpTo(start, lists, k) \union {x}
          ELSE ListsUpTo(start, lists, k)
  <2>1. \A y \in DOMAIN lists : y # x =>
           (y \in ListsUpTo(start, lists, j) <=> y \in ListsUpTo(start, lists, k))
    BY <1>7 DEF ListsUpTo
  <2>2. x \in ListsUpTo(start, lists, j) <=> j = e
    <3>1. x \in ListsUpTo(start, lists, j) <=> e <= j
      BY DEF ListsUpTo
    <3> HIDE DEF e, s
    <3> QED BY <1>1, <1>2, <3>1
  <2>3. x \notin ListsUpTo(start, lists, k)
    <3>1. x \in ListsUpTo(start, lists, k) <=> e <= k
      BY DEF ListsUpTo
    <3> HIDE DEF e, s
    <3> QED BY <1>1, <1>2, <3>1
  <2>4. \A i : ListsUpTo(start, lists, i) \subseteq DOMAIN lists
    BY DEF ListsUpTo
  <2> DEFINE U == ListsUpTo(start, lists, k)
             V == ListsUpTo(start, lists, j)
  <2>5. U \subseteq DOMAIN lists /\ V \subseteq DOMAIN lists
    BY <2>4
  <2> HIDE DEF e, s, U, V
  <2>6. /\ \A y \in DOMAIN lists : y # x => (y \in V <=> y \in U)
        /\ x \in V <=> j = e
        /\ x \notin U
    BY <2>1, <2>2, <2>3 DEF U, V
  <2>7. j = e => V = U \union {x}
    BY <2>5, <2>6
  <2>8. ASSUME j # e PROVE V = U
    <3>1. \A y \in DOMAIN lists : y \in V <=> y \in U
      BY <2>6, <2>8
    <3> QED BY <2>5, <3>1
  <2> QED BY <2>7, <2>8 DEF U, V
\* what is to be shown of the line
<1>11. SUFFICES /\ r.status = "reading"
                /\ j # e => r.lists = p.lists
                /\ j = e => r.lists = Put(p.lists, x, p.current)
                                /\ p.current = items
                /\ HasOfList(r, start, items, x, j)
  <2>1. CASE j # e
    BY <1>8, <1>9, <1>10, <1>11, <2>1 DEF HasParsed
  <2>2. CASE j = e
    <3>1. r.lists = Put(p.lists, x, items)
      BY <1>11, <2>2
    <3>2. DOMAIN r.lists = ListsUpTo(start, lists, j)
      BY <1>9, <1>10, <2>2, <3>1 DEF Put
    <3>3. \A y \in ListsUpTo(start, lists, j) : r.lists[y] = lists[y]
      BY <1>9, <1>10, <2>2, <3>1 DEF Put
    <3> QED BY <1>8, <1>11, <3>2, <3>3 DEF HasParsed
  <2> QED BY <2>1, <2>2
<1>12. HasOfList(p, start, items, x, k) <=>
         (s <= k /\ k < e => /\ p.list_name = x
                             /\ Len(p.current) = IF k = s THEN 0 ELSE k - s - 1
                             /\ \A i \in 1 .. Len(p.current) : p.current[i] = items[i])
  BY DEF HasOfList
<1>13. HasOfList(r, start, items, x, j) <=>
         (s <= j /\ j < e =>
                             /\ r.list_name = x
                             /\ Len(r.current) = IF j = s THEN 0 ELSE j - s - 1
                             /\ \A i \in 1 .. Len(r.current) : r.current[i] = items[i])
  BY DEF HasOfList
<1>14. CASE j = s
  <2>1. line.word = "List" /\ line.name = x
    BY <1>31, <1>14
  <2>2. /\ r.status = "reading" /\ r.lists = p.lists
        /\ r.list_name = x /\ r.current = <<>>
    BY <1>4, <1>5, <2>1, ParseLineIs
  <2>3. j # e
    BY <1>1, <1>14
  <2> HIDE DEF r, s, e, items
  <2>4. Len(r.current) = 0
    BY <2>2
  <2> QED BY <1>13, <1>14, <2>2, <2>3, <2>4
<1>15. CASE j = s + 1
  <2>1. line.word = "Width"
    BY <1>31, <1>15
  <2>2. r = p
    BY <1>4, <1>5, <2>1, ParseLineIs
  <2>3. j # e /\ k = s /\ k < e
    BY <1>1, <1>15
  <2> HIDE DEF r, s, e, items
  <2> QED BY <1>1, <1>5, <1>9, <1>12, <1>13, <1>15, <2>2, <2>3
<1>16. CASE j > s + 1 /\ j < e
  <2>1. /\ line.word \in {"Item", "Empty"}
        /\ j - s - 1 \in 1 .. n
        /\ line.item = items[j - s - 1]
    BY <1>31, <1>16
  <2>2. s <= k /\ k < e /\ k # s /\ j # e /\ j # s
        /\ k - s - 1 \in Nat /\ j - s - 1 = (k - s - 1) + 1
    <3> HIDE DEF s, e, n, items
    <3> QED BY <1>1, <1>16
  <2>3. /\ p.list_name = x
        /\ Len(p.current) = k - s - 1
        /\ \A i \in 1 .. Len(p.current) : p.current[i] = items[i]
    BY <1>9, <1>12, <2>2
  <2>4. /\ r.status = "reading" /\ r.lists = p.lists
        /\ r.list_name = p.list_name
        /\ r.current = Append(p.current, line.item)
    BY <1>3, <1>4, <1>5, <2>1, <2>3, ParseLineIs
  <2>5. line.item \in Items
    BY <1>4 DEF InventoryLines
  <2>6. /\ Len(r.current) = Len(p.current) + 1
        /\ \A i \in 1 .. Len(p.current) : r.current[i] = p.current[i]
        /\ r.current[Len(p.current) + 1] = line.item
    BY <1>5, <2>4, <2>5, AppendProperties
  <2> HIDE DEF r, s, e, items, line, n
  <2>7. ASSUME NEW i \in 1 .. Len(r.current) PROVE r.current[i] = items[i]
    <3>1. i \in 1 .. Len(p.current) \/ i = Len(p.current) + 1
      BY <1>5, <2>6
    <3> QED BY <2>1, <2>2, <2>3, <2>6, <3>1
  <2>8. Len(r.current) = j - s - 1
    BY <2>2, <2>3, <2>6
  <2> QED BY <1>13, <2>2, <2>3, <2>4, <2>7, <2>8
<1>17. CASE j = e
  <2>1. line.word = "EndInventoryList"
    BY <1>31, <1>17
  <2>2. s <= k /\ k < e /\ k # s /\ k - s - 1 = n
    BY <1>1, <1>17
  <2>3. /\ p.list_name = x
        /\ Len(p.current) = n
        /\ \A i \in 1 .. Len(p.current) : p.current[i] = items[i]
    BY <1>9, <1>12, <2>2
  <2>4. /\ r.status = "reading"
        /\ r.lists = Put(p.lists, p.list_name, p.current)
    BY <1>4, <1>5, <2>1, ParseLineIs
  <2>5. p.current = items
    <3> DEFINE c == p.current
    <3>1. c \in Seq(Items) /\ Len(c) = Len(items) /\ items \in Seq(Items)
          /\ \A i \in 1 .. Len(c) : c[i] = items[i]
      BY <1>1, <1>5, <2>3
    <3> HIDE DEF c, items
    <3>2. c = items
      BY <3>1, SeqEqual
    <3> QED BY <3>2 DEF c
  <2> HIDE DEF r, s, e, items
  <2> QED BY <1>1, <1>13, <1>17, <2>3, <2>4, <2>5
<1>18. j = s \/ j = s + 1 \/ (j > s + 1 /\ j < e) \/ j = e
  <2> HIDE DEF s, e
  <2> QED BY <1>1, <1>2
<1> QED BY <1>14, <1>15, <1>16, <1>17, <1>18

(* The parser gives the lists that were written (Inventory::                *)
(* deserialize_inventory).                                                 *)
LEMMA ListsAreParsed ==
    ASSUME NEW lines \in Seq(InventoryLines), NEW lists,
           lists \in [DOMAIN lists -> Seq(Items)], SaysLists(lines, lists)
    PROVE  deserialize_inventory(NoInventory, lines).lists = lists
<1>1. PICK start \in [DOMAIN lists -> DOMAIN lines] :
         /\ \A name \in DOMAIN lists : SaysList(lines, start[name], name, lists[name])
         /\ \A k \in 1 .. Len(lines) - 1 : \E name \in DOMAIN lists :
                 k \in start[name] .. EndOf(start[name], lists[name])
         /\ lines # <<>> /\ lines[Len(lines)].word = "EndInventory"
  BY DEF SaysLists
<1> DEFINE n == Len(lines)
<1>2. /\ n \in Nat /\ DOMAIN lines = 1 .. n /\ n # 0
      /\ \A k \in 1 .. n : lines[k] \in InventoryLines
  BY <1>1, LenProperties, EmptySeq
<1>3. Starts(lines, lists, start)
  <2>1. start \in [DOMAIN lists -> Nat]
    BY <1>2
  <2> QED BY <1>1, <2>1 DEF Starts
<1>4. PICK it : /\ it[1 .. 0] = StartInventory(NoInventory)
                /\ \A k \in 0 .. Len(lines) - 1 :
                      it[1 .. k + 1] = ParseLine(it[1 .. k], lines[k + 1])
                /\ deserialize_inventory(NoInventory, lines) = it[1 .. Len(lines)]
  BY NoInventoryType, ParseSteps
<1> DEFINE p(k) == it[1 .. k]
           Right(k) == p(k) \in Parsers /\ HasParsed(p(k), start, lists, k)
           K == {k \in Nat : k <= n - 1 => Right(k)}
<1>5. Right(0)
  <2>1. p(0) = StartInventory(NoInventory)
    BY <1>4
  <2>2. p(0) \in Parsers
    BY <2>1, StartType, NoInventoryType
  <2>3. p(0).status = "reading" /\ p(0).lists = <<>> /\ DOMAIN <<>> = {}
    <3>1. StartInventory(NoInventory).status = "reading"
          /\ StartInventory(NoInventory).lists = NoInventory
      BY ONLY DEF StartInventory
    <3> QED BY ONLY <2>1, <3>1 DEF NoInventory
  <2>4. ASSUME NEW x \in DOMAIN lists
        PROVE  start[x] >= 1 /\ EndOf(start[x], lists[x]) > 0
    <3>1. start[x] \in 1 .. n
      BY <1>2
    <3>2. Len(lists[x]) \in Nat /\ EndOf(start[x], lists[x]) = start[x] + Len(lists[x]) + 2
      BY <1>3, ListIs
    <3> DEFINE s == start[x]
               e == EndOf(s, lists[x])
               m == Len(lists[x])
    <3> HIDE DEF s, e, m
    <3>3. s >= 1 /\ e > 0
      BY <1>2, <3>1, <3>2 DEF s, e, m
    <3> QED BY <3>3 DEF s, e
  <2>5. ListsUpTo(start, lists, 0) = {}
    <3>1. ASSUME NEW x \in DOMAIN lists, EndOf(start[x], lists[x]) <= 0 PROVE FALSE
      <4>1. EndOf(start[x], lists[x]) \in Nat
        BY <1>3, ListIs
      <4> QED BY <2>4, <3>1, <4>1
    <3> QED BY <3>1 DEF ListsUpTo
  <2>6. ASSUME NEW x \in DOMAIN lists PROVE HasOfList(p(0), start, lists[x], x, 0)
    <3>1. ~ (start[x] <= 0)
      <4>1. start[x] \in Nat
        BY <1>3, ListIs
      <4> QED BY <2>4, <4>1
    <3> QED BY <3>1 DEF HasOfList
  <2> HIDE DEF p
  <2>7. HasParsed(p(0), start, lists, 0)
    BY <2>3, <2>5, <2>6 DEF HasParsed
  <2> QED BY <2>2, <2>7
<1>6. \A k \in 0 .. n - 1 : p(k + 1) = ParseLine(p(k), lines[k + 1])
  BY <1>4
<1>7. deserialize_inventory(NoInventory, lines) = p(n)
  BY <1>4
<1> HIDE DEF p, n
<1>8. ASSUME NEW k \in Nat, k + 1 <= n - 1, Right(k) PROVE Right(k + 1)
  <2> DEFINE j == k + 1
  <2>1. k \in 0 .. n - 1 /\ j \in 1 .. n /\ j \in 1 .. n - 1 /\ j = k + 1
    BY ONLY <1>2, k \in Nat, k + 1 <= n - 1
  <2> HIDE DEF j
  <2>2. PICK x \in DOMAIN lists : j \in start[x] .. EndOf(start[x], lists[x])
    BY <1>1, <2>1 DEF n
  <2>3. IsOf(start, lists, x, j) /\ lines[j] \in InventoryLines
    BY <1>2, <2>1, <2>2 DEF IsOf
  <2>4. p(j) = ParseLine(p(k), lines[j])
    BY <1>6, <2>1
  <2>5. p(j) \in Parsers
    BY <1>8, <2>3, <2>4, ParseType
  <2>6. HasParsed(p(j), start, lists, j)
    BY <1>3, <1>8, <2>1, <2>3, <2>4, OneLineMore DEF n
  <2> QED BY <2>1, <2>5, <2>6
<1> HIDE DEF Right
<1>9. 0 \in K /\ \A k \in Nat : k \in K => k + 1 \in K
  <2>1. ASSUME NEW k \in Nat, k \in K PROVE k + 1 \in K
    <3>1. k + 1 \in Nat /\ (k + 1 <= n - 1 => k <= n - 1)
      BY ONLY <1>2, k \in Nat
    <3> QED BY <1>8, <2>1, <3>1
  <2> QED BY <1>5, <2>1
<1> HIDE DEF K
<1>10. n - 1 \in K
  BY <1>2, <1>9, InductionOnSets
<1> DEFINE m == n - 1
<1>11. m \in Nat /\ m + 1 = n /\ m \in 0 .. n - 1 /\ n \in 1 .. n
  BY <1>2
<1>12. Right(m)
  BY <1>2, <1>10, <1>11 DEF K
<1> HIDE DEF m
<1>13. ListsUpTo(start, lists, m) = DOMAIN lists
  <2>1. ASSUME NEW x \in DOMAIN lists PROVE EndOf(start[x], lists[x]) <= m
    <3> DEFINE e == EndOf(start[x], lists[x])
    <3>1. SaysList(lines, start[x], x, lists[x])
      BY <1>1
    <3>2. e \in 1 .. n /\ lines[e].word = "EndInventoryList"
      BY <1>2, <3>1 DEF SaysList
    <3> HIDE DEF e
    <3>3. e # n
      BY <1>1, <3>2 DEF n
    <3>4. e <= m
      BY <1>2, <1>11, <3>2, <3>3
    <3> QED BY <3>4 DEF e
  <2> QED BY <2>1 DEF ListsUpTo
<1>14. p(m) \in Parsers /\ HasParsed(p(m), start, lists, m)
  BY <1>12 DEF Right
<1>15. p(n).lists = p(m).lists
  <2>1. p(n) = ParseLine(p(m), lines[n])
    BY <1>6, <1>11
  <2>2. lines[n] \in InventoryLines /\ lines[n].word = "EndInventory"
    BY <1>1, <1>2, <1>11 DEF n
  <2>3. p(m).status = "reading"
    BY <1>14 DEF HasParsed
  <2> QED BY <1>14, <2>1, <2>2, <2>3, ParseLineIs
<1>16. /\ DOMAIN p(m).lists = DOMAIN lists
       /\ \A x \in DOMAIN lists : p(m).lists[x] = lists[x]
  BY <1>13, <1>14 DEF HasParsed
<1>17. p(m).lists = lists
  <2> DEFINE g == p(m).lists
  <2>1. g \in Inventories
    BY <1>14 DEF Parsers
  <2>2. g = [x \in DOMAIN g |-> g[x]]
    BY <2>1 DEF Inventories
  <2> HIDE DEF g
  <2>3. DOMAIN g = DOMAIN lists /\ \A x \in DOMAIN lists : g[x] = lists[x]
    BY <1>16 DEF g
  <2>4. g = lists
    BY <2>2, <2>3
  <2> QED BY <2>4 DEF g
<1> QED BY <1>7, <1>15, <1>17

(* An inventory has finitely many lists.                                   *)
LEMMA ListsAreFinite ==
    ASSUME NEW lines \in Seq(InventoryLines), NEW lists, SaysLists(lines, lists)
    PROVE  IsFiniteSet(DOMAIN lists)
<1>1. PICK start \in [DOMAIN lists -> DOMAIN lines] :
         \A name \in DOMAIN lists : SaysList(lines, start[name], name, lists[name])
  BY DEF SaysLists
<1>2. DOMAIN lines = 1 .. Len(lines) /\ Len(lines) \in Nat
  BY LenProperties
<1>3. IsFiniteSet(DOMAIN lines)
  BY <1>2, FS_Interval
<1>4. \A x \in DOMAIN lists : lines[start[x]].name = x
  BY <1>1 DEF SaysList
<1>5. start \in Injection(DOMAIN lists, DOMAIN lines)
  BY <1>1, <1>4 DEF Injection, IsInjective
<1> QED BY <1>3, <1>5, FS_Injection

(* The owner is the value of the first variable that says one (Node::      *)
(* get_owner).                                                             *)
LEMMA OwnerIs ==
    ASSUME NEW node, node.metadata \in Seq(Variables), NEW owner,
           SaysOwner(node.metadata, owner)
    PROVE  get_owner(node) = owner
<1> DEFINE vars_ == node.metadata
           n == Len(vars_)
           OfOwner(v) == vars_[v].key \in {"owner", "_owner"}
           T == {v \in 1 .. n : OfOwner(v)}
           first == SelectInSeq(vars_, LAMBDA m : m.key \in {"owner", "_owner"})
<1>1. n \in Nat /\ DOMAIN vars_ = 1 .. n
  BY LenProperties
<1>2. first = IF T # {} THEN Min(T) ELSE 0
  BY DEF SelectInSeq
<1>3. get_owner(node) = IF first = 0 THEN "" ELSE vars_[first].value
  BY DEF get_owner
<1>4. \/ owner = "" /\ \A v \in 1 .. n : ~ OfOwner(v)
      \/ \E v \in 1 .. n : /\ OfOwner(v) /\ owner = vars_[v].value
                           /\ \A u \in 1 .. v - 1 : ~ OfOwner(u)
  BY <1>1 DEF SaysOwner
<1> HIDE DEF n, first, OfOwner, vars_
<1>5. T # {} => first \in T /\ \A v \in T : first <= v
  <2>1. T \subseteq Nat
    BY <1>1
  <2> HIDE DEF T
  <2> QED BY <1>2, <2>1, MinOfNaturals
<1>6. CASE owner = "" /\ \A v \in 1 .. n : ~ OfOwner(v)
  <2>1. T = {}
    BY <1>6
  <2> QED BY <1>2, <1>3, <1>6, <2>1
<1>7. ASSUME NEW v \in 1 .. n, OfOwner(v), owner = vars_[v].value,
             \A u \in 1 .. v - 1 : ~ OfOwner(u)
      PROVE  get_owner(node) = owner
  <2>1. v \in T
    BY <1>7
  <2>2. first \in 1 .. n /\ OfOwner(first) /\ first <= v
    BY <1>5, <2>1
  <2>3. first \notin 1 .. v - 1
    BY <1>7, <2>2
  <2>4. first = v /\ first # 0
    BY <1>1, <2>2, <2>3
  <2> QED BY <1>3, <1>7, <2>4
<1> QED BY <1>4, <1>6, <1>7

(* What an entry of the metadata says of its node, is what the node has.   *)
LEMMA EntryGives ==
    ASSUME NEW node \in NodeType, node.metadata = <<>>, node.inventory = NoInventory,
           NEW entry \in MetadataEntries, NEW owner, NEW lists,
           lists \in [DOMAIN lists -> Seq(Items)],
           SaysOwner(entry.vars, owner), SaysLists(entry.lines, lists)
    PROVE  /\ SaysOwner(MetadataOf(node, entry).metadata, owner)
           /\ MetadataOf(node, entry).inventory = lists
<1> DEFINE m == node.metadata \o entry.vars
           l == deserialize_inventory(node.inventory, entry.lines).lists
           new == MetadataOf(node, entry)
<1>1. entry.vars \in Seq(Variables) /\ entry.lines \in Seq(InventoryLines)
  BY DEF MetadataEntries
<1>2. m = entry.vars
  BY <1>1, ConcatEmptySeq
<1>3. l = lists
  BY <1>1, ListsAreParsed
<1>4. new = [node EXCEPT !.metadata = m, !.inventory = l]
  BY DEF MetadataOf, NodeType
<1> HIDE DEF m, l, new
<1>5. new.metadata = m /\ new.inventory = l
  BY <1>4 DEF NodeType
<1> QED BY <1>2, <1>3, <1>5 DEF new

(* A node has what the only entry for it gives, and is as it was if there  *)
(* is none.                                                                *)
EntryHasGiven(new, ns, entries, i, e) ==
    entries[e].pos = i => new[i] = MetadataOf(ns[i], entries[e])

NothingGiven(new, ns, entries, i, k) ==
    (\A e \in 1 .. k : entries[e].pos # i) => new[i] = ns[i]

LEMMA MetadataGives ==
    ASSUME NEW ns \in NodesType, NEW entries \in Seq(MetadataEntries),
           \A d, e \in DOMAIN entries : entries[d].pos = entries[e].pos => d = e,
           NEW i \in 0 .. NodesPerBlock - 1
    PROVE  /\ \A e \in DOMAIN entries :
                 EntryHasGiven(AllMetadata(ns, entries), ns, entries, i, e)
           /\ NothingGiven(AllMetadata(ns, entries), ns, entries, i, Len(entries))
<1>1. PICK it : /\ it[1 .. 0] = ns
                /\ \A k \in 0 .. Len(entries) - 1 :
                      it[1 .. k + 1] = MetadataAdded(it[1 .. k], entries[k + 1])
                /\ AllMetadata(ns, entries) = it[1 .. Len(entries)]
  BY MetadataSteps
<1> DEFINE n == Len(entries)
           p(k) == it[1 .. k]
           Right(k) == /\ p(k) \in NodesType
                       /\ \A e \in 1 .. k : EntryHasGiven(p(k), ns, entries, i, e)
                       /\ NothingGiven(p(k), ns, entries, i, k)
           K == {k \in Nat : k <= n => Right(k)}
<1>2. n \in Nat /\ DOMAIN entries = 1 .. n /\ \A k \in 1 .. n : entries[k] \in MetadataEntries
  BY LenProperties
<1>3. \A k \in 0 .. n - 1 : p(k + 1) = MetadataAdded(p(k), entries[k + 1])
  BY <1>1
<1>4. AllMetadata(ns, entries) = p(n)
  BY <1>1
<1>5. Right(0)
  <2>1. p(0) = ns
    BY <1>1
  <2> HIDE DEF p
  <2>2. 1 .. 0 = {}
    OBVIOUS
  <2>3. NothingGiven(p(0), ns, entries, i, 0)
    BY <2>1 DEF NothingGiven
  <2> QED BY <2>1, <2>2, <2>3
<1> HIDE DEF n, p
<1>6. ASSUME NEW k \in Nat, k + 1 <= n, Right(k) PROVE Right(k + 1)
  <2> DEFINE j == k + 1
             entry == entries[j]
  <2>1. k \in 0 .. n - 1 /\ j \in 1 .. n /\ j = k + 1 /\ 1 .. j = (1 .. k) \union {j}
        /\ j \notin 1 .. k /\ 1 .. k \subseteq 1 .. n
    BY ONLY <1>2, k \in Nat, k + 1 <= n
  <2> HIDE DEF j
  <2>2. entry \in MetadataEntries
    BY <1>2, <2>1
  <2>3. p(j) = MetadataAdded(p(k), entry) /\ p(k) \in NodesType
    BY <1>3, <1>6, <2>1
  <2>4. p(j) \in NodesType
    BY <2>2, <2>3, MetadataAddedType
  <2>5. p(j)[i] = IF entry.pos = i THEN MetadataOf(p(k)[i], entry) ELSE p(k)[i]
    BY <2>3 DEF MetadataAdded, NodesType
  <2>6. CASE entry.pos = i
    <3>1. \A e \in 1 .. k : entries[e].pos # i
      BY <1>2, <2>1, <2>6
    <3>2. p(k)[i] = ns[i]
      BY <1>6, <3>1 DEF NothingGiven
    <3>3. \A e \in 1 .. j : EntryHasGiven(p(j), ns, entries, i, e)
      BY <2>1, <2>5, <2>6, <3>1, <3>2 DEF EntryHasGiven
    <3>4. NothingGiven(p(j), ns, entries, i, j)
      BY <2>1, <2>6 DEF NothingGiven
    <3> QED BY <2>1, <2>4, <3>3, <3>4
  <2>7. CASE entry.pos # i
    <3>1. p(j)[i] = p(k)[i]
      BY <2>5, <2>7
    <3>2. \A e \in 1 .. j : EntryHasGiven(p(j), ns, entries, i, e)
      BY <1>6, <2>1, <2>7, <3>1 DEF EntryHasGiven
    <3>3. NothingGiven(p(j), ns, entries, i, j)
      BY <1>6, <2>1, <3>1 DEF NothingGiven
    <3> QED BY <2>1, <2>4, <3>2, <3>3
  <2> QED BY <2>6, <2>7
<1> HIDE DEF Right
<1>7. 0 \in K /\ \A k \in Nat : k \in K => k + 1 \in K
  <2>1. ASSUME NEW k \in Nat, k \in K PROVE k + 1 \in K
    <3>1. k + 1 \in Nat /\ (k + 1 <= n => k <= n)
      BY ONLY <1>2, k \in Nat
    <3> QED BY <1>6, <2>1, <3>1
  <2> QED BY <1>5, <2>1
<1> HIDE DEF K
<1>8. n \in K
  BY <1>2, <1>7, InductionOnSets
<1>9. Right(n)
  <2>1. n <= n
    BY <1>2
  <2> QED BY <1>8, <2>1 DEF K
<1> QED BY <1>2, <1>4, <1>9 DEF Right, n

(* No more names than entries are added.                                   *)
LEMMA NamesLength ==
    ASSUME NEW ids \in Seq(STRING), NEW entries \in Seq(MappingEntries)
    PROVE  Len(AllNames(ids, entries)) <= Len(ids) + Len(entries)
<1>1. PICK it : /\ it[1 .. 0] = ids
                /\ \A k \in 0 .. Len(entries) - 1 :
                      it[1 .. k + 1] = Add(it[1 .. k], entries[k + 1].name)
                /\ AllNames(ids, entries) = it[1 .. Len(entries)]
  BY NamesSteps
<1> DEFINE n == Len(entries)
           p(k) == it[1 .. k]
           Right(k) == p(k) \in Seq(STRING) /\ Len(p(k)) <= Len(ids) + k
           K == {k \in Nat : k <= n => Right(k)}
<1>2. n \in Nat /\ Len(ids) \in Nat /\ \A k \in 1 .. n : entries[k] \in MappingEntries
  BY LenProperties
<1>3. \A k \in 0 .. n - 1 : p(k + 1) = Add(p(k), entries[k + 1].name)
  BY <1>1
<1>4. AllNames(ids, entries) = p(n)
  BY <1>1
<1>5. p(0) = ids
  BY <1>1
<1> HIDE DEF n, p
<1>6. Right(0)
  BY <1>2, <1>5
<1>7. ASSUME NEW k \in Nat, k + 1 <= n, Right(k) PROVE Right(k + 1)
  <2>1. k \in 0 .. n - 1 /\ k + 1 \in 1 .. n
    BY ONLY <1>2, k \in Nat, k + 1 <= n
  <2> DEFINE name == entries[k + 1].name
             s == p(k)
             t == p(k + 1)
  <2>2. name \in STRING
    BY <1>2, <2>1, MappingEntry
  <2>3. t = Add(s, name) /\ s \in Seq(STRING) /\ Len(s) \in Nat /\ Len(s) <= Len(ids) + k
    BY <1>3, <1>7, <2>1, LenProperties
  <2> HIDE DEF s, t, name
  <2>4. t \in Seq(STRING)
    BY <2>2, <2>3, AddType
  <2>5. t = s \/ t = Append(s, name)
    BY <2>3 DEF Add
  <2>6. Len(Append(s, name)) = Len(s) + 1
    BY <2>2, <2>3, AppendProperties
  <2>7. Len(t) <= Len(ids) + (k + 1)
    BY <1>2, <2>3, <2>5, <2>6
  <2> QED BY <2>4, <2>7 DEF t
<1> HIDE DEF Right
<1>8. 0 \in K /\ \A k \in Nat : k \in K => k + 1 \in K
  <2>1. ASSUME NEW k \in Nat, k \in K PROVE k + 1 \in K
    <3>1. k + 1 \in Nat /\ (k + 1 <= n => k <= n)
      BY ONLY <1>2, k \in Nat
    <3> QED BY <1>7, <2>1, <3>1
  <2> QED BY <1>6, <2>1
<1> HIDE DEF K
<1>9. n \in K
  BY <1>2, <1>8, InductionOnSets
<1>10. Right(n)
  <2>1. n <= n
    BY <1>2
  <2> QED BY <1>9, <2>1 DEF K
<1> QED BY <1>4, <1>10 DEF Right, n

IsMapped(ids, map, x) == map[x.id + 1] \in U16 /\ ids[map[x.id + 1] + 1] = x.name

(* Each id of the file leads to its name.                                  *)
LEMMA MappingGives ==
    ASSUME NEW known \in Seq(STRING), NEW count \in Nat,
           NEW entries \in Seq(MappingEntries),
           \A d, e \in DOMAIN entries : entries[d].id = entries[e].id => d = e,
           Len(known) + Len(entries) <= 65536
    PROVE  LET ids == AllNames(known, entries)
           IN  \A e \in DOMAIN entries : entries[e].id < count
                  => IsMapped(ids, AllPairs(ids, count, entries), entries[e])
<1> DEFINE ids == AllNames(known, entries)
           map == AllPairs(ids, count, entries)
<1>1. /\ ids \in Seq(STRING)
      /\ \A e \in DOMAIN entries : Contains(ids, entries[e].name)
  BY NamesAdded
<1>2. Len(ids) <= 65536 /\ Len(ids) \in Nat
  <2>1. Len(ids) <= Len(known) + Len(entries)
    BY NamesLength
  <2>2. Len(ids) \in Nat /\ Len(known) \in Nat /\ Len(entries) \in Nat
    BY <1>1, LenProperties
  <2> HIDE DEF ids
  <2> QED BY <2>1, <2>2
<1> HIDE DEF ids
<1>3. AllStored(map, ids, count, entries)
  BY <1>1, MappingStored
<1> HIDE DEF map
<1>4. ASSUME NEW e \in DOMAIN entries, entries[e].id < count
      PROVE  IsMapped(ids, map, entries[e])
  <2> DEFINE v == IdOf(ids, entries[e].name)
  <2>1. v \in -1 .. Len(ids) - 1 /\ v \in Nat /\ ids[v + 1] = entries[e].name
    BY <1>1, IdOfIs
  <2>2. map[entries[e].id + 1] = v
    BY <1>3, <1>4 DEF AllStored, IsStored
  <2> HIDE DEF v
  <2>3. v \in U16
    <3> DEFINE m == Len(ids)
    <3>1. m \in Nat /\ m <= 65536 /\ v \in -1 .. m - 1 /\ v \in Nat
      BY <1>2, <2>1
    <3> HIDE DEF m
    <3>2. v <= 65535
      BY ONLY <3>1
    <3>3. v \in Nat /\ v <= 65535
      BY ONLY <3>1, <3>2
    <3> QED BY ONLY <3>3 DEF U16
  <2> QED BY <2>1, <2>2, <2>3 DEF IsMapped
<1> QED BY <1>4 DEF ids, map

-----------------------------------------------------------------------------
(* What a good file says is in the nodes as soon as it is read.            *)

RemapPart(blob) == IF HasFormat(blob, 28) THEN 8 ELSE 9

NamesAreMapped(blob) ==
    \A e \in DOMAIN MappingIn(blob).entries :
        MappingIn(blob).entries[e].id < MappingIn(blob).count
            => IsMapped(node_ids, param0_map, MappingIn(blob).entries[e])

IsBare(node) == node.metadata = <<>> /\ node.inventory = NoInventory
IsDescribed(node, said) == SaysOwner(node.metadata, said.owner)
                           /\ node.inventory = said.lists
IsNamed(node, said) == node_ids[node.param_0 + 1] = said.name

Places == 0 .. NodesPerBlock - 1

AreBare == \A i \in Places : IsBare(nodes[i])
AreDescribed(f) == \A i \in Places : IsDescribed(nodes[i], f.nodes[i])
AreNamed(f) == \A i \in Places : IsNamed(nodes[i], f.nodes[i])

\* behind k parts
At(f, k) ==
    /\ k <= MappingPart(f.blob) => node_ids = Known
    /\ k > MappingPart(f.blob) => NamesAreMapped(f.blob)
    /\ k = NodesPart(f.blob) + 1 => AreBare
    /\ k > NodesPart(f.blob) + 1 => AreDescribed(f)
    /\ k > RemapPart(f.blob) => AreNamed(f)

\* The place is -1 before the stream of format 29.
Place(blob) == Len(Todo(blob)) - Len(todo)

Contents(f) ==
    /\ outcome = "reading" => IF todo = <<"version">> THEN node_ids = Known
                              ELSE At(f, Place(f.blob))
    /\ outcome = "ok" => \A i \in DOMAIN nodes : Decoded(i) = f.nodes[i]

(* The place of the program is that of the part.                           *)
LEMMA ContentsAt ==
    ASSUME NEW f \in AllFiles, NEW k, IsAfter(f.blob, k), outcome = "reading",
           Contents(f)
    PROVE  At(f, k)
<1> DEFINE blob == f.blob
           n == Len(Todo(blob))
<1>1. /\ Head(todo) = Todo(blob)[k + 1] /\ Len(todo) = n - k
      /\ k \in 0 .. n - 1 /\ k \in Nat
      /\ n = IF HasFormat(blob, 28) THEN 10 ELSE 11
  BY AfterIs
<1>2. Head(todo) # "version"
  BY <1>1, PlaceOf
<1>3. todo # <<"version">>
  BY <1>2
<1>4. Place(blob) = k
  BY <1>1 DEF Place
<1> QED BY <1>3, <1>4 DEF Contents

(* What a step at a part has to give.                                      *)
LEMMA AtNext ==
    ASSUME NEW f, NEW k \in Nat, At(f, k), NEW j, j = k + 1,
           k = MappingPart(f.blob) => NamesAreMapped(f.blob)',
           k # MappingPart(f.blob) => UNCHANGED <<param0_map, node_ids>>,
           k = NodesPart(f.blob) => AreBare',
           k = NodesPart(f.blob) + 1 => AreDescribed(f)',
           k = RemapPart(f.blob) => AreDescribed(f)' /\ AreNamed(f)',
           k \notin {NodesPart(f.blob), NodesPart(f.blob) + 1, RemapPart(f.blob)}
              => UNCHANGED nodes
    PROVE  At(f, j)'
<1> DEFINE blob == f.blob
           m == MappingPart(blob)
           n == NodesPart(blob)
           r == RemapPart(blob)
<1>1. \/ m = 6 /\ n = 2 /\ r = 8
      \/ m = 2 /\ n = 4 /\ r = 9
  BY DEF MappingPart, NodesPart, RemapPart
<1>2. /\ k <= m => node_ids = Known
      /\ k > m => NamesAreMapped(blob)
      /\ k > n + 1 => AreDescribed(f)
      /\ k > r => AreNamed(f)
  BY DEF At
<1>3. k # m /\ NamesAreMapped(blob) => NamesAreMapped(blob)'
  BY DEF NamesAreMapped
<1>4. k \notin {n, n + 1, r} /\ AreDescribed(f) => AreDescribed(f)'
  BY DEF AreDescribed
<1>5. k \notin {n, n + 1, r} /\ k # m /\ AreNamed(f) => AreNamed(f)'
  BY DEF AreNamed, IsNamed
<1> HIDE DEF m, n, r
<1>6. j <= m => node_ids' = Known
  <2>1. j <= m => k <= m /\ k # m
    BY <1>1
  <2> QED BY <1>2, <2>1 DEF m
<1>7. j > m => NamesAreMapped(blob)'
  <2>1. j > m => k > m \/ k = m
    BY <1>1
  <2>2. k > m => k # m
    BY <1>1
  <2> QED BY <1>2, <1>3, <2>1, <2>2 DEF m
<1>8. j = n + 1 => AreBare'
  <2>1. j = n + 1 => k = n
    BY <1>1
  <2> QED BY <2>1 DEF n
<1>9. j > n + 1 => AreDescribed(f)'
  <2>1. j > n + 1 => k = n + 1 \/ k = r \/ (k > n + 1 /\ k \notin {n, n + 1, r})
    BY <1>1
  <2> QED BY <1>2, <1>4, <2>1 DEF n, r
<1>10. j > r => AreNamed(f)'
  <2>1. j > r => k = r \/ (k > r /\ k \notin {n, n + 1, r} /\ k # m)
    BY <1>1
  <2> QED BY <1>2, <1>5, <2>1 DEF r
<1> QED BY <1>6, <1>7, <1>8, <1>9, <1>10 DEF At, m, n, r

(* A step at a part keeps the contents.                                    *)
LEMMA ContentsNext ==
    ASSUME NEW f \in AllFiles, NEW k, IsAfter(f.blob, k), outcome = "reading",
           Contents(f), k + 1 < Len(Todo(f.blob)), todo' = Tail(todo),
           outcome' = "reading",
           k = MappingPart(f.blob) => NamesAreMapped(f.blob)',
           k # MappingPart(f.blob) => UNCHANGED <<param0_map, node_ids>>,
           k = NodesPart(f.blob) => AreBare',
           k = NodesPart(f.blob) + 1 => AreDescribed(f)',
           k = RemapPart(f.blob) => AreDescribed(f)' /\ AreNamed(f)',
           k \notin {NodesPart(f.blob), NodesPart(f.blob) + 1, RemapPart(f.blob)}
              => UNCHANGED nodes
    PROVE  Contents(f)'
<1> DEFINE blob == f.blob
           n == Len(Todo(blob))
           j == k + 1
<1>1. /\ Len(todo) = n - k /\ k \in 0 .. n - 1 /\ k \in Nat
      /\ n = IF HasFormat(blob, 28) THEN 10 ELSE 11
      /\ todo \in Seq(PartNames)
      /\ Tail(todo) = Drop(Todo(blob), j)
  BY AfterIs
<1>2. j = k + 1 /\ j \in Nat /\ j < n /\ j <= n /\ j \in 0 .. n - 1
  BY <1>1
<1>3. Todo(blob) \in Seq(PartNames)
  BY TodoIs
<1> HIDE DEF j
<1>4. /\ Head(Drop(Todo(blob), j)) = Todo(blob)[j + 1]
      /\ Len(Drop(Todo(blob), j)) = n - j
  BY <1>2, <1>3, DropSteps DEF n
<1>5. Todo(blob)[j + 1] # "version"
  BY <1>2, PlaceOf
<1>6. Head(todo') # "version"
  BY <1>1, <1>4, <1>5
<1>7. todo' # <<"version">>
  <2>1. Head(<<"version">>) = "version"
    OBVIOUS
  <2> QED BY ONLY <1>6, <2>1
<1>8. Place(blob)' = j
  <2>1. Place(blob)' = n - Len(todo')
    BY DEF Place
  <2>2. Len(todo') = n - j
    BY <1>1, <1>4
  <2> HIDE DEF n
  <2>3. n - (n - j) = j
    BY <1>1, <1>2
  <2> QED BY ONLY <2>1, <2>2, <2>3
<1>9. At(f, k)
  BY ContentsAt
<1>10. At(f, j)'
  BY <1>1, <1>2, <1>9, AtNext
<1> QED BY <1>7, <1>8, <1>10 DEF Contents

(* What is rejected or ends the program has no contents.                   *)
LEMMA NoContents ==
    ASSUME NEW f, outcome' \in {"rejected", "aborted", "undefined"}
    PROVE  Contents(f)'
  BY DEF Contents

(* A good file as a whole.                                                 *)
LEMMA GoodIs ==
    ASSUME NEW f \in AllFiles, f.kind = "good"
    PROVE  /\ IsSupported(f.blob) /\ IdsAreMapped(f.blob) /\ Says(f.blob, f.nodes)
           /\ HasBody(f.blob) /\ Len(Body(f.blob)) = 8
           /\ \A k \in 1 .. 8 : IsSupportedPart(Body(f.blob)[k])
<1>1. IsSupported(f.blob) /\ IdsAreMapped(f.blob) /\ Says(f.blob, f.nodes)
  BY FilesAssumption
<1> QED BY <1>1 DEF IsSupported, HasBody

(* The list of the metadata of a good file.                                *)
LEMMA MetadataInIs ==
    ASSUME NEW f \in AllFiles, f.kind = "good",
           NEW list, list = IF HasFormat(f.blob, 28) THEN Body(f.blob)[4].content[1]
                            ELSE Body(f.blob)[6]
    PROVE  /\ IsField(list) /\ list.kind = "metadata" /\ IsSupportedField(list)
           /\ list.entries \in Seq(MetadataEntries)
           /\ MetadataIn(f.blob) = IF list.version = 0 THEN <<>> ELSE list.entries
<1> DEFINE blob == f.blob
           j == NodesPart(blob) + 2
           part == Body(blob)[j]
           c == part.content
<1>1. /\ HasBody(blob) /\ Len(Body(blob)) = 8
      /\ \A k \in 1 .. 8 : IsSupportedPart(Body(blob)[k])
  BY GoodIs
<1>2. j \in 1 .. 8 /\ j = IF HasFormat(blob, 28) THEN 4 ELSE 6
  BY DEF NodesPart
<1>3. 8 <= Len(Body(blob))
  BY <1>1
<1>4. IsPart(part) /\ part.kind = Order(blob)[j] /\ IsSupportedPart(part)
      /\ j \in DOMAIN Body(blob)
  BY <1>1, <1>2, <1>3, BodyPartIs
<1>5. IsField(list) /\ list.kind = "metadata" /\ IsSupportedField(list)
  <2>1. CASE HasFormat(blob, 28)
    <3>1. j = 4 /\ list = c[1] /\ part.kind = "zlib"
      BY <1>2, <1>4, <2>1 DEF Order, Order28
    <3>2. StartsWith(Body(blob), 4, "metadata")
      BY <1>1, <2>1, BodyIs
    <3>3. c # <<>> /\ IsSupportedField(list)
      BY <1>4, <3>1 DEF IsSupportedPart, IsSupportedStream
    <3>4. AreFields(c) /\ Follows(c, <<"metadata">>)
      BY <1>4, <3>1, <3>2, PartIs DEF StartsWith
    <3>5. IsSequence(c) /\ \A i \in DOMAIN c : IsField(c[i])
      BY <3>4 DEF AreFields
    <3>6. list = c[1]
      BY <3>1
    <3> HIDE DEF c
    <3>7. c \in Seq(Range(c)) /\ DOMAIN c = 1 .. Len(c) /\ Len(c) \in Nat
      BY <3>5, SequenceType
    <3>8. Len(c) # 0
      BY <3>3, <3>7, EmptySeq
    <3>9. 1 \in DOMAIN c
      BY <3>7, <3>8
    <3> QED BY <3>3, <3>4, <3>5, <3>6, <3>9 DEF Follows
  <2>2. CASE ~ HasFormat(blob, 28)
    <3>1. j = 6 /\ list = part /\ part.kind = "metadata"
      BY <1>2, <1>4, <2>2 DEF Order, Order29
    <3> QED BY <1>4, <3>1 DEF IsPart, IsSupportedPart
  <2> QED BY <2>1, <2>2
<1>6. list.entries \in Seq(MetadataEntries)
  BY <1>5, FieldIsPart, PartIs
<1>7. MetadataIn(blob) = IF list.version = 0 THEN <<>> ELSE list.entries
  BY DEF MetadataIn
<1> QED BY <1>5, <1>6, <1>7

(* What is said of the nodes, one by one.                                  *)
LEMMA NodesAreSaid ==
    ASSUME NEW f \in AllFiles, f.kind = "good", NEW i \in Places
    PROVE  LET said == f.nodes[i]
           IN  /\ said = [name |-> said.name, owner |-> said.owner,
                          lists |-> said.lists, minegeld |-> Money(said.lists)]
               /\ said.lists \in [DOMAIN said.lists -> Seq(Items)]
               /\ SaysName(f.blob, i, said.name)
               /\ SaysData(MetadataIn(f.blob), i, said)
<1>1. Says(f.blob, f.nodes)
  BY GoodIs
<1>2. SaysNode(f.blob, i, f.nodes[i])
  BY <1>1 DEF Says, Places
<1> QED BY <1>2 DEF SaysNode

(* The steps on parts that are neither nodes, metadata nor mapping.        *)
LEMMA OtherContents ==
    ASSUME NEW f \in AllFiles, Verdict(f.blob), Contents(f), NEW part, Reading(part),
           part \in {"header", "timestamp", "widths", "objects", "timers"},
           Continue, UNCHANGED block, UNCHANGED node_ids
    PROVE  Contents(f)'
<1> DEFINE blob == f.blob
<1>1. outcome = "reading"
  BY ReadingPart
<1>2. PICK k \in 0 .. 7 : /\ IsAfter(blob, k) /\ k \in 0 .. Len(Todo(blob)) - 1
                          /\ Todo(blob)[k + 1] = part
  BY ReadingPart
<1>3. /\ k # NodesPart(blob) /\ k # NodesPart(blob) + 1 /\ k # MappingPart(blob)
  BY <1>2, PlaceOf
<1>4. k # RemapPart(blob)
  BY DEF RemapPart
<1>5. todo' = Tail(todo) /\ outcome' = "reading"
  BY <1>1 DEF Continue
<1>6. UNCHANGED <<param0_map, node_ids>> /\ UNCHANGED nodes
  BY DEF block
<1>7. k + 1 < Len(Todo(blob))
  <2>1. Len(Todo(blob)) = IF HasFormat(blob, 28) THEN 10 ELSE 11
    BY <1>2, AfterIs
  <2> QED BY <2>1
<1> QED BY <1>1, <1>2, <1>3, <1>4, <1>5, <1>6, <1>7, ContentsNext

LEMMA PlainFieldContents ==
    ASSUME NEW f \in AllFiles, Verdict(f.blob), Contents(f), PlainField
    PROVE  Contents(f)'
<1>1. PICK part \in {"header", "timestamp"} : Reading(part)
  BY DEF PlainField
<1>2. Continue /\ UNCHANGED block /\ UNCHANGED node_ids
  BY DEF PlainField, block
<1> QED BY <1>1, <1>2, OtherContents

LEMMA WidthsContents ==
    ASSUME NEW f \in AllFiles, Verdict(f.blob), Contents(f), Widths
    PROVE  Contents(f)'
<1>1. Reading("widths") /\ UNCHANGED node_ids
  BY DEF Widths
<1>2. Reject \/ (Continue /\ UNCHANGED block)
  BY DEF Widths
<1>3. Reject => outcome' = "rejected"
  BY DEF Reject
<1> QED BY <1>1, <1>2, <1>3, OtherContents, NoContents

LEMMA ObjectsContents ==
    ASSUME NEW f \in AllFiles, Verdict(f.blob), Contents(f), deserialize_static_objects
    PROVE  Contents(f)'
<1>1. Reading("objects") /\ UNCHANGED node_ids
  BY DEF deserialize_static_objects
<1>2. Reject \/ (Continue /\ UNCHANGED block)
  BY DEF deserialize_static_objects
<1>3. Reject => outcome' = "rejected"
  BY DEF Reject
<1> QED BY <1>1, <1>2, <1>3, OtherContents, NoContents

LEMMA TimersContents ==
    ASSUME NEW f \in AllFiles, Verdict(f.blob), Contents(f), deserialize_node_timers
    PROVE  Contents(f)'
<1>1. Reading("timers") /\ UNCHANGED node_ids
  BY DEF deserialize_node_timers
<1>2. Reject \/ (Continue /\ UNCHANGED block)
  BY DEF deserialize_node_timers
<1>3. Reject => outcome' = "rejected"
  BY DEF Reject
<1> QED BY <1>1, <1>2, <1>3, OtherContents, NoContents

(* The version and the stream.                                             *)
LEMMA VersionContents ==
    ASSUME NEW f \in AllFiles, Verdict(f.blob), Contents(f), deserialize
    PROVE  Contents(f)'
<1> DEFINE blob == f.blob
<1>1. /\ outcome = "reading" /\ Head(todo) = "version" /\ rest # <<>>
      /\ UNCHANGED node_ids
  BY DEF deserialize, Reading, Due
<1>2. rest = blob
  BY <1>1, PlaceInFile
<1>3. Head(rest) = blob[1] /\ blob # <<>>
  BY <1>1, <1>2, BlobIs, HeadTailProperties
<1>4. todo = <<"version">>
  <2>1. Stage(blob)
    BY <1>1 DEF Verdict
  <2>2. Head(Format29) = "zstd"
    BY Format29Is
  <2>3. ASSUME NEW k, IsAfter(blob, k) PROVE FALSE
    BY <1>1, <2>3, AfterIs, PlaceOf
  <2> QED BY <1>1, <2>1, <2>2, <2>3 DEF Stage
<1>5. node_ids' = Known
  BY <1>1, <1>4 DEF Contents
<1>6. ASSUME NEW k \in {-1, 0} PROVE At(f, k)'
  <2>1. /\ k <= MappingPart(blob) /\ ~ (k > MappingPart(blob))
        /\ k # NodesPart(blob) + 1 /\ ~ (k > NodesPart(blob) + 1)
        /\ ~ (k > RemapPart(blob))
    BY DEF MappingPart, NodesPart, RemapPart
  <2> QED BY <1>5, <2>1 DEF At
<1>7. Reject => outcome' = "rejected"
  BY DEF Reject
<1>8. CASE Head(rest).version = 28
  <2>1. todo' = Format28 /\ UNCHANGED outcome
    BY <1>8 DEF deserialize
  <2>2. HasFormat(blob, 28)
    BY <1>2, <1>3, <1>8 DEF HasFormat
  <2>3. Place(blob)' = 10 - 10
    <3>1. Len(Todo(blob)) = 10 /\ Len(todo') = 10
      BY <2>1, <2>2, TodoIs, Format28Is
    <3> QED BY ONLY <3>1 DEF Place
  <2>4. todo' # <<"version">>
    BY <2>1, Format28Is
  <2>5. At(f, 0)'
    BY <1>6
  <2> QED BY <1>1, <2>1, <2>3, <2>4, <2>5 DEF Contents
<1>9. CASE Head(rest).version = 29
  <2>1. todo' = Format29 /\ UNCHANGED outcome
    BY <1>9 DEF deserialize
  <2>2. ~ HasFormat(blob, 28)
    BY <1>2, <1>3, <1>9 DEF HasFormat
  <2>3. Place(blob)' = 11 - 12
    <3>1. Len(Todo(blob)) = 11 /\ Len(todo') = 12
      BY <2>1, <2>2, TodoIs, Format29Is
    <3> QED BY ONLY <3>1 DEF Place
  <2>4. todo' # <<"version">>
    BY <2>1, Format29Is
  <2>5. At(f, -1)'
    BY <1>6
  <2> QED BY <1>1, <2>1, <2>3, <2>4, <2>5 DEF Contents
<1>10. CASE Head(rest).version \notin {28, 29}
  BY <1>7, <1>10, NoContents DEF deserialize
<1> QED BY <1>8, <1>9, <1>10

LEMMA ZstdContents ==
    ASSUME NEW f \in AllFiles, Verdict(f.blob), Contents(f), decompress_zstd
    PROVE  Contents(f)'
<1> DEFINE blob == f.blob
<1>1. /\ outcome = "reading" /\ Head(todo) = "zstd" /\ UNCHANGED node_ids
  BY DEF decompress_zstd, Reading, Due
<1>2. HasFormat(blob, 29) /\ todo = Format29
  BY <1>1, PlaceInFile
<1>3. ~ HasFormat(blob, 28)
  BY <1>2 DEF HasFormat
<1>4. Reject => outcome' = "rejected"
  BY DEF Reject
<1>5. CASE Len(rest) = 1
  <2>1. todo' = Tail(todo) /\ outcome' = "reading"
    BY <1>1, <1>5 DEF decompress_zstd
  <2>2. todo' = Todo(blob) /\ Len(Todo(blob)) = 11
    BY <1>2, <1>3, <2>1, TodoIs DEF Todo
  <2>3. Place(blob)' = 0
    <3>1. Place(blob)' = Len(Todo(blob)) - Len(todo')
      BY DEF Place
    <3>2. Place(blob)' = 11 - 11
      BY ONLY <2>2, <3>1
    <3> QED BY <3>2
  <2>4. todo' # <<"version">>
    <3>1. Len(<<"version">>) # 11
      OBVIOUS
    <3> QED BY ONLY <2>2, <3>1
  <2>5. Place(blob) = 11 - 12 /\ todo # <<"version">>
    <3>1. Len(todo) = 12
      BY <1>2, Format29Is
    <3>2. Len(<<"version">>) # 12
      OBVIOUS
    <3> QED BY ONLY <2>2, <3>1, <3>2 DEF Place
  <2>6. At(f, 11 - 12)
    BY <1>1, <2>5 DEF Contents
  <2>7. MappingPart(blob) = 2 /\ NodesPart(blob) = 4 /\ RemapPart(blob) = 9
    BY <1>3 DEF MappingPart, NodesPart, RemapPart
  <2>8. node_ids' = Known
    BY <1>1, <2>6, <2>7 DEF At
  <2>9. At(f, 0)'
    BY <2>7, <2>8 DEF At
  <2> QED BY <2>1, <2>3, <2>4, <2>9 DEF Contents
<1>6. CASE Len(rest) # 1
  BY <1>4, <1>6, NoContents DEF decompress_zstd
<1> QED BY <1>5, <1>6

(* New nodes have neither metadata nor lists.                              *)
LEMMA NewNodesAreBare ==
    ASSUME NEW param0s, nodes \in NodesType, StoreNodes(param0s)
    PROVE  AreBare'
<1>1. ASSUME NEW i \in Places PROVE IsBare(nodes'[i])
  <2>1. i \in DOMAIN nodes
    BY DEF NodesType, Places
  <2>2. nodes'[i] = [NewNode EXCEPT !.param_0 = param0s[i + 1]]
    BY <2>1 DEF StoreNodes
  <2>3. NewNode.metadata = <<>> /\ NewNode.inventory = NoInventory
    BY DEF NewNode
  <2>4. nodes'[i].metadata = NewNode.metadata /\ nodes'[i].inventory = NewNode.inventory
    BY <2>2 DEF NewNode
  <2> QED BY <2>3, <2>4 DEF IsBare
<1> QED BY <1>1 DEF AreBare

(* The nodes.                                                              *)
LEMMA NodesContents ==
    ASSUME NEW f \in AllFiles, Types, Verdict(f.blob), Contents(f),
           deserialize_nodes_28 \/ deserialize_nodes_29
    PROVE  Contents(f)'
<1> DEFINE blob == f.blob
<1>1. PICK part \in {"nodes_28", "nodes_29"} :
         /\ Reading(part) /\ UNCHANGED node_ids
         /\ \/ Reject
            \/ /\ \E param0s : StoreNodes(param0s)
               /\ Continue /\ UNCHANGED param0_map
  <2>1. CASE deserialize_nodes_28
    <3>1. Reading("nodes_28") /\ UNCHANGED node_ids
      BY <2>1 DEF deserialize_nodes_28
    <3>2. \/ Reject
          \/ /\ StoreNodes(Head(rest).content[1].entries)
             /\ Continue /\ UNCHANGED param0_map
      BY <2>1 DEF deserialize_nodes_28, decompress_zlib
    <3> QED BY <3>1, <3>2
  <2>2. CASE deserialize_nodes_29
    <3>1. Reading("nodes_29") /\ UNCHANGED node_ids
      BY <2>2 DEF deserialize_nodes_29
    <3>2. \/ Reject
          \/ /\ StoreNodes(Head(rest).entries)
             /\ Continue /\ UNCHANGED param0_map
      BY <2>2 DEF deserialize_nodes_29
    <3> QED BY <3>1, <3>2
  <2> QED BY <2>1, <2>2
<1>2. CASE Reject
  BY <1>2, NoContents DEF Reject
<1>3. ASSUME NEW param0s, StoreNodes(param0s), Continue, UNCHANGED param0_map
      PROVE  Contents(f)'
  <2>1. outcome = "reading"
    BY <1>1, ReadingPart
  <2>2. PICK k \in 0 .. 7 : /\ IsAfter(blob, k) /\ k \in 0 .. Len(Todo(blob)) - 1
                            /\ Todo(blob)[k + 1] = part
    BY <1>1, ReadingPart
  <2>3. k = NodesPart(blob)
    BY <1>1, <2>2, PlaceOf
  <2>4. k # MappingPart(blob) /\ k # RemapPart(blob) /\ k # NodesPart(blob) + 1
    BY <2>3 DEF NodesPart, MappingPart, RemapPart
  <2>5. k + 1 < Len(Todo(blob))
    <3>1. Len(Todo(blob)) = IF HasFormat(blob, 28) THEN 10 ELSE 11
      BY <2>2, AfterIs
    <3> QED BY <3>1
  <2>6. AreBare'
    BY <1>3, NewNodesAreBare DEF Types
  <2>7. todo' = Tail(todo) /\ outcome' = "reading" /\ UNCHANGED <<param0_map, node_ids>>
    BY <1>1, <1>3, <2>1 DEF Continue
  <2> QED BY <2>1, <2>2, <2>3, <2>4, <2>5, <2>6, <2>7, ContentsNext
<1> QED BY <1>1, <1>2, <1>3

(* A node whose metadata is read has what is said of it.                   *)
LEMMA NodeIsDescribed ==
    ASSUME NEW ns \in NodesType, NEW entries \in Seq(MetadataEntries),
           \A d, e \in DOMAIN entries : entries[d].pos = entries[e].pos => d = e,
           NEW i \in Places, IsBare(ns[i]),
           NEW said, said.lists \in [DOMAIN said.lists -> Seq(Items)],
           SaysData(entries, i, said)
    PROVE  IsDescribed(AllMetadata(ns, entries)[i], said)
<1> DEFINE new == AllMetadata(ns, entries)[i]
           own == {e \in DOMAIN entries : entries[e].pos = i}
<1>1. ns[i] \in NodeType /\ ns[i].metadata = <<>> /\ ns[i].inventory = NoInventory
  BY DEF NodesType, Places, IsBare
<1>2. /\ \A e \in DOMAIN entries :
            EntryHasGiven(AllMetadata(ns, entries), ns, entries, i, e)
      /\ NothingGiven(AllMetadata(ns, entries), ns, entries, i, Len(entries))
  BY MetadataGives DEF Places
<1>3. DOMAIN entries = 1 .. Len(entries)
  BY LenProperties
<1>4. CASE own = {}
  <2>1. said.owner = "" /\ said.lists = <<>>
    BY <1>4 DEF SaysData
  <2>2. new = ns[i]
    BY <1>2, <1>3, <1>4 DEF NothingGiven
  <2>3. SaysOwner(<<>>, "")
    <3>1. DOMAIN <<>> = {}
      OBVIOUS
    <3> QED BY <3>1 DEF SaysOwner
  <2> HIDE DEF new
  <2> QED BY <1>1, <2>1, <2>2, <2>3 DEF IsDescribed, NoInventory, new
<1>5. ASSUME NEW e \in own PROVE IsDescribed(new, said)
  <2>1. SaysOwner(entries[e].vars, said.owner) /\ SaysLists(entries[e].lines, said.lists)
    BY <1>5 DEF SaysData
  <2>2. new = MetadataOf(ns[i], entries[e])
    BY <1>2, <1>5 DEF EntryHasGiven
  <2>3. entries[e] \in MetadataEntries
    BY <1>3, <1>5
  <2>4. /\ SaysOwner(MetadataOf(ns[i], entries[e]).metadata, said.owner)
        /\ MetadataOf(ns[i], entries[e]).inventory = said.lists
    <3> DEFINE node == ns[i]
               entry == entries[e]
               lists == said.lists
               owner == said.owner
    <3>1. /\ node \in NodeType /\ node.metadata = <<>>
          /\ node.inventory = NoInventory /\ entry \in MetadataEntries
          /\ lists \in [DOMAIN lists -> Seq(Items)]
          /\ SaysOwner(entry.vars, owner) /\ SaysLists(entry.lines, lists)
      BY <1>1, <2>1, <2>3
    <3> HIDE DEF node, entry, lists, owner
    <3>2. /\ SaysOwner(MetadataOf(node, entry).metadata, owner)
          /\ MetadataOf(node, entry).inventory = lists
      BY ONLY <3>1, EntryGives
    <3> QED BY <3>2 DEF node, entry, lists, owner
  <2> HIDE DEF new
  <2> QED BY <2>2, <2>4 DEF IsDescribed
<1> QED BY <1>4, <1>5

(* The metadata.                                                           *)
LEMMA MetadataDescribes ==
    ASSUME NEW f \in AllFiles, f.kind = "good", Types, AreBare,
           NEW list, list = IF HasFormat(f.blob, 28) THEN Body(f.blob)[4].content[1]
                            ELSE Body(f.blob)[6],
           StoreMetadata(list), ~ Reject
    PROVE  AreDescribed(f)' /\ Continue /\ UNCHANGED param0_map
<1> DEFINE blob == f.blob
           entries == MetadataIn(blob)
<1>1. /\ IsField(list) /\ list.kind = "metadata"
      /\ list.entries \in Seq(MetadataEntries)
      /\ entries = IF list.version = 0 THEN <<>> ELSE list.entries
  BY MetadataInIs
<1>2. Continue /\ UNCHANGED param0_map
      /\ IF list.version = 0 THEN UNCHANGED nodes
         ELSE nodes' = AllMetadata(nodes, list.entries)
  BY DEF StoreMetadata, AllMetadata, block
<1>3. \A d, e \in DOMAIN entries : entries[d].pos = entries[e].pos => d = e
  <2>1. Says(blob, f.nodes)
    BY GoodIs
  <2> QED BY <2>1 DEF Says
<1>4. nodes \in NodesType
  BY DEF Types
<1>5. ASSUME NEW i \in Places PROVE IsDescribed(nodes'[i], f.nodes[i])
  <2> DEFINE said == f.nodes[i]
  <2>1. said.lists \in [DOMAIN said.lists -> Seq(Items)] /\ SaysData(entries, i, said)
    BY NodesAreSaid
  <2>2. IsBare(nodes[i])
    BY DEF AreBare
  <2>3. CASE list.version # 0
    <3>1. entries = list.entries /\ nodes' = AllMetadata(nodes, entries)
      BY <1>1, <1>2, <2>3
    <3>2. entries \in Seq(MetadataEntries)
      BY <1>1, <3>1
    <3> HIDE DEF entries, said
    <3>3. IsDescribed(AllMetadata(nodes, entries)[i], said)
      BY <1>3, <1>4, <2>1, <2>2, <3>2, NodeIsDescribed
    <3> QED BY <3>1, <3>3 DEF said
  <2>4. CASE list.version = 0
    <3>1. DOMAIN entries = {} /\ nodes' = nodes
      <4>1. DOMAIN <<>> = {}
        OBVIOUS
      <4> QED BY <1>1, <1>2, <2>4, <4>1
    <3> HIDE DEF entries
    <3>2. said.owner = "" /\ said.lists = <<>>
      BY <2>1, <3>1 DEF SaysData
    <3>3. SaysOwner(<<>>, "")
      <4>1. DOMAIN <<>> = {}
        OBVIOUS
      <4> QED BY <4>1 DEF SaysOwner
    <3>4. nodes[i].metadata = <<>> /\ nodes[i].inventory = <<>>
      BY <2>2 DEF IsBare, NoInventory
    <3> HIDE DEF said
    <3> QED BY <3>1, <3>2, <3>3, <3>4 DEF IsDescribed, said
  <2> QED BY <2>3, <2>4
<1> QED BY <1>2, <1>5 DEF AreDescribed

LEMMA MetadataContents ==
    ASSUME NEW f \in AllFiles, f.kind = "good", Types, Verdict(f.blob), Contents(f),
           deserialize_metadata_28 \/ deserialize_metadata_29
    PROVE  Contents(f)'
<1> DEFINE blob == f.blob
           list == IF HasFormat(blob, 28) THEN Body(blob)[4].content[1]
                   ELSE Body(blob)[6]
<1>1. PICK part \in {"metadata_28", "metadata_29"} :
         /\ Reading(part) /\ UNCHANGED node_ids
         /\ part = "metadata_28" => deserialize_metadata_28
         /\ part = "metadata_29" => deserialize_metadata_29
  BY DEF deserialize_metadata_28, deserialize_metadata_29
<1>2. outcome = "reading"
  BY <1>1, ReadingPart
<1>3. PICK k \in 0 .. 7 : /\ IsAfter(blob, k) /\ k \in 0 .. Len(Todo(blob)) - 1
                          /\ Todo(blob)[k + 1] = part
                          /\ Head(rest) = Body(blob)[k + 1]
  BY <1>1, ReadingPart
<1>4. k = NodesPart(blob) + 1
  BY <1>1, <1>3, PlaceOf
<1>5. /\ k # MappingPart(blob) /\ k # RemapPart(blob) /\ k # NodesPart(blob)
      /\ k + 1 = IF HasFormat(blob, 28) THEN 4 ELSE 6
  BY <1>4 DEF NodesPart, MappingPart, RemapPart
<1>6. AreBare
  <2>1. At(f, k)
    BY <1>2, <1>3, ContentsAt
  <2> QED BY <1>4, <2>1 DEF At
<1>7. StoreMetadata(list)
  <2>1. CASE part = "metadata_28"
    <3>1. HasFormat(blob, 28)
      BY <1>3, <2>1, PlaceOf
    <3> DEFINE p == Body(blob)[4]
               c == p.content
    <3>2. Head(rest) = p /\ list = c[1]
      BY <1>3, <1>5, <3>1
    <3>3. /\ HasBody(blob) /\ Len(Body(blob)) = 8 /\ IsSupportedPart(p)
      BY GoodIs
    <3>4. 8 <= Len(Body(blob))
      BY <3>3
    <3>5. IsPart(p) /\ p.kind = "zlib" /\ 4 \in DOMAIN Body(blob)
      <4>0. 4 \in 1 .. 8
        OBVIOUS
      <4>1. IsPart(Body(blob)[4]) /\ 4 \in DOMAIN Body(blob)
            /\ Body(blob)[4].kind = Order(blob)[4]
        BY ONLY <3>3, <3>4, <4>0, f \in AllFiles, BodyPartIs
      <4> QED BY <3>1, <4>1 DEF Order, Order28
    <3>6. AreFields(c)
      BY <3>5, PartIs
    <3>8. c # <<>>
      BY <3>3, <3>5 DEF IsSupportedPart, IsSupportedStream
    <3>9. Head(c) = c[1]
      <4> HIDE DEF c
      <4>1. c \in Seq(Range(c))
        BY <3>6, SequenceType DEF AreFields
      <4> QED BY <3>8, <4>1, HeadTailProperties
    <3>10. StoreMetadata(Head(c))
      BY <1>1, <2>1, <3>2, <3>8 DEF deserialize_metadata_28, decompress_zlib
    <3> QED BY <3>2, <3>9, <3>10
  <2>2. CASE part = "metadata_29"
    <3>1. ~ HasFormat(blob, 28)
      BY <1>3, <2>2, PlaceOf
    <3>2. Head(rest) = list
      BY <1>3, <1>5, <3>1
    <3> QED BY <1>1, <2>2, <3>2 DEF deserialize_metadata_29
  <2> QED BY <1>1, <2>1, <2>2
<1> HIDE DEF list
<1>8. CASE Reject
  BY <1>8, NoContents DEF Reject
<1>9. CASE ~ Reject
  <2>1. AreDescribed(f)' /\ Continue /\ UNCHANGED param0_map
    BY <1>6, <1>7, <1>9, MetadataDescribes DEF list
  <2>2. todo' = Tail(todo) /\ outcome' = "reading" /\ UNCHANGED <<param0_map, node_ids>>
    BY <1>1, <1>2, <2>1 DEF Continue
  <2>3. k + 1 < Len(Todo(blob))
    <3>1. Len(Todo(blob)) = IF HasFormat(blob, 28) THEN 10 ELSE 11
      BY <1>3, AfterIs
    <3> QED BY <3>1
  <2> QED BY <1>2, <1>3, <1>4, <1>5, <2>1, <2>2, <2>3, ContentsNext
<1> QED BY <1>8, <1>9

(* The mapping.                                                            *)
LEMMA MappingContents ==
    ASSUME NEW f \in AllFiles, f.kind = "good", Types, Verdict(f.blob), Contents(f),
           deserialize_name_id_mapping
    PROVE  Contents(f)'
<1> DEFINE blob == f.blob
           list == Head(rest)
           legal == LegalEntries(list.entries)
           ids == AllNames(node_ids, legal)
<1>1. Reading("mapping")
  BY DEF deserialize_name_id_mapping
<1>2. outcome = "reading" /\ list.kind = "mapping" /\ IsPart(list)
  BY <1>1, ReadingPart DEF Kind
<1>3. PICK k \in 0 .. 7 : /\ IsAfter(blob, k) /\ k \in 0 .. Len(Todo(blob)) - 1
                          /\ Todo(blob)[k + 1] = "mapping"
                          /\ list = Body(blob)[k + 1]
  BY <1>1, ReadingPart
<1>4. k = MappingPart(blob)
  BY <1>3, PlaceOf
<1>5. /\ k # NodesPart(blob) /\ k # NodesPart(blob) + 1 /\ k # RemapPart(blob)
      /\ list = MappingIn(blob)
  BY <1>3, <1>4 DEF NodesPart, MappingPart, RemapPart, MappingIn
<1>6. list.entries \in Seq(MappingEntries) /\ list.count \in Nat
  BY <1>2, PartIs
<1>7. node_ids = Known
  <2>1. At(f, k)
    BY <1>2, <1>3, ContentsAt
  <2>2. k <= MappingPart(blob)
    BY <1>4
  <2> QED BY <2>1, <2>2 DEF At
<1>8. CASE Reject
  BY <1>8, NoContents DEF Reject
<1>9. CASE ~ Reject
  <2>1. /\ legal = list.entries /\ Counted(list) /\ Continue /\ UNCHANGED nodes
        /\ node_ids' = ids /\ param0_map' = AllPairs(ids, list.count, legal)
    BY <1>9 DEF deserialize_name_id_mapping, AllNames, AllPairs
  <2>2. Says(blob, f.nodes)
    BY GoodIs
  <2> HIDE DEF list, legal
  <2>3. \A e \in DOMAIN list.entries : list.entries[e].id < list.count
           => IsMapped(node_ids', param0_map', list.entries[e])
    <3> DEFINE entries == list.entries
               count == list.count
    <3>1. /\ \A d, e \in DOMAIN entries : entries[d].id = entries[e].id => d = e
          /\ Len(Known) + count <= 65536
      BY <1>5, <2>2 DEF Says
    <3>2. entries \in Seq(MappingEntries) /\ count \in Nat /\ Len(entries) = count
      BY <1>6, <2>1 DEF Counted
    <3>3. node_ids' = AllNames(Known, entries)
          /\ param0_map' = AllPairs(AllNames(Known, entries), count, entries)
      BY <1>7, <2>1
    <3> HIDE DEF entries, count
    <3>4. \A e \in DOMAIN entries : entries[e].id < count
             => IsMapped(AllNames(Known, entries),
                         AllPairs(AllNames(Known, entries), count, entries), entries[e])
      BY <3>1, <3>2, KnownAssumption, MappingGives
    <3> QED BY <3>3, <3>4 DEF entries, count
  <2>4. NamesAreMapped(blob)'
    BY <1>5, <2>3 DEF NamesAreMapped
  <2>5. todo' = Tail(todo) /\ outcome' = "reading"
    BY <1>2, <2>1 DEF Continue
  <2>6. k + 1 < Len(Todo(blob))
    <3>1. Len(Todo(blob)) = IF HasFormat(blob, 28) THEN 10 ELSE 11
      BY <1>3, AfterIs
    <3> QED BY <3>1
  <2> QED BY <1>2, <1>3, <1>4, <1>5, <2>1, <2>4, <2>5, <2>6, ContentsNext
<1> QED BY <1>8, <1>9

(* The names of the nodes.                                                 *)
LEMMA NodeIsNamed ==
    ASSUME NEW f \in AllFiles, f.kind = "good", Types,
           NEW k, IsAfter(f.blob, k), ReadParts(f.blob, k), k = RemapPart(f.blob),
           At(f, k), NEW i \in Places
    PROVE  /\ Remapped(nodes[i]).param_0 = param0_map[nodes[i].param_0 + 1]
           /\ node_ids[param0_map[nodes[i].param_0 + 1] + 1] = f.nodes[i].name
<1> DEFINE blob == f.blob
           x == nodes[i].param_0
           y == param0_map[x + 1]
           name == f.nodes[i].name
<1>1. NodesRead(blob, k) /\ k > MappingPart(blob)
  BY DEF NodesRead, RemapPart, MappingPart
<1>2. i \in DOMAIN nodes /\ nodes[i] \in NodeType
  BY DEF Types, NodesType, Places
<1>3. x = NodesIn(blob).entries[i + 1]
  BY <1>1, <1>2 DEF ReadParts
<1>4. SaysName(blob, i, name)
  BY NodesAreSaid
<1>5. PICK e \in DOMAIN MappingIn(blob).entries :
         MappingIn(blob).entries[e] = [id |-> x, name |-> name]
  BY <1>3, <1>4 DEF SaysName
<1>6. x < MappingIn(blob).count
  <2>1. /\ HasBody(blob) /\ Len(Body(blob)) = 8 /\ IdsAreMapped(blob)
        /\ \A j \in 1 .. 8 : IsSupportedPart(Body(blob)[j])
    BY GoodIs
  <2>2. HasParts(blob)
    BY <2>1, BodyHasParts
  <2>3. NodesIn(blob).entries \in Seq(U16) /\ Len(NodesIn(blob).entries) = NodesPerBlock
        /\ HasNodes(blob)
    <3>1. NodesPart(blob) + 1 \in 1 .. 8 /\ 8 <= Len(Body(blob))
      BY <2>1 DEF NodesPart
    <3> QED BY <2>1, <3>1, NodesInAre
  <2>4. i + 1 \in DOMAIN NodesIn(blob).entries
    <3>1. i + 1 \in 1 .. NodesPerBlock
      BY NodesAssumption DEF Places
    <3>2. DOMAIN NodesIn(blob).entries = 1 .. NodesPerBlock
      BY <2>3, LenProperties
    <3> QED BY <3>1, <3>2
  <2> QED BY <1>3, <2>1, <2>2, <2>3, <2>4 DEF IdsAreMapped
<1>7. NamesAreMapped(blob)
  BY <1>1 DEF At
<1>8. IsMapped(node_ids, param0_map, MappingIn(blob).entries[e])
  BY <1>5, <1>6, <1>7 DEF NamesAreMapped
<1>9. y \in U16 /\ node_ids[y + 1] = name
  BY <1>5, <1>8 DEF IsMapped
<1>10. Remapped(nodes[i]) = [nodes[i] EXCEPT !.param_0 = y % 65536]
  BY DEF Remapped
<1> HIDE DEF y
<1>11. y % 65536 = y
  <2>1. y \in Nat /\ y <= 65535
    BY ONLY <1>9 DEF U16
  <2> QED BY ONLY <2>1
<1>12. Remapped(nodes[i]).param_0 = y
  BY <1>2, <1>10, <1>11 DEF NodeType
<1> QED BY <1>9, <1>12 DEF y

LEMMA RemapContents ==
    ASSUME NEW f \in AllFiles, f.kind = "good", Types, Verdict(f.blob), Contents(f),
           remap_param0
    PROVE  Contents(f)'
<1> DEFINE blob == f.blob
<1>1. /\ outcome = "reading" /\ Head(todo) = "remap"
      /\ UNCHANGED <<param0_map, node_ids>>
  BY DEF remap_param0, Due
<1>2. PICK k \in {8, 9, 10} : /\ IsAfter(blob, k) /\ ReadParts(blob, k)
                              /\ k \in 0 .. Len(Todo(blob)) - 1
                              /\ Todo(blob)[k + 1] = "remap"
  BY <1>1, BehindParts
<1>3. k = RemapPart(blob)
  BY <1>2, PlaceOf DEF RemapPart
<1>4. /\ k # NodesPart(blob) /\ k # NodesPart(blob) + 1 /\ k # MappingPart(blob)
      /\ k > NodesPart(blob) + 1
  BY <1>3 DEF NodesPart, MappingPart, RemapPart
<1>5. k + 1 < Len(Todo(blob))
  <2>1. Len(Todo(blob)) = IF HasFormat(blob, 28) THEN 10 ELSE 11
    BY <1>2, AfterIs
  <2> QED BY <1>3, <2>1 DEF RemapPart
<1>6. At(f, k)
  BY <1>1, <1>2, ContentsAt
<1>7. CASE outcome' = "aborted"
  BY <1>7, NoContents
<1>8. CASE outcome' # "aborted"
  <2>1. /\ nodes' = [i \in DOMAIN nodes |-> Remapped(nodes[i])]
        /\ todo' = Tail(todo) /\ outcome' = "reading"
    BY <1>1, <1>8 DEF remap_param0
  <2>2. \A i \in Places : i \in DOMAIN nodes /\ nodes'[i] = Remapped(nodes[i])
    BY <2>1 DEF Types, NodesType, Places
  <2>3. AreDescribed(f)'
    <3>1. AreDescribed(f)
      BY <1>4, <1>6 DEF At
    <3>2. ASSUME NEW i \in Places PROVE IsDescribed(nodes'[i], f.nodes[i])
      <4>1. nodes[i] \in NodeType
        BY DEF Types, NodesType, Places
      <4>2. /\ nodes'[i].metadata = nodes[i].metadata
            /\ nodes'[i].inventory = nodes[i].inventory
        <5> DEFINE x == param0_map[nodes[i].param_0 + 1] % 65536
        <5>1. nodes'[i] = [nodes[i] EXCEPT !.param_0 = x]
          BY <2>2 DEF Remapped
        <5> HIDE DEF x
        <5> QED BY <4>1, <5>1 DEF NodeType
      <4> QED BY <3>1, <4>2 DEF AreDescribed, IsDescribed
    <3> QED BY <3>2 DEF AreDescribed
  <2>4. AreNamed(f)'
    <3>1. ASSUME NEW i \in Places PROVE node_ids'[nodes'[i].param_0 + 1] = f.nodes[i].name
      <4>1. /\ Remapped(nodes[i]).param_0 = param0_map[nodes[i].param_0 + 1]
            /\ node_ids[param0_map[nodes[i].param_0 + 1] + 1] = f.nodes[i].name
        BY <1>2, <1>3, <1>6, NodeIsNamed
      <4> QED BY <1>1, <2>2, <4>1
    <3> QED BY <3>1 DEF AreNamed, IsNamed
  <2> QED BY <1>1, <1>2, <1>3, <1>4, <1>5, <2>1, <2>3, <2>4, ContentsNext
<1> QED BY <1>7, <1>8

(* A node with the name, the owner and the lists has the money.            *)
LEMMA NodeIsDecoded ==
    ASSUME NEW f \in AllFiles, f.kind = "good", Types, NEW i \in Places,
           IsDescribed(nodes[i], f.nodes[i]), IsNamed(nodes[i], f.nodes[i])
    PROVE  Decoded(i) = f.nodes[i]
<1> DEFINE said == f.nodes[i]
           node == nodes[i]
           lists == said.lists
           entries == MetadataIn(f.blob)
           own == {e \in DOMAIN entries : entries[e].pos = i}
<1>1. /\ said = [name |-> said.name, owner |-> said.owner,
                 lists |-> said.lists, minegeld |-> Money(said.lists)]
      /\ lists \in [DOMAIN lists -> Seq(Items)]
      /\ SaysData(entries, i, said)
  BY NodesAreSaid
<1>2. node \in NodeType
  BY DEF Types, NodesType, Places
<1>3. get_owner(node) = said.owner
  <2>1. node.metadata \in Seq(Variables)
    BY <1>2 DEF NodeType
  <2>2. SaysOwner(node.metadata, said.owner)
    BY DEF IsDescribed
  <2> HIDE DEF node, said
  <2> QED BY <2>1, <2>2, OwnerIs
<1>4. IsFiniteSet(DOMAIN lists)
  <2>1. CASE own = {}
    <3>1. lists = <<>>
      BY <1>1, <2>1 DEF SaysData
    <3>2. DOMAIN <<>> = {}
      OBVIOUS
    <3> HIDE DEF lists
    <3> QED BY <3>1, <3>2, FS_EmptySet
  <2>2. ASSUME NEW e \in own PROVE IsFiniteSet(DOMAIN lists)
    <3> DEFINE list == IF HasFormat(f.blob, 28) THEN Body(f.blob)[4].content[1]
                       ELSE Body(f.blob)[6]
    <3>1. /\ list.entries \in Seq(MetadataEntries)
          /\ entries = IF list.version = 0 THEN <<>> ELSE list.entries
      BY MetadataInIs
    <3> HIDE DEF list
    <3>2. e \in DOMAIN entries /\ DOMAIN <<>> = {}
      BY <2>2
    <3>3. entries \in Seq(MetadataEntries)
      BY <3>1, <3>2
    <3>4. SaysLists(entries[e].lines, lists)
      BY <1>1, <2>2 DEF SaysData
    <3> HIDE DEF entries, lists
    <3>5. entries[e] \in MetadataEntries
      BY <3>2, <3>3
    <3>6. entries[e].lines \in Seq(InventoryLines)
      BY <3>5 DEF MetadataEntries
    <3> QED BY <3>4, <3>6, ListsAreFinite
  <2> QED BY <2>1, <2>2
<1>5. total_minegeld(lists) = Money(lists)
  <2> HIDE DEF lists
  <2> QED BY <1>1, <1>4, MoneyIs
<1>6. node.inventory = lists /\ node_ids[node.param_0 + 1] = said.name
  BY DEF IsDescribed, IsNamed
<1>7. Decoded(i) = [name |-> said.name, owner |-> said.owner,
                    lists |-> lists, minegeld |-> Money(lists)]
  BY <1>3, <1>5, <1>6 DEF Decoded
<1> QED BY ONLY <1>1, <1>7

LEMMA VerifyContents ==
    ASSUME NEW f \in AllFiles, f.kind = "good", Types, Verdict(f.blob), Contents(f),
           verify_all_data_consumed
    PROVE  Contents(f)'
<1> DEFINE blob == f.blob
<1>1. /\ outcome = "reading" /\ Head(todo) = "verify" /\ UNCHANGED node_ids
  BY DEF verify_all_data_consumed, Due
<1>2. PICK k \in {8, 9, 10} : /\ IsAfter(blob, k)
                              /\ k \in 0 .. Len(Todo(blob)) - 1
                              /\ Todo(blob)[k + 1] = "verify"
  BY <1>1, BehindParts
<1>3. k \in IF HasFormat(blob, 28) THEN {9} ELSE {8, 10}
  BY <1>2, PlaceOf
<1>4. /\ Len(Todo(blob)) = IF HasFormat(blob, 28) THEN 10 ELSE 11
      /\ Len(todo) = Len(Todo(blob)) - k
  BY <1>2, AfterIs
<1>5. CASE Reject
  BY <1>5, NoContents DEF Reject
<1>6. CASE ~ Reject
  <2>1. /\ todo' = Tail(todo) /\ UNCHANGED <<param0_map, node_ids>> /\ UNCHANGED nodes
        /\ outcome' = IF Len(todo) = 1 THEN "ok" ELSE "reading"
    BY <1>1, <1>6 DEF verify_all_data_consumed, block
  <2>2. CASE Len(todo) # 1
    <3>1. k = 8 /\ ~ HasFormat(blob, 28)
      BY <1>3, <1>4, <2>2
    <3>2. /\ k # NodesPart(blob) /\ k # NodesPart(blob) + 1 /\ k # MappingPart(blob)
          /\ k # RemapPart(blob)
      BY <3>1 DEF NodesPart, MappingPart, RemapPart
    <3>3. k + 1 < Len(Todo(blob)) /\ outcome' = "reading"
      BY <1>4, <2>1, <2>2, <3>1
    <3> QED BY <1>1, <1>2, <2>1, <3>2, <3>3, ContentsNext
  <2>3. CASE Len(todo) = 1
    <3>1. k > RemapPart(blob) /\ k > NodesPart(blob) + 1
      <4>1. k = IF HasFormat(blob, 28) THEN 9 ELSE 10
        <5> DEFINE n == Len(Todo(blob))
                   m == Len(todo)
        <5>1. /\ n = IF HasFormat(blob, 28) THEN 10 ELSE 11
              /\ m = n - k /\ m = 1 /\ k \in Nat
          <6>1. n = IF HasFormat(blob, 28) THEN 10 ELSE 11
            BY ONLY <1>4
          <6>2. m = n - k
            BY ONLY <1>4
          <6>3. m = 1
            BY ONLY <2>3
          <6>4. k \in Nat
            OBVIOUS
          <6> QED BY ONLY <6>1, <6>2, <6>3, <6>4
        <5> HIDE DEF n, m, blob
        <5> QED BY ONLY <5>1
      <4>2. /\ RemapPart(blob) = IF HasFormat(blob, 28) THEN 8 ELSE 9
            /\ NodesPart(blob) = IF HasFormat(blob, 28) THEN 2 ELSE 4
        BY DEF RemapPart, NodesPart
      <4> QED BY ONLY <4>1, <4>2
    <3>2. At(f, k)
      BY <1>1, <1>2, ContentsAt
    <3>3. AreDescribed(f) /\ AreNamed(f)
      BY <3>1, <3>2 DEF At
    <3>4. ASSUME NEW i \in Places PROVE Decoded(i) = f.nodes[i]
      BY <3>3, NodeIsDecoded DEF AreDescribed, AreNamed
    <3>5. \A i \in Places : Decoded(i)' = Decoded(i)
      BY <2>1 DEF Decoded
    <3>6. DOMAIN nodes' = Places
      BY <2>1 DEF Types, NodesType, Places
    <3> QED BY <2>1, <2>3, <3>4, <3>5, <3>6 DEF Contents
  <2> QED BY <2>2, <2>3
<1> QED BY <1>5, <1>6
-----------------------------------------------------------------------------
(* The theorems.                                                           *)

\* the verdict on a file, and what a good file says
Verdicts ==
    \E f \in AllFiles : /\ file = [kind |-> f.kind, nodes |-> f.nodes]
                        /\ Verdict(f.blob)
                        /\ f.kind = "good" => Contents(f)

IInv == Types /\ Verdicts

(* The invariant holds before the first part.                              *)
LEMMA InitialStates == Init => IInv
<1> SUFFICES ASSUME Init PROVE IInv
  OBVIOUS
<1>1. PICK f \in AllFiles : file = [kind |-> f.kind, nodes |-> f.nodes]
           /\ rest = f.blob
  BY DEF Init
<1>2. outcome = "reading" /\ todo = <<"version">> /\ node_ids = Known
  BY DEF Init
<1>3. Verdict(f.blob)
  BY <1>1, <1>2 DEF Verdict, Stage
<1>4. Contents(f)
  BY <1>2 DEF Contents
<1>5. nodes \in NodesType
  BY NewNodeType DEF Init, NodesType
<1>6. param0_map \in Seq(-1 .. Len(node_ids) - 1)
  BY EmptySeq DEF Init
<1>7. node_ids \in Seq(STRING)
  BY KnownAssumption DEF Init
<1>8. Types
  BY <1>2, <1>5, <1>6, <1>7 DEF Types
<1> QED BY <1>1, <1>3, <1>4, <1>8 DEF IInv, Verdicts

(* No step changes which file it is.                                       *)
LEMMA FileStays == Next => UNCHANGED file
  BY DEF Next, deserialize, decompress_zstd, PlainField, Widths, deserialize_nodes_28,
         deserialize_nodes_29, deserialize_metadata_28,
         deserialize_metadata_29, StoreMetadata,
         deserialize_name_id_mapping, Overrun, deserialize_static_objects,
         deserialize_node_timers,
         OutOfData, remap_param0, verify_all_data_consumed, Continue, Reject

(* Every step keeps the types and the verdict.                             *)
LEMMA VerdictStep ==
    ASSUME NEW f \in AllFiles, Types, Verdict(f.blob), Next
    PROVE  Types' /\ Verdict(f.blob)'
  BY VersionStep, ZstdStep, PlainFieldStep, WidthsStep, Nodes28Step,
     Nodes29Step, Metadata28Step, Metadata29Step, MappingStep, OverrunStep, ObjectsStep,
     TimersStep, OutOfDataStep, RemapStep, VerifyStep DEF Next

(* Every step keeps the invariant.                                         *)
LEMMA IInvStep == IInv /\ [Next]_vars => IInv'
<1> SUFFICES ASSUME IInv, [Next]_vars PROVE IInv'
  OBVIOUS
<1>1. PICK f \in AllFiles : /\ file = [kind |-> f.kind, nodes |-> f.nodes]
                            /\ Verdict(f.blob)
                            /\ f.kind = "good" => Contents(f)
  BY DEF IInv, Verdicts
<1>2. Types
  BY DEF IInv
<1>3. CASE Next
  <2>1. Types' /\ Verdict(f.blob)'
    BY <1>1, <1>2, <1>3, VerdictStep
  <2>2. UNCHANGED file
    BY <1>3, FileStays
  <2>3. ASSUME f.kind = "good" PROVE Contents(f)'
    <3>1. Contents(f)
      BY <1>1, <2>3
    <3>2. CASE OutOfData
      BY <3>2, NoContents DEF OutOfData, Reject
    <3>3. CASE Overrun
      BY <3>3, NoContents DEF Overrun
    <3> QED BY <1>1, <1>2, <1>3, <2>3, <3>1, <3>2, <3>3, VersionContents, ZstdContents,
       PlainFieldContents, WidthsContents, NodesContents, MetadataContents,
       MappingContents, ObjectsContents, TimersContents, RemapContents,
       VerifyContents DEF Next
  <2> QED BY <1>1, <2>1, <2>2, <2>3 DEF IInv, Verdicts
<1>4. CASE UNCHANGED vars
  <2>1. Types' /\ Verdict(f.blob)' /\ UNCHANGED file
    BY <1>1, <1>2, <1>4 DEF vars, Types, Verdict, Stage, IsAfter, ReadParts
  <2>2. Contents(f) => Contents(f)'
    BY <1>4 DEF vars, Contents, At, Place, NamesAreMapped, AreBare, AreDescribed,
                AreNamed, IsNamed, Decoded
  <2> QED BY <1>1, <2>1, <2>2 DEF IInv, Verdicts
<1> QED BY <1>3, <1>4

(* The inductive invariant: the types, and what the outcome, or the place  *)
(* where the program is, says of the file that is read.                    *)
THEOREM Invariance == Spec => []IInv
  BY InitialStates, IInvStep, PTL DEF Spec

(* param_0 stays a uint16_t, and the mapping holds ids that IdMap has      *)
(* given, or the mark of a hole (TypeOK).                                  *)
THEOREM TypeCorrect == Spec => []TypeOK
<1>1. IInv => TypeOK
  <2> SUFFICES ASSUME IInv PROVE TypeOK
    OBVIOUS
  <2>1. PICK f \in AllFiles : file = [kind |-> f.kind, nodes |-> f.nodes]
    BY DEF IInv, Verdicts
  <2>2. file.kind = f.kind
    BY <2>1
  <2>3. file.kind \in {"good", "defective", "odd", "sparse"}
    BY <2>2, FilesAssumption
  <2>4. nodes \in NodesType /\ DOMAIN nodes = 0 .. NodesPerBlock - 1
    BY DEF IInv, Types, NodesType
  <2>5. ASSUME NEW i \in DOMAIN nodes PROVE nodes[i].param_0 \in U16
    <3>1. nodes[i] \in NodeType
      BY <2>4 DEF NodesType
    <3> QED BY <3>1 DEF NodeType
  <2>6. /\ param0_map \in Seq(-1 .. Len(node_ids) - 1)
        /\ outcome \in {"reading", "ok", "rejected", "aborted", "undefined"}
    BY DEF IInv, Types
  <2> QED BY ONLY <2>3, <2>4, <2>5, <2>6 DEF TypeOK
<1> QED BY <1>1, Invariance, PTL

(* In both formats, and in data that ends anywhere, each part is read as   *)
(* what it was written (FieldsAreReadAsWritten;                            *)
(* MapBlock::deserialize_format_28 and _29).                               *)
THEOREM FieldsRead == Spec => []FieldsAreReadAsWritten
<1>1. IInv => FieldsAreReadAsWritten
  <2> SUFFICES ASSUME IInv, outcome = "reading", rest # <<>>,
                      Head(todo) \notin {"remap", "verify"}
               PROVE  Head(rest).kind = Kind(Head(todo))
    BY DEF FieldsAreReadAsWritten
  <2>1. PICK f \in AllFiles : Verdict(f.blob)
    BY DEF IInv, Verdicts
  <2> DEFINE blob == f.blob
  <2>2. CASE rest = blob /\ Head(todo) = "version"
    <3>1. Head(rest) = blob[1] /\ blob[1].kind = "version"
      BY <2>2, BlobIs, HeadTailProperties
    <3> QED BY <2>2, <3>1 DEF Kind
  <2>3. CASE HasFormat(blob, 29) /\ rest = Tail(blob) /\ Head(todo) = "zstd"
    <3>1. /\ blob \in Seq(Range(blob)) /\ blob # <<>> /\ ~ HasFormat(blob, 28)
          /\ Len(blob) \in Nat
      BY <2>3, BlobIs DEF HasFormat
    <3>2. HasFormat(blob, 29) /\ Len(blob) > 1 => blob[2].kind = "zstd"
      BY FilesAssumption DEF IsBlob
    <3> HIDE DEF blob
    <3>3. /\ rest \in Seq(Range(blob)) /\ Len(rest) = Len(blob) - 1
          /\ \A i \in 1 .. Len(rest) : rest[i] = blob[i + 1]
      BY <2>3, <3>1, HeadTailProperties
    <3>4. Head(rest) = rest[1] /\ Len(rest) \in Nat /\ Len(rest) # 0
      BY <3>3, HeadTailProperties, EmptySeq, LenProperties
    <3>5. 1 \in 1 .. Len(rest) /\ 1 + 1 = 2 /\ Len(blob) > 1
      BY <3>1, <3>3, <3>4
    <3>6. Head(rest).kind = "zstd"
      BY <2>3, <3>2, <3>3, <3>4, <3>5
    <3> QED BY <2>3, <3>6 DEF Kind
  <2>4. CASE HasBody(blob) /\ \E k \in 0 .. 11 : IsAfter(blob, k)
             /\ ReadParts(blob, k)
    <3>1. PICK k \in 0 .. 11 : IsAfter(blob, k)
      BY <2>4
    <3>2. k \in 0 .. Len(Todo(blob)) - 1 /\ Head(todo) = Todo(blob)[k + 1]
      BY <3>1, AfterIs
    <3>3. k \in 0 .. 7
      BY <3>2, PlaceOf
    <3> QED BY <2>4, <3>1, <3>3, PartAt
  <2> QED BY <2>1, <2>2, <2>3, <2>4, PlaceInFile
<1> QED BY <1>1, Invariance, PTL

(* Data that lacks something, or has a field the code does not support,    *)
(* ends with a SerializationError and not with the program                 *)
(* (DefectiveIsRejected).                                                  *)
THEOREM DefectiveRejected == Spec => []DefectiveIsRejected
<1>1. IInv => DefectiveIsRejected
  <2> SUFFICES ASSUME IInv, file.kind = "defective" PROVE outcome \in {"reading",
                      "rejected"}
    BY DEF DefectiveIsRejected
  <2>1. PICK f \in AllFiles : file = [kind |-> f.kind, nodes |-> f.nodes]
             /\ Verdict(f.blob)
    BY DEF IInv, Verdicts
  <2>2. ~ IsSupported(f.blob) /\ IdsAreMapped(f.blob)
    <3>1. f.kind = "defective"
      BY <2>1
    <3> QED BY <3>1, FilesAssumption
  <2>3. outcome \in {"reading", "ok", "rejected", "aborted", "undefined"}
    BY DEF IInv, Types
  <2> QED BY <2>1, <2>2, <2>3 DEF Verdict
<1> QED BY <1>1, Invariance, PTL

(* A map block as Minetest writes it is read, in both formats, and every   *)
(* node has the name, the owner, the inventories and the money that were   *)
(* written (WellFormedIsDecoded; MapBlock::deserialize, remap_param0).     *)
THEOREM WellFormedDecoded == Spec => []WellFormedIsDecoded
<1>1. IInv => WellFormedIsDecoded
  <2> SUFFICES ASSUME IInv, file.kind = "good"
               PROVE  /\ outcome \in {"reading", "ok"}
                      /\ outcome = "ok" =>
                            \A i \in DOMAIN nodes : Decoded(i) = file.nodes[i]
    BY DEF WellFormedIsDecoded
  <2>1. PICK f \in AllFiles : /\ file = [kind |-> f.kind, nodes |-> f.nodes]
                              /\ Verdict(f.blob)
                              /\ f.kind = "good" => Contents(f)
    BY DEF IInv, Verdicts
  <2>2. f.kind = "good" /\ file.nodes = f.nodes
    BY <2>1
  <2>3. IsSupported(f.blob) /\ IdsAreMapped(f.blob)
    BY <2>2, GoodIs
  <2>4. outcome \in {"reading", "ok", "rejected", "aborted", "undefined"}
    BY DEF IInv, Types
  <2>5. outcome \in {"reading", "ok"}
    BY <2>1, <2>3, <2>4 DEF Verdict
  <2> QED BY <2>1, <2>2, <2>5 DEF Contents
<1> QED BY <1>1, Invariance, PTL
===============================================================================
