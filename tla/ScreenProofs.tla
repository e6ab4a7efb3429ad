---------------------------- MODULE ScreenProofs ----------------------------
(***************************************************************************)
(* Theorems about the screens of PostPigeon that show what listeners       *)
(* report, for any documents and any order of the changes in a report: the *)
(* lists of requests and chats, the list of people, an open chat.          *)
(***************************************************************************)
EXTENDS ChatLists, SequenceLemmas

-----------------------------------------------------------------------------
(* The orders of a finite set.                                             *)

LEMMA OrderCovers ==
  ASSUME NEW S, IsFiniteSet(S), NEW order \in SetToSeqs(S)
  PROVE  /\ order \in Seq(S) /\ Len(order) = Cardinality(S) /\ Len(order) \in Nat
         /\ DOMAIN order = 1 .. Len(order)
         /\ \A i, j \in 1 .. Len(order) : order[i] = order[j] => i = j
         /\ \A x \in S : \E i \in 1 .. Len(order) : order[i] = x
  <1> DEFINE n == Cardinality(S)
  <1>1. n \in Nat
    BY FS_CardinalityType
  <1> HIDE DEF n
  <1>2. order \in [1 .. n -> S] /\ \A i, j \in 1 .. n : i # j => order[i] # order[j]
    BY DEF SetToSeqs, n
  <1>3. order \in Seq(S) /\ Len(order) = n /\ DOMAIN order = 1 .. n
    BY <1>1, <1>2
  <1>4. IsFiniteSet(1 .. n) /\ Cardinality(1 .. n) = n
    <2>1. 1 \in Int /\ n \in Int
      BY <1>1
    <2>2. IsFiniteSet(1 .. n) /\ Cardinality(1 .. n) = IF 1 > n THEN 0 ELSE n - 1 + 1
      BY <2>1, FS_Interval
    <2> QED
      BY <1>1, <2>2
  <1>5. order \in Injection(1 .. n, S)
    BY <1>2 DEF Injection, IsInjective
  <1>6. order \in Surjection(1 .. n, S)
    BY <1>4, <1>5, FS_Injection DEF n
  <1>7. \A x \in S : \E i \in 1 .. n : order[i] = x
    BY <1>6 DEF Surjection
  <1> QED
    BY <1>1, <1>2, <1>3, <1>7 DEF n

-----------------------------------------------------------------------------
(* Reports.                                                                *)

(* There is one change for each document that differs, of one type.        *)
LEMMA DiffsAre ==
  ASSUME NEW old \in Documents, NEW new \in Documents
  PROVE  /\ IsFiniteSet(Diffs(old, new))
         /\ \A d \in Diffs(old, new) :
              /\ d.id \in Ids /\ old[d.id] # new[d.id]
              /\ \/ d.type = "added" /\ old[d.id] = None /\ d.content = new[d.id]
                 \/ d.type = "modified" /\ None \notin {old[d.id], new[d.id]} /\ d.content = new[d.id]
                 \/ d.type = "removed" /\ new[d.id] = None
         /\ \A d, e \in Diffs(old, new) : d.id = e.id => d = e
         /\ \A p \in Ids : old[p] # new[p] => \E d \in Diffs(old, new) : d.id = p
  <1> DEFINE D == Diffs(old, new)
             Is(type, p, c) == [type |-> type, id |-> p, content |-> c]
  <1>1. ASSUME NEW d \in D
        PROVE  \E p \in Ids : /\ old[p] # new[p]
                              /\ \/ d = Is("added", p, new[p]) /\ old[p] = None
                                 \/ d = Is("modified", p, new[p]) /\ None \notin {old[p], new[p]}
                                 \/ d = Is("removed", p, old[p]) /\ new[p] = None
    BY DEF Diffs
  <1>2. ASSUME NEW p \in Ids, old[p] # new[p]
        PROVE  \E d \in D : d.id = p
    <2>1. CASE old[p] = None
      <3>1. Is("added", p, new[p]) \in D
        BY <1>2, <2>1 DEF Diffs
      <3> QED
        BY <3>1
    <2>2. CASE new[p] = None
      <3>1. Is("removed", p, old[p]) \in D
        BY <1>2, <2>2 DEF Diffs
      <3> QED
        BY <3>1
    <2>3. CASE old[p] # None /\ new[p] # None
      <3>1. Is("modified", p, new[p]) \in D
        BY <1>2, <2>3 DEF Diffs
      <3> QED
        BY <3>1
    <2> QED
      BY <2>1, <2>2, <2>3
  <1> HIDE DEF D
  <1>3. ASSUME NEW d \in D, NEW e \in D, d.id = e.id PROVE d = e
    BY <1>1, <1>3
  <1>4. \A d \in D :
              /\ d.id \in Ids /\ old[d.id] # new[d.id]
              /\ \/ d.type = "added" /\ old[d.id] = None /\ d.content = new[d.id]
                 \/ d.type = "modified" /\ None \notin {old[d.id], new[d.id]} /\ d.content = new[d.id]
                 \/ d.type = "removed" /\ new[d.id] = None
    BY <1>1
  <1>5. IsFiniteSet(D)
    <2> DEFINE f == [d \in D |-> d.id]
    <2>1. f \in Injection(D, Ids)
      BY <1>3, <1>4 DEF Injection, IsInjective
    <2> QED
      BY <2>1, FS_Injection, ListenerAssumption
  <1> QED
    BY <1>2, <1>3, <1>4, <1>5 DEF D

(* What `Mirrors' says without numbers of elements: the items are those of *)
(* the documents, each once.                                               *)
Listed(items, docs0, hidden) ==
  /\ items \in Seq(Item)
  /\ \A i, j \in 1 .. Len(items) : items[i].id = items[j].id => i = j
  /\ \A i \in 1 .. Len(items) :
       items[i].id \notin hidden /\ docs0[items[i].id] = items[i].content
  /\ \A p \in Ids \ hidden :
       docs0[p] # None => \E i \in 1 .. Len(items) : items[i].id = p

LEMMA ListedMirrors ==
  ASSUME NEW items, NEW docs0, NEW hidden, Listed(items, docs0, hidden)
  PROVE  Mirrors(items, docs0, hidden)
  <1> DEFINE there == {p \in Ids \ hidden : docs0[p] # None}
             n == Len(items)
             f == [i \in 1 .. n |-> items[i].id]
  <1>1. /\ n \in Nat /\ DOMAIN items = 1 .. n
        /\ \A i \in 1 .. n : items[i] \in Item /\ items[i].id \in there
                             /\ items[i] = [id |-> items[i].id, content |-> docs0[items[i].id]]
    <2>1. /\ n \in Nat /\ DOMAIN items = 1 .. n
          /\ \A i \in 1 .. n : items[i] \in Item
      BY SeqFacts DEF Listed
    <2> SUFFICES ASSUME NEW i \in 1 .. n
                 PROVE  items[i].id \in there
                        /\ items[i] = [id |-> items[i].id, content |-> docs0[items[i].id]]
      BY <2>1
    <2>2. /\ items[i] \in Item /\ items[i].id \notin hidden
          /\ docs0[items[i].id] = items[i].content
      BY <2>1 DEF Listed
    <2> QED
      BY <2>2, ListenerAssumption DEF Item
  <1>2. \A p \in there : \E i \in 1 .. n : items[i].id = p
    BY DEF Listed
  <1>3. ToSet(items) = {[id |-> p, content |-> docs0[p]] : p \in there}
    <2>1. ASSUME NEW x \in ToSet(items) PROVE \E p \in there : x = [id |-> p, content |-> docs0[p]]
      <3>1. PICK i \in 1 .. n : x = items[i]
        BY <1>1 DEF ToSet
      <3> QED
        BY <1>1, <3>1
    <2>2. ASSUME NEW p \in there PROVE [id |-> p, content |-> docs0[p]] \in ToSet(items)
      <3>1. PICK i \in 1 .. n : items[i].id = p
        BY <1>2
      <3>2. items[i] = [id |-> p, content |-> docs0[p]]
        BY <1>1, <3>1
      <3> QED
        BY <1>1, <3>2 DEF ToSet
    <2> HIDE DEF there
    <2> QED
      BY <2>1, <2>2
  <1>4. n = Cardinality(there)
    <2>1. f \in Bijection(1 .. n, there)
      <3> HIDE DEF there
      <3>1. \A i, j \in 1 .. n : items[i].id = items[j].id => i = j
        BY DEF Listed
      <3>2. f \in [1 .. n -> there]
        BY <1>1
      <3>3. f \in Injection(1 .. n, there)
        BY <3>1, <3>2 DEF Injection, IsInjective
      <3>4. f \in Surjection(1 .. n, there)
        BY <1>2, <3>2 DEF Surjection
      <3> QED
        BY <3>3, <3>4 DEF Bijection
    <2>2. ExistsBijection(1 .. n, there)
      BY <2>1 DEF ExistsBijection
    <2> HIDE DEF there, f
    <2>3. n \in Nat
      BY <1>1
    <2> QED
      BY <2>2, <2>3, FS_CountingElements
  <1> QED
    BY <1>3, <1>4 DEF Mirrors

-----------------------------------------------------------------------------
(* One change.                                                             *)

(* firstIndex(of:) finds the item of a document if there is one.           *)
LEMMA IndexIs ==
  ASSUME NEW items \in Seq(Item), NEW id
  PROVE  \/ /\ IndexOf(items, id) = 0
            /\ \A i \in 1 .. Len(items) : items[i].id # id
         \/ /\ IndexOf(items, id) # 0 /\ IndexOf(items, id) \in 1 .. Len(items)
            /\ items[IndexOf(items, id)].id = id
  <1> DEFINE I == {i \in 1 .. Len(items) : items[i].id = id}
  <1>1. IndexOf(items, id) = IF I # {} THEN Min(I) ELSE 0
    BY DEF IndexOf, SelectInSeq
  <1>2. I \in SUBSET Nat
    OBVIOUS
  <1>3. CASE I = {}
    BY <1>1, <1>3
  <1>4. CASE I # {}
    <2>1. Min(I) \in I
      BY <1>2, <1>4, MinNat
    <2> QED
      BY <1>1, <1>4, <2>1
  <1> QED
    BY <1>3, <1>4

(* The document that a change is about is listed as the change says.       *)
LEMMA ApplyLists ==
  ASSUME NEW items, NEW docs0 \in Documents, NEW hidden, Listed(items, docs0, hidden),
         NEW d, d.id \in Ids, NEW c \in Contents \cup {None},
         \/ d.type = "added" /\ docs0[d.id] = None /\ c # None /\ d.content = c
         \/ d.type = "modified" /\ docs0[d.id] # None /\ c # None /\ d.content = c
         \/ d.type = "removed" /\ docs0[d.id] # None /\ c = None
  PROVE  Listed(Apply(items, d, hidden), [docs0 EXCEPT ![d.id] = c], hidden)
  <1> DEFINE i == IndexOf(items, d.id)
             n == Len(items)
             next == [docs0 EXCEPT ![d.id] = c]
  <1>1. /\ items \in Seq(Item) /\ n \in Nat /\ DOMAIN items = 1 .. n
        /\ \A k \in 1 .. n : items[k] \in Item /\ items[k].id \in Ids /\ items[k].content # None
    <2>1. items \in Seq(Item) /\ n \in Nat /\ DOMAIN items = 1 .. n /\ \A k \in 1 .. n : items[k] \in Item
      BY SeqFacts DEF Listed
    <2>2. \A e \in Item : e.id \in Ids /\ e.content # None
      BY ListenerAssumption DEF Item
    <2> QED
      BY <2>1, <2>2
  <1>2. /\ \A k, l \in 1 .. n : items[k].id = items[l].id => k = l
        /\ \A k \in 1 .. n : items[k].id \notin hidden /\ docs0[items[k].id] = items[k].content
        /\ \A p \in Ids \ hidden : docs0[p] # None => \E k \in 1 .. n : items[k].id = p
    BY DEF Listed
  <1>3. \/ i = 0 /\ \A k \in 1 .. n : items[k].id # d.id
        \/ i # 0 /\ i \in 1 .. n /\ items[i].id = d.id
    BY <1>1, IndexIs
  <1>4. next[d.id] = c /\ \A p \in Ids : p # d.id => next[p] = docs0[p]
    BY DEF Documents
  <1>5. Apply(items, d, hidden) =
          CASE d.type = "added" /\ i = 0 /\ d.id \notin hidden -> Append(items, ItemOf(d))
            [] d.type = "modified" /\ i # 0 -> ReplaceAt(items, i, ItemOf(d))
            [] d.type = "removed" /\ i # 0 -> RemoveAt(items, i)
            [] OTHER -> items
    BY DEF Apply
  <1> HIDE DEF i, n, next
  <1>6. ASSUME i = 0, d.id \in hidden \/ d.type # "added"
        PROVE  Listed(items, next, hidden)
    <2>1. \A k \in 1 .. n : items[k].id # d.id
      BY <1>3, <1>6
    <2>2. ASSUME NEW p \in Ids \ hidden, next[p] # None
          PROVE  \E k \in 1 .. n : items[k].id = p
      <3>1. CASE p # d.id
        BY <1>2, <1>4, <2>2, <3>1
      <3>2. CASE p = d.id
        <4>1. docs0[p] # None
          BY <1>4, <1>6, <2>2, <3>2
        <4> QED
          BY <1>2, <4>1
      <3> QED
        BY <3>1, <3>2
    <2>3. \A k \in 1 .. n : next[items[k].id] = items[k].content
      BY <1>1, <1>2, <1>4, <2>1
    <2> QED
      BY <1>1, <1>2, <2>2, <2>3 DEF Listed, n
  <1>7. CASE d.type = "added"
    <2>1. i = 0
      BY <1>1, <1>2, <1>3, <1>7
    <2>2. CASE d.id \in hidden
      BY <1>5, <1>6, <1>7, <2>1, <2>2 DEF next
    <2>3. CASE d.id \notin hidden
      <3> DEFINE r == Append(items, ItemOf(d))
      <3>1. ItemOf(d) \in Item /\ ItemOf(d).id = d.id /\ ItemOf(d).content = c
        BY <1>7 DEF ItemOf, Item
      <3>2. /\ r \in Seq(Item) /\ Len(r) = n + 1 /\ r[n + 1] = ItemOf(d)
            /\ \A k \in 1 .. n : r[k] = items[k]
        BY <1>1, <3>1, AppendProperties DEF n
      <3>3. Apply(items, d, hidden) = r
        BY <1>5, <1>7, <2>1, <2>3
      <3> HIDE DEF r
      <3>4. \A k \in 1 .. n : items[k].id # d.id
        BY <1>3, <2>1
      <3>5. \A k \in 1 .. n + 1 : k = n + 1 \/ k \in 1 .. n
        BY <1>1
      <3>6. \A k, l \in 1 .. n + 1 : r[k].id = r[l].id => k = l
        BY <1>2, <3>1, <3>2, <3>4, <3>5
      <3>7. \A k \in 1 .. n + 1 : r[k].id \notin hidden /\ next[r[k].id] = r[k].content
        BY <1>1, <1>2, <1>4, <2>3, <3>1, <3>2, <3>4, <3>5
      <3>8. \A p \in Ids \ hidden : next[p] # None => \E k \in 1 .. n + 1 : r[k].id = p
        <4> SUFFICES ASSUME NEW p \in Ids \ hidden, next[p] # None
                     PROVE  \E k \in 1 .. n + 1 : r[k].id = p
          OBVIOUS
        <4>1. CASE p = d.id
          <5>1. n + 1 \in 1 .. n + 1
            BY <1>1
          <5> QED
            BY <3>1, <3>2, <4>1, <5>1
        <4>2. CASE p # d.id
          <5>1. PICK k \in 1 .. n : items[k].id = p
            BY <1>2, <1>4, <4>2
          <5>2. k \in 1 .. n + 1
            BY <1>1
          <5> QED
            BY <3>2, <5>1, <5>2
        <4> QED
          BY <4>1, <4>2
      <3> QED
        BY <3>2, <3>3, <3>6, <3>7, <3>8 DEF Listed, next
    <2> QED
      BY <2>2, <2>3
  <1>8. CASE d.type = "modified" /\ i # 0
    <2> DEFINE r == ReplaceAt(items, i, ItemOf(d))
    <2>1. ItemOf(d) \in Item /\ ItemOf(d).id = d.id /\ ItemOf(d).content = c
      BY <1>8 DEF ItemOf, Item
    <2>2. i \in 1 .. n /\ items[i].id = d.id
      BY <1>3, <1>8
    <2>3. /\ r \in Seq(Item) /\ Len(r) = n /\ r[i] = ItemOf(d)
          /\ \A k \in 1 .. n : k # i => r[k] = items[k]
      BY <1>1, <2>1, <2>2 DEF ReplaceAt, n
    <2>4. Apply(items, d, hidden) = r
      BY <1>5, <1>8
    <2> HIDE DEF r
    <2>5. \A k \in 1 .. n : r[k].id = items[k].id
      BY <2>1, <2>2, <2>3
    <2>6. \A k \in 1 .. n : next[r[k].id] = r[k].content
      BY <1>1, <1>2, <1>4, <2>1, <2>2, <2>3, <2>5
    <2>7. \A p \in Ids \ hidden : next[p] # None => docs0[p] # None
      BY <1>4, <1>8
    <2> QED
      BY <1>2, <2>3, <2>4, <2>5, <2>6, <2>7 DEF Listed, next
  <1>9. CASE d.type = "removed" /\ i # 0
    <2> DEFINE r == RemoveAt(items, i)
               at(k) == IF k < i THEN k ELSE k + 1
    <2>1. i \in 1 .. n /\ items[i].id = d.id
      BY <1>3, <1>9
    <2>2. /\ r \in Seq(Item) /\ Len(r) = n - 1
          /\ \A k \in 1 .. n - 1 : r[k] = IF k < i THEN items[k] ELSE items[k + 1]
      BY <1>1, <2>1, RemoveAtIs DEF n
    <2>3. Apply(items, d, hidden) = r
      BY <1>5, <1>9
    <2> HIDE DEF r
    <2>4. \A k \in 1 .. n - 1 : at(k) \in 1 .. n /\ at(k) # i /\ r[k] = items[at(k)]
      BY <1>1, <2>1, <2>2
    <2>5. \A k, l \in 1 .. n - 1 : at(k) = at(l) => k = l
      BY <1>1, <2>1
    <2>6. \A j \in 1 .. n : j # i => \E k \in 1 .. n - 1 : at(k) = j
      <3> SUFFICES ASSUME NEW j \in 1 .. n, j # i PROVE \E k \in 1 .. n - 1 : at(k) = j
        OBVIOUS
      <3>1. CASE j < i
        BY <1>1, <2>1, <3>1
      <3>2. CASE j > i
        <4>1. j - 1 \in 1 .. n - 1 /\ at(j - 1) = j
          BY <1>1, <2>1, <3>2
        <4> QED
          BY <4>1
      <3> QED
        BY <1>1, <2>1, <3>1, <3>2
    <2> HIDE DEF at
    <2>7. \A k, l \in 1 .. n - 1 : r[k].id = r[l].id => k = l
      BY <1>2, <2>4, <2>5
    <2>8. \A k \in 1 .. n - 1 : r[k].id \notin hidden /\ next[r[k].id] = r[k].content
      BY <1>1, <1>2, <1>4, <2>1, <2>4
    <2>9. \A p \in Ids \ hidden : next[p] # None => \E k \in 1 .. n - 1 : r[k].id = p
      <3> SUFFICES ASSUME NEW p \in Ids \ hidden, next[p] # None
                   PROVE  \E k \in 1 .. n - 1 : r[k].id = p
        OBVIOUS
      <3>1. p # d.id
        BY <1>4, <1>9
      <3>2. PICK j \in 1 .. n : items[j].id = p
        BY <1>2, <1>4, <3>1
      <3>3. j # i
        BY <2>1, <3>1, <3>2
      <3> QED
        BY <2>4, <2>6, <3>2, <3>3
    <2> QED
      BY <2>2, <2>3, <2>7, <2>8, <2>9 DEF Listed, next
  <1>10. CASE d.type # "added" /\ i = 0
    BY <1>5, <1>6, <1>10 DEF next
  <1> QED
    BY <1>7, <1>8, <1>9, <1>10

(* As long as nothing is removed the items stay in their places.           *)
LEMMA ApplyKeeps ==
  ASSUME NEW items \in Seq(Item), NEW d, ItemOf(d) \in Item, d.type # "removed", NEW hidden
  PROVE  /\ Len(Apply(items, d, hidden)) >= Len(items)
         /\ \A k \in 1 .. Len(items) : Apply(items, d, hidden)[k].id = items[k].id
  <1> DEFINE i == IndexOf(items, d.id)
  <1>1. Len(items) \in Nat
    BY SeqFacts
  <1>2. \/ i = 0
        \/ i # 0 /\ i \in 1 .. Len(items) /\ items[i].id = d.id
    BY IndexIs
  <1>3. ItemOf(d).id = d.id
    BY DEF ItemOf
  <1> HIDE DEF i
  <1>4. CASE d.type = "added" /\ i = 0 /\ d.id \notin hidden
    <2>1. Apply(items, d, hidden) = Append(items, ItemOf(d))
      BY <1>4 DEF Apply, i
    <2> QED
      BY <1>1, <2>1, AppendProperties
  <1>5. CASE d.type = "modified" /\ i # 0
    <2>1. Apply(items, d, hidden) = [items EXCEPT ![i] = ItemOf(d)]
      BY <1>5 DEF Apply, i, ReplaceAt
    <2> QED
      BY <1>1, <1>2, <1>3, <1>5, <2>1
  <1>6. CASE ~ (d.type = "added" /\ i = 0 /\ d.id \notin hidden) /\ ~ (d.type = "modified" /\ i # 0)
    <2>1. Apply(items, d, hidden) = items
      BY <1>6 DEF Apply, i
    <2> QED
      BY <1>1, <2>1
  <1> QED
    BY <1>4, <1>5, <1>6

-----------------------------------------------------------------------------
(* All changes of a report.                                                *)

(* The array that an order of the changes ends with.                       *)
Folded(items, order, hidden) == FoldLeft(LAMBDA a, d : Apply(a, d, hidden), items, order)

(* A change leaves an array of items.                                      *)
LEMMA ApplyItems ==
  ASSUME NEW items \in Seq(Item), NEW d, d.type = "removed" \/ ItemOf(d) \in Item, NEW hidden
  PROVE  Apply(items, d, hidden) \in Seq(Item)
  <1> DEFINE i == IndexOf(items, d.id)
  <1>1. i = 0 \/ i \in 1 .. Len(items)
    BY IndexIs
  <1>2. i # 0 => RemoveAt(items, i) \in Seq(Item)
    BY <1>1, RemoveAtIs
  <1>3. i # 0 /\ d.type # "removed" => ReplaceAt(items, i, ItemOf(d)) \in Seq(Item)
    BY <1>1 DEF ReplaceAt
  <1> HIDE DEF i
  <1>4. d.type # "removed" => Append(items, ItemOf(d)) \in Seq(Item)
    BY AppendProperties
  <1> QED
    BY <1>2, <1>3, <1>4 DEF Apply, i

(* The arrays that one change after the other leaves.                      *)
IsTrace(g, items, order, hidden) ==
  /\ g[0] = items
  /\ \A i \in 1 .. Len(order) : g[i] = Apply(g[i - 1], order[i], hidden)
  /\ g[Len(order)] = Folded(items, order, hidden)

(* The fold of `Results', step by step.                                    *)
LEMMA ApplyTrace ==
  ASSUME NEW items \in Seq(Item), NEW order, Len(order) \in Nat, DOMAIN order = 1 .. Len(order),
         \A i \in 1 .. Len(order) : order[i].type = "removed" \/ ItemOf(order[i]) \in Item,
         NEW hidden
  PROVE  \E g : IsTrace(g, items, order, hidden)
  <1> DEFINE n == Len(order)
             Table(it) == it = [s \in SUBSET (1 .. n) |->
                             IF s = {} THEN items
                             ELSE Apply(it[s \ {Max(s)}], order[Max(s)], hidden)]
             chosen == CHOOSE it : Table(it)
             A == Seq(Item)
             step == [p \in (1 .. n) \X A |-> Apply(p[2], order[p[1]], hidden)]
  <1>1. n \in Nat /\ DOMAIN order = 1 .. n /\ items \in A
    OBVIOUS
  <1>2. Folded(items, order, hidden) = chosen[1 .. n]
    BY <1>1 DEF Folded, FoldLeft, MapThenFoldSet
  <1> HIDE DEF n
  <1>3. step \in [(1 .. n) \X A -> A]
    <2>1. \A i \in 1 .. n, a \in A : Apply(a, order[i], hidden) \in A
      BY ApplyItems DEF n
    <2> HIDE DEF A
    <2> QED
      BY <2>1
  <1>4. \A i \in 1 .. n, a \in A : step[<<i, a>>] = Apply(a, order[i], hidden)
    OBVIOUS
  <1> HIDE DEF A, step
  <1>5. PICK it : IsTable(it, n, A, items, step)
    BY <1>1, <1>3, FoldTable
  <1>6. Table(it)
    <2>1. /\ it \in [SUBSET (1 .. n) -> A]
          /\ \A s \in SUBSET (1 .. n) :
               it[s] = IF s = {} THEN items ELSE step[<<Max(s), it[s \ {Max(s)}]>>]
      BY <1>5 DEF IsTable
    <2>2. \A s \in SUBSET (1 .. n) :
            s # {} => Max(s) \in 1 .. n /\ it[s \ {Max(s)}] \in A
      BY <1>1, <2>1, MaxOfPlaces
    <2> QED
      BY <1>4, <2>1, <2>2
  <1>7. Table(chosen)
    <2> HIDE DEF Table
    <2> QED
      BY <1>6
  <1> HIDE DEF chosen
  <1>8. Follows(chosen, n, A, items, step)
    <2>1. chosen[{}] = items
      BY <1>7
    <2>2. ASSUME NEW s \in SUBSET (1 .. n), s # {}, chosen[s \ {Max(s)}] \in A
          PROVE  chosen[s] = step[<<Max(s), chosen[s \ {Max(s)}]>>]
      <3>1. Max(s) \in 1 .. n
        BY <1>1, <2>2, MaxOfPlaces
      <3> QED
        BY <1>4, <1>7, <2>2, <3>1
    <2> QED
      BY <2>1, <2>2 DEF Follows
  <1>9. PICK g : IsRun(g, chosen, n, A, items, step)
    BY <1>1, <1>3, <1>8, FoldRun
  <1>10. /\ g \in [0 .. n -> A] /\ g[0] = items /\ g[n] = chosen[1 .. n]
         /\ \A i \in 1 .. n : g[i] = step[<<i, g[i - 1]>>]
    BY <1>9 DEF IsRun
  <1>11. \A i \in 1 .. n : i - 1 \in 0 .. n
    BY <1>1
  <1>12. \A i \in 1 .. n : g[i] = Apply(g[i - 1], order[i], hidden)
    BY <1>4, <1>10, <1>11
  <1> QED
    BY <1>2, <1>10, <1>12 DEF n, IsTrace

(* The documents when the first i changes of an order have been applied.   *)
DocsAfter(old, new, order, i) ==
  [p \in Ids |-> IF \E j \in 1 .. i : order[j].id = p THEN new[p] ELSE old[p]]

LEMMA AfterAre ==
  ASSUME NEW old \in Documents, NEW new \in Documents, NEW order \in SetToSeqs(Diffs(old, new)),
         NEW i \in 1 .. Len(order)
  PROVE  /\ DocsAfter(old, new, order, i - 1) \in Documents
         /\ order[i].id \in Ids
         /\ DocsAfter(old, new, order, i - 1)[order[i].id] = old[order[i].id]
         /\ DocsAfter(old, new, order, i) = [DocsAfter(old, new, order, i - 1) EXCEPT ![order[i].id] = new[order[i].id]]
  <1> DEFINE D == Diffs(old, new)
             id == order[i].id
             before == DocsAfter(old, new, order, i - 1)
             after == DocsAfter(old, new, order, i)
  <1>1. /\ IsFiniteSet(D) /\ \A d \in D : d.id \in Ids
        /\ \A d, e \in D : d.id = e.id => d = e
    BY DiffsAre
  <1>2. /\ order \in Seq(D) /\ Len(order) \in Nat
        /\ \A j, k \in 1 .. Len(order) : order[j] = order[k] => j = k
    BY <1>1, OrderCovers
  <1> HIDE DEF D
  <1>3. i \in Nat /\ i - 1 \in Nat /\ \A j \in 1 .. i : j \in 1 .. Len(order) /\ (j = i \/ j \in 1 .. i - 1)
    BY <1>2
  <1>4. \A j \in 1 .. i - 1 : j \in 1 .. i /\ j # i
    BY <1>3
  <1>5. \A j \in 1 .. i : order[j] \in D
    BY <1>2, <1>3, SeqFacts
  <1>6. i \in 1 .. i
    BY <1>3
  <1>7. id \in Ids
    BY <1>1, <1>5, <1>6
  <1>8. \A j \in 1 .. i - 1 : order[j].id # id
    BY <1>1, <1>2, <1>3, <1>4, <1>5, <1>6
  <1>9. before \in Documents
    BY DEF DocsAfter, Documents
  <1>10. before[id] = old[id]
    BY <1>7, <1>8 DEF DocsAfter
  <1>11. \A p \in Ids : after[p] = IF p = id THEN new[p] ELSE before[p]
    BY <1>3, <1>4, <1>6 DEF DocsAfter
  <1>12. after = [before EXCEPT ![id] = new[id]]
    <2> DEFINE changed == [before EXCEPT ![id] = new[id]]
    <2>1. after = [p \in Ids |-> after[p]] /\ DOMAIN before = Ids
      BY DEF DocsAfter
    <2> HIDE DEF after, before, id
    <2>2. changed = [p \in Ids |-> changed[p]] /\ \A p \in Ids : changed[p] = after[p]
      BY <1>7, <1>11, <2>1
    <2> QED
      BY <2>1, <2>2
  <1> QED
    BY <1>7, <1>9, <1>10, <1>12

(* Whatever the order of the changes, a report lists the documents as they *)
(* are; if none has gone, those that were listed keep their places.        *)
IsReport(items, old, new, hidden, r) ==
  /\ Listed(r, new, hidden)
  /\ (\A p \in Ids : old[p] # None => new[p] # None)
       => /\ Len(r) >= Len(items)
          /\ \A k \in 1 .. Len(items) : r[k].id = items[k].id

LEMMA ReportLists ==
  ASSUME NEW items, NEW old \in Documents, NEW new \in Documents, NEW hidden,
         Listed(items, old, hidden), NEW r \in Results(items, old, new, hidden)
  PROVE  IsReport(items, old, new, hidden, r)
  <1> DEFINE D == Diffs(old, new)
             stay == \A p \in Ids : old[p] # None => new[p] # None
  <1>1. PICK order \in SetToSeqs(D) :
          r = Folded(items, order, hidden)
    BY DEF Results, Folded
  <1>2. /\ IsFiniteSet(D)
        /\ \A d \in D :
              /\ d.id \in Ids /\ old[d.id] # new[d.id]
              /\ \/ d.type = "added" /\ old[d.id] = None /\ d.content = new[d.id]
                 \/ d.type = "modified" /\ None \notin {old[d.id], new[d.id]} /\ d.content = new[d.id]
                 \/ d.type = "removed" /\ new[d.id] = None
        /\ \A p \in Ids : old[p] # new[p] => \E d \in D : d.id = p
    BY DiffsAre
  <1>3. /\ order \in Seq(D) /\ Len(order) \in Nat /\ DOMAIN order = 1 .. Len(order)
        /\ \A i \in 1 .. Len(order) : order[i] \in D
        /\ \A x \in D : \E i \in 1 .. Len(order) : order[i] = x
    BY <1>2, OrderCovers, SeqFacts
  <1> DEFINE n == Len(order)
             docs0(i) == DocsAfter(old, new, order, i)
  <1>4. \A i \in 1 .. n : /\ docs0(i - 1) \in Documents
                          /\ docs0(i - 1)[order[i].id] = old[order[i].id]
                          /\ docs0(i) = [docs0(i - 1) EXCEPT ![order[i].id] = new[order[i].id]]
    BY AfterAre
  <1>5. docs0(0) = old
    BY DEF DocsAfter, Documents
  <1>6. docs0(n) = new
    <2>1. \A p \in Ids : ~ (\E j \in 1 .. n : order[j].id = p) => new[p] = old[p]
      BY <1>2, <1>3
    <2> QED
      BY <2>1 DEF DocsAfter, Documents
  <1>7. \A i \in 1 .. n : order[i].type = "removed" \/ ItemOf(order[i]) \in Item
    <2>1. \A d \in D : d.type = "removed" \/ ItemOf(d) \in Item
      BY <1>2 DEF ItemOf, Item, Documents
    <2> HIDE DEF D
    <2> QED
      BY <1>3, <2>1
  <1>8. items \in Seq(Item)
    BY DEF Listed
  <1>p. PICK g : IsTrace(g, items, order, hidden)
    BY <1>3, <1>7, <1>8, ApplyTrace
  <1>9. /\ g[0] = items
        /\ \A i \in 1 .. n : g[i] = Apply(g[i - 1], order[i], hidden)
        /\ g[n] = Folded(items, order, hidden)
    BY <1>p DEF IsTrace
  <1> DEFINE Kept(a) == /\ Len(a) >= Len(items)
                        /\ \A k \in 1 .. Len(items) : a[k].id = items[k].id
             T == {i \in 0 .. n : Listed(g[i], docs0(i), hidden) /\ (stay => Kept(g[i]))}
  <1> HIDE DEF docs0, D
  <1>10. 0 \in T
    <2>1. Kept(items)
      BY <1>8, SeqFacts
    <2>2. Kept(g[0]) /\ Listed(g[0], docs0(0), hidden) /\ 0 \in 0 .. n
      BY <1>3, <1>5, <1>9, <2>1
    <2> HIDE DEF Kept, stay
    <2> QED
      BY <2>2
  <1>11. ASSUME NEW i \in 0 .. n, i < n, i \in T PROVE i + 1 \in T
    <2>1. i + 1 \in 1 .. n /\ i + 1 \in 0 .. n /\ (i + 1) - 1 = i
      BY <1>3, <1>11
    <2> DEFINE d == order[i + 1]
    <2>0. order[i + 1] \in D
      BY <1>3, <2>1
    <2>2. /\ d \in D /\ docs0(i) \in Documents /\ docs0(i)[d.id] = old[d.id]
          /\ docs0(i + 1) = [docs0(i) EXCEPT ![d.id] = new[d.id]]
      BY <1>4, <2>0, <2>1
    <2>3. g[i + 1] = Apply(g[i], d, hidden)
      BY <1>9, <2>1
    <2>4. Listed(g[i], docs0(i), hidden) /\ (stay => Kept(g[i]))
      BY <1>11
    <2> HIDE DEF d
    <2>5. /\ d.id \in Ids /\ new[d.id] \in Contents \cup {None}
          /\ \/ d.type = "added" /\ docs0(i)[d.id] = None /\ new[d.id] # None /\ d.content = new[d.id]
             \/ d.type = "modified" /\ docs0(i)[d.id] # None /\ new[d.id] # None /\ d.content = new[d.id]
             \/ d.type = "removed" /\ docs0(i)[d.id] # None /\ new[d.id] = None
      BY <1>2, <2>2 DEF Documents
    <2>6. Listed(g[i + 1], docs0(i + 1), hidden)
      BY <2>2, <2>3, <2>4, <2>5, ApplyLists
    <2>7. ASSUME stay PROVE Kept(g[i + 1])
      <3>1. d.type # "removed"
        BY <2>2, <2>5, <2>7
      <3>2. ItemOf(d) \in Item /\ g[i] \in Seq(Item)
        BY <2>4, <2>5, <3>1 DEF ItemOf, Item, Listed
      <3>3. /\ Len(g[i + 1]) >= Len(g[i])
            /\ \A k \in 1 .. Len(g[i]) : g[i + 1][k].id = g[i][k].id
        BY <2>3, <3>1, <3>2, ApplyKeeps
      <3>4. Len(g[i]) \in Nat /\ Len(items) \in Nat /\ Len(g[i + 1]) \in Nat
        BY <1>8, <2>6, <3>2, SeqFacts DEF Listed
      <3>5. Kept(g[i])
        BY <2>4, <2>7
      <3>6. Len(g[i + 1]) >= Len(items)
        BY <3>3, <3>4, <3>5
      <3>7. \A k \in 1 .. Len(items) : k \in 1 .. Len(g[i]) /\ g[i + 1][k].id = items[k].id
        BY <3>3, <3>4, <3>5
      <3> QED
        BY <3>6, <3>7
    <2> HIDE DEF Kept, stay
    <2> QED
      BY <2>1, <2>6, <2>7
  <1>12. n \in T
    <2> HIDE DEF T
    <2>1. 0 .. n \subseteq T
      BY <1>3, <1>10, <1>11, UpTo
    <2> QED
      BY <1>3, <2>1
  <1> QED
    BY <1>1, <1>6, <1>9, <1>12 DEF IsReport

-----------------------------------------------------------------------------
(* The rows of the lists.                                                  *)

(* The fold of `Without', step by step.                                    *)
LeavesOut(g, friends, left) ==
  /\ g[0] = <<>> /\ g[Len(friends)] = Without(friends, left)
  /\ \A i \in 0 .. Len(friends) : g[i] \in Seq(Ids)
  /\ \A i \in 1 .. Len(friends) :
       g[i] = IF friends[i] \in left THEN g[i - 1] ELSE Append(g[i - 1], friends[i])

LEMMA WithoutTrace ==
  ASSUME NEW friends \in Seq(Ids), NEW left
  PROVE  \E g : LeavesOut(g, friends, left)
  <1> DEFINE n == Len(friends)
             next(kept, f) == IF f \in left THEN kept ELSE Append(kept, f)
             Table(it) == it = [s \in SUBSET (1 .. n) |->
                             IF s = {} THEN <<>> ELSE next(it[s \ {Max(s)}], friends[Max(s)])]
             chosen == CHOOSE it : Table(it)
             A == Seq(Ids)
             step == [p \in (1 .. n) \X A |-> next(p[2], friends[p[1]])]
  <1>1. /\ n \in Nat /\ DOMAIN friends = 1 .. n /\ <<>> \in A
        /\ \A i \in 1 .. n : friends[i] \in Ids
    BY SeqFacts
  <1>2. Without(friends, left) = chosen[1 .. n]
    BY <1>1 DEF Without, FoldLeft, MapThenFoldSet
  <1> HIDE DEF n
  <1>3. step \in [(1 .. n) \X A -> A]
    <2>1. \A i \in 1 .. n, a \in A : next(a, friends[i]) \in A
      BY <1>1, AppendProperties
    <2> HIDE DEF A, next
    <2> QED
      BY <2>1
  <1>4. \A i \in 1 .. n, a \in A : step[<<i, a>>] = next(a, friends[i])
    OBVIOUS
  <1> HIDE DEF A, next, step
  <1>5. PICK it : IsTable(it, n, A, <<>>, step)
    BY <1>1, <1>3, FoldTable
  <1>6. Table(it)
    <2>1. /\ it \in [SUBSET (1 .. n) -> A]
          /\ \A s \in SUBSET (1 .. n) :
               it[s] = IF s = {} THEN <<>> ELSE step[<<Max(s), it[s \ {Max(s)}]>>]
      BY <1>5 DEF IsTable
    <2>2. \A s \in SUBSET (1 .. n) :
            s # {} => Max(s) \in 1 .. n /\ it[s \ {Max(s)}] \in A
      BY <1>1, <2>1, MaxOfPlaces
    <2> QED
      BY <1>4, <2>1, <2>2
  <1>7. Table(chosen)
    <2> HIDE DEF Table
    <2> QED
      BY <1>6
  <1> HIDE DEF chosen
  <1>8. Follows(chosen, n, A, <<>>, step)
    <2>1. chosen[{}] = <<>>
      BY <1>7
    <2>2. ASSUME NEW s \in SUBSET (1 .. n), s # {}, chosen[s \ {Max(s)}] \in A
          PROVE  chosen[s] = step[<<Max(s), chosen[s \ {Max(s)}]>>]
      <3>1. Max(s) \in 1 .. n
        BY <1>1, <2>2, MaxOfPlaces
      <3> QED
        BY <1>4, <1>7, <2>2, <3>1
    <2> QED
      BY <2>1, <2>2 DEF Follows
  <1>9. PICK g : IsRun(g, chosen, n, A, <<>>, step)
    BY <1>1, <1>3, <1>8, FoldRun
  <1>10. /\ g \in [0 .. n -> A] /\ g[0] = <<>> /\ g[n] = chosen[1 .. n]
         /\ \A i \in 1 .. n : g[i] = step[<<i, g[i - 1]>>]
    BY <1>9 DEF IsRun
  <1>11. \A i \in 1 .. n : i - 1 \in 0 .. n
    BY <1>1
  <1>12. \A i \in 1 .. n : g[i] = next(g[i - 1], friends[i])
    BY <1>4, <1>10, <1>11
  <1>13. LeavesOut(g, friends, left)
    BY <1>2, <1>10, <1>12 DEF LeavesOut, n, A, next
  <1> QED
    BY <1>13

(* Those that are not left out are kept, and nobody else, each once.       *)
LEMMA WithoutIs ==
  ASSUME NEW friends \in Seq(Ids), NEW left
  PROVE  /\ Without(friends, left) \in Seq(Ids)
         /\ ToSet(Without(friends, left)) = ToSet(friends) \ left
         /\ IsInjective(friends) => IsInjective(Without(friends, left))
  <1> DEFINE n == Len(friends)
  <1>1. n \in Nat /\ DOMAIN friends = 1 .. n
    BY SeqFacts
  <1>t. PICK g : LeavesOut(g, friends, left)
    BY WithoutTrace
  <1>2. /\ g[0] = <<>> /\ g[n] = Without(friends, left)
        /\ \A i \in 0 .. n : g[i] \in Seq(Ids)
        /\ \A i \in 1 .. n :
             g[i] = IF friends[i] \in left THEN g[i - 1] ELSE Append(g[i - 1], friends[i])
    BY <1>t DEF LeavesOut
  <1> DEFINE Kept(i) ==
               /\ \A k \in 1 .. Len(g[i]) :
                    g[i][k] \notin left /\ \E j \in 1 .. i : g[i][k] = friends[j]
               /\ \A j \in 1 .. i : friends[j] \notin left => \E k \in 1 .. Len(g[i]) : g[i][k] = friends[j]
               /\ IsInjective(friends)
                    => \A k, l \in 1 .. Len(g[i]) : g[i][k] = g[i][l] => k = l
             T == {i \in 0 .. n : Kept(i)}
  <1>3. 0 \in T
    BY <1>1, <1>2
  <1>4. ASSUME NEW i \in 0 .. n, i < n, i \in T PROVE i + 1 \in T
    <2> DEFINE b == g[i]
               a == g[i + 1]
               f == friends[i + 1]
               m == Len(b)
    <2>1. i + 1 \in 1 .. n /\ i + 1 \in 0 .. n /\ (i + 1) - 1 = i
      BY <1>1, <1>4
    <2>2. /\ a = IF f \in left THEN b ELSE Append(b, f)
          /\ b \in Seq(Ids) /\ m \in Nat /\ f \in Ids
      BY <1>2, <2>1, SeqFacts
    <2>3. /\ \A k \in 1 .. m : b[k] \notin left /\ \E j \in 1 .. i : b[k] = friends[j]
          /\ \A j \in 1 .. i : friends[j] \notin left => \E k \in 1 .. m : b[k] = friends[j]
          /\ IsInjective(friends) => \A k, l \in 1 .. m : b[k] = b[l] => k = l
      BY <1>4
    <2>4. /\ \A j \in 1 .. i : j \in 1 .. i + 1 /\ j \in 1 .. n /\ j # i + 1
          /\ \A j \in 1 .. i + 1 : j = i + 1 \/ j \in 1 .. i
      BY <1>1, <2>1
    <2> HIDE DEF a, b, f, m
    <2>5. CASE f \in left
      <3>1. a = b
        BY <2>2, <2>5
      <3>2. \A k \in 1 .. m : b[k] \notin left /\ \E j \in 1 .. i + 1 : b[k] = friends[j]
        BY <2>3, <2>4
      <3>3. \A j \in 1 .. i + 1 : friends[j] \notin left => \E k \in 1 .. m : b[k] = friends[j]
        BY <2>3, <2>4, <2>5 DEF f
      <3>4. /\ Len(a) = m
            /\ \A k \in 1 .. m : a[k] \notin left /\ \E j \in 1 .. i + 1 : a[k] = friends[j]
            /\ \A j \in 1 .. i + 1 : friends[j] \notin left => \E k \in 1 .. m : a[k] = friends[j]
            /\ IsInjective(friends) => \A k, l \in 1 .. m : a[k] = a[l] => k = l
        BY ONLY <2>3, <3>1, <3>2, <3>3 DEF m
      <3> QED
        BY ONLY <2>1, <3>4 DEF a
    <2>6. CASE f \notin left
      <3>1. /\ a = Append(b, f) /\ Len(a) = m + 1 /\ a[m + 1] = f
            /\ \A k \in 1 .. m : a[k] = b[k]
        BY <2>2, <2>6, AppendProperties DEF m
      <3>2. \A k \in 1 .. m + 1 : k = m + 1 \/ k \in 1 .. m
        BY <2>2
      <3>3. m + 1 \in 1 .. m + 1 /\ \A k \in 1 .. m : k \in 1 .. m + 1
        BY <2>2
      <3>4. \A k \in 1 .. m + 1 : a[k] \notin left /\ \E j \in 1 .. i + 1 : a[k] = friends[j]
        <4> SUFFICES ASSUME NEW k \in 1 .. m + 1
                     PROVE  a[k] \notin left /\ \E j \in 1 .. i + 1 : a[k] = friends[j]
          OBVIOUS
        <4>1. CASE k = m + 1
          <5>1. i + 1 \in 1 .. i + 1
            BY <1>4, <2>1
          <5> QED
            BY <2>6, <3>1, <4>1, <5>1 DEF f
        <4>2. CASE k \in 1 .. m
          BY <2>3, <2>4, <3>1, <4>2
        <4> QED
          BY <3>2, <4>1, <4>2
      <3>5. \A j \in 1 .. i + 1 : friends[j] \notin left => \E k \in 1 .. m + 1 : a[k] = friends[j]
        BY <2>3, <2>4, <3>1, <3>3 DEF f
      <3>6. ASSUME IsInjective(friends) PROVE \A k, l \in 1 .. m + 1 : a[k] = a[l] => k = l
        <4>1. \A j \in 1 .. i : friends[j] # f
          BY <1>1, <2>1, <2>4, <3>6 DEF IsInjective, f
        <4>2. \A k \in 1 .. m : b[k] # f
          BY <2>3, <4>1
        <4> QED
          BY <2>3, <3>1, <3>2, <3>6, <4>2
      <3> QED
        BY <2>1, <3>1, <3>4, <3>5, <3>6 DEF a
    <2> QED
      BY <2>5, <2>6
  <1>5. n \in T
    <2> HIDE DEF T
    <2>1. 0 .. n \subseteq T
      BY <1>1, <1>3, <1>4, UpTo
    <2> QED
      BY <1>1, <2>1
  <1> DEFINE w == g[n]
  <1>6. w \in Seq(Ids) /\ DOMAIN w = 1 .. Len(w)
    BY <1>1, <1>2, SeqFacts
  <1>7. /\ \A k \in 1 .. Len(w) : w[k] \notin left /\ \E j \in 1 .. n : w[k] = friends[j]
        /\ \A j \in 1 .. n : friends[j] \notin left => \E k \in 1 .. Len(w) : w[k] = friends[j]
        /\ IsInjective(friends) => \A k, l \in 1 .. Len(w) : w[k] = w[l] => k = l
    BY <1>5
  <1> HIDE DEF w
  <1>8. ToSet(w) = ToSet(friends) \ left
    <2>1. ASSUME NEW x \in ToSet(w) PROVE x \in ToSet(friends) \ left
      BY <1>1, <1>6, <1>7 DEF ToSet
    <2>2. ASSUME NEW x \in ToSet(friends), x \notin left PROVE x \in ToSet(w)
      <3>1. PICK j \in 1 .. n : x = friends[j]
        BY <1>1 DEF ToSet
      <3>2. PICK k \in 1 .. Len(w) : w[k] = friends[j]
        BY <1>7, <2>2, <3>1
      <3> QED
        BY <1>6, <3>1, <3>2 DEF ToSet
    <2> QED
      BY <2>1, <2>2
  <1>9. IsInjective(friends) => IsInjective(w)
    BY <1>6, <1>7 DEF IsInjective
  <1> QED
    BY <1>2, <1>6, <1>8, <1>9 DEF w

(* The identifiers of what is listed, each once.                           *)
LEMMA IdsAre ==
  ASSUME NEW items, NEW docs0, NEW hidden, Listed(items, docs0, hidden)
  PROVE  /\ IdsOf(items) \in Seq(Ids) /\ Len(IdsOf(items)) = Len(items)
         /\ \A i \in 1 .. Len(items) : IdsOf(items)[i] = items[i].id
         /\ IsInjective(IdsOf(items))
         /\ \A p : p \in ToSet(IdsOf(items)) <=> \E i \in 1 .. Len(items) : items[i].id = p
  <1> DEFINE n == Len(items)
  <1>1. n \in Nat /\ DOMAIN items = 1 .. n /\ \A i \in 1 .. n : items[i] \in Item
    BY SeqFacts DEF Listed
  <1>2. IdsOf(items) = [i \in 1 .. n |-> items[i].id] /\ \A i \in 1 .. n : items[i].id \in Ids
    BY <1>1 DEF IdsOf, Item
  <1> HIDE DEF n
  <1>3. IdsOf(items) \in Seq(Ids) /\ Len(IdsOf(items)) = n
    BY <1>1, <1>2
  <1>4. \A i, j \in 1 .. n : items[i].id = items[j].id => i = j
    BY DEF Listed, n
  <1>5. IsInjective(IdsOf(items))
    BY <1>2, <1>4 DEF IsInjective
  <1>6. \A p : p \in ToSet(IdsOf(items)) <=> \E i \in 1 .. n : items[i].id = p
    BY <1>2 DEF ToSet
  <1> QED
    BY <1>2, <1>3, <1>5, <1>6 DEF n

(* Two lists of different elements, each once, make one.                   *)
LEMMA ConcatInjective ==
  ASSUME NEW s \in Seq(Ids), NEW t \in Seq(Ids), IsInjective(s), IsInjective(t),
         ToSet(s) \cap ToSet(t) = {}
  PROVE  IsInjective(s \o t)
  <1> DEFINE m == Len(s)
             n == Len(t)
             u == s \o t
  <1>1. /\ m \in Nat /\ DOMAIN s = 1 .. m /\ n \in Nat /\ DOMAIN t = 1 .. n
        /\ u \in Seq(Ids) /\ Len(u) = m + n
        /\ \A i \in 1 .. m + n : u[i] = IF i <= m THEN s[i] ELSE t[i - m]
    BY ConcatProperties, SeqFacts
  <1>2. DOMAIN u = 1 .. m + n
    BY <1>1, SeqFacts
  <1> HIDE DEF m, n, u
  <1>3. \A i \in 1 .. m, j \in 1 .. n : s[i] # t[j]
    BY <1>1 DEF ToSet
  <1> SUFFICES ASSUME NEW i \in 1 .. m + n, NEW j \in 1 .. m + n, u[i] = u[j]
               PROVE  i = j
    BY <1>2 DEF IsInjective, u
  <1>4. /\ i <= m => i \in 1 .. m /\ u[i] = s[i]
        /\ ~ (i <= m) => i - m \in 1 .. n /\ u[i] = t[i - m]
    BY <1>1
  <1>5. /\ j <= m => j \in 1 .. m /\ u[j] = s[j]
        /\ ~ (j <= m) => j - m \in 1 .. n /\ u[j] = t[j - m]
    BY <1>1
  <1>6. CASE i <= m /\ j <= m
    BY <1>1, <1>4, <1>5, <1>6 DEF IsInjective
  <1>7. CASE ~ (i <= m) /\ ~ (j <= m)
    <2>1. i - m = j - m
      BY <1>1, <1>4, <1>5, <1>7 DEF IsInjective
    <2> QED
      BY <1>1, <2>1
  <1>8. CASE i <= m /\ ~ (j <= m)
    BY <1>3, <1>4, <1>5, <1>8
  <1>9. CASE ~ (i <= m) /\ j <= m
    BY <1>3, <1>4, <1>5, <1>9
  <1> QED
    BY <1>6, <1>7, <1>8, <1>9

(* The rows that `ReloadData' makes of two arrays.                         *)
LEMMA ReloadShows ==
  ASSUME NEW w, NEW dw, Listed(w, dw, {}), NEW a, NEW da, Listed(a, da, {}),
         NEW r, r = Without(IdsOf(w), ToSet(IdsOf(w)) \cap ToSet(IdsOf(a)))
  PROVE  /\ r \in Seq(Ids) /\ IdsOf(a) \in Seq(Ids)
         /\ ToSet(r) \cup ToSet(IdsOf(a)) = ToSet(IdsOf(w)) \cup ToSet(IdsOf(a))
         /\ IsInjective(r \o IdsOf(a))
  <1> DEFINE x == IdsOf(w)
             y == IdsOf(a)
             twice == ToSet(x) \cap ToSet(y)
  <1>1. x \in Seq(Ids) /\ IsInjective(x) /\ y \in Seq(Ids) /\ IsInjective(y)
    BY IdsAre
  <1> HIDE DEF x, y
  <1>2. r \in Seq(Ids) /\ ToSet(r) = ToSet(x) \ twice /\ IsInjective(r)
    <2> HIDE DEF twice
    <2>1. r = Without(x, twice)
      BY DEF x, y, twice
    <2>2. /\ Without(x, twice) \in Seq(Ids) /\ ToSet(Without(x, twice)) = ToSet(x) \ twice
          /\ IsInjective(Without(x, twice))
      BY <1>1, WithoutIs
    <2> QED
      BY <2>1, <2>2
  <1>3. ToSet(r) \cap ToSet(y) = {} /\ ToSet(r) \cup ToSet(y) = ToSet(x) \cup ToSet(y)
    BY <1>2
  <1>4. IsInjective(r \o y)
    BY <1>1, <1>2, <1>3, ConcatInjective
  <1> QED
    BY <1>1, <1>2, <1>3, <1>4 DEF x, y

-----------------------------------------------------------------------------
(* The lists of requests and chats.                                        *)

(* The strengthening of `ListsStand': the arrays are listed, without the   *)
(* counting of elements.                                                   *)
ListsInv ==
  /\ TypeOK /\ RowsFollow /\ UnwrapIsSafe
  /\ \A s \in Sections : Listed(list[s], seen[s], {})

LEMMA ListsInit == Init => ListsInv
  <1> SUFFICES ASSUME Init PROVE ListsInv
    OBVIOUS
  <1> USE DEF Init
  <1>1. First \in Contents /\ MaxChanges \in Nat
    BY ChatListsAssumption
  <1>2. /\ docs \in [Sections -> Documents] /\ seen \in [Sections -> Documents]
        /\ list \in [Sections -> Seq(Item)] /\ rows \in [Sections -> Seq(Ids)]
    BY <1>1 DEF Documents
  <1>3. top \in [kind : {"nothing", "card", "alert"}, of : Ids \cup {None}]
    BY DEF Nothing
  <1>4. TypeOK
    <2>1. reported \in [Sections -> BOOLEAN] /\ alive \in [Sections -> BOOLEAN]
      OBVIOUS
    <2>2. /\ tab \in {"people", "lists"} /\ loaded \in BOOLEAN /\ pushed \in BOOLEAN
          /\ crash \in {"no", "duplicate", "unwrap"}
      OBVIOUS
    <2>3. changes \in 0 .. MaxChanges
      BY <1>1
    <2> QED
      BY <1>2, <1>3, <2>1, <2>2, <2>3 DEF TypeOK
  <1>5. IdsOf(<<>>) = <<>> /\ <<>> \o <<>> = <<>> /\ IsInjective(<<>>)
    BY DEF IdsOf, IsInjective
  <1>6. RowsFollow
    BY <1>5 DEF RowsFollow, Sections
  <1>7. \A s \in Sections : Listed(list[s], seen[s], {})
    <2> SUFFICES ASSUME NEW s \in Sections PROVE Listed(<<>>, [f \in Ids |-> None], {})
      OBVIOUS
    <2> QED
      BY DEF Listed
  <1> QED
    BY <1>4, <1>6, <1>7 DEF ListsInv, UnwrapIsSafe

(* What the report of a section leaves of its array.                       *)
LEMMA ReportedLists ==
  ASSUME ListsInv, NEW s \in Sections, NEW chats \in Results(list[s], seen[s], docs[s], {})
  PROVE  /\ Listed(chats, docs[s], {}) /\ chats \in Seq(Item) /\ Len(chats) \in Nat
         /\ \A i \in 1 .. Len(chats) : chats[i].id \in Ids
         /\ (\A p \in Ids : seen[s][p] # None => docs[s][p] # None)
              => /\ Len(chats) >= Len(list[s])
                 /\ \A k \in 1 .. Len(list[s]) : chats[k].id = list[s][k].id
  <1>1. Listed(list[s], seen[s], {}) /\ seen[s] \in Documents /\ docs[s] \in Documents
    BY DEF ListsInv, TypeOK
  <1>r. IsReport(list[s], seen[s], docs[s], {}, chats)
    BY <1>1, ReportLists
  <1>2. /\ Listed(chats, docs[s], {})
        /\ (\A p \in Ids : seen[s][p] # None => docs[s][p] # None)
             => /\ Len(chats) >= Len(list[s])
                /\ \A k \in 1 .. Len(list[s]) : chats[k].id = list[s][k].id
    BY ONLY <1>r DEF IsReport
  <1>3. chats \in Seq(Item)
    BY <1>2 DEF Listed
  <1>4. Len(chats) \in Nat /\ \A i \in 1 .. Len(chats) : chats[i] \in Item
    BY <1>3, SeqFacts
  <1>5. \A i \in 1 .. Len(chats) : chats[i].id \in Ids
    BY <1>4 DEF Item
  <1> QED
    BY <1>2, <1>3, <1>4, <1>5

(* What the report of a section leaves of both.                            *)
LEMMA ReportsList ==
  ASSUME ListsInv, NEW s \in Sections, NEW chats \in Results(list[s], seen[s], docs[s], {}),
         Reports(s, chats)
  PROVE  /\ \A t \in Sections : Listed(list'[t], seen'[t], {})
         /\ list' \in [Sections -> Seq(Item)] /\ seen' \in [Sections -> Documents]
         /\ reported' \in [Sections -> BOOLEAN]
         /\ docs' = docs /\ alive' = alive /\ changes' = changes
         /\ tab' = tab /\ loaded' = loaded /\ pushed' = pushed /\ crash = "no"
         /\ list'[s] = chats /\ \A t \in Sections \ {s} : list'[t] = list[t]
  <1>1. /\ TypeOK /\ \A t \in Sections : Listed(list[t], seen[t], {})
    BY DEF ListsInv
  <1>2. Listed(chats, docs[s], {}) /\ chats \in Seq(Item)
    BY ReportedLists
  <1>3. /\ seen' = [seen EXCEPT ![s] = docs[s]] /\ list' = [list EXCEPT ![s] = chats]
        /\ reported' = [reported EXCEPT ![s] = TRUE]
        /\ docs' = docs /\ alive' = alive /\ changes' = changes
        /\ tab' = tab /\ loaded' = loaded /\ pushed' = pushed /\ crash = "no"
    BY DEF Reports, screen
  <1>4. /\ list' \in [Sections -> Seq(Item)] /\ seen' \in [Sections -> Documents]
        /\ reported' \in [Sections -> BOOLEAN]
    BY <1>1, <1>2, <1>3 DEF TypeOK
  <1>5. /\ list'[s] = chats /\ seen'[s] = docs[s]
        /\ \A t \in Sections \ {s} : list'[t] = list[t] /\ seen'[t] = seen[t]
    BY <1>1, <1>3 DEF TypeOK
  <1>6. \A t \in Sections : Listed(list'[t], seen'[t], {})
    BY <1>1, <1>2, <1>5
  <1> QED
    BY <1>3, <1>4, <1>5, <1>6

(* What reloading both sections leaves of the rows.                        *)
LEMMA ReloadsRows ==
  ASSUME ReloadData(list'["waiting"], list'["active"]), crash = "no",
         \A t \in Sections : Listed(list'[t], seen'[t], {})
  PROVE  /\ rows' \in [Sections -> Seq(Ids)] /\ crash' \in {"no", "duplicate"}
         /\ RowsFollow'
  <1> DEFINE w == list'["waiting"]
             a == list'["active"]
             r == Without(IdsOf(w), ToSet(IdsOf(w)) \cap ToSet(IdsOf(a)))
  <1>1. rows' = [waiting |-> r, active |-> IdsOf(a)] /\ crash' \in {"no", "duplicate"}
    BY DEF ReloadData
  <1>2. Listed(w, seen'["waiting"], {}) /\ Listed(a, seen'["active"], {})
    BY DEF Sections
  <1>3. /\ r \in Seq(Ids) /\ IdsOf(a) \in Seq(Ids)
        /\ ToSet(r) \cup ToSet(IdsOf(a)) = ToSet(IdsOf(w)) \cup ToSet(IdsOf(a))
        /\ IsInjective(r \o IdsOf(a))
    <2> HIDE DEF w, a
    <2> QED
      BY <1>2, ReloadShows
  <1> HIDE DEF r
  <1>4. rows'["waiting"] = r /\ rows'["active"] = IdsOf(a)
    BY <1>1
  <1>5. rows' \in [Sections -> Seq(Ids)]
    BY <1>1, <1>3 DEF Sections
  <1>6. RowsFollow'
    BY <1>3, <1>4 DEF RowsFollow
  <1> QED
    BY <1>1, <1>5, <1>6

(* Nothing is unwrapped that is not there.                                 *)
LEMMA PromptedIs ==
  ASSUME ListsInv, NEW chats \in Results(list["waiting"], seen["waiting"], docs["waiting"], {}),
         Prompts(chats)
  PROVE  chats # <<>> /\ Len(chats) \in 1 .. Len(chats) /\ Prompted(chats) \in Ids
  <1>1. "waiting" \in Sections /\ list["waiting"] \in Seq(Item)
    BY DEF Sections, ListsInv, TypeOK
  <1>2. Len(list["waiting"]) \in Nat /\ Len(list["waiting"]) # 0 /\ Len(list["waiting"]) <= Len(chats)
    BY <1>1, EmptySeq, SeqFacts DEF Prompts
  <1>3. Len(chats) \in Nat /\ \A i \in 1 .. Len(chats) : chats[i].id \in Ids
    BY <1>1, ReportedLists
  <1>4. Len(chats) \in 1 .. Len(chats) /\ Len(chats) # 0
    BY <1>2, <1>3
  <1> QED
    BY <1>3, <1>4 DEF Prompted, Last

LEMMA ListsNext == ListsInv /\ [Next]_vars => ListsInv'
  <1> SUFFICES ASSUME ListsInv, [Next]_vars PROVE ListsInv'
    OBVIOUS
  <1>0. /\ TypeOK /\ RowsFollow /\ UnwrapIsSafe
        /\ \A s \in Sections : Listed(list[s], seen[s], {})
    BY DEF ListsInv
  <1>1. ASSUME UNCHANGED <<seen, list, rows, crash>>, TypeOK'
        PROVE  ListsInv'
    <2>1. RowsFollow' /\ UnwrapIsSafe' /\ \A s \in Sections : Listed(list'[s], seen'[s], {})
      BY <1>0, <1>1 DEF RowsFollow, UnwrapIsSafe
    <2> QED
      BY <1>1, <2>1 DEF ListsInv
  <1>2. ASSUME NEW f \in Ids, Present(Card(f)) \/ Present(Alert)
        PROVE  top' \in [kind : {"nothing", "card", "alert"}, of : Ids \cup {None}]
    BY <1>0, <1>2 DEF Present, Card, Alert, TypeOK
  <1>3. ASSUME NEW s \in Sections, NEW f \in Ids, NEW c \in Contents \cup {None}, Change(s, f, c)
        PROVE  ListsInv'
    <2>1. UNCHANGED <<seen, reported, alive, list, rows, tab, loaded, pushed, top, crash>>
      BY <1>3 DEF Change, listener, screen
    <2>2. docs' \in [Sections -> Documents]
      BY <1>0, <1>3 DEF Change, TypeOK, Documents
    <2>3. changes' \in 0 .. MaxChanges
      BY <1>0, <1>3, ChatListsAssumption DEF Change, TypeOK
    <2>4. TypeOK'
      BY <1>0, <2>1, <2>2, <2>3 DEF TypeOK
    <2> QED
      BY <1>1, <2>1, <2>4
  <1>4. ASSUME ReportWaiting PROVE ListsInv'
    <2>1. PICK chats \in Results(list["waiting"], seen["waiting"], docs["waiting"], {}) :
            /\ Reports("waiting", chats)
            /\ IF Prompts(chats) /\ chats = <<>>
                 THEN crash' = "unwrap" /\ UNCHANGED <<rows, top>>
                 ELSE /\ IF Prompts(chats) THEN Present(Card(Prompted(chats))) ELSE UNCHANGED top
                      /\ ReloadData(chats, list["active"])
      BY <1>4 DEF ReportWaiting
    <2>2. /\ \A t \in Sections : Listed(list'[t], seen'[t], {})
          /\ list' \in [Sections -> Seq(Item)] /\ seen' \in [Sections -> Documents]
          /\ reported' \in [Sections -> BOOLEAN]
          /\ docs' = docs /\ alive' = alive /\ changes' = changes
          /\ tab' = tab /\ loaded' = loaded /\ pushed' = pushed /\ crash = "no"
          /\ list'["waiting"] = chats /\ list'["active"] = list["active"]
      BY <2>1, ReportsList DEF Sections
    <2>3. Prompts(chats) => chats # <<>> /\ Prompted(chats) \in Ids
      BY <2>1, PromptedIs
    <2>4. ReloadData(list'["waiting"], list'["active"])
      BY <2>1, <2>2, <2>3
    <2>5. rows' \in [Sections -> Seq(Ids)] /\ crash' \in {"no", "duplicate"} /\ RowsFollow'
      BY <2>2, <2>4, ReloadsRows
    <2>6. top' \in [kind : {"nothing", "card", "alert"}, of : Ids \cup {None}]
      <3>1. CASE Prompts(chats)
        BY <1>2, <2>1, <2>3, <3>1
      <3>2. CASE ~ Prompts(chats)
        BY <1>0, <2>1, <3>2 DEF TypeOK
      <3> QED
        BY <3>1, <3>2
    <2>7. TypeOK'
      BY <1>0, <2>2, <2>5, <2>6 DEF TypeOK
    <2> QED
      BY <2>2, <2>5, <2>7 DEF ListsInv, UnwrapIsSafe
  <1>5. ASSUME ReportActive PROVE ListsInv'
    <2>1. PICK chats \in Results(list["active"], seen["active"], docs["active"], {}) :
            /\ Reports("active", chats)
            /\ ReloadData(list["waiting"], chats)
            /\ UNCHANGED top
      BY <1>5 DEF ReportActive
    <2>2. /\ \A t \in Sections : Listed(list'[t], seen'[t], {})
          /\ list' \in [Sections -> Seq(Item)] /\ seen' \in [Sections -> Documents]
          /\ reported' \in [Sections -> BOOLEAN]
          /\ docs' = docs /\ alive' = alive /\ changes' = changes
          /\ tab' = tab /\ loaded' = loaded /\ pushed' = pushed /\ crash = "no"
          /\ list'["active"] = chats /\ list'["waiting"] = list["waiting"]
      BY <2>1, ReportsList DEF Sections
    <2>3. ReloadData(list'["waiting"], list'["active"])
      BY <2>1, <2>2
    <2>4. rows' \in [Sections -> Seq(Ids)] /\ crash' \in {"no", "duplicate"} /\ RowsFollow'
      BY <2>2, <2>3, ReloadsRows
    <2>5. TypeOK'
      BY <1>0, <2>1, <2>2, <2>4 DEF TypeOK
    <2> QED
      BY <2>2, <2>4, <2>5 DEF ListsInv, UnwrapIsSafe
  <1>6. ASSUME NEW s \in Sections, ListenerFails(s) PROVE ListsInv'
    <2>1. UNCHANGED <<docs, seen, reported, list, rows, tab, loaded, pushed, crash, changes>>
      BY <1>6 DEF ListenerFails, screen
    <2>2. alive' \in [Sections -> BOOLEAN]
      BY <1>0, <1>6 DEF ListenerFails, TypeOK
    <2>3. top' \in [kind : {"nothing", "card", "alert"}, of : Ids \cup {None}]
      BY <1>0, <1>6 DEF ListenerFails, Present, Alert, TypeOK
    <2>4. TypeOK'
      BY <1>0, <2>1, <2>2, <2>3 DEF TypeOK
    <2> QED
      BY <1>1, <2>1, <2>4
  <1>7. ASSUME NEW f \in Ids, RequestTapped(f) PROVE ListsInv'
    <2>1. UNCHANGED <<docs, seen, reported, alive, list, rows, tab, loaded, pushed, crash, changes>>
      BY <1>7 DEF RequestTapped, screen, listener
    <2>2. Present(Card(f))
      BY <1>7 DEF RequestTapped
    <2>3. top' \in [kind : {"nothing", "card", "alert"}, of : Ids \cup {None}]
      BY <1>2, <2>2
    <2>4. TypeOK'
      BY <1>0, <2>1, <2>3 DEF TypeOK
    <2> QED
      BY <1>1, <2>1, <2>4
  <1>8. ASSUME NEW f \in Ids, ChatTapped(f) PROVE ListsInv'
    <2>1. /\ UNCHANGED <<docs, seen, reported, alive, list, rows, tab, loaded, top, crash, changes>>
          /\ pushed' = TRUE
      BY <1>8 DEF ChatTapped, listener
    <2>2. TypeOK'
      BY <1>0, <2>1 DEF TypeOK
    <2> QED
      BY <1>1, <2>1, <2>2
  <1>9. ASSUME BackTapped PROVE ListsInv'
    <2>1. /\ UNCHANGED <<docs, seen, reported, alive, list, rows, tab, loaded, top, crash, changes>>
          /\ pushed' = FALSE
      BY <1>9 DEF BackTapped, listener
    <2>2. TypeOK'
      BY <1>0, <2>1 DEF TypeOK
    <2> QED
      BY <1>1, <2>1, <2>2
  <1>10. ASSUME NEW t \in {"people", "lists"}, TabSelected(t) PROVE ListsInv'
    <2>1. /\ UNCHANGED <<docs, seen, reported, alive, list, rows, pushed, top, crash, changes>>
          /\ tab' = t /\ loaded' \in BOOLEAN
      BY <1>0, <1>10 DEF TabSelected, listener, TypeOK
    <2>2. TypeOK'
      BY <1>0, <2>1 DEF TypeOK
    <2> QED
      BY <1>1, <2>1, <2>2
  <1>11. ASSUME Dismissed PROVE ListsInv'
    <2>1. /\ UNCHANGED <<docs, seen, reported, alive, list, rows, tab, loaded, pushed, crash, changes>>
          /\ top' = Nothing
      BY <1>11 DEF Dismissed, listener, screen
    <2>2. TypeOK'
      BY <1>0, <2>1 DEF TypeOK, Nothing
    <2> QED
      BY <1>1, <2>1, <2>2
  <1>12. ASSUME UNCHANGED vars PROVE ListsInv'
    <2>1. UNCHANGED <<docs, seen, reported, alive, list, rows, tab, loaded, pushed, top, crash, changes>>
      BY <1>12 DEF vars, listener, screen
    <2>2. TypeOK'
      BY <1>0, <2>1 DEF TypeOK
    <2> QED
      BY <1>1, <2>1, <2>2
  <1> QED
    BY <1>3, <1>4, <1>5, <1>6, <1>7, <1>8, <1>9, <1>10, <1>11, <1>12 DEF Next

LEMMA ListsInvariant == Spec => []ListsInv
  BY ListsInit, ListsNext, PTL DEF Spec

(* However reports and taps interleave: the arrays are what has been       *)
(* reported, the rows follow them, and chats.last! finds a request.        *)
THEOREM ListsAlwaysStand == Spec => []ListsStand
  <1>1. ListsInv => ListsStand
    <2> SUFFICES ASSUME ListsInv PROVE ListsStand
      OBVIOUS
    <2>1. ListsMirror
      BY ListedMirrors DEF ListsInv, ListsMirror
    <2> QED
      BY <2>1 DEF ListsInv, ListsStand
  <1> QED
    BY <1>1, ListsInvariant, PTL

(* A request that comes to those that are listed already is presented.     *)
LEMMA ArrivalStep ==
  ASSUME ListsInv, Next,
         ToSet(IdsOf(list["waiting"])) # {},
         ToSet(IdsOf(list["waiting"])) \subseteq ToSet(IdsOf(list'["waiting"])),
         ToSet(IdsOf(list["waiting"])) # ToSet(IdsOf(list'["waiting"])),
         Visible, top = Nothing
  PROVE  /\ top'.kind = "card"
         /\ top'.of \in ToSet(IdsOf(list'["waiting"])) \ ToSet(IdsOf(list["waiting"]))
  <1> DEFINE w == list["waiting"]
             old == ToSet(IdsOf(w))
             new == ToSet(IdsOf(list'["waiting"]))
  <1>1. w # list'["waiting"]
    OBVIOUS
  <1>2. ReportWaiting
    <2>1. \A chats : Reports("active", chats) => list'["waiting"] = list["waiting"]
      BY DEF Reports, ListsInv, TypeOK, Sections
    <2>2. ~ ReportActive
      BY <1>1, <2>1 DEF ReportActive
    <2>3. list' # list
      BY <1>1
    <2> QED
      BY <2>2, <2>3 DEF Next, Change, ListenerFails, RequestTapped, ChatTapped, BackTapped,
                        TabSelected, Dismissed
  <1>3. PICK chats \in Results(w, seen["waiting"], docs["waiting"], {}) :
          /\ Reports("waiting", chats)
          /\ IF Prompts(chats) /\ chats = <<>>
               THEN crash' = "unwrap" /\ UNCHANGED <<rows, top>>
               ELSE /\ IF Prompts(chats) THEN Present(Card(Prompted(chats))) ELSE UNCHANGED top
                    /\ ReloadData(chats, list["active"])
    BY <1>2 DEF ReportWaiting
  <1>4. "waiting" \in Sections
    BY DEF Sections
  <1>5. list'["waiting"] = chats
    BY <1>3, <1>4, ReportsList
  <1>6. /\ Listed(w, seen["waiting"], {}) /\ w \in Seq(Item) /\ Len(w) \in Nat
    BY <1>4, SeqFacts DEF ListsInv, Listed
  <1>7. /\ Listed(chats, docs["waiting"], {}) /\ Len(chats) \in Nat
        /\ (\A p \in Ids : seen["waiting"][p] # None => docs["waiting"][p] # None)
             => /\ Len(chats) >= Len(w)
                /\ \A k \in 1 .. Len(w) : chats[k].id = w[k].id
    BY <1>3, <1>4, ReportedLists
  <1>8. /\ \A p : p \in old <=> \E i \in 1 .. Len(w) : w[i].id = p
        /\ \A p : p \in new <=> \E i \in 1 .. Len(chats) : chats[i].id = p
    <2>1. \A p : p \in ToSet(IdsOf(w)) <=> \E i \in 1 .. Len(w) : w[i].id = p
      BY <1>6, IdsAre
    <2>2. \A p : p \in ToSet(IdsOf(chats)) <=> \E i \in 1 .. Len(chats) : chats[i].id = p
      BY <1>7, IdsAre
    <2> QED
      BY <1>5, <2>1, <2>2
  <1>9. ASSUME NEW p \in Ids, seen["waiting"][p] # None PROVE docs["waiting"][p] # None
    <2>1. PICK i \in 1 .. Len(w) : w[i].id = p
      BY <1>6, <1>9 DEF Listed
    <2>2. PICK j \in 1 .. Len(chats) : chats[j].id = p
      BY <1>8, <2>1
    <2>3. chats[j] \in Item /\ docs["waiting"][p] = chats[j].content
      BY <1>7, <2>2, SeqFacts DEF Listed
    <2> QED
      BY <2>3, ListenerAssumption DEF Item
  <1>10. Len(chats) >= Len(w) /\ \A k \in 1 .. Len(w) : chats[k].id = w[k].id
    BY <1>7, <1>9
  <1>11. Len(w) # 0
    BY <1>6, <1>8
  <1>12. Prompts(chats)
    BY <1>6, <1>7, <1>10, <1>11 DEF Prompts
  <1>13. chats # <<>> /\ Prompted(chats) \in Ids
    BY <1>3, <1>12, PromptedIs
  <1>14. top' = Card(Prompted(chats))
    BY <1>3, <1>12, <1>13 DEF Present
  <1>15. PICK k \in 1 .. Len(chats) : chats[k].id \notin old
    BY <1>8
  <1>16. Len(chats) > Len(w)
    BY <1>6, <1>7, <1>8, <1>10, <1>15
  <1>17. Len(chats) \in 1 .. Len(chats) /\ \A i \in 1 .. Len(w) : i \in 1 .. Len(chats) /\ i # Len(chats)
    BY <1>6, <1>7, <1>16
  <1>18. chats[Len(chats)].id \in new \ old
    <2>1. \A i, j \in 1 .. Len(chats) : chats[i].id = chats[j].id => i = j
      BY <1>7 DEF Listed
    <2>2. \A i \in 1 .. Len(w) : chats[Len(chats)].id # w[i].id
      BY <1>10, <1>17, <2>1
    <2> QED
      BY <1>8, <1>17, <2>2
  <1> QED
    BY <1>14, <1>18 DEF Card, Prompted, Last

(* When requests are listed already and a report adds some and removes     *)
(* none, the card of one of the new ones is shown on a screen that is free.*)
THEOREM ArrivalsAreAnnounced == Spec => ArrivalIsAnnounced
  <1>1. ListsInv /\ [Next]_vars =>
          [LET old == ToSet(IdsOf(list["waiting"]))
               new == ToSet(IdsOf(list'["waiting"]))
           IN  old # {} /\ old \subseteq new /\ old # new /\ Visible /\ top = Nothing
               => top'.kind = "card" /\ top'.of \in new \ old]_vars
    BY ArrivalStep
  <1> QED
    BY <1>1, ListsInvariant, PTL DEF Spec, ArrivalIsAnnounced

-----------------------------------------------------------------------------
(* The list of people, whose listener applies its reports in the same way. *)

CONSTANT Me
VARIABLES userDocs, userSeen, userReported, userAlive, users, userRows, typed, profile, written

People == INSTANCE PeopleList WITH
            docs <- userDocs, seen <- userSeen, reported <- userReported, alive <- userAlive,
            rows <- userRows, changes <- written

(* What the two lists have of `Listener' is the same.                      *)
PeopleFolded(items, order, hidden) ==
  People!FoldLeft(LAMBDA a, d : People!Apply(a, d, hidden), items, order)

LEMMA SameResults ==
  ASSUME NEW items, NEW old, NEW new, NEW hidden
  PROVE  People!Results(items, old, new, hidden) = Results(items, old, new, hidden)
  <1>1. \A S : People!SetToSeqs(S) = SetToSeqs(S)
    <2>1. \A S : People!Cardinality(S) = Cardinality(S)
      BY DEF Cardinality, People!Cardinality
    <2> QED
      BY <2>1 DEF SetToSeqs, People!SetToSeqs
  <1>2. People!Diffs(old, new) = Diffs(old, new)
    BY DEF Diffs, People!Diffs
  <1>3. \A order : PeopleFolded(items, order, hidden) = Folded(items, order, hidden)
    BY DEF PeopleFolded, Folded, FoldLeft, People!FoldLeft, MapThenFoldSet, People!MapThenFoldSet,
           Max, People!Max, Min, People!Min, Apply, People!Apply, IndexOf, People!IndexOf,
           SelectInSeq, People!SelectInSeq, ReplaceAt, People!ReplaceAt, RemoveAt, People!RemoveAt,
           ItemOf, People!ItemOf
  <1>4. Results(items, old, new, hidden)
          = {Folded(items, order, hidden) : order \in SetToSeqs(Diffs(old, new))}
    BY DEF Results, Folded
  <1>5. People!Results(items, old, new, hidden)
          = {PeopleFolded(items, order, hidden) : order \in People!SetToSeqs(People!Diffs(old, new))}
    BY DEF People!Results, PeopleFolded
  <1> QED
    BY <1>1, <1>2, <1>3, <1>4, <1>5

LEMMA SameMirrors ==
  ASSUME NEW items, NEW docs0, NEW hidden, Mirrors(items, docs0, hidden)
  PROVE  People!Mirrors(items, docs0, hidden)
  <1>1. \A S : People!Cardinality(S) = Cardinality(S)
    BY DEF Cardinality, People!Cardinality
  <1>2. People!ToSet(items) = ToSet(items)
    BY DEF ToSet, People!ToSet
  <1> QED
    BY <1>1, <1>2 DEF Mirrors, People!Mirrors

(* The strengthening of `PeopleStand'.                                     *)
PeopleInv ==
  /\ userDocs \in Documents /\ userSeen \in Documents
  /\ Listed(users, userSeen, {Me})
  /\ People!RowsFollow

LEMMA PeopleInit == People!Init => PeopleInv
  <1> SUFFICES ASSUME People!Init PROVE PeopleInv
    OBVIOUS
  <1>1. /\ userDocs \in [Ids -> {First, None}] /\ userSeen = [p \in Ids |-> None]
        /\ users = <<>> /\ userRows = <<>> /\ typed = Contents
    BY DEF People!Init
  <1>2. userDocs \in Documents /\ userSeen \in Documents
    BY <1>1, ChatListsAssumption DEF Documents
  <1>3. Listed(users, userSeen, {Me})
    BY <1>1 DEF Listed
  <1>4. People!RowsFollow
    <2>1. People!Filtered(<<>>, Contents) = <<>>
      <3> DEFINE Table(it) == it = [s \in SUBSET {} |->
                                IF s = {} THEN <<>>
                                ELSE IF <<>>[People!Max(s)].content \in Contents
                                       THEN Append(it[s \ {People!Max(s)}], <<>>[People!Max(s)].id)
                                       ELSE it[s \ {People!Max(s)}]]
                 chosen == CHOOSE it : Table(it)
      <3>1. DOMAIN <<>> = {} /\ SUBSET {} = {{}}
        OBVIOUS
      <3>2. People!Filtered(<<>>, Contents) = chosen[{}]
        BY <3>1 DEF People!Filtered, People!FoldLeft, People!MapThenFoldSet
      <3>3. Table([s \in SUBSET {} |-> <<>>])
        BY <3>1
      <3>4. Table(chosen)
        <4> HIDE DEF Table
        <4> QED
          BY <3>3
      <3> HIDE DEF chosen
      <3> QED
        BY <3>1, <3>2, <3>4
    <2> QED
      BY <1>1, <2>1 DEF People!RowsFollow
  <1> QED
    BY <1>2, <1>3, <1>4 DEF PeopleInv

LEMMA PeopleNext == PeopleInv /\ [People!Next]_(People!vars) => PeopleInv'
  <1> SUFFICES ASSUME PeopleInv, [People!Next]_(People!vars) PROVE PeopleInv'
    OBVIOUS
  <1>0. userDocs \in Documents /\ userSeen \in Documents /\ Listed(users, userSeen, {Me})
    BY DEF PeopleInv
  <1>1. ASSUME NEW p \in Ids, NEW c \in Contents, People!Change(p, c) PROVE PeopleInv'
    <2>1. /\ userDocs' = [userDocs EXCEPT ![p] = c]
          /\ UNCHANGED <<userSeen, users, userRows, typed>>
      BY <1>1 DEF People!Change, People!listener
    <2>2. userDocs' \in Documents
      BY <1>0, <2>1 DEF Documents
    <2> QED
      BY <2>1, <2>2 DEF PeopleInv, People!RowsFollow
  <1>2. ASSUME People!Report PROVE PeopleInv'
    <2>1. /\ userSeen' = userDocs /\ userDocs' = userDocs /\ typed' = typed
          /\ users' \in People!Results(users, userSeen, userDocs, {Me})
          /\ userRows' = People!Filtered(users', Contents)
      BY <1>2 DEF People!Report
    <2>2. users' \in Results(users, userSeen, userDocs, {Me})
      BY <2>1, SameResults
    <2>3. Listed(users', userDocs, {Me})
      BY <1>0, <2>2, ReportLists DEF IsReport
    <2> QED
      BY <1>0, <2>1, <2>3 DEF PeopleInv, People!RowsFollow
  <1>3. ASSUME NEW filter \in SUBSET Contents, People!TextChanged(filter) PROVE PeopleInv'
    <2>1. /\ typed' = filter /\ userRows' = People!Filtered(users, filter)
          /\ UNCHANGED <<userDocs, userSeen, users>>
      BY <1>3 DEF People!TextChanged, People!listener
    <2> QED
      BY <2>1 DEF PeopleInv, People!RowsFollow
  <1>4. ASSUME UNCHANGED <<userDocs, userSeen, users, userRows, typed>> PROVE PeopleInv'
    BY <1>4 DEF PeopleInv, People!RowsFollow
  <1>5. CASE People!ListenerFails
    BY <1>4, <1>5 DEF People!ListenerFails
  <1>6. ASSUME NEW p \in Ids, People!PersonTapped(p) PROVE PeopleInv'
    BY <1>4, <1>6 DEF People!PersonTapped, People!listener
  <1>7. CASE People!ProfileClosed
    BY <1>4, <1>7 DEF People!ProfileClosed, People!listener
  <1>8. CASE UNCHANGED People!vars
    BY <1>4, <1>8 DEF People!vars, People!listener
  <1> QED
    BY <1>1, <1>2, <1>3, <1>5, <1>6, <1>7, <1>8 DEF People!Next

(* Whatever comes between a report and a search: the array is what has     *)
(* been reported without oneself, and the rows are a filter of it.         *)
THEOREM PeopleAlwaysStand == People!Spec => []People!PeopleStand
  <1>1. PeopleInv => People!PeopleStand
    BY ListedMirrors, SameMirrors DEF PeopleInv, People!PeopleStand, People!UsersMirror
  <1> QED
    BY <1>1, PeopleInit, PeopleNext, PTL DEF People!Spec

-----------------------------------------------------------------------------
(* The screen of an open chat.                                             *)

CONSTANTS MaxMessages, MaxDate, MaxScreens
VARIABLES chatWritten, chatDocs, pending, opened, chatAlive, chatSeen, messages, downloads, failed

Chat == INSTANCE ChatScreen WITH
          written <- chatWritten, docs <- chatDocs, alive <- chatAlive, seen <- chatSeen

(* Messages in the order of their dates, each once.                        *)
Arranged(shown) ==
  /\ shown \in Seq(Chat!Message)
  /\ \A i, j \in 1 .. Len(shown) :
       /\ i < j => shown[i].date <= shown[j].date
       /\ shown[i].n = shown[j].n => i = j

LEMMA ArrangedFacts ==
  ASSUME NEW shown, Arranged(shown)
  PROVE  /\ shown \in Seq(Chat!Message) /\ Len(shown) \in Nat /\ DOMAIN shown = 1 .. Len(shown)
         /\ \A i \in 1 .. Len(shown) : shown[i] \in Chat!Message /\ shown[i].date \in Int
         /\ \A x : x \in ToSet(shown) <=> \E i \in 1 .. Len(shown) : shown[i] = x
  <1>1. /\ shown \in Seq(Chat!Message) /\ Len(shown) \in Nat /\ DOMAIN shown = 1 .. Len(shown)
        /\ \A i \in 1 .. Len(shown) : shown[i] \in Chat!Message
    BY SeqFacts DEF Arranged
  <1>2. \A m \in Chat!Message : m.date \in Int
    BY DEF Chat!Message
  <1>3. \A x : x \in ToSet(shown) <=> \E i \in 1 .. Len(shown) : shown[i] = x
    BY <1>1 DEF ToSet
  <1> QED
    BY <1>1, <1>2, <1>3

(* A message comes after those that are not later, and before the others.  *)
LEMMA PlaceIs ==
  ASSUME NEW shown, Arranged(shown), NEW m \in Chat!Message
  PROVE  /\ Chat!After(shown, m) \in 1 .. Len(shown) + 1
         /\ \A i \in 1 .. Len(shown) : i < Chat!After(shown, m) => shown[i].date <= m.date
         /\ \A i \in 1 .. Len(shown) : ~ (i < Chat!After(shown, m)) => m.date <= shown[i].date
  <1> DEFINE n == Len(shown)
             later == {i \in 1 .. n : shown[i].date > m.date} \cup {n + 1}
             k == Min(later)
  <1>1. n \in Nat /\ DOMAIN shown = 1 .. n /\ \A i \in 1 .. n : shown[i].date \in Int
    BY ArrangedFacts
  <1>2. m.date \in Int
    BY DEF Chat!Message
  <1>3. Chat!After(shown, m) = k
    BY <1>1 DEF Chat!After, Chat!Min, Min
  <1>4. \A i, j \in 1 .. n : i < j => shown[i].date <= shown[j].date
    BY DEF Arranged
  <1> HIDE DEF n
  <1>5. k \in later /\ \A y \in later : k <= y
    <2>1. later \in SUBSET Nat /\ later # {}
      BY <1>1
    <2> HIDE DEF later
    <2> QED
      BY <2>1, MinNat
  <1> HIDE DEF k
  <1>6. k \in 1 .. n + 1
    BY <1>1, <1>5
  <1>7. ASSUME NEW i \in 1 .. n, i < k PROVE shown[i].date <= m.date
    <2>1. i \notin later
      BY <1>1, <1>5, <1>6, <1>7
    <2> QED
      BY <1>1, <1>2, <2>1
  <1>8. ASSUME NEW i \in 1 .. n, ~ (i < k) PROVE m.date <= shown[i].date
    <2>1. k \in 1 .. n /\ shown[k].date > m.date
      BY <1>1, <1>5, <1>6, <1>8
    <2>2. CASE i = k
      BY <1>1, <1>2, <2>1, <2>2
    <2>3. CASE k < i
      <3>1. shown[k].date <= shown[i].date /\ shown[k].date \in Int /\ shown[i].date \in Int
        BY <1>1, <1>4, <2>1, <2>3
      <3> QED
        BY <1>2, <2>1, <3>1
    <2> QED
      BY <1>1, <1>6, <1>8, <2>2, <2>3
  <1> QED
    BY <1>3, <1>6, <1>7, <1>8 DEF n

(* insertNewMessage keeps the order, loses nothing and shows no message    *)
(* twice.                                                                  *)
LEMMA InsertArranges ==
  ASSUME NEW shown, Arranged(shown), NEW m \in Chat!Message
  PROVE  /\ Arranged(Chat!Insert(shown, m))
         /\ ToSet(shown) \subseteq ToSet(Chat!Insert(shown, m))
         /\ ToSet(Chat!Insert(shown, m)) \subseteq ToSet(shown) \cup {m}
         /\ \E x \in ToSet(Chat!Insert(shown, m)) : x.n = m.n
  <1> DEFINE n == Len(shown)
             k == Chat!After(shown, m)
             r == InsertAt(shown, k, m)
  <1>1. /\ shown \in Seq(Chat!Message) /\ n \in Nat /\ DOMAIN shown = 1 .. n
        /\ \A i \in 1 .. n : shown[i] \in Chat!Message /\ shown[i].date \in Int
        /\ \A x : x \in ToSet(shown) <=> \E i \in 1 .. n : shown[i] = x
    BY ArrangedFacts
  <1>2. m.date \in Int
    BY DEF Chat!Message
  <1>3. CASE \E i \in 1 .. n : shown[i].n = m.n
    <2>1. Chat!Insert(shown, m) = shown
      BY <1>1, <1>3 DEF Chat!Insert
    <2> QED
      BY <1>1, <1>3, <2>1
  <1>4. CASE ~ \E i \in 1 .. n : shown[i].n = m.n
    <2>1. Chat!Insert(shown, m) = r
      BY <1>1, <1>4 DEF Chat!Insert, Chat!InsertAt, InsertAt
    <2>2. /\ k \in 1 .. n + 1
          /\ \A i \in 1 .. n : i < k => shown[i].date <= m.date
          /\ \A i \in 1 .. n : ~ (i < k) => m.date <= shown[i].date
      BY PlaceIs
    <2>3. /\ \A i, j \in 1 .. n : i < j => shown[i].date <= shown[j].date
          /\ \A i, j \in 1 .. n : shown[i].n = shown[j].n => i = j
      BY DEF Arranged
    <2> HIDE DEF k
    <2>4. /\ r \in Seq(Chat!Message) /\ Len(r) = n + 1
          /\ \A i \in 1 .. n + 1 : r[i] = IF i < k THEN shown[i] ELSE IF i = k THEN m ELSE shown[i - 1]
      BY <1>1, <2>2, InsertAtIs
    <2> HIDE DEF r, n
    <2>5. \A i \in 1 .. n + 1 :
            /\ i < k => i \in 1 .. n /\ r[i] = shown[i]
            /\ i > k => i - 1 \in 1 .. n /\ ~ (i - 1 < k) /\ r[i] = shown[i - 1]
            /\ i = k => r[i] = m
      BY <1>1, <2>2, <2>4
    <2>6. ASSUME NEW i \in 1 .. n + 1, NEW j \in 1 .. n + 1, i < j
          PROVE  r[i].date <= r[j].date
      <3>1. CASE j < k
        BY <1>1, <2>2, <2>3, <2>5, <2>6, <3>1
      <3>2. CASE i > k
        <4>1. i - 1 < j - 1 /\ j > k
          BY <1>1, <2>2, <2>6, <3>2
        <4> QED
          BY <2>3, <2>5, <3>2, <4>1
      <3>3. CASE i = k
        <4>1. j > k
          BY <2>6, <3>3
        <4> QED
          BY <2>2, <2>5, <3>3, <4>1
      <3>4. CASE i < k /\ j = k
        BY <2>2, <2>5, <3>4
      <3>5. CASE i < k /\ j > k
        <4>1. r[i].date <= m.date /\ m.date <= r[j].date /\ r[i].date \in Int /\ r[j].date \in Int
          BY <1>1, <2>2, <2>5, <3>5
        <4> QED
          BY <1>2, <4>1
      <3> QED
        BY <1>1, <2>2, <2>6, <3>1, <3>2, <3>3, <3>4, <3>5
    <2>7. ASSUME NEW i \in 1 .. n + 1, NEW j \in 1 .. n + 1, r[i].n = r[j].n, i < j
          PROVE  FALSE
      <3>1. \A l \in 1 .. n : shown[l].n # m.n
        BY <1>4
      <3>2. CASE j < k
        BY <1>1, <2>2, <2>3, <2>5, <2>7, <3>2
      <3>3. CASE i > k
        <4>1. i - 1 # j - 1 /\ j > k
          BY <1>1, <2>2, <2>7, <3>3
        <4> QED
          BY <2>3, <2>5, <2>7, <3>3, <4>1
      <3>4. CASE i = k
        <4>1. j > k
          BY <2>7, <3>4
        <4> QED
          BY <2>5, <2>7, <3>1, <3>4, <4>1
      <3>5. CASE i < k /\ j = k
        BY <2>5, <2>7, <3>1, <3>5
      <3>6. CASE i < k /\ j > k
        <4>1. i # j - 1
          BY <1>1, <2>2, <3>6
        <4> QED
          BY <2>3, <2>5, <2>7, <3>6, <4>1
      <3> QED
        BY <1>1, <2>2, <2>7, <3>2, <3>3, <3>4, <3>5, <3>6
    <2>8. Arranged(r)
      <3>1. \A i, j \in 1 .. n + 1 : i = j \/ i < j \/ j < i
        BY <1>1
      <3> QED
        BY <2>4, <2>6, <2>7, <3>1 DEF Arranged
    <2>9. \A x : x \in ToSet(r) <=> \E i \in 1 .. n + 1 : r[i] = x
      BY <2>4, <2>8, ArrangedFacts
    <2>10. m \in ToSet(r)
      BY <2>2, <2>5, <2>9
    <2>11. ASSUME NEW x \in ToSet(shown) PROVE x \in ToSet(r)
      <3>1. PICK i \in 1 .. n : shown[i] = x
        BY <1>1
      <3>2. CASE i < k
        <4>1. i \in 1 .. n + 1
          BY <1>1
        <4> QED
          BY <2>5, <2>9, <3>1, <3>2, <4>1
      <3>3. CASE ~ (i < k)
        <4>1. i + 1 \in 1 .. n + 1 /\ i + 1 > k /\ (i + 1) - 1 = i
          BY <1>1, <2>2, <3>3
        <4> QED
          BY <2>5, <2>9, <3>1, <4>1
      <3> QED
        BY <3>2, <3>3
    <2>12. ASSUME NEW x \in ToSet(r) PROVE x \in ToSet(shown) \cup {m}
      <3>1. PICK i \in 1 .. n + 1 : r[i] = x
        BY <2>9
      <3>2. i < k \/ i = k \/ i > k
        BY <1>1, <2>2
      <3> QED
        BY <1>1, <2>5, <3>1, <3>2
    <2> QED
      BY <2>1, <2>8, <2>10, <2>11, <2>12
  <1> QED
    BY <1>3, <1>4

(* The fold of `Report', one message after the other.                      *)
Inserted(shown, order) == Chat!FoldLeft(Chat!Insert, shown, order)

LEMMA InsertedArranges ==
  ASSUME NEW shown, Arranged(shown), NEW texts \in SUBSET Chat!Message, IsFiniteSet(texts),
         NEW order \in SetToSeqs(texts)
  PROVE  /\ Arranged(Inserted(shown, order))
         /\ ToSet(shown) \subseteq ToSet(Inserted(shown, order))
         /\ ToSet(Inserted(shown, order)) \subseteq ToSet(shown) \cup texts
         /\ \A m \in texts : \E x \in ToSet(Inserted(shown, order)) : x.n = m.n
  <1> DEFINE n == Len(order)
             Table(it) == it = [s \in SUBSET (1 .. n) |->
                             IF s = {} THEN shown
                             ELSE Chat!Insert(it[s \ {Chat!Max(s)}], order[Chat!Max(s)])]
             chosen == CHOOSE it : Table(it)
             A == {q \in Seq(Chat!Message) : /\ Arranged(q) /\ ToSet(shown) \subseteq ToSet(q)
                                             /\ ToSet(q) \subseteq ToSet(shown) \cup texts}
             step == [p \in (1 .. n) \X A |-> Chat!Insert(p[2], order[p[1]])]
  <1>1. /\ n \in Nat /\ DOMAIN order = 1 .. n
        /\ \A m \in texts : \E i \in 1 .. n : order[i] = m
        /\ \A i \in 1 .. n : order[i] \in texts
    BY OrderCovers, SeqFacts
  <1>2. Inserted(shown, order) = chosen[1 .. n]
    BY <1>1 DEF Inserted, Chat!FoldLeft, Chat!MapThenFoldSet
  <1> HIDE DEF n
  <1>3. shown \in A
    BY DEF Arranged
  <1>4. ASSUME NEW i \in 1 .. n, NEW q \in A PROVE Chat!Insert(q, order[i]) \in A
    <2>1. Arranged(q) /\ ToSet(shown) \subseteq ToSet(q) /\ ToSet(q) \subseteq ToSet(shown) \cup texts
      OBVIOUS
    <2>2. order[i] \in texts /\ order[i] \in Chat!Message
      BY <1>1
    <2>3. /\ Arranged(Chat!Insert(q, order[i]))
          /\ ToSet(q) \subseteq ToSet(Chat!Insert(q, order[i]))
          /\ ToSet(Chat!Insert(q, order[i])) \subseteq ToSet(q) \cup {order[i]}
      BY <2>1, <2>2, InsertArranges
    <2>4. Chat!Insert(q, order[i]) \in Seq(Chat!Message)
      BY <2>3 DEF Arranged
    <2> QED
      BY <2>1, <2>2, <2>3, <2>4
  <1>5. \A q \in A : Arranged(q) /\ ToSet(shown) \subseteq ToSet(q) /\ ToSet(q) \subseteq ToSet(shown) \cup texts
    OBVIOUS
  <1> HIDE DEF A
  <1>6. step \in [(1 .. n) \X A -> A]
    BY <1>4
  <1>7. \A i \in 1 .. n, q \in A : step[<<i, q>>] = Chat!Insert(q, order[i])
    OBVIOUS
  <1> HIDE DEF step
  <1>8. PICK it : IsTable(it, n, A, shown, step)
    BY <1>1, <1>3, <1>6, FoldTable
  <1>m. \A s : Chat!Max(s) = Max(s)
    BY DEF Chat!Max, Max
  <1>9. Table(it)
    <2>1. /\ it \in [SUBSET (1 .. n) -> A]
          /\ \A s \in SUBSET (1 .. n) :
               it[s] = IF s = {} THEN shown ELSE step[<<Max(s), it[s \ {Max(s)}]>>]
      BY <1>8 DEF IsTable
    <2>2. \A s \in SUBSET (1 .. n) :
            s # {} => Max(s) \in 1 .. n /\ it[s \ {Max(s)}] \in A
      BY <1>1, <2>1, MaxOfPlaces
    <2>3. \A s \in SUBSET (1 .. n) :
            it[s] = IF s = {} THEN shown
                    ELSE Chat!Insert(it[s \ {Chat!Max(s)}], order[Chat!Max(s)])
      BY <1>7, <1>m, <2>1, <2>2
    <2> QED
      BY <2>1, <2>3
  <1>10. Table(chosen)
    <2> HIDE DEF Table
    <2> QED
      BY <1>9
  <1> HIDE DEF chosen
  <1>11. Follows(chosen, n, A, shown, step)
    <2>1. chosen[{}] = shown
      BY <1>10
    <2>2. ASSUME NEW s \in SUBSET (1 .. n), s # {}, chosen[s \ {Max(s)}] \in A
          PROVE  chosen[s] = step[<<Max(s), chosen[s \ {Max(s)}]>>]
      <3>1. Max(s) \in 1 .. n
        BY <1>1, <2>2, MaxOfPlaces
      <3>2. chosen[s] = Chat!Insert(chosen[s \ {Max(s)}], order[Max(s)])
        BY <1>10, <1>m, <2>2
      <3> QED
        BY <1>7, <2>2, <3>1, <3>2
    <2> QED
      BY <2>1, <2>2 DEF Follows
  <1>12. PICK g : IsRun(g, chosen, n, A, shown, step)
    BY <1>1, <1>3, <1>6, <1>11, FoldRun
  <1>13. /\ g \in [0 .. n -> A] /\ g[0] = shown /\ g[n] = chosen[1 .. n]
         /\ \A i \in 1 .. n : g[i] = step[<<i, g[i - 1]>>]
    BY <1>12 DEF IsRun
  <1> HIDE DEF Table
  <1> DEFINE T == {i \in 0 .. n : \A j \in 1 .. i : \E x \in ToSet(g[i]) : x.n = order[j].n}
  <1>14. 0 \in T
    BY <1>1
  <1>15. ASSUME NEW i \in 0 .. n, i < n, i \in T PROVE i + 1 \in T
    <2>1. i + 1 \in 1 .. n /\ i + 1 \in 0 .. n /\ (i + 1) - 1 = i
      BY <1>1, <1>15
    <2>2. g[i] \in A /\ g[i + 1] = Chat!Insert(g[i], order[i + 1])
      BY <1>7, <1>13, <2>1
    <2>3. Arranged(g[i]) /\ order[i + 1] \in Chat!Message
      BY <1>1, <1>5, <2>1, <2>2
    <2>4. /\ ToSet(g[i]) \subseteq ToSet(g[i + 1])
          /\ \E x \in ToSet(g[i + 1]) : x.n = order[i + 1].n
      BY <2>2, <2>3, InsertArranges
    <2>5. \A j \in 1 .. i + 1 : j = i + 1 \/ j \in 1 .. i
      BY <1>1, <2>1
    <2> QED
      BY <1>15, <2>1, <2>4, <2>5
  <1>16. n \in T
    <2> HIDE DEF T
    <2>1. 0 .. n \subseteq T
      BY <1>1, <1>14, <1>15, UpTo
    <2> QED
      BY <1>1, <2>1
  <1>17. \A m \in texts : \E x \in ToSet(g[n]) : x.n = m.n
    BY <1>1, <1>16
  <1>18. g[n] \in A
    BY <1>1, <1>13
  <1> QED
    BY <1>2, <1>5, <1>13, <1>17, <1>18

(* What a screen has been told of is on it, being downloaded or lost, and  *)
(* what the chat has anew has been nowhere on it: so no message comes to   *)
(* the screen twice, and none that was there is new again.                 *)
ScreenInv(known, n, told, shown, loading, lost) ==
  LET all == known \cup told \cup ToSet(shown) \cup loading \cup lost
  IN  /\ Arranged(shown)
      /\ known \subseteq Chat!Message /\ told \subseteq Chat!Message
      /\ loading \subseteq Chat!Message /\ lost \subseteq Chat!Message
      /\ \A a, b \in all : a.n = b.n => a = b
      /\ \A a \in all : a.n <= n
      /\ known \cap (ToSet(shown) \cup loading \cup lost) \subseteq told
      /\ told \subseteq ToSet(shown) \cup loading \cup lost
      /\ ToSet(shown) \cap (loading \cup lost) = {} /\ loading \cap lost = {}
      /\ \A m \in loading \cup lost : m.photo

(* A message is written: its identifier is new.                            *)
LEMMA WriteKeeps ==
  ASSUME NEW known, NEW n \in Nat, NEW told, NEW shown, NEW loading, NEW lost,
         ScreenInv(known, n, told, shown, loading, lost), NEW m \in Chat!Message, m.n = n + 1
  PROVE  ScreenInv(known \cup {m}, n + 1, told, shown, loading, lost)
  <1> DEFINE all == known \cup told \cup ToSet(shown) \cup loading \cup lost
  <1>1. Arranged(shown) /\ all \subseteq Chat!Message
    <2>1. Arranged(shown) /\ \A x \in ToSet(shown) : x \in Chat!Message
      BY ArrangedFacts DEF ScreenInv
    <2> QED
      BY <2>1 DEF ScreenInv
  <1>2. \A a \in Chat!Message : a.n \in Nat
    BY DEF Chat!Message
  <1>3. (\A a, b \in all : a.n = b.n => a = b) /\ \A a \in all : a.n <= n
    BY DEF ScreenInv
  <1>4. \A a \in all : a.n # m.n /\ a.n <= n + 1
    BY <1>1, <1>2, <1>3
  <1>5. known \cap (ToSet(shown) \cup loading \cup lost) \subseteq told
    BY DEF ScreenInv
  <1>6. /\ \A a, b \in all \cup {m} : a.n = b.n => a = b
        /\ \A a \in all \cup {m} : a.n <= n + 1
    <2> HIDE DEF all
    <2> QED
      BY <1>2, <1>3, <1>4
  <1>7. m \notin all
    <2> HIDE DEF all
    <2> QED
      BY <1>4
  <1>8. (known \cup {m}) \cap (ToSet(shown) \cup loading \cup lost) \subseteq told
    BY <1>5, <1>7
  <1> QED
    BY <1>6, <1>8 DEF ScreenInv

(* The server refuses one.                                                 *)
LEMMA RefuseKeeps ==
  ASSUME NEW known, NEW n, NEW told, NEW shown, NEW loading, NEW lost,
         ScreenInv(known, n, told, shown, loading, lost), NEW less \in SUBSET known
  PROVE  ScreenInv(less, n, told, shown, loading, lost)
  BY DEF ScreenInv

(* The listener reports.                                                   *)
LEMMA ReportKeeps ==
  ASSUME NEW known, IsFiniteSet(known), NEW n, NEW told, NEW shown, NEW loading, NEW lost,
         ScreenInv(known, n, told, shown, loading, lost),
         NEW order \in SetToSeqs({m \in known \ told : ~ m.photo})
  PROVE  ScreenInv(known, n, known, Inserted(shown, order),
                   loading \cup ((known \ told) \ {m \in known \ told : ~ m.photo}), lost)
  <1> DEFINE texts == {m \in known \ told : ~ m.photo}
             photos == (known \ told) \ texts
             r == Inserted(shown, order)
  <1>1. Arranged(shown) /\ texts \in SUBSET Chat!Message
    BY DEF ScreenInv
  <1>2. IsFiniteSet(texts)
    BY FS_Subset
  <1> HIDE DEF texts
  <1>3. /\ Arranged(r) /\ ToSet(shown) \subseteq ToSet(r) /\ ToSet(r) \subseteq ToSet(shown) \cup texts
        /\ \A m \in texts : \E x \in ToSet(r) : x.n = m.n
    BY <1>1, <1>2, InsertedArranges DEF texts
  <1> HIDE DEF r
  <1>4. texts \subseteq known /\ photos \subseteq known /\ texts \cup photos = known \ told
    BY DEF texts
  <1>5. (\A m \in photos : m.photo) /\ \A m \in texts : ~ m.photo
    BY DEF texts
  <1> HIDE DEF photos
  <1>6. /\ \A a, b \in known \cup told \cup ToSet(shown) \cup loading \cup lost : a.n = b.n => a = b
        /\ \A a \in known \cup told \cup ToSet(shown) \cup loading \cup lost : a.n <= n
        /\ known \cap (ToSet(shown) \cup loading \cup lost) \subseteq told
        /\ told \subseteq ToSet(shown) \cup loading \cup lost
        /\ ToSet(shown) \cap (loading \cup lost) = {} /\ loading \cap lost = {}
        /\ \A m \in loading \cup lost : m.photo
        /\ known \subseteq Chat!Message /\ loading \subseteq Chat!Message /\ lost \subseteq Chat!Message
    BY DEF ScreenInv
  <1>7. texts \subseteq ToSet(r)
    <2> SUFFICES ASSUME NEW m \in texts PROVE m \in ToSet(r)
      OBVIOUS
    <2>1. PICK x \in ToSet(r) : x.n = m.n
      BY <1>3
    <2>2. x \in ToSet(shown) \cup known /\ m \in known
      BY <1>3, <1>4, <2>1
    <2>3. x = m
      BY <1>6, <2>1, <2>2
    <2> QED
      BY <2>1, <2>3
  <1>8. ToSet(r) = ToSet(shown) \cup texts
    BY <1>3, <1>7
  <1>9. known \subseteq ToSet(r) \cup (loading \cup photos) \cup lost
    BY <1>4, <1>6, <1>8
  <1>10. ToSet(r) \cap (loading \cup photos \cup lost) = {} /\ (loading \cup photos) \cap lost = {}
    <2>1. texts \cap (loading \cup photos \cup lost) = {}
      BY <1>5, <1>6
    <2>2. ToSet(shown) \cap photos = {} /\ photos \cap lost = {}
      BY <1>4, <1>6
    <2> QED
      BY <1>6, <1>8, <2>1, <2>2
  <1>11. /\ \A a, b \in known \cup known \cup ToSet(r) \cup (loading \cup photos) \cup lost : a.n = b.n => a = b
         /\ \A a \in known \cup known \cup ToSet(r) \cup (loading \cup photos) \cup lost : a.n <= n
    <2> DEFINE all == known \cup told \cup ToSet(shown) \cup loading \cup lost
               now == known \cup known \cup ToSet(r) \cup (loading \cup photos) \cup lost
    <2>1. now \subseteq all
      BY <1>4, <1>8
    <2>2. (\A a, b \in all : a.n = b.n => a = b) /\ \A a \in all : a.n <= n
      BY <1>6
    <2> HIDE DEF all, now
    <2>3. (\A a, b \in now : a.n = b.n => a = b) /\ \A a \in now : a.n <= n
      BY <2>1, <2>2
    <2> QED
      BY <2>3 DEF now
  <1>12. ScreenInv(known, n, known, r, loading \cup photos, lost)
    BY <1>3, <1>4, <1>5, <1>6, <1>9, <1>10, <1>11 DEF ScreenInv
  <1> QED
    BY <1>12 DEF r, photos, texts

(* A photo has been downloaded.                                            *)
LEMMA DownloadKeeps ==
  ASSUME NEW known, NEW n, NEW told, NEW shown, NEW loading, NEW lost,
         ScreenInv(known, n, told, shown, loading, lost), NEW m \in loading
  PROVE  ScreenInv(known, n, told, Chat!Insert(shown, m), loading \ {m}, lost)
  <1> DEFINE r == Chat!Insert(shown, m)
             all == known \cup told \cup ToSet(shown) \cup loading \cup lost
  <1>1. Arranged(shown) /\ m \in Chat!Message
    BY DEF ScreenInv
  <1>2. /\ Arranged(r) /\ ToSet(shown) \subseteq ToSet(r) /\ ToSet(r) \subseteq ToSet(shown) \cup {m}
        /\ \E x \in ToSet(r) : x.n = m.n
    BY <1>1, InsertArranges
  <1> HIDE DEF r
  <1>3. (\A a, b \in all : a.n = b.n => a = b) /\ \A a \in all : a.n <= n
    BY DEF ScreenInv
  <1>4. m \in ToSet(r)
    <2>1. PICK x \in ToSet(r) : x.n = m.n
      BY <1>2
    <2>2. x \in all /\ m \in all
      BY <1>2, <2>1
    <2> QED
      BY <1>3, <2>1, <2>2
  <1>5. ToSet(r) = ToSet(shown) \cup {m}
    BY <1>2, <1>4
  <1>6. known \cup told \cup ToSet(r) \cup (loading \ {m}) \cup lost = all
    BY <1>5
  <1>7. /\ known \cap (ToSet(r) \cup (loading \ {m}) \cup lost) \subseteq told
        /\ told \subseteq ToSet(r) \cup (loading \ {m}) \cup lost
        /\ ToSet(r) \cap ((loading \ {m}) \cup lost) = {} /\ (loading \ {m}) \cap lost = {}
    BY <1>5 DEF ScreenInv
  <1> HIDE DEF all
  <1>8. /\ \A a, b \in known \cup told \cup ToSet(r) \cup (loading \ {m}) \cup lost : a.n = b.n => a = b
        /\ \A a \in known \cup told \cup ToSet(r) \cup (loading \ {m}) \cup lost : a.n <= n
    BY <1>3, <1>6
  <1> QED
    BY <1>2, <1>7, <1>8 DEF ScreenInv, r

(* The download of a photo fails.                                          *)
LEMMA FailureKeeps ==
  ASSUME NEW known, NEW n, NEW told, NEW shown, NEW loading, NEW lost,
         ScreenInv(known, n, told, shown, loading, lost), NEW m \in loading
  PROVE  ScreenInv(known, n, told, shown, loading \ {m}, lost \cup {m})
  <1> DEFINE all == known \cup told \cup ToSet(shown) \cup loading \cup lost
  <1>1. known \cup told \cup ToSet(shown) \cup (loading \ {m}) \cup (lost \cup {m}) = all
    OBVIOUS
  <1>2. (\A a, b \in all : a.n = b.n => a = b) /\ \A a \in all : a.n <= n
    BY DEF ScreenInv
  <1>3. m \in Chat!Message
    BY DEF ScreenInv
  <1>4. (loading \ {m}) \cup (lost \cup {m}) = loading \cup lost /\ (loading \ {m}) \cap (lost \cup {m}) = {}
    BY DEF ScreenInv
  <1>5. /\ known \cap (ToSet(shown) \cup (loading \ {m}) \cup (lost \cup {m})) \subseteq told
        /\ told \subseteq ToSet(shown) \cup (loading \ {m}) \cup (lost \cup {m})
        /\ ToSet(shown) \cap ((loading \ {m}) \cup (lost \cup {m})) = {}
        /\ \A x \in (loading \ {m}) \cup (lost \cup {m}) : x.photo
    BY <1>4 DEF ScreenInv
  <1>6. known \subseteq Chat!Message /\ told \subseteq Chat!Message
        /\ loading \ {m} \subseteq Chat!Message /\ lost \cup {m} \subseteq Chat!Message
    BY <1>3 DEF ScreenInv
  <1>7. Arranged(shown)
    BY DEF ScreenInv
  <1> HIDE DEF all
  <1>8. /\ \A a, b \in known \cup told \cup ToSet(shown) \cup (loading \ {m}) \cup (lost \cup {m}) :
             a.n = b.n => a = b
        /\ \A a \in known \cup told \cup ToSet(shown) \cup (loading \ {m}) \cup (lost \cup {m}) : a.n <= n
    BY <1>1, <1>2
  <1> QED
    BY <1>4, <1>5, <1>6, <1>7, <1>8 DEF ScreenInv

(* The strengthening of `ScreenStands' and of `NothingForgotten'.          *)
ChatInv ==
  /\ chatWritten \in 0 .. MaxMessages /\ opened \in 0 .. MaxScreens
  /\ chatDocs \subseteq Chat!Message /\ IsFiniteSet(chatDocs) /\ pending \subseteq chatDocs
  /\ chatAlive \in [Chat!Screens -> BOOLEAN]
  /\ chatSeen \in [Chat!Screens -> SUBSET Chat!Message]
  /\ messages \in [Chat!Screens -> Seq(Chat!Message)]
  /\ downloads \in [Chat!Screens -> SUBSET Chat!Message]
  /\ failed \in [Chat!Screens -> SUBSET Chat!Message]
  /\ \A s \in Chat!Screens :
       ScreenInv(chatDocs, chatWritten, chatSeen[s], messages[s], downloads[s], failed[s])

LEMMA ChatInit == Chat!ChatScreenAssumption /\ Chat!Init => ChatInv
  <1> SUFFICES ASSUME Chat!ChatScreenAssumption, Chat!Init PROVE ChatInv
    OBVIOUS
  <1> USE DEF Chat!Init
  <1>1. chatWritten \in 0 .. MaxMessages /\ opened \in 0 .. MaxScreens
    BY DEF Chat!ChatScreenAssumption
  <1>2. chatDocs \subseteq Chat!Message /\ IsFiniteSet(chatDocs) /\ pending \subseteq chatDocs
    BY FS_EmptySet
  <1>3. chatAlive \in [Chat!Screens -> BOOLEAN]
    OBVIOUS
  <1>4. /\ chatSeen \in [Chat!Screens -> SUBSET Chat!Message]
        /\ messages \in [Chat!Screens -> Seq(Chat!Message)]
        /\ downloads \in [Chat!Screens -> SUBSET Chat!Message]
        /\ failed \in [Chat!Screens -> SUBSET Chat!Message]
    OBVIOUS
  <1>5. ScreenInv({}, 0, {}, <<>>, {}, {})
    <2>1. Arranged(<<>>) /\ ToSet(<<>>) = {}
      BY DEF Arranged, ToSet
    <2> QED
      BY <2>1 DEF ScreenInv
  <1>6. \A s \in Chat!Screens :
          ScreenInv(chatDocs, chatWritten, chatSeen[s], messages[s], downloads[s], failed[s])
    BY <1>5
  <1> QED
    BY <1>1, <1>2, <1>3, <1>4, <1>6 DEF ChatInv

(* What is the same of the chat module's sets and orders as of the others. *)
LEMMA SameOrders == \A S : Chat!SetToSeqs(S) = SetToSeqs(S)
  <1>1. \A S : Chat!Cardinality(S) = Cardinality(S)
    BY DEF Cardinality, Chat!Cardinality
  <1> QED
    BY <1>1 DEF SetToSeqs, Chat!SetToSeqs

LEMMA ChatNext == Chat!ChatScreenAssumption /\ ChatInv /\ [Chat!Next]_(Chat!vars) => ChatInv'
  <1> SUFFICES ASSUME Chat!ChatScreenAssumption, ChatInv, [Chat!Next]_(Chat!vars) PROVE ChatInv'
    OBVIOUS
  <1>0. /\ chatWritten \in 0 .. MaxMessages /\ opened \in 0 .. MaxScreens
        /\ chatDocs \subseteq Chat!Message /\ IsFiniteSet(chatDocs) /\ pending \subseteq chatDocs
        /\ chatAlive \in [Chat!Screens -> BOOLEAN]
        /\ chatSeen \in [Chat!Screens -> SUBSET Chat!Message]
        /\ messages \in [Chat!Screens -> Seq(Chat!Message)]
        /\ downloads \in [Chat!Screens -> SUBSET Chat!Message]
        /\ failed \in [Chat!Screens -> SUBSET Chat!Message]
        /\ \A s \in Chat!Screens :
             ScreenInv(chatDocs, chatWritten, chatSeen[s], messages[s], downloads[s], failed[s])
    BY DEF ChatInv
  <1>1. ASSUME NEW date \in 1 .. MaxDate, NEW photo \in BOOLEAN, NEW mine \in BOOLEAN,
               Chat!Write(date, photo, mine)
        PROVE  ChatInv'
    <2> DEFINE m == [n |-> chatWritten + 1, date |-> date, photo |-> photo]
    <2>1. /\ chatWritten < MaxMessages /\ chatWritten' = chatWritten + 1
          /\ chatDocs' = chatDocs \cup {m}
          /\ pending' = IF mine THEN pending \cup {m} ELSE pending
          /\ UNCHANGED <<opened, chatAlive, chatSeen, messages, downloads, failed>>
      BY <1>1 DEF Chat!Write
    <2>2. chatWritten \in Nat /\ chatWritten + 1 \in 1 .. MaxMessages /\ chatWritten' \in 0 .. MaxMessages
      BY <1>0, <2>1 DEF Chat!ChatScreenAssumption
    <2>3. m \in Chat!Message /\ m.n = chatWritten + 1
      BY <2>2 DEF Chat!Message
    <2> HIDE DEF m
    <2>4. chatDocs' \subseteq Chat!Message /\ IsFiniteSet(chatDocs') /\ pending' \subseteq chatDocs'
      BY <1>0, <2>1, <2>3, FS_AddElement
    <2>5. \A s \in Chat!Screens :
            ScreenInv(chatDocs', chatWritten', chatSeen'[s], messages'[s], downloads'[s], failed'[s])
      BY <1>0, <2>1, <2>2, <2>3, WriteKeeps
    <2> QED
      BY <1>0, <2>1, <2>2, <2>4, <2>5 DEF ChatInv
  <1>2. ASSUME NEW m \in pending, Chat!Refuse(m) PROVE ChatInv'
    <2>1. /\ chatDocs' = chatDocs \ {m} /\ pending' = pending \ {m}
          /\ UNCHANGED <<chatWritten, opened, chatAlive, chatSeen, messages, downloads, failed>>
      BY <1>2 DEF Chat!Refuse
    <2>2. chatDocs' \in SUBSET chatDocs /\ chatDocs' \subseteq Chat!Message /\ pending' \subseteq chatDocs'
      BY <1>0, <2>1
    <2>3. IsFiniteSet(chatDocs')
      BY <1>0, <2>2, FS_Subset
    <2>4. \A s \in Chat!Screens :
            ScreenInv(chatDocs', chatWritten', chatSeen'[s], messages'[s], downloads'[s], failed'[s])
      BY <1>0, <2>1, <2>2, RefuseKeeps
    <2> QED
      BY <1>0, <2>1, <2>2, <2>3, <2>4 DEF ChatInv
  <1>3. ASSUME Chat!Open PROVE ChatInv'
    <2>1. /\ opened < MaxScreens /\ opened' = opened + 1
          /\ chatAlive' = [chatAlive EXCEPT ![opened + 1] = TRUE]
          /\ UNCHANGED <<chatWritten, chatDocs, pending, chatSeen, messages, downloads, failed>>
      BY <1>3 DEF Chat!Open, Chat!chat
    <2>2. opened' \in 0 .. MaxScreens
      BY <1>0, <2>1 DEF Chat!ChatScreenAssumption
    <2>3. chatAlive' \in [Chat!Screens -> BOOLEAN]
      BY <1>0, <2>1
    <2> QED
      BY <1>0, <2>1, <2>2, <2>3 DEF ChatInv
  <1>4. ASSUME NEW s \in Chat!Screens, Chat!Report(s) PROVE ChatInv'
    <2> DEFINE texts == {m \in chatDocs \ chatSeen[s] : ~ m.photo}
               photos == (chatDocs \ chatSeen[s]) \ texts
    <2>1. /\ chatSeen' = [chatSeen EXCEPT ![s] = chatDocs]
          /\ downloads' = [downloads EXCEPT ![s] = @ \cup photos]
          /\ UNCHANGED <<chatWritten, chatDocs, pending, opened, chatAlive, failed>>
      BY <1>4 DEF Chat!Report, Chat!chat
    <2>2. PICK order \in Chat!SetToSeqs(texts) :
            messages' = [messages EXCEPT ![s] = Chat!FoldLeft(Chat!Insert, @, order)]
      BY <1>4 DEF Chat!Report
    <2>3. order \in SetToSeqs(texts) /\ messages' = [messages EXCEPT ![s] = Inserted(messages[s], order)]
      BY <2>2, SameOrders DEF Inserted
    <2>4. ScreenInv(chatDocs, chatWritten, chatDocs, Inserted(messages[s], order),
                    downloads[s] \cup photos, failed[s])
      BY <1>0, <2>3, ReportKeeps
    <2>5. photos \subseteq Chat!Message
      BY <1>0
    <2>6. Inserted(messages[s], order) \in Seq(Chat!Message)
      BY <2>4 DEF ScreenInv, Arranged
    <2> HIDE DEF photos, texts
    <2>7. /\ chatSeen' \in [Chat!Screens -> SUBSET Chat!Message]
          /\ messages' \in [Chat!Screens -> Seq(Chat!Message)]
          /\ downloads' \in [Chat!Screens -> SUBSET Chat!Message]
      BY <1>0, <2>1, <2>3, <2>5, <2>6
    <2>8. ASSUME NEW t \in Chat!Screens
          PROVE  ScreenInv(chatDocs', chatWritten', chatSeen'[t], messages'[t], downloads'[t], failed'[t])
      <3>1. CASE t = s
        BY <1>0, <2>1, <2>3, <2>4, <3>1
      <3>2. CASE t # s
        BY <1>0, <2>1, <2>3, <3>2
      <3> QED
        BY <3>1, <3>2
    <2> QED
      BY <1>0, <2>1, <2>7, <2>8 DEF ChatInv
  <1>5. ASSUME NEW s \in Chat!Screens, Chat!ListenerFails(s) PROVE ChatInv'
    <2>1. /\ chatAlive' = [chatAlive EXCEPT ![s] = FALSE]
          /\ UNCHANGED <<chatWritten, chatDocs, pending, opened, chatSeen, messages, downloads, failed>>
      BY <1>5 DEF Chat!ListenerFails, Chat!chat
    <2>2. chatAlive' \in [Chat!Screens -> BOOLEAN]
      BY <1>0, <2>1
    <2> QED
      BY <1>0, <2>1, <2>2 DEF ChatInv
  <1>6. ASSUME NEW s \in Chat!Screens, NEW m \in downloads[s], Chat!DownloadEnds(s, m) PROVE ChatInv'
    <2>1. /\ downloads' = [downloads EXCEPT ![s] = @ \ {m}]
          /\ messages' = [messages EXCEPT ![s] = Chat!Insert(@, m)]
          /\ UNCHANGED <<chatWritten, chatDocs, pending, opened, chatAlive, chatSeen, failed>>
      BY <1>6 DEF Chat!DownloadEnds, Chat!chat
    <2>2. ScreenInv(chatDocs, chatWritten, chatSeen[s], Chat!Insert(messages[s], m),
                    downloads[s] \ {m}, failed[s])
      BY <1>0, DownloadKeeps
    <2>3. Chat!Insert(messages[s], m) \in Seq(Chat!Message) /\ downloads[s] \ {m} \subseteq Chat!Message
      BY <2>2 DEF ScreenInv, Arranged
    <2>4. /\ messages' \in [Chat!Screens -> Seq(Chat!Message)]
          /\ downloads' \in [Chat!Screens -> SUBSET Chat!Message]
      BY <1>0, <2>1, <2>3
    <2>5. ASSUME NEW t \in Chat!Screens
          PROVE  ScreenInv(chatDocs', chatWritten', chatSeen'[t], messages'[t], downloads'[t], failed'[t])
      <3>1. CASE t = s
        BY <1>0, <2>1, <2>2, <3>1
      <3>2. CASE t # s
        BY <1>0, <2>1, <3>2
      <3> QED
        BY <3>1, <3>2
    <2> QED
      BY <1>0, <2>1, <2>4, <2>5 DEF ChatInv
  <1>7. ASSUME NEW s \in Chat!Screens, NEW m \in downloads[s], Chat!DownloadFails(s, m) PROVE ChatInv'
    <2>1. /\ downloads' = [downloads EXCEPT ![s] = @ \ {m}]
          /\ failed' = [failed EXCEPT ![s] = @ \cup {m}]
          /\ UNCHANGED <<chatWritten, chatDocs, pending, opened, chatAlive, chatSeen, messages>>
      BY <1>7 DEF Chat!DownloadFails, Chat!chat
    <2>2. ScreenInv(chatDocs, chatWritten, chatSeen[s], messages[s], downloads[s] \ {m}, failed[s] \cup {m})
      BY <1>0, FailureKeeps
    <2>3. downloads[s] \ {m} \subseteq Chat!Message /\ failed[s] \cup {m} \subseteq Chat!Message
      BY <2>2 DEF ScreenInv
    <2>4. /\ failed' \in [Chat!Screens -> SUBSET Chat!Message]
          /\ downloads' \in [Chat!Screens -> SUBSET Chat!Message]
      BY <1>0, <2>1, <2>3
    <2>5. ASSUME NEW t \in Chat!Screens
          PROVE  ScreenInv(chatDocs', chatWritten', chatSeen'[t], messages'[t], downloads'[t], failed'[t])
      <3>1. CASE t = s
        BY <1>0, <2>1, <2>2, <3>1
      <3>2. CASE t # s
        BY <1>0, <2>1, <3>2
      <3> QED
        BY <3>1, <3>2
    <2> QED
      BY <1>0, <2>1, <2>4, <2>5 DEF ChatInv
  <1>8. ASSUME UNCHANGED Chat!vars PROVE ChatInv'
    <2>1. UNCHANGED <<chatWritten, chatDocs, pending, opened, chatAlive, chatSeen, messages,
                      downloads, failed>>
      BY <1>8 DEF Chat!vars, Chat!chat
    <2> QED
      BY <1>0, <2>1 DEF ChatInv
  <1> QED
    BY <1>1, <1>2, <1>3, <1>4, <1>5, <1>6, <1>7, <1>8 DEF Chat!Next

LEMMA ChatInvariant ==
  ASSUME Chat!ChatScreenAssumption
  PROVE  Chat!Spec => []ChatInv
  <1>1. Chat!Init => ChatInv
    BY ChatInit
  <1>2. ChatInv /\ [Chat!Next]_(Chat!vars) => ChatInv'
    BY ChatNext
  <1> QED
    BY <1>1, <1>2, PTL DEF Chat!Spec

(* However late a photo comes and whatever order the messages are reported *)
(* in, each screen shows them in the order of their dates.                 *)
THEOREM ScreensAlwaysStand ==
  ASSUME Chat!ChatScreenAssumption
  PROVE  Chat!Spec => []Chat!ScreenStands
  <1>1. ChatInv => Chat!ScreenStands
    <2> SUFFICES ASSUME ChatInv PROVE Chat!ScreenStands
      OBVIOUS
    <2>1. Chat!TypeOK
      BY DEF ChatInv, Chat!TypeOK
    <2>2. \A s \in Chat!Screens : Arranged(messages[s])
      BY DEF ChatInv, ScreenInv
    <2>3. Chat!InOrder
      <3> SUFFICES ASSUME NEW s \in Chat!Screens,
                          NEW i \in DOMAIN messages[s], NEW j \in DOMAIN messages[s], i < j
                   PROVE  messages[s][i].date <= messages[s][j].date
        BY DEF Chat!InOrder
      <3>1. DOMAIN messages[s] = 1 .. Len(messages[s])
        BY <2>2, ArrangedFacts
      <3> QED
        BY <2>2, <3>1 DEF Arranged
    <2> QED
      BY <2>1, <2>3 DEF Chat!ScreenStands
  <1> QED
    BY <1>1, ChatInvariant, PTL

(* What a screen has been told of is on it once, or its download goes on   *)
(* or has failed, through refusals, screens opened twice and late photos.  *)
THEOREM NothingIsForgotten ==
  ASSUME Chat!ChatScreenAssumption
  PROVE  Chat!Spec => []Chat!NothingForgotten
  <1>1. ChatInv => Chat!NothingForgotten
    <2> SUFFICES ASSUME ChatInv, NEW s \in Chat!Screens
                 PROVE  /\ chatSeen[s] \subseteq Chat!ToSet(messages[s]) \cup downloads[s] \cup failed[s]
                        /\ Chat!IsInjective(messages[s])
                        /\ Chat!ToSet(messages[s]) \cap (downloads[s] \cup failed[s]) = {}
                        /\ \A m \in downloads[s] \cup failed[s] : m.photo
      BY DEF Chat!NothingForgotten
    <2>1. ScreenInv(chatDocs, chatWritten, chatSeen[s], messages[s], downloads[s], failed[s])
      BY DEF ChatInv
    <2>2. Chat!ToSet(messages[s]) = ToSet(messages[s])
      BY DEF Chat!ToSet, ToSet
    <2>3. Chat!IsInjective(messages[s])
      <3>1. Arranged(messages[s])
        BY <2>1 DEF ScreenInv
      <3>2. DOMAIN messages[s] = 1 .. Len(messages[s])
        BY <3>1, ArrangedFacts
      <3> QED
        BY <3>1, <3>2 DEF Arranged, Chat!IsInjective
    <2> QED
      BY <2>1, <2>2, <2>3 DEF ScreenInv
  <1> QED
    BY <1>1, ChatInvariant, PTL
=============================================================================
