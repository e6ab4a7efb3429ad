--------------------------- MODULE SequenceLemmas ---------------------------
(***************************************************************************)
(* What the sequence and set operators of the community modules that       *)
(* several models are built from return: the least of a set of numbers,    *)
(* and a list into which an element is inserted or from which one is       *)
(* removed.                                                                *)
(***************************************************************************)
EXTENDS Integers, SequencesExt, SequenceTheorems, FiniteSetTheorems,
        WellFoundedInduction, TLAPS

(* A set of numbers that is not empty has a least element: this is what    *)
(* induction over numbers comes to where the provers cannot take an        *)
(* operator as a parameter.                                                *)
LEMMA MinNat ==
  ASSUME NEW T \in SUBSET Nat, T # {}
  PROVE  Min(T) \in T /\ \A y \in T : Min(T) <= y
  <1> DEFINE R == OpToRel(<, Nat)
  <1>1. IsWellFoundedOn(R, Nat)
    BY NatLessThanWellFounded
  <1>2. \A x, y \in Nat : y < x => <<y, x>> \in R
    BY DEF OpToRel
  <1> HIDE DEF R
  <1>3. PICK x \in T : \A y \in T : ~ (<<y, x>> \in R)
    BY <1>1, WFMin
  <1>4. ASSUME NEW y \in T PROVE x <= y
    <2>1. x \in Nat /\ y \in Nat /\ ~ (y < x)
      BY <1>2, <1>3
    <2> QED
      BY <2>1
  <1>5. \E z \in T : \A y \in T : z <= y
    BY <1>4
  <1> QED
    BY <1>5 DEF Min

(* A set of numbers that is not empty and has a bound has a greatest       *)
(* element.                                                                *)
LEMMA MaxNat ==
  ASSUME NEW T \in SUBSET Nat, T # {}, NEW n \in Nat, \A x \in T : x <= n
  PROVE  Max(T) \in T /\ \A y \in T : y <= Max(T)
  <1> DEFINE R == {n - x : x \in T}
             m == Min(R)
  <1>1. R \in SUBSET Nat /\ R # {}
    <2>1. \A x \in T : x \in Nat /\ x <= n
      OBVIOUS
    <2>2. \A x \in T : n - x \in Nat
      BY <2>1
    <2> QED
      BY <2>2
  <1>2. m \in R /\ \A y \in R : m <= y
    BY <1>1, MinNat
  <1>3. PICK x \in T : m = n - x
    BY <1>2
  <1>4. ASSUME NEW y \in T PROVE x >= y
    <2>1. n - y \in R
      OBVIOUS
    <2>2. n - x <= n - y
      BY <1>2, <1>3, <2>1
    <2> HIDE DEF R, m
    <2>3. x \in Nat /\ y \in Nat
      OBVIOUS
    <2> QED
      BY <2>2, <2>3
  <1>5. \E z \in T : \A y \in T : z >= y
    BY <1>4
  <1>6. Max(T) \in T /\ \A y \in T : Max(T) >= y
    BY <1>5 DEF Max
  <1> HIDE DEF R, m
  <1>7. Max(T) \in Nat /\ \A y \in T : y \in Nat
    BY <1>6
  <1> QED
    BY <1>6, <1>7

LEMMA SeqFacts ==
  ASSUME NEW S, NEW s \in Seq(S)
  PROVE  Len(s) \in Nat /\ DOMAIN s = 1 .. Len(s) /\ \A i \in 1 .. Len(s) : s[i] \in S
  OBVIOUS

(* The head and the tail of a list that is not empty.                      *)
LEMMA TailFacts ==
  ASSUME NEW S, NEW s \in Seq(S), s # <<>>
  PROVE  /\ Len(s) \in Nat /\ Len(s) >= 1 /\ Head(s) = s[1] /\ Head(s) \in S
         /\ Tail(s) \in Seq(S) /\ Len(Tail(s)) = Len(s) - 1 /\ Len(Tail(s)) \in Nat
         /\ \A i \in 1 .. Len(Tail(s)) : i + 1 \in 1 .. Len(s) /\ Tail(s)[i] = s[i + 1]
  <1>1. Len(s) \in Nat /\ Len(s) >= 1 /\ Head(s) = s[1] /\ Head(s) \in S
    BY EmptySeq
  <1>2. /\ Tail(s) \in Seq(S) /\ Len(Tail(s)) = Len(s) - 1
        /\ \A i \in 1 .. Len(Tail(s)) : Tail(s)[i] = s[i + 1]
    BY HeadTailProperties
  <1> DEFINE t == Tail(s)
  <1> HIDE DEF t
  <1>3. Len(t) = Len(s) - 1 /\ Len(t) \in Nat
    BY <1>1, <1>2 DEF t
  <1>4. \A i \in 1 .. Len(t) : i + 1 \in 1 .. Len(s)
    BY <1>1, <1>3
  <1> QED
    BY <1>1, <1>2, <1>3, <1>4 DEF t

(* InsertAt moves what comes after the place.                              *)
LEMMA InsertAtIs ==
  ASSUME NEW S, NEW s \in Seq(S), NEW k \in 1 .. Len(s) + 1, NEW e \in S
  PROVE  /\ InsertAt(s, k, e) \in Seq(S) /\ Len(InsertAt(s, k, e)) = Len(s) + 1
         /\ \A i \in 1 .. Len(s) + 1 :
              InsertAt(s, k, e)[i] = IF i < k THEN s[i] ELSE IF i = k THEN e ELSE s[i - 1]
  <1> DEFINE a == SubSeq(s, 1, k - 1)
             b == SubSeq(s, k, Len(s))
             ae == a \o <<e>>
  <1>0. Len(s) \in Nat /\ k \in Int /\ \A i \in 1 .. Len(s) : s[i] \in S
    BY SeqFacts
  <1>1. a \in Seq(S) /\ Len(a) = k - 1 /\ \A i \in 1 .. k - 1 : a[i] = s[i]
    BY <1>0, SubSeqProperties
  <1>2. /\ b \in Seq(S) /\ Len(b) = Len(s) - k + 1
        /\ \A i \in 1 .. Len(s) - k + 1 : b[i] = s[k + i - 1]
    BY <1>0, SubSeqProperties
  <1>3. <<e>> \in Seq(S) /\ Len(<<e>>) = 1 /\ <<e>>[1] = e
    OBVIOUS
  <1> HIDE DEF a, b
  <1>4. /\ ae \in Seq(S) /\ Len(ae) = k
        /\ \A i \in 1 .. k : ae[i] = IF i < k THEN s[i] ELSE e
    <2>1. /\ ae \in Seq(S) /\ Len(ae) = Len(a) + Len(<<e>>)
          /\ \A i \in 1 .. Len(a) + Len(<<e>>) :
               ae[i] = IF i <= Len(a) THEN a[i] ELSE <<e>>[i - Len(a)]
      BY <1>1, <1>3, ConcatProperties
    <2> HIDE DEF ae
    <2>2. ASSUME NEW i \in 1 .. k PROVE ae[i] = IF i < k THEN s[i] ELSE e
      <3>1. CASE i < k
        BY <1>0, <1>1, <1>3, <2>1, <3>1
      <3>2. CASE i = k
        BY <1>0, <1>1, <1>3, <2>1, <3>2
      <3> QED
        BY <1>0, <3>1, <3>2
    <2> QED
      BY <1>0, <1>1, <1>3, <2>1, <2>2
  <1> HIDE DEF ae
  <1>5. /\ ae \o b \in Seq(S) /\ Len(ae \o b) = Len(s) + 1
        /\ \A i \in 1 .. Len(s) + 1 : (ae \o b)[i] = IF i <= k THEN ae[i] ELSE b[i - k]
    <2>1. /\ ae \o b \in Seq(S) /\ Len(ae \o b) = Len(ae) + Len(b)
          /\ \A i \in 1 .. Len(ae) + Len(b) :
               (ae \o b)[i] = IF i <= Len(ae) THEN ae[i] ELSE b[i - Len(ae)]
      BY <1>2, <1>4, ConcatProperties
    <2> QED
      BY <1>0, <1>2, <1>4, <2>1
  <1>6. InsertAt(s, k, e) = ae \o b
    BY DEF InsertAt, ae, a, b
  <1>7. ASSUME NEW i \in 1 .. Len(s) + 1
        PROVE  (ae \o b)[i] = IF i < k THEN s[i] ELSE IF i = k THEN e ELSE s[i - 1]
    <2>1. CASE i < k
      BY <1>0, <1>4, <1>5, <2>1
    <2>2. CASE i = k
      BY <1>0, <1>4, <1>5, <2>2
    <2>3. CASE i > k
      <3>1. i - k \in 1 .. Len(s) - k + 1 /\ k + (i - k) - 1 = i - 1
        BY <1>0, <2>3
      <3> QED
        BY <1>0, <1>2, <1>5, <2>3, <3>1
    <2>4. i < k \/ i = k \/ i > k
      BY <1>0
    <2> QED
      BY <2>1, <2>2, <2>3, <2>4
  <1> QED
    BY <1>5, <1>6, <1>7

(* RemoveAt moves what comes after the element.                            *)
LEMMA RemoveAtIs ==
  ASSUME NEW S, NEW s \in Seq(S), NEW k \in 1 .. Len(s)
  PROVE  /\ RemoveAt(s, k) \in Seq(S) /\ Len(RemoveAt(s, k)) = Len(s) - 1
         /\ \A i \in 1 .. Len(s) - 1 : RemoveAt(s, k)[i] = IF i < k THEN s[i] ELSE s[i + 1]
  <1> DEFINE a == SubSeq(s, 1, k - 1)
             b == SubSeq(s, k + 1, Len(s))
  <1>0. Len(s) \in Nat /\ k \in Int /\ \A i \in 1 .. Len(s) : s[i] \in S
    BY SeqFacts
  <1>1. a \in Seq(S) /\ Len(a) = k - 1 /\ \A i \in 1 .. k - 1 : a[i] = s[i]
    BY <1>0, SubSeqProperties
  <1>2. /\ b \in Seq(S) /\ Len(b) = Len(s) - k
        /\ \A i \in 1 .. Len(s) - k : b[i] = s[k + i]
    BY <1>0, SubSeqProperties
  <1> HIDE DEF a, b
  <1>3. /\ a \o b \in Seq(S) /\ Len(a \o b) = Len(s) - 1
        /\ \A i \in 1 .. Len(s) - 1 : (a \o b)[i] = IF i <= k - 1 THEN a[i] ELSE b[i - (k - 1)]
    <2>1. /\ a \o b \in Seq(S) /\ Len(a \o b) = Len(a) + Len(b)
          /\ \A i \in 1 .. Len(a) + Len(b) :
               (a \o b)[i] = IF i <= Len(a) THEN a[i] ELSE b[i - Len(a)]
      BY <1>1, <1>2, ConcatProperties
    <2> QED
      BY <1>0, <1>1, <1>2, <2>1
  <1>4. RemoveAt(s, k) = a \o b
    BY DEF RemoveAt, a, b
  <1>5. ASSUME NEW i \in 1 .. Len(s) - 1
        PROVE  (a \o b)[i] = IF i < k THEN s[i] ELSE s[i + 1]
    <2>1. CASE i < k
      BY <1>0, <1>1, <1>3, <2>1
    <2>2. CASE i >= k
      <3>1. i - (k - 1) \in 1 .. Len(s) - k /\ k + (i - (k - 1)) = i + 1
        BY <1>0, <2>2
      <3> QED
        BY <1>0, <1>2, <1>3, <2>2, <3>1
    <2>3. i < k \/ i >= k
      BY <1>0
    <2> QED
      BY <2>1, <2>2, <2>3
  <1> QED
    BY <1>3, <1>4, <1>5

(* A prefix is the beginning of a list, and as long as the list permits.   *)
LEMMA PrefixIs ==
  ASSUME NEW S, NEW s \in Seq(S), NEW t \in Seq(S)
  PROVE  IsPrefix(s, t) <=> Len(s) <= Len(t) /\ \A i \in 1 .. Len(s) : s[i] = t[i]
  <1>0. /\ Len(s) \in Nat /\ Len(t) \in Nat /\ DOMAIN s = 1 .. Len(s)
        /\ \A i \in 1 .. Len(t) : t[i] \in S
    BY SeqFacts
  <1>1. SubSeq(s, 1, Len(s)) = s
    OBVIOUS
  <1>2. ASSUME Len(s) <= Len(t)
        PROVE  /\ SubSeq(t, 1, Len(s)) \in Seq(S) /\ Len(SubSeq(t, 1, Len(s))) = Len(s)
               /\ \A i \in 1 .. Len(s) : SubSeq(t, 1, Len(s))[i] = t[i]
    BY <1>0, <1>2, SubSeqProperties
  <1>3. ASSUME Len(s) <= Len(t), \A i \in 1 .. Len(s) : s[i] = t[i]
        PROVE  s = SubSeq(t, 1, Len(s))
    BY <1>0, <1>2, <1>3, SeqEqual
  <1> QED
    BY <1>1, <1>2, <1>3 DEF IsPrefix

(* A list whose elements all come into another one, each at a place of its *)
(* own, is in the other one as a bag.                                      *)
LEMMA BagGrows ==
  ASSUME NEW S, NEW s \in Seq(S), NEW t \in Seq(S),
         NEW f \in [1 .. Len(s) -> 1 .. Len(t)],
         \A i, j \in 1 .. Len(s) : i # j => f[i] # f[j],
         \A i \in 1 .. Len(s) : t[f[i]] = s[i]
  PROVE  ToBag(s) \sqsubseteq ToBag(t)
  <1> DEFINE at(x) == {i \in DOMAIN s : s[i] = x}
             to(x) == {i \in DOMAIN t : t[i] = x}
  <1>1. /\ Len(s) \in Nat /\ Len(t) \in Nat
        /\ DOMAIN s = 1 .. Len(s) /\ DOMAIN t = 1 .. Len(t)
    BY SeqFacts
  <1>2. Range(s) \subseteq Range(t)
    BY <1>1 DEF Range
  <1>3. ASSUME NEW x \in Range(s) PROVE Cardinality(at(x)) <= Cardinality(to(x))
    <2>1. IsFiniteSet(to(x))
      <3>1. IsFiniteSet(1 .. Len(t)) /\ to(x) \in SUBSET (1 .. Len(t))
        BY <1>1, FS_Interval
      <3> QED
        BY <3>1, FS_Subset
    <2> DEFINE g == [i \in at(x) |-> f[i]]
    <2>2. g \in [at(x) -> to(x)]
      BY <1>1
    <2>3. \A i, j \in at(x) : g[i] = g[j] => i = j
      BY <1>1
    <2>4. g \in Injection(at(x), to(x))
      BY <2>2, <2>3 DEF Injection, IsInjective
    <2> QED
      BY <2>1, <2>4, FS_Injection
  <1>4. /\ ToBag(s) = [x \in Range(s) |-> Cardinality(at(x))]
        /\ ToBag(t) = [x \in Range(t) |-> Cardinality(to(x))]
    BY DEF ToBag
  <1> QED
    BY <1>2, <1>3, <1>4 DEF \sqsubseteq

(* RemoveFirst takes out the first element that is e, if there is one.     *)
LEMMA RemoveFirstIs ==
  ASSUME NEW S, NEW s \in Seq(S), NEW e
  PROVE  /\ (\A i \in 1 .. Len(s) : s[i] # e) => RemoveFirst(s, e) = s
         /\ \A k \in 1 .. Len(s) :
              s[k] = e /\ (\A i \in 1 .. Len(s) : i < k => s[i] # e)
                => RemoveFirst(s, e) = RemoveAt(s, k)
  <1>1. Len(s) \in Nat
    BY SeqFacts
  <1>2. ASSUME \A i \in 1 .. Len(s) : s[i] # e PROVE RemoveFirst(s, e) = s
    BY <1>2 DEF RemoveFirst
  <1>3. ASSUME NEW k \in 1 .. Len(s), s[k] = e, \A i \in 1 .. Len(s) : i < k => s[i] # e
        PROVE  RemoveFirst(s, e) = RemoveAt(s, k)
    <2> DEFINE I == {i \in 1 .. Len(s) : s[i] = e}
    <2>1. I \in SUBSET Nat /\ I # {} /\ k \in I
      BY <1>1, <1>3
    <2>2. Min(I) \in I /\ \A y \in I : Min(I) <= y
      BY <2>1, MinNat
    <2>3. Min(I) = k
      BY <1>1, <1>3, <2>1, <2>2
    <2>4. SelectInSeq(s, LAMBDA v : v = e) = k
      BY <2>1, <2>3 DEF SelectInSeq
    <2> QED
      BY <1>3, <2>4 DEF RemoveFirst
  <1> QED
    BY <1>2, <1>3

(* Taking out an element that occurs once moves the others up and leaves   *)
(* none.                                                                   *)
LEMMA RemoveOnly ==
  ASSUME NEW S, NEW s \in Seq(S), NEW e,
         \A i, j \in 1 .. Len(s) : s[i] = e /\ s[j] = e => i = j
  PROVE  LET r == RemoveFirst(s, e)
         IN  /\ r \in Seq(S)
             /\ \A i \in 1 .. Len(r) : r[i] # e
             /\ \E k \in Nat : /\ k <= Len(s) => s[k] = e
                               /\ k >= 1
                               /\ Len(r) = IF k <= Len(s) THEN Len(s) - 1 ELSE Len(s)
                               /\ \A i \in 1 .. Len(r) : r[i] = IF i < k THEN s[i] ELSE s[i + 1]
  <1> DEFINE r == RemoveFirst(s, e)
  <1>1. Len(s) \in Nat
    BY SeqFacts
  <1>2. CASE \A i \in 1 .. Len(s) : s[i] # e
    <2>1. r = s
      BY <1>2, RemoveFirstIs
    <2> DEFINE k == Len(s) + 1
    <2>2. /\ k \in Nat /\ (k <= Len(s) => s[k] = e) /\ k >= 1
          /\ Len(r) = (IF k <= Len(s) THEN Len(s) - 1 ELSE Len(s))
          /\ \A i \in 1 .. Len(r) : r[i] = IF i < k THEN s[i] ELSE s[i + 1]
      BY <1>1, <2>1
    <2> HIDE DEF k, r
    <2>3. r \in Seq(S) /\ \A i \in 1 .. Len(r) : r[i] # e
      BY <1>2, <2>1
    <2> QED
      BY <2>2, <2>3 DEF r
  <1>3. ASSUME NEW k \in 1 .. Len(s), s[k] = e
        PROVE  /\ r \in Seq(S)
               /\ \A i \in 1 .. Len(r) : r[i] # e
               /\ k \in Nat /\ k <= Len(s) /\ k >= 1
               /\ Len(r) = Len(s) - 1
               /\ \A i \in 1 .. Len(r) : r[i] = IF i < k THEN s[i] ELSE s[i + 1]
    <2>1. \A i \in 1 .. Len(s) : i < k => s[i] # e
      BY <1>1, <1>3
    <2>2. r = RemoveAt(s, k)
      BY <1>3, <2>1, RemoveFirstIs
    <2> HIDE DEF r
    <2>3. /\ r \in Seq(S) /\ Len(r) = Len(s) - 1
          /\ \A i \in 1 .. Len(s) - 1 : r[i] = IF i < k THEN s[i] ELSE s[i + 1]
      BY <2>2, RemoveAtIs
    <2>4. ASSUME NEW i \in 1 .. Len(s) - 1 PROVE r[i] # e
      BY <1>1, <1>3, <2>3, <2>4
    <2> QED
      BY <1>1, <2>3, <2>4
  <1> HIDE DEF r
  <1>4. CASE \E k \in 1 .. Len(s) : s[k] = e
    <2>1. PICK k \in 1 .. Len(s) : s[k] = e
      BY <1>4
    <2>2. /\ r \in Seq(S)
          /\ \A i \in 1 .. Len(r) : r[i] # e
          /\ k \in Nat /\ k <= Len(s) /\ k >= 1
          /\ Len(r) = Len(s) - 1
          /\ \A i \in 1 .. Len(r) : r[i] = IF i < k THEN s[i] ELSE s[i + 1]
      BY <1>3, <2>1
    <2>3. \E x \in Nat : /\ x <= Len(s) => s[x] = e
                         /\ x >= 1
                         /\ Len(r) = IF x <= Len(s) THEN Len(s) - 1 ELSE Len(s)
                         /\ \A i \in 1 .. Len(r) : r[i] = IF i < x THEN s[i] ELSE s[i + 1]
      BY <2>1, <2>2
    <2> QED
      BY <2>2, <2>3 DEF r
  <1> QED
    BY <1>2, <1>4

(* Taking out the element at the head leaves the tail.                     *)
LEMMA RemoveHead ==
  ASSUME NEW S, NEW s \in Seq(S), s # <<>>
  PROVE  RemoveFirst(s, Head(s)) = Tail(s)
  <1>1. Len(s) \in Nat /\ Len(s) >= 1 /\ Head(s) = s[1]
    BY EmptySeq
  <1>2. RemoveFirst(s, s[1]) = RemoveAt(s, 1)
    <2>1. 1 \in 1 .. Len(s) /\ \A i \in 1 .. Len(s) : ~ (i < 1)
      BY <1>1
    <2> QED
      BY <2>1, RemoveFirstIs
  <1>3. /\ RemoveAt(s, 1) \in Seq(S) /\ Len(RemoveAt(s, 1)) = Len(s) - 1
        /\ \A i \in 1 .. Len(s) - 1 : RemoveAt(s, 1)[i] = s[i + 1]
    <2>1. 1 \in 1 .. Len(s)
      BY <1>1
    <2>2. /\ RemoveAt(s, 1) \in Seq(S) /\ Len(RemoveAt(s, 1)) = Len(s) - 1
          /\ \A i \in 1 .. Len(s) - 1 : RemoveAt(s, 1)[i] = IF i < 1 THEN s[i] ELSE s[i + 1]
      BY <2>1, RemoveAtIs
    <2> QED
      BY <1>1, <2>2
  <1>4. /\ Tail(s) \in Seq(S) /\ Len(Tail(s)) = Len(s) - 1
        /\ \A i \in 1 .. Len(Tail(s)) : Tail(s)[i] = s[i + 1]
    BY HeadTailProperties
  <1>5. RemoveAt(s, 1) = Tail(s)
    BY <1>3, <1>4, SeqEqual
  <1> QED
    BY <1>1, <1>2, <1>5

-----------------------------------------------------------------------------
(* Folds, whose definition is a recursive function over sets of places.    *)

(* Induction up to a number, for a set of numbers.                         *)
LEMMA UpTo ==
  ASSUME NEW n \in Nat, NEW T, 0 \in T, \A i \in 0 .. n : i < n /\ i \in T => i + 1 \in T
  PROVE  0 .. n \subseteq T
  <1> DEFINE bad == {k \in 0 .. n : k \notin T}
             m == Min(bad)
  <1> SUFFICES ASSUME bad # {} PROVE FALSE
    OBVIOUS
  <1>1. m \in bad /\ \A y \in bad : m <= y
    BY MinNat, bad \in SUBSET Nat
  <1> HIDE DEF m
  <1>2. m \in 0 .. n /\ m \notin T /\ m # 0
    BY <1>1
  <1>3. m - 1 \in 0 .. n /\ m - 1 < n /\ (m - 1) + 1 = m /\ ~ (m <= m - 1)
    BY <1>2
  <1>4. m - 1 \in T
    BY <1>1, <1>3
  <1> QED
    BY <1>2, <1>3, <1>4

(* The greatest number of a set of places, and those before it.            *)
LEMMA MaxOfPlaces ==
  ASSUME NEW k \in Nat, NEW s \in SUBSET (1 .. k), s # {}
  PROVE  /\ Max(s) \in s /\ Max(s) \in 1 .. k /\ \A y \in s : y <= Max(s)
         /\ s \ {Max(s)} \in SUBSET (1 .. k)
  <1>1. s \in SUBSET Nat /\ \A x \in s : x <= k
    OBVIOUS
  <1>2. Max(s) \in s /\ \A y \in s : y <= Max(s)
    BY <1>1, MaxNat
  <1> QED
    BY <1>2

LEMMA MaxOfFirst ==
  ASSUME NEW n \in Nat, NEW k \in 1 .. n
  PROVE  Max(1 .. k) = k /\ (1 .. k) \ {k} = 1 .. k - 1
  <1> DEFINE m == Max(1 .. k)
  <1>1. k \in Nat /\ k \in 1 .. k /\ 1 .. k # {}
    OBVIOUS
  <1>2. m \in 1 .. k /\ \A y \in 1 .. k : y <= m
    BY <1>1, MaxOfPlaces
  <1> HIDE DEF m
  <1>3. m = k
    BY <1>1, <1>2
  <1>4. (1 .. k) \ {k} = 1 .. k - 1
    BY <1>1
  <1> QED
    BY <1>3, <1>4 DEF m

(* What such a function is.                                                *)
IsTable(it, n, A, base, step) ==
  /\ it \in [SUBSET (1 .. n) -> A]
  /\ \A s \in SUBSET (1 .. n) :
       it[s] = IF s = {} THEN base ELSE step[<<Max(s), it[s \ {Max(s)}]>>]

(* A recursive function over the sets of the first n places exists.        *)
LEMMA FoldTable ==
  ASSUME NEW n \in Nat, NEW A, NEW base \in A, NEW step \in [(1 .. n) \X A -> A]
  PROVE  \E it : IsTable(it, n, A, base, step)
  <1> DEFINE Holds(k, h) ==
               /\ h \in [SUBSET (1 .. k) -> A]
               /\ \A s \in SUBSET (1 .. k) :
                    h[s] = IF s = {} THEN base ELSE step[<<Max(s), h[s \ {Max(s)}]>>]
             T == {k \in 0 .. n : \E h : Holds(k, h)}
  <1>1. 0 \in T
    <2>1. SUBSET (1 .. 0) = {{}}
      OBVIOUS
    <2>2. Holds(0, [s \in {{}} |-> base])
      BY <2>1
    <2> HIDE DEF Holds
    <2> QED
      BY <2>2
  <1>2. ASSUME NEW k \in 0 .. n, k < n, k \in T PROVE k + 1 \in T
    <2>1. PICK h : Holds(k, h)
      BY <1>2
    <2> DEFINE t == [s \in SUBSET (1 .. k + 1) |->
                       IF k + 1 \in s THEN step[<<k + 1, h[s \ {k + 1}]>>] ELSE h[s]]
    <2>2. ASSUME NEW s \in SUBSET (1 .. k + 1), k + 1 \in s
          PROVE  Max(s) = k + 1 /\ s \ {k + 1} \in SUBSET (1 .. k)
      <3>1. k + 1 \in Nat
        OBVIOUS
      <3>2. Max(s) \in 1 .. k + 1 /\ k + 1 <= Max(s)
        BY <2>2, <3>1, MaxOfPlaces
      <3>3. Max(s) = k + 1
        BY <3>1, <3>2
      <3>4. s \ {k + 1} \in SUBSET (1 .. k)
        OBVIOUS
      <3> QED
        BY <3>3, <3>4
    <2>3. ASSUME NEW s \in SUBSET (1 .. k + 1), k + 1 \notin s
          PROVE  s \in SUBSET (1 .. k)
      BY <2>3
    <2>4. ASSUME NEW s \in SUBSET (1 .. k), s # {}
          PROVE  s \ {Max(s)} \in SUBSET (1 .. k) /\ k + 1 \notin s
      <3>1. k \in Nat
        OBVIOUS
      <3> QED
        BY <2>4, <3>1, MaxOfPlaces
    <2>5. t \in [SUBSET (1 .. k + 1) -> A]
      <3> SUFFICES ASSUME NEW s \in SUBSET (1 .. k + 1) PROVE t[s] \in A
        OBVIOUS
      <3>1. CASE k + 1 \in s
        <4>1. k + 1 \in 1 .. n /\ h[s \ {k + 1}] \in A
          BY <1>2, <2>1, <2>2, <3>1
        <4> QED
          BY <3>1, <4>1
      <3>2. CASE k + 1 \notin s
        BY <2>1, <2>3, <3>2
      <3> QED
        BY <3>1, <3>2
    <2>6. ASSUME NEW s \in SUBSET (1 .. k + 1)
          PROVE  t[s] = IF s = {} THEN base ELSE step[<<Max(s), t[s \ {Max(s)}]>>]
      <3>1. CASE k + 1 \in s
        <4>1. t[s] = step[<<k + 1, h[s \ {k + 1}]>>] /\ s # {}
          BY <3>1
        <4>2. t[s \ {k + 1}] = h[s \ {k + 1}]
          BY <2>2, <3>1
        <4> QED
          BY <2>2, <3>1, <4>1, <4>2
      <3>2. CASE k + 1 \notin s
        <4>1. t[s] = h[s] /\ s \in SUBSET (1 .. k)
          BY <2>3, <3>2
        <4>2. CASE s # {}
          <5>1. t[s \ {Max(s)}] = h[s \ {Max(s)}]
            BY <2>3, <2>4, <3>2, <4>1, <4>2
          <5> HIDE DEF t
          <5> QED
            BY <2>1, <4>1, <4>2, <5>1
        <4> HIDE DEF t
        <4>3. CASE s = {}
          BY <2>1, <4>1, <4>3
        <4> QED
          BY <4>2, <4>3
      <3> QED
        BY <3>1, <3>2
    <2> HIDE DEF t
    <2>7. Holds(k + 1, t)
      BY <2>5, <2>6
    <2> HIDE DEF Holds
    <2>8. k + 1 \in 0 .. n
      BY <1>2
    <2> QED
      BY <2>7, <2>8
  <1>3. n \in T
    <2> HIDE DEF T
    <2>1. 0 .. n \subseteq T
      BY <1>1, <1>2, UpTo
    <2> QED
      BY <2>1
  <1> QED
    BY <1>3 DEF IsTable

(* What the recursive function leaves after each place.                    *)
IsRun(g, chosen, n, A, base, step) ==
  /\ g \in [0 .. n -> A] /\ g[0] = base /\ g[n] = chosen[1 .. n]
  /\ \A i \in 1 .. n : g[i] = step[<<i, g[i - 1]>>]

(* What a fold chooses is such a function as far as its values are in `A'. *)
Follows(chosen, n, A, base, step) ==
  /\ chosen[{}] = base
  /\ \A s \in SUBSET (1 .. n) :
       s # {} /\ chosen[s \ {Max(s)}] \in A
         => chosen[s] = step[<<Max(s), chosen[s \ {Max(s)}]>>]

(* So they all are, and one place comes after the other.                   *)
LEMMA FoldRun ==
  ASSUME NEW n \in Nat, NEW A, NEW base \in A, NEW step \in [(1 .. n) \X A -> A],
         NEW chosen, Follows(chosen, n, A, base, step)
  PROVE  \E g : IsRun(g, chosen, n, A, base, step)
  <1> DEFINE g == [i \in 0 .. n |-> chosen[1 .. i]]
             T == {i \in 0 .. n : g[i] \in A}
  <1>1. g[0] = base
    <2>1. 1 .. 0 = {} /\ 0 \in 0 .. n
      OBVIOUS
    <2> QED
      BY <2>1 DEF Follows
  <1>2. ASSUME NEW i \in 1 .. n, g[i - 1] \in A
        PROVE  g[i] = step[<<i, g[i - 1]>>] /\ g[i] \in A
    <2>1. Max(1 .. i) = i /\ (1 .. i) \ {i} = 1 .. i - 1
      BY MaxOfFirst
    <2>2. 1 .. i \in SUBSET (1 .. n)
      OBVIOUS
    <2>3. i \in 1 .. i
      OBVIOUS
    <2>4. g[i] = chosen[1 .. i] /\ g[i - 1] = chosen[1 .. i - 1]
      OBVIOUS
    <2> HIDE DEF g
    <2>5. g[i] = step[<<i, g[i - 1]>>]
      BY <1>2, <2>1, <2>2, <2>3, <2>4 DEF Follows
    <2> QED
      BY <1>2, <2>5
  <1>3. g[n] = chosen[1 .. n] /\ g = [i \in 0 .. n |-> g[i]]
    OBVIOUS
  <1> HIDE DEF g
  <1>4. 0 \in T
    BY <1>1
  <1>5. ASSUME NEW i \in 0 .. n, i < n, i \in T PROVE i + 1 \in T
    <2>1. i + 1 \in 1 .. n /\ i + 1 \in 0 .. n /\ (i + 1) - 1 = i
      BY <1>5
    <2> QED
      BY <1>2, <1>5, <2>1
  <1>6. 0 .. n \subseteq T
    <2> HIDE DEF T
    <2> QED
      BY <1>4, <1>5, UpTo
  <1>7. \A i \in 0 .. n : g[i] \in A
    BY <1>6
  <1>8. \A i \in 1 .. n : g[i] = step[<<i, g[i - 1]>>]
    <2>1. \A i \in 1 .. n : i - 1 \in 0 .. n
      OBVIOUS
    <2> QED
      BY <1>2, <1>7, <2>1
  <1>9. IsRun(g, chosen, n, A, base, step)
    BY <1>1, <1>3, <1>7, <1>8 DEF IsRun
  <1> QED
    BY <1>9
=============================================================================
