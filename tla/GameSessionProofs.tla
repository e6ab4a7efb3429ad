------------------------- MODULE GameSessionProofs -------------------------
(***************************************************************************)
(* Theorems about GameSession, for every set of enemies and shots and      *)
(* every bound: the game in the view is alive, set up and shown as it is,  *)
(* a game saves its result once, the switches are obeyed, and the list of  *)
(* the best is that of all results, although every game keeps its own.     *)
(***************************************************************************)
EXTENDS GameSession, SequenceLemmas

-----------------------------------------------------------------------------
(* The list of the best.                                                   *)

Sorted(s) == \A i, j \in DOMAIN s : i < j => s[i] >= s[j]

(* Three of them at most.                                                  *)
LEMMA MinThree == ASSUME NEW n \in Nat PROVE Min({3, n}) = IF n < 3 THEN n ELSE 3
  BY MinNat

(* The new result comes after those that are as good.                      *)
LEMMA PlaceSplits ==
  ASSUME NEW s \in Seq(Int), Sorted(s), NEW new \in Int
  PROVE  /\ Place(s, new) \in 1 .. Len(s) + 1
         /\ \A i \in 1 .. Len(s) : IF i < Place(s, new) THEN s[i] >= new ELSE s[i] < new
  <1> DEFINE below == {i \in DOMAIN s : s[i] < new}
             T == below \cup {Len(s) + 1}
  <1>1. Len(s) \in Nat /\ DOMAIN s = 1 .. Len(s) /\ \A i \in 1 .. Len(s) : s[i] \in Int
    OBVIOUS
  <1>2. T \in SUBSET Nat /\ T # {}
    BY <1>1
  <1>3. Place(s, new) \in T /\ \A y \in T : Place(s, new) <= y
    BY <1>2, MinNat DEF Place
  <1>4. Place(s, new) \in 1 .. Len(s) + 1
    BY <1>1, <1>3
  <1>5. ASSUME NEW i \in 1 .. Len(s), i < Place(s, new) PROVE s[i] >= new
    BY <1>1, <1>3, <1>4, <1>5
  <1>6. ASSUME NEW i \in 1 .. Len(s), i >= Place(s, new) PROVE s[i] < new
    <2>1. Place(s, new) \in 1 .. Len(s) /\ s[Place(s, new)] < new
      BY <1>1, <1>3, <1>4, <1>6
    <2>2. s[Place(s, new)] >= s[i]
      BY <1>1, <1>6, <2>1 DEF Sorted
    <2> QED
      BY <1>1, <2>1, <2>2
  <1> QED
    BY <1>1, <1>4, <1>5, <1>6

(* t is the beginning of s with v put in at k, of three elements at most.  *)
Inserted(t, s, k, v) ==
  /\ Len(t) = IF Len(s) < 3 THEN Len(s) + 1 ELSE 3
  /\ \A i \in 1 .. Len(t) : t[i] = IF i < k THEN s[i] ELSE IF i = k THEN v ELSE s[i - 1]

LEMMA BestThreeIs ==
  ASSUME NEW M, M \subseteq Int, NEW s \in Seq(M), Sorted(s), Len(s) <= 3, NEW new \in M
  PROVE  /\ BestThree(s, new) \in Seq(M) /\ Sorted(BestThree(s, new))
         /\ Inserted(BestThree(s, new), s, Place(s, new), new)
  <1> DEFINE k == Place(s, new)
             all == InsertAt(s, k, new)
             t == BestThree(s, new)
  <1>1. s \in Seq(Int) /\ new \in Int /\ Len(s) \in Nat
    BY SeqMonotonic, SeqFacts
  <1>2. k \in 1 .. Len(s) + 1 /\ \A i \in 1 .. Len(s) : IF i < k THEN s[i] >= new ELSE s[i] < new
    BY <1>1, PlaceSplits
  <1>3. /\ all \in Seq(M) /\ Len(all) = Len(s) + 1
        /\ \A i \in 1 .. Len(all) : all[i] = IF i < k THEN s[i] ELSE IF i = k THEN new ELSE s[i - 1]
    <2> HIDE DEF k
    <2>1. /\ all \in Seq(M) /\ Len(all) = Len(s) + 1
          /\ \A i \in 1 .. Len(s) + 1 :
               all[i] = IF i < k THEN s[i] ELSE IF i = k THEN new ELSE s[i - 1]
      BY <1>2, InsertAtIs
    <2> HIDE DEF all
    <2> QED
      BY <2>1
  <1>4. Min({3, Len(s) + 1}) = IF Len(s) < 3 THEN Len(s) + 1 ELSE 3
    BY <1>1, MinThree
  <1> HIDE DEF k, all
  <1>5. /\ t \in Seq(M) /\ Len(t) = IF Len(s) < 3 THEN Len(s) + 1 ELSE 3
        /\ \A i \in 1 .. Len(t) : t[i] = all[i]
    <2> DEFINE n == IF Len(s) < 3 THEN Len(s) + 1 ELSE 3
    <2>1. t = SubSeq(all, 1, n)
      BY <1>4 DEF BestThree, all, k
    <2>2. n \in Nat /\ n > 0 /\ \A i \in 1 .. n : all[i] \in M
      BY <1>1, <1>3
    <2> HIDE DEF n
    <2>3. SubSeq(all, 1, n) \in Seq(M) /\ Len(SubSeq(all, 1, n)) = n
          /\ \A i \in 1 .. n : SubSeq(all, 1, n)[i] = all[i]
      BY <2>2, SubSeqProperties
    <2> QED
      BY <2>1, <2>3 DEF n
  <1>6. \A i \in 1 .. Len(t) : t[i] = IF i < k THEN s[i] ELSE IF i = k THEN new ELSE s[i - 1]
    BY <1>1, <1>3, <1>5
  <1>7. Sorted(t)
    <2> HIDE DEF t
    <2>1. DOMAIN t = 1 .. Len(t) /\ DOMAIN s = 1 .. Len(s)
      BY <1>5
    <2> SUFFICES ASSUME NEW i \in 1 .. Len(t), NEW j \in 1 .. Len(t), i < j PROVE t[i] >= t[j]
      BY <2>1 DEF Sorted
    <2>2. \A x, y \in 1 .. Len(s) : x < y => s[x] >= s[y]
      BY <2>1 DEF Sorted
    <2>3. \A x \in 1 .. Len(s) : s[x] \in Int
      BY <1>1
    <2>4. CASE i < k /\ j < k
      BY SMTT(30), <1>1, <1>2, <1>5, <1>6, <2>2, <2>4
    <2>5. k <= j => IF j = k THEN t[j] = new
                    ELSE j - 1 \in 1 .. Len(s) /\ t[j] = s[j - 1] /\ s[j - 1] < new
      <3>1. k <= j /\ j # k => j - 1 \in 1 .. Len(s) /\ j - 1 >= k
        BY <1>1, <1>2, <1>5
      <3> QED
        BY <1>1, <1>2, <1>6, <3>1
    <2>6. CASE i < k /\ k <= j
      <3>1. t[i] = s[i] /\ s[i] >= new /\ s[i] \in Int
        BY <1>1, <1>2, <1>5, <1>6, <2>3, <2>6
      <3> QED
        BY <1>1, <2>3, <2>5, <2>6, <3>1
    <2>7. CASE i = k
      BY <1>1, <1>2, <1>6, <2>3, <2>5, <2>7
    <2>8. CASE k < i
      <3>1. i - 1 \in 1 .. Len(s) /\ i - 1 < j - 1 /\ k <= j /\ j # k
        BY <1>1, <1>2, <1>5, <2>8
      <3>2. t[i] = s[i - 1]
        BY <1>2, <1>6, <2>8
      <3>3. j - 1 \in 1 .. Len(s) /\ t[j] = s[j - 1]
        BY <2>5, <3>1
      <3> QED
        BY <2>2, <3>1, <3>2, <3>3
    <2> QED
      BY <1>2, <1>5, <2>4, <2>6, <2>7, <2>8
  <1> QED
    BY <1>5, <1>6, <1>7 DEF k, t, Inserted

-----------------------------------------------------------------------------
(* The list of the best against all the results.                           *)

(* How many of the results r are better than v, or as good.                *)
Above(r, v) == Cardinality({j \in DOMAIN r : r[j] > v})
Least(r, v) == Cardinality({j \in DOMAIN r : r[j] >= v})

(* A result counts once more, those before it as often as they did.        *)
LEMMA OneMore ==
  ASSUME NEW r \in Seq(Nat), NEW x \in Nat, NEW v \in Nat
  PROVE  /\ Above(r, v) \in Nat /\ Least(r, v) \in Nat
         /\ Above(Append(r, x), v) = IF x > v THEN Above(r, v) + 1 ELSE Above(r, v)
         /\ Least(Append(r, x), v) = IF x >= v THEN Least(r, v) + 1 ELSE Least(r, v)
  <1> DEFINE q == Append(r, x)
             n == Len(r)
             A == {j \in DOMAIN r : r[j] > v}
             B == {j \in DOMAIN r : r[j] >= v}
             Aq == {j \in DOMAIN q : q[j] > v}
             Bq == {j \in DOMAIN q : q[j] >= v}
  <1>1. /\ n \in Nat /\ DOMAIN r = 1 .. n /\ DOMAIN q = (1 .. n) \cup {n + 1}
        /\ q[n + 1] = x /\ \A i \in 1 .. n : q[i] = r[i] /\ i # n + 1
    BY AppendProperties, SeqFacts
  <1>2. /\ IsFiniteSet(A) /\ IsFiniteSet(B) /\ n + 1 \notin A /\ n + 1 \notin B
        /\ Cardinality(A) \in Nat /\ Cardinality(B) \in Nat
    <2>1. A \in SUBSET (1 .. n) /\ B \in SUBSET (1 .. n)
      BY <1>1
    <2>2. IsFiniteSet(1 .. n)
      BY <1>1, FS_Interval
    <2>3. IsFiniteSet(A) /\ IsFiniteSet(B)
      BY <2>1, <2>2, FS_Subset
    <2> QED
      BY <1>1, <2>3, FS_CardinalityType
  <1>3. Aq = IF x > v THEN A \cup {n + 1} ELSE A
    BY <1>1
  <1>4. Bq = IF x >= v THEN B \cup {n + 1} ELSE B
    BY <1>1
  <1> HIDE DEF q, A, B, Aq, Bq
  <1>5. Cardinality(Aq) = IF x > v THEN Cardinality(A) + 1 ELSE Cardinality(A)
    BY <1>2, <1>3, FS_AddElement
  <1>6. Cardinality(Bq) = IF x >= v THEN Cardinality(B) + 1 ELSE Cardinality(B)
    BY <1>2, <1>4, FS_AddElement
  <1> QED
    BY <1>2, <1>5, <1>6 DEF Above, Least, q, A, B, Aq, Bq

(* A greater value is passed by fewer results, a smaller one reached by    *)
(* more, and no value by more than there are.                              *)
LEMMA CountsOrdered ==
  ASSUME NEW r \in Seq(Nat), NEW v \in Nat, NEW w \in Nat, v <= w
  PROVE  Above(r, w) <= Above(r, v) /\ Least(r, w) <= Least(r, v) /\ Above(r, v) <= Len(r)
  <1>1. Len(r) \in Nat /\ DOMAIN r = 1 .. Len(r) /\ \A j \in 1 .. Len(r) : r[j] \in Nat
    BY SeqFacts
  <1>2. IsFiniteSet(1 .. Len(r)) /\ Cardinality(1 .. Len(r)) = Len(r)
    BY <1>1, FS_Interval
  <1>3. /\ {j \in DOMAIN r : r[j] > w} \in SUBSET {j \in DOMAIN r : r[j] > v}
        /\ {j \in DOMAIN r : r[j] >= w} \in SUBSET {j \in DOMAIN r : r[j] >= v}
        /\ {j \in DOMAIN r : r[j] > v} \in SUBSET (1 .. Len(r))
        /\ {j \in DOMAIN r : r[j] >= v} \in SUBSET (1 .. Len(r))
    BY <1>1
  <1>4. IsFiniteSet({j \in DOMAIN r : r[j] > v}) /\ IsFiniteSet({j \in DOMAIN r : r[j] >= v})
    BY <1>2, <1>3, FS_Subset
  <1> QED
    BY <1>2, <1>3, <1>4, FS_Subset DEF Above, Least

(* The best three of the results r so far are the list s.                  *)
Best(s, r) ==
  /\ Len(s) = IF Len(r) < 3 THEN Len(r) ELSE 3
  /\ \A i \in DOMAIN s : Above(r, s[i]) < i /\ Least(r, s[i]) >= i

(* saveScores keeps the best three when one more result is in.             *)
LEMMA BestThreeKeepsBest ==
  ASSUME NEW M, M \subseteq Nat, NEW s \in Seq(M), NEW r \in Seq(M), NEW x \in M,
         Sorted(s), Best(s, r)
  PROVE  Best(BestThree(s, x), Append(r, x))
  <1> DEFINE k == Place(s, x)
             t == BestThree(s, x)
             q == Append(r, x)
  <1>1. /\ r \in Seq(Nat) /\ s \in Seq(Int) /\ s \in Seq(Nat) /\ x \in Nat /\ x \in Int
        /\ Len(s) \in Nat /\ Len(r) \in Nat
        /\ Len(s) = IF Len(r) < 3 THEN Len(r) ELSE 3
        /\ DOMAIN s = 1 .. Len(s) /\ \A i \in 1 .. Len(s) : s[i] \in Nat
    <2>1. r \in Seq(Nat) /\ s \in Seq(Nat)
      BY SeqMonotonic
    <2>2. s \in Seq(Int)
      BY <2>1, SeqMonotonic, Nat \subseteq Int
    <2>3. /\ Len(s) \in Nat /\ Len(r) \in Nat
          /\ DOMAIN s = 1 .. Len(s) /\ \A i \in 1 .. Len(s) : s[i] \in Nat
      BY <2>1, SeqFacts
    <2> QED
      BY <2>1, <2>2, <2>3 DEF Best
  <1>2. k \in 1 .. Len(s) + 1 /\ \A i \in 1 .. Len(s) : IF i < k THEN s[i] >= x ELSE s[i] < x
    BY <1>1, PlaceSplits
  <1>3. /\ t \in Seq(M) /\ Len(t) = IF Len(s) < 3 THEN Len(s) + 1 ELSE 3
        /\ \A i \in 1 .. Len(t) : t[i] = IF i < k THEN s[i] ELSE IF i = k THEN x ELSE s[i - 1]
    <2>1. Len(s) <= 3 /\ M \subseteq Int
      BY <1>1
    <2>2. t \in Seq(M) /\ Inserted(t, s, k, x)
      BY <2>1, BestThreeIs
    <2> HIDE DEF t, k
    <2> QED
      BY <2>2 DEF Inserted
  <1>4. q \in Seq(M) /\ Len(q) = Len(r) + 1
    BY AppendProperties
  <1>5. \A i \in 1 .. Len(s) : Above(r, s[i]) < i /\ Least(r, s[i]) >= i
    BY <1>1 DEF Best
  <1>6. \A v \in Nat : /\ Above(r, v) \in Nat /\ Least(r, v) \in Nat
                       /\ Above(q, v) \in Nat /\ Least(q, v) \in Nat
                       /\ Above(q, v) <= Above(r, v) + 1 /\ Least(q, v) >= Least(r, v)
                       /\ x <= v => Above(q, v) = Above(r, v)
                       /\ x >= v => Least(q, v) = Least(r, v) + 1
    <2> SUFFICES ASSUME NEW v \in Nat
                 PROVE  /\ Above(r, v) \in Nat /\ Least(r, v) \in Nat
                        /\ Above(q, v) \in Nat /\ Least(q, v) \in Nat
                        /\ Above(q, v) <= Above(r, v) + 1 /\ Least(q, v) >= Least(r, v)
                        /\ x <= v => Above(q, v) = Above(r, v)
                        /\ x >= v => Least(q, v) = Least(r, v) + 1
      OBVIOUS
    <2>1. /\ Above(r, v) \in Nat /\ Least(r, v) \in Nat
          /\ Above(q, v) = IF x > v THEN Above(r, v) + 1 ELSE Above(r, v)
          /\ Least(q, v) = IF x >= v THEN Least(r, v) + 1 ELSE Least(r, v)
      BY <1>1, OneMore
    <2> HIDE DEF q
    <2>2. CASE x > v
      BY <1>1, <2>1, <2>2
    <2>3. CASE x = v
      BY <1>1, <2>1, <2>3
    <2>4. CASE x < v
      BY <1>1, <2>1, <2>4
    <2> QED
      BY <1>1, <2>2, <2>3, <2>4
  <1>7. \A v, w \in Nat : v <= w => /\ Above(r, w) <= Above(r, v)
                                    /\ Least(r, w) <= Least(r, v)
                                    /\ Above(r, v) <= Len(r)
    BY <1>1, CountsOrdered
  <1> HIDE DEF k, t, q
  <1>8. ASSUME NEW i \in 1 .. Len(t) PROVE Above(q, t[i]) < i /\ Least(q, t[i]) >= i
    <2>0. i \in Nat /\ k \in Nat /\ i > 0 /\ k > 0
      BY <1>1, <1>2, <1>3
    <2>1. CASE i < k
      <3>1. i \in 1 .. Len(s) /\ t[i] = s[i] /\ x <= s[i] /\ s[i] \in Nat
        BY <1>1, <1>2, <1>3, <2>1
      <3>2. /\ Above(r, s[i]) \in Nat /\ Above(q, s[i]) = Above(r, s[i])
            /\ Least(r, s[i]) \in Nat /\ Least(q, s[i]) >= Least(r, s[i])
            /\ Least(q, s[i]) \in Nat
        BY <1>6, <3>1
      <3>3. Above(r, s[i]) < i /\ Least(r, s[i]) >= i
        BY <1>5, <3>1
      <3>4. Above(q, s[i]) < i /\ Least(q, s[i]) >= i
        BY <2>0, <3>2, <3>3
      <3> QED
        BY <3>1, <3>4
    <2>2. CASE i = k
      <3>1. /\ Above(r, x) \in Nat /\ Above(q, x) = Above(r, x) /\ Least(r, x) \in Nat
            /\ Least(q, x) = Least(r, x) + 1
        BY <1>1, <1>6
      <3>2. Above(r, x) < i
        <4>1. CASE k \in 1 .. Len(s)
          <5>1. s[k] \in Nat /\ s[k] <= x /\ Above(r, s[k]) < k
            BY <1>1, <1>2, <1>5, <4>1
          <5>2. Above(r, s[k]) \in Nat /\ Above(r, x) <= Above(r, s[k])
            BY <1>1, <1>6, <1>7, <5>1
          <5> QED
            BY <2>0, <2>2, <3>1, <5>1, <5>2
        <4>2. CASE k = Len(s) + 1
          <5>1. Len(s) = Len(r)
            BY <1>1, <1>3, <2>2, <4>2
          <5>2. x <= x
            BY <1>1
          <5>3. Above(r, x) <= Len(r)
            BY <1>1, <1>7, <5>2
          <5> QED
            BY <1>1, <2>0, <2>2, <3>1, <4>2, <5>1, <5>3
        <4> QED
          BY SMTT(30), <1>1, <1>2, <4>1, <4>2
      <3>3. Least(r, x) >= i - 1
        <4>1. CASE k = 1
          BY <2>2, <3>1, <4>1
        <4>2. CASE k # 1
          <5>1. k - 1 \in 1 .. Len(s) /\ x <= s[k - 1] /\ s[k - 1] \in Nat
            BY SMTT(30), <1>1, <1>2, <4>2
          <5>2. Least(r, s[k - 1]) >= k - 1
            BY <1>5, <5>1
          <5>3. Least(r, s[k - 1]) \in Nat /\ Least(r, s[k - 1]) <= Least(r, x)
            BY <1>1, <1>6, <1>7, <5>1
          <5> QED
            BY <2>0, <2>2, <3>1, <5>2, <5>3
        <4> QED
          BY <4>1, <4>2
      <3>4. Above(q, x) < i /\ Least(q, x) >= i
        BY <2>0, <3>1, <3>2, <3>3
      <3> QED
        BY <1>3, <2>2, <3>4
    <2>3. CASE i > k
      <3>1. i - 1 \in 1 .. Len(s) /\ t[i] = s[i - 1] /\ s[i - 1] <= x /\ s[i - 1] \in Nat
        <4>1. i - 1 \in 1 .. Len(s) /\ ~ (i - 1 < k) /\ ~ (i < k) /\ i # k
          BY <1>1, <1>3, <2>0, <2>3
        <4>2. t[i] = s[i - 1]
          BY <1>3, <4>1
        <4>3. s[i - 1] < x /\ s[i - 1] \in Nat
          BY <1>1, <1>2, <4>1
        <4> QED
          BY <1>1, <4>1, <4>2, <4>3
      <3>2. Above(r, s[i - 1]) < i - 1 /\ Least(r, s[i - 1]) >= i - 1
        BY <1>5, <3>1
      <3>3. /\ Above(r, s[i - 1]) \in Nat /\ Above(q, s[i - 1]) \in Nat
            /\ Above(q, s[i - 1]) <= Above(r, s[i - 1]) + 1
            /\ Least(r, s[i - 1]) \in Nat /\ Least(q, s[i - 1]) = Least(r, s[i - 1]) + 1
        BY <1>1, <1>6, <3>1
      <3>4. Above(q, s[i - 1]) < i /\ Least(q, s[i - 1]) >= i
        BY <2>0, <3>2, <3>3
      <3> QED
        BY <3>1, <3>4
    <2> QED
      BY <1>2, <2>1, <2>2, <2>3
  <1>9. Len(t) = IF Len(q) < 3 THEN Len(q) ELSE 3
    BY <1>1, <1>3, <1>4
  <1>10. DOMAIN t = 1 .. Len(t)
    BY <1>3, SeqFacts
  <1> QED
    BY <1>8, <1>9, <1>10 DEF Best, t, q

-----------------------------------------------------------------------------
(* The invariant: what the menus keep of a game, and what a game keeps of  *)
(* the results.                                                            *)

GameType == [configured : BOOLEAN, lives : Int, hearts : 1 .. 3, score : 0 .. MaxScore,
             plane : BOOLEAN, node : BOOLEAN, own : Settings, high : Seq(0 .. MaxScore),
             saves : Nat, revived : BOOLEAN]

(* The game is in the view, or a pause or its options lead back to it.     *)
Resumable ==
  shown \in {"game", "pause"} \/ (shown \in {"options", "best"} /\ back = "pause")

(* There is a game, on or over.                                            *)
InGame ==
  Resumable \/ shown = "over" \/ (shown \in {"options", "best"} /\ back = "over")

Alive(g) ==
  /\ g.configured /\ g.lives >= 1 /\ g.saves = 0
  /\ g.hearts = IF g.lives > 3 THEN 3 ELSE g.lives

(* A game that has saved is out of lives, but for a power-up; its copy of  *)
(* the best is the one that was saved last.                                *)
Kept(g) ==
  /\ g.saves > 0 => g.lives <= 0 \/ g.revived
  /\ g.saves > 1 => g.revived
  /\ g.high = scores

(* There is one game at most, and SceneManager holds it.                   *)
OneGame ==
  /\ managed = playing
  /\ InGame <=> playing # 0
  /\ back \in {"menu", "pause", "over"}
  /\ late => shown = "over"

GamesKept ==
  playing # 0 => /\ Kept(game[playing])
                 /\ Resumable => Alive(game[playing])

Ranked == Sorted(scores) /\ Best(scores, results)

GameInv == TypeOK /\ OneGame /\ GamesKept /\ Ranked /\ SettingsObeyed

LEMMA GameInvInit == ASSUME Init PROVE GameInv
  <1> USE GameAssumption
  <1>1. TypeOK
    <2>1. DOMAIN game = {playing, managed} \ {0}
      BY DEF Init
    <2>2. /\ shown \in Scenes /\ back \in Scenes \ {"game"}
          /\ opt \in Settings /\ settings \in Settings
      BY DEF Init, Scenes, Settings
    <2>3. /\ last \in 0 .. MaxGames /\ playing \in 0 .. last /\ managed \in 0 .. last
          /\ late \in BOOLEAN /\ gone = {}
      <3>1. last = 0 /\ playing = 0 /\ managed = 0 /\ late = FALSE /\ gone = {}
        BY DEF Init
      <3>2. 0 \in 0 .. MaxGames /\ 0 \in 0 .. 0
        OBVIOUS
      <3> QED
        BY <3>1, <3>2
    <2>4. DOMAIN game = {} /\ scores \in Seq(0 .. MaxScore) /\ results \in Seq(0 .. MaxScore)
      BY DEF Init
    <2> QED
      BY <2>1, <2>2, <2>3, <2>4 DEF TypeOK
  <1>2. OneGame /\ GamesKept /\ SettingsObeyed
    BY DEF Init, OneGame, GamesKept, InGame, Resumable, SettingsObeyed
  <1>3. Ranked
    BY DEF Init, Ranked, Sorted, Best
  <1> QED
    BY <1>1, <1>2, <1>3 DEF GameInv

(* The game in the view or behind the menus.                               *)
LEMMA ThePlayed ==
  ASSUME GameInv, playing # 0
  PROVE  /\ DOMAIN game = {playing} /\ game[playing] \in GameType
         /\ Kept(game[playing]) /\ (Resumable => Alive(game[playing]))
  BY DEF GameInv, TypeOK, GameType, OneGame, GamesKept

(* A scene that has moved to the view obeys the switches.                  *)
LEMMA Moved ==
  ASSUME GameInv, NEW scene \in GameType, NEW manager \in Nat,
         manager = 0 \/ scene.configured
  PROVE  LET g == DidMove(scene, manager)
         IN  /\ g \in GameType /\ g.configured /\ g.own = settings
             /\ settings.music => g.node
             /\ g.lives = scene.lives /\ g.hearts = scene.hearts /\ g.saves = scene.saves
             /\ g.high = scene.high /\ g.revived = scene.revived
  BY ZenonT(60) DEF GameInv, TypeOK, GameType, DidMove, Settings

(* A game is put in the view, alone.                                       *)
LEMMA Presented ==
  ASSUME GameInv, Touch, NEW g \in 1 .. MaxGames, NEW scene \in GameType,
         NEW manager \in {0, g}, manager = 0 \/ scene.configured,
         Alive([scene EXCEPT !.configured = TRUE]), Kept(scene), Present(g, scene, manager),
         last' \in 0 .. MaxGames, g <= last'
  PROVE  GameInv'
  <1> USE GameAssumption DEF nodes
  <1> DEFINE moved == DidMove(scene, manager)
  <1>1. /\ g # 0 /\ g \in Nat /\ playing' = g /\ managed' = g /\ shown' = "game"
        /\ UNCHANGED <<back, opt, nodes, scores, settings, results>>
    BY DEF Present
  <1>2. game' = [x \in {g} |-> moved]
    BY <1>1 DEF Present
  <1>3. /\ moved \in GameType /\ moved.own = settings /\ (settings.music => moved.node)
        /\ Alive(moved) /\ Kept(moved)
    BY <1>1, Moved DEF Alive, Kept, GameType
  <1>4. DOMAIN game' = {g} /\ game'[g] = moved
    BY <1>2
  <1> HIDE DEF moved
  <1>5. TypeOK'
    BY SMTT(30), <1>1, <1>3, <1>4 DEF GameInv, TypeOK, GameType, Scenes
  <1>6. OneGame'
    BY <1>1 DEF GameInv, OneGame, InGame, Resumable, Touch
  <1>7. GamesKept' /\ SettingsObeyed'
    BY <1>1, <1>3, <1>4 DEF GamesKept, Kept, Alive, SettingsObeyed
  <1> QED
    BY <1>1, <1>5, <1>6, <1>7 DEF GameInv, Ranked

LEMMA StartInv == ASSUME GameInv, Touch, Start(0) PROVE GameInv'
  <1> USE GameAssumption
  <1>1. /\ last' = last + 1 /\ last + 1 \in 1 .. MaxGames /\ Present(last + 1, NewScene, 0)
        /\ last' \in 0 .. MaxGames /\ last + 1 <= last'
    BY DEF Start, GameInv, TypeOK
  <1>2. /\ NewScene \in GameType /\ Alive([NewScene EXCEPT !.configured = TRUE])
        /\ Kept(NewScene)
    BY DEF GameInv, TypeOK, NewScene, GameType, Alive, Kept, Settings
  <1> QED
    BY <1>1, <1>2, Presented

LEMMA PlayInv == ASSUME GameInv, Play PROVE GameInv'
  <1>1. managed = 0
    BY DEF GameInv, OneGame, InGame, Resumable, Play
  <1> QED
    BY <1>1, StartInv DEF Play

LEMMA ResumeInv == ASSUME GameInv, Resume PROVE GameInv'
  <1>1. /\ playing # 0 /\ managed = playing /\ Resumable
        /\ last' = last /\ last \in 0 .. MaxGames
        /\ playing \in 1 .. MaxGames /\ playing <= last
    BY GameAssumption DEF GameInv, TypeOK, OneGame, Resume, Resumable
  <1>2. game[playing] \in GameType /\ Kept(game[playing]) /\ Alive(game[playing])
    BY <1>1, ThePlayed
  <1>3. Alive([game[playing] EXCEPT !.configured = TRUE]) /\ game[playing].configured
    BY <1>2 DEF Alive, GameType
  <1> QED
    BY <1>1, <1>2, <1>3, Presented DEF Resume

-----------------------------------------------------------------------------
(* The buttons that leave the games alone.                                 *)

LEMMA MenuInv ==
  ASSUME GameInv,
         \/ Pause \/ Back
         \/ \E scene \in {"options", "best"} : Open(scene)
         \/ \E key \in {"music", "sound"} : Switch(key)
  PROVE  GameInv'
  <1> USE DEF nodes
  <1>1. UNCHANGED <<last, game, playing, nodes, scores, results>> /\ late = FALSE
    BY DEF Pause, Back, Open, Switch, Touch
  <1>2. /\ shown' \in Scenes /\ back' \in Scenes \ {"game"}
        /\ opt' \in Settings /\ settings' \in Settings
    <2>1. CASE \E key \in {"music", "sound"} : Switch(key)
      BY <2>1 DEF GameInv, TypeOK, Settings, Switch
    <2>2. CASE ~ \E key \in {"music", "sound"} : Switch(key)
      BY <2>2 DEF GameInv, TypeOK, Pause, Back, Open, Scenes
    <2> QED
      BY <2>1, <2>2
  <1>3. managed' = managed
    BY DEF GameInv, OneGame, Pause, Back, Open, Switch
  <1>4. TypeOK'
    BY <1>1, <1>2, <1>3 DEF GameInv, TypeOK
  <1>5. /\ back' \in {"menu", "pause", "over"} /\ (InGame' <=> InGame)
        /\ (Resumable' => Resumable)
        /\ shown' # "game"
    BY DEF GameInv, OneGame, InGame, Resumable, Pause, Back, Open, Switch
  <1>6. OneGame'
    BY <1>1, <1>3, <1>5 DEF GameInv, OneGame
  <1>7. GamesKept'
    BY <1>1, <1>5 DEF GameInv, GamesKept, Kept, Alive
  <1>8. SettingsObeyed'
    BY <1>5 DEF SettingsObeyed
  <1>9. Ranked'
    BY <1>1 DEF GameInv, Ranked
  <1> QED
    BY <1>4, <1>6, <1>7, <1>8, <1>9 DEF GameInv

-----------------------------------------------------------------------------
(* The contacts of a step.                                                 *)

LEMMA SetLivesIs ==
  ASSUME NEW g \in GameType, NEW lives \in Int
  PROVE  LET h == SetLives(g, lives)
         IN  /\ h \in GameType /\ h.lives = lives /\ h.hearts = Hearts(g.hearts, lives)
             /\ h.configured = g.configured /\ h.score = g.score /\ h.own = g.own
             /\ h.node = g.node /\ h.high = g.high /\ h.saves = g.saves
             /\ h.revived = g.revived
  BY DEF GameType, SetLives, Hearts

(* Something happens to the game in the view that does not end it.         *)
LEMMA GoesOn ==
  ASSUME GameInv, Step, NEW h \in GameType, game' = [game EXCEPT ![playing] = h],
         Kept(h), Alive(game[playing]) => Alive(h),
         h.own = game[playing].own, h.node = game[playing].node,
         gone' \in SUBSET (Enemies \cup Shots \cup PowerUps \cup {"plane"}),
         UNCHANGED <<shown, back, opt, last, playing, managed, late, scores, settings, results>>
  PROVE  GameInv'
  <1>1. playing # 0 /\ DOMAIN game = {playing}
    BY ThePlayed DEF GameInv, OneGame, InGame, Resumable, Step
  <1>2. DOMAIN game' = {playing} /\ game'[playing] = h
    BY <1>1
  <1>3. TypeOK'
    BY <1>1, <1>2 DEF GameInv, TypeOK, GameType
  <1>4. OneGame'
    BY DEF GameInv, OneGame, InGame, Resumable
  <1>5. GamesKept'
    BY <1>1, <1>2 DEF GameInv, GamesKept, Resumable, Kept, Alive
  <1>6. SettingsObeyed' /\ Ranked'
    BY <1>2 DEF GameInv, SettingsObeyed, Ranked
  <1> QED
    BY <1>3, <1>4, <1>5, <1>6 DEF GameInv

(* The result of a game that has just lost its last life is saved.         *)
LEMMA ResultSaved ==
  ASSUME GameInv, Step, NEW g \in GameType, SaveResult(g), g.lives <= 0,
         g.saves > 0 => g.revived, g.high = scores,
         gone' \in SUBSET (Enemies \cup Shots \cup PowerUps \cup {"plane"}),
         UNCHANGED <<back, opt, last, playing, managed, settings>>
  PROVE  GameInv'
  <1> DEFINE best == BestThree(g.high, g.score)
             h == [g EXCEPT !.high = best, !.saves = @ + 1]
  <1>1. playing # 0 /\ DOMAIN game = {playing}
    BY ThePlayed DEF GameInv, OneGame, InGame, Resumable, Step
  <1>2. /\ g.score \in 0 .. MaxScore /\ scores \in Seq(0 .. MaxScore)
        /\ results \in Seq(0 .. MaxScore) /\ Sorted(scores) /\ Best(scores, results)
        /\ 0 .. MaxScore \subseteq Nat /\ 0 .. MaxScore \subseteq Int
    BY DEF GameInv, TypeOK, GameType, Ranked
  <1>3. Len(scores) <= 3
    BY <1>2, SeqFacts DEF Best
  <1>4. best \in Seq(0 .. MaxScore) /\ Sorted(best)
    BY <1>2, <1>3, BestThreeIs
  <1>5. Best(best, Append(results, g.score))
    BY <1>2, BestThreeKeepsBest
  <1> HIDE DEF best
  <1>6. /\ game' = [game EXCEPT ![playing] = h] /\ scores' = best
        /\ results' = Append(results, g.score) /\ shown' = "over" /\ late' = TRUE
    BY DEF SaveResult, best
  <1>7. /\ h \in GameType /\ h.saves = g.saves + 1 /\ h.lives = g.lives
        /\ h.revived = g.revived /\ h.high = best
    <2>1. g.saves + 1 \in Nat
      BY DEF GameType
    <2>2. h = [configured |-> g.configured, lives |-> g.lives, hearts |-> g.hearts,
               score |-> g.score, plane |-> g.plane, node |-> g.node, own |-> g.own,
               high |-> best, saves |-> g.saves + 1, revived |-> g.revived]
      <3> DEFINE f == [g EXCEPT !.high = best]
      <3>1. g.saves \in Nat
        BY DEF GameType
      <3>2. f = [configured |-> g.configured, lives |-> g.lives, hearts |-> g.hearts,
                 score |-> g.score, plane |-> g.plane, node |-> g.node, own |-> g.own,
                 high |-> best, saves |-> g.saves, revived |-> g.revived]
        BY DEF GameType
      <3>3. h = [f EXCEPT !.saves = g.saves + 1]
        BY <3>1, <3>2
      <3> HIDE DEF f, h
      <3> QED
        BY <3>2, <3>3
    <2> HIDE DEF h
    <2> QED
      BY <1>4, <2>1, <2>2 DEF GameType
  <1>8. DOMAIN game' = {playing} /\ game'[playing] = h
    BY <1>1, <1>6
  <1>9. results' \in Seq(0 .. MaxScore)
    BY <1>2, <1>6, AppendProperties
  <1> HIDE DEF h
  <1>10. TypeOK'
    BY <1>1, <1>4, <1>6, <1>7, <1>8, <1>9 DEF GameInv, TypeOK, GameType, Scenes
  <1>11. OneGame' /\ SettingsObeyed'
    BY <1>1, <1>6 DEF GameInv, OneGame, InGame, Resumable, SettingsObeyed
  <1>12. GamesKept'
    <2>1. Kept(h)'
      BY <1>6, <1>7 DEF Kept, GameType
    <2> QED
      BY <1>6, <1>8, <2>1 DEF GamesKept, Resumable, GameInv, OneGame
  <1>13. Ranked'
    BY <1>4, <1>5, <1>6 DEF Ranked
  <1> QED
    BY <1>10, <1>11, <1>12, <1>13 DEF GameInv

(* A life less, or the last one.                                           *)
LEMMA LifeLost ==
  ASSUME GameInv, Step, NEW g \in GameType, LoseLife(g),
         Kept(g), Alive(game[playing]) => Alive(g),
         g.own = game[playing].own, g.node = game[playing].node,
         gone' \in SUBSET (Enemies \cup Shots \cup PowerUps \cup {"plane"}),
         UNCHANGED <<back, opt, last, playing, managed, settings>>
  PROVE  GameInv'
  <1>1. /\ g.lives \in Int /\ g.saves \in Nat /\ g.lives - 1 \in Int /\ 0 \in Int
        /\ (g.saves > 0 => g.lives <= 0 \/ g.revived) /\ (g.saves > 1 => g.revived)
        /\ g.high = scores
    BY DEF GameType, Kept
  <1>2. CASE g.lives = 1
    <2> DEFINE h == SetLives(g, 0)
    <2>1. h \in GameType /\ h.lives = 0 /\ h.saves = g.saves /\ h.revived = g.revived
          /\ h.high = g.high
      BY <1>1, SetLivesIs
    <2>2. SaveResult(h)
      BY <1>2 DEF LoseLife
    <2> HIDE DEF h
    <2>3. h.lives <= 0 /\ (h.saves > 0 => h.revived) /\ h.high = scores
      BY <1>1, <1>2, <2>1
    <2> QED
      BY <2>1, <2>2, <2>3, ResultSaved
  <1>3. CASE g.lives # 1
    <2> DEFINE h == SetLives(g, g.lives - 1)
    <2>1. /\ h \in GameType /\ h.lives = g.lives - 1 /\ h.hearts = Hearts(g.hearts, g.lives - 1)
          /\ h.configured = g.configured /\ h.own = g.own /\ h.node = g.node
          /\ h.high = g.high /\ h.saves = g.saves /\ h.revived = g.revived
      BY <1>1, SetLivesIs
    <2>2. game' = [game EXCEPT ![playing] = h] /\ UNCHANGED <<shown, late, scores, results>>
      BY <1>3 DEF LoseLife
    <2> HIDE DEF h
    <2>3. Kept(h)
      BY <1>1, <2>1 DEF Kept
    <2>4. ASSUME Alive(g) PROVE Alive(h)
      <3>1. g.lives >= 2 /\ g.hearts = IF g.lives > 3 THEN 3 ELSE g.lives
        BY <1>1, <1>3, <2>4 DEF Alive
      <3>2. h.hearts = IF g.lives - 1 > 3 THEN 3 ELSE g.lives - 1
        BY <1>1, <2>1, <3>1 DEF Hearts
      <3> QED
        BY <1>1, <2>1, <2>4, <3>1, <3>2 DEF Alive
    <2> QED
      BY <2>1, <2>2, <2>3, <2>4, GoesOn
  <1> QED
    BY <1>2, <1>3

LEMMA EnemyMeetsPlayerInv ==
  ASSUME GameInv, NEW e \in Enemies, EnemyMeetsPlayer(e)
  PROVE  GameInv'
  <1> DEFINE g == game[playing]
             without == [g EXCEPT !.plane = FALSE]
  <1>1. playing # 0 /\ Step
    BY DEF GameInv, OneGame, InGame, Resumable, Step, EnemyMeetsPlayer
  <1>2. g \in GameType /\ Kept(g)
    BY <1>1, ThePlayed
  <1>3. /\ gone' \in SUBSET (Enemies \cup Shots \cup PowerUps \cup {"plane"})
        /\ UNCHANGED <<back, opt, last, playing, managed, settings>>
    BY DEF EnemyMeetsPlayer, GameInv, TypeOK
  <1>4. CASE LoseLife(g)
    BY <1>1, <1>2, <1>3, <1>4, LifeLost
  <1>5. CASE LoseLife(without)
    <2>1. /\ without \in GameType /\ without.own = g.own /\ without.node = g.node
          /\ Kept(without) /\ (Alive(g) => Alive(without))
      BY <1>2 DEF GameType, Kept, Alive
    <2> HIDE DEF without
    <2> QED
      BY <1>1, <1>3, <1>5, <2>1, LifeLost
  <1> QED
    BY <1>4, <1>5 DEF EnemyMeetsPlayer

LEMMA PowerUpMeetsPlayerInv ==
  ASSUME GameInv, NEW p \in PowerUps, PowerUpMeetsPlayer(p)
  PROVE  GameInv'
  <1> DEFINE g == game[playing]
             lives == IF p = "green" THEN 3 ELSE g.lives + 1
             more == SetLives(g, lives)
             h == [more EXCEPT !.revived = @ \/ g.lives <= 0]
  <1>1. playing # 0 /\ Step
    BY DEF GameInv, OneGame, InGame, Resumable, Step, PowerUpMeetsPlayer
  <1>2. g \in GameType /\ Kept(g)
    BY <1>1, ThePlayed
  <1>3. /\ gone' \in SUBSET (Enemies \cup Shots \cup PowerUps \cup {"plane"})
        /\ UNCHANGED <<shown, back, opt, last, playing, managed, late, scores, settings, results>>
        /\ game' = [game EXCEPT ![playing] = h]
    BY DEF PowerUpMeetsPlayer, GameInv, TypeOK
  <1>4. g.lives \in Int /\ g.saves \in Nat /\ g.revived \in BOOLEAN /\ lives \in Int
    BY <1>2 DEF GameType
  <1>5. /\ more \in GameType /\ more.lives = lives /\ more.hearts = Hearts(g.hearts, lives)
        /\ more.configured = g.configured /\ more.own = g.own /\ more.node = g.node
        /\ more.high = g.high /\ more.saves = g.saves /\ more.revived = g.revived
    BY <1>2, <1>4, SetLivesIs
  <1> HIDE DEF more
  <1>6. /\ h \in GameType /\ h.lives = lives /\ h.hearts = Hearts(g.hearts, lives)
        /\ h.configured = g.configured /\ h.own = g.own /\ h.node = g.node
        /\ h.high = g.high /\ h.saves = g.saves /\ h.revived = (g.revived \/ g.lives <= 0)
    BY <1>4, <1>5 DEF GameType
  <1> HIDE DEF h
  <1>7. Kept(h)
    BY <1>2, <1>4, <1>6 DEF Kept
  <1>8. ASSUME Alive(g) PROVE Alive(h)
    <2>1. g.lives >= 1 /\ g.hearts = IF g.lives > 3 THEN 3 ELSE g.lives
      BY <1>8 DEF Alive
    <2>2. lives >= 1 /\ Hearts(g.hearts, lives) = IF lives > 3 THEN 3 ELSE lives
      BY <1>4, <2>1 DEF Hearts
    <2> QED
      BY <1>6, <1>8, <2>2 DEF Alive
  <1> QED
    BY <1>1, <1>3, <1>6, <1>7, <1>8, GoesOn

LEMMA EnemyMeetsShotInv ==
  ASSUME GameInv, NEW e \in Enemies, NEW s \in Shots, EnemyMeetsShot(e, s)
  PROVE  GameInv'
  <1> DEFINE g == game[playing]
             h == [g EXCEPT !.score = @ + 5]
  <1>1. playing # 0 /\ Step
    BY DEF GameInv, OneGame, InGame, Resumable, Step, EnemyMeetsShot
  <1>2. g \in GameType /\ Kept(g) /\ DOMAIN game = {playing}
    BY <1>1, ThePlayed
  <1>3. /\ gone' \in SUBSET (Enemies \cup Shots \cup PowerUps \cup {"plane"})
        /\ UNCHANGED <<shown, back, opt, last, playing, managed, late, scores, settings, results>>
        /\ g.score + 5 <= MaxScore
    BY DEF EnemyMeetsShot, GameInv, TypeOK
  <1>4. game' = [game EXCEPT ![playing] = h]
    BY <1>2 DEF EnemyMeetsShot
  <1>5. g.score + 5 \in 0 .. MaxScore
    BY <1>2, <1>3, GameAssumption DEF GameType
  <1>6. h \in GameType /\ h.own = g.own /\ h.node = g.node /\ Kept(h) /\ (Alive(g) => Alive(h))
    BY <1>2, <1>5 DEF GameType, Kept, Alive
  <1> HIDE DEF h
  <1> QED
    BY <1>1, <1>3, <1>4, <1>6, GoesOn

-----------------------------------------------------------------------------
(* Every step.                                                             *)

LEMMA GameInvNext == ASSUME GameInv, [Next]_vars PROVE GameInv'
  <1>1. CASE Play
    BY <1>1, PlayInv
  <1>2. CASE Restart
    BY <1>2, StartInv DEF Restart
  <1>3. CASE Resume
    BY <1>3, ResumeInv
  <1>4. CASE \/ Pause \/ Back
             \/ \E scene \in {"options", "best"} : Open(scene)
             \/ \E key \in {"music", "sound"} : Switch(key)
    BY <1>4, MenuInv
  <1>5. ASSUME NEW e \in Enemies, EnemyMeetsPlayer(e) PROVE GameInv'
    BY <1>5, EnemyMeetsPlayerInv
  <1>6. ASSUME NEW e \in Enemies, NEW s \in Shots, EnemyMeetsShot(e, s) PROVE GameInv'
    BY <1>6, EnemyMeetsShotInv
  <1>7. ASSUME NEW p \in PowerUps, PowerUpMeetsPlayer(p) PROVE GameInv'
    BY <1>7, PowerUpMeetsPlayerInv
  <1>8. CASE StepEnds
    <2>1. gone' = {} /\ late' = FALSE
          /\ UNCHANGED <<shown, back, opt, last, game, playing, managed, scores, settings, results>>
      BY <1>8 DEF StepEnds
    <2>2. TypeOK'
      BY <2>1 DEF GameInv, TypeOK
    <2>3. OneGame'
      BY <2>1 DEF GameInv, OneGame, InGame, Resumable
    <2>4. GamesKept' /\ Ranked' /\ SettingsObeyed'
      BY <2>1 DEF GameInv, GamesKept, Resumable, Kept, Alive, Ranked, SettingsObeyed
    <2> QED
      BY <2>2, <2>3, <2>4 DEF GameInv
  <1>9. CASE Relaunch
    <2>1. /\ shown' = "menu" /\ back' = "menu" /\ opt' = settings /\ game' = <<>>
          /\ playing' = 0 /\ managed' = 0 /\ gone' = {} /\ late' = FALSE
          /\ UNCHANGED <<last, scores, settings, results>>
      BY <1>9 DEF Relaunch
    <2>2. TypeOK'
      <3>1. DOMAIN game' = {} /\ {playing', managed'} \ {0} = {}
        BY <2>1
      <3>2. last \in 0 .. MaxGames /\ 0 \in 0 .. last
        BY GameAssumption DEF GameInv, TypeOK
      <3> QED
        BY <2>1, <3>1, <3>2 DEF GameInv, TypeOK, Scenes
    <2>3. OneGame'
      BY <2>1 DEF OneGame, InGame, Resumable
    <2>4. GamesKept' /\ Ranked' /\ SettingsObeyed'
      BY <2>1 DEF GameInv, GamesKept, Ranked, SettingsObeyed
    <2> QED
      BY <2>2, <2>3, <2>4 DEF GameInv
  <1>10. CASE UNCHANGED vars
    BY <1>10 DEF vars, nodes, GameInv, TypeOK, OneGame, InGame, Resumable, GamesKept,
                 Kept, Alive, Ranked, SettingsObeyed
  <1> QED
    BY <1>1, <1>2, <1>3, <1>4, <1>5, <1>6, <1>7, <1>8, <1>9, <1>10 DEF Next

(* The inductive invariant holds in every behaviour of the game, whatever  *)
(* the contacts of a step and the buttons pressed between the steps.       *)
THEOREM GameInvTheorem == Spec => []GameInv
  <1>1. Init => GameInv
    BY GameInvInit
  <1>2. GameInv /\ [Next]_vars => GameInv'
    BY GameInvNext
  <1> QED
    BY <1>1, <1>2, PTL DEF Spec

(* Whatever the order of the contacts and of the buttons, the game in the  *)
(* view has set itself up, is the one a pause comes back to, has a life    *)
(* left, and shows its lives as hearts: GameScene, SceneManager and the    *)
(* menus together never lead back to a game that is over.                  *)
THEOREM GameStandsTheorem == Spec => []GameStands
  <1>1. ASSUME GameInv PROVE GameStands
    <2>1. TypeOK /\ OneGame /\ GamesKept
      BY <1>1 DEF GameInv
    <2>2. shown = "game" => playing # 0 /\ Alive(game[playing])
      BY <2>1 DEF OneGame, InGame, Resumable, GamesKept
    <2>3. GameIsOn
      BY <2>1, <2>2 DEF GameIsOn, Alive, OneGame
    <2>4. HeartsShowLives
      BY <2>2 DEF HeartsShowLives, Alive
    <2> QED
      BY <2>1, <2>3, <2>4 DEF GameStands
  <1> QED
    BY <1>1, GameInvTheorem, PTL

(* A game saves its result once; a second saved result of one game takes a *)
(* power-up that revived it in the step in which it was over.              *)
THEOREM SavedOnceTheorem == Spec => []SavedOnce
  <1>1. ASSUME GameInv PROVE SavedOnce
    BY <1>1 DEF GameInv, TypeOK, OneGame, GamesKept, Kept, SavedOnce
  <1> QED
    BY <1>1, GameInvTheorem, PTL

(* "best" lists the three best of all results ever saved, for any number   *)
(* of games, any scores and kills of the app: no game overwrites the list  *)
(* with a copy that is older than the last result.                         *)
THEOREM BestAreBestTheorem == Spec => []BestAreBest
  <1>1. ASSUME GameInv PROVE BestAreBest
    BY <1>1 DEF GameInv, Ranked, Best, Above, Least, BestAreBest
  <1> QED
    BY <1>1, GameInvTheorem, PTL

(* The game in the view obeys the switches as OptionsScene saved them last,*)
(* also after it was resumed behind them.                                  *)
THEOREM SettingsObeyedTheorem == Spec => []SettingsObeyed
  <1>1. GameInv => SettingsObeyed
    BY DEF GameInv
  <1> QED
    BY <1>1, GameInvTheorem, PTL
=============================================================================
