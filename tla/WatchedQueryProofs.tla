------------------------- MODULE WatchedQueryProofs -------------------------
(***************************************************************************)
(* Theorems about the Firestore client's listeners, for any documents and  *)
(* any bounds: the client's types and the assertions of its code, who      *)
(* listens to which target, and that what it has on disk is never replaced *)
(* by something older.                                                     *)
(***************************************************************************)
EXTENDS WatchedQuery, SequenceLemmas

-----------------------------------------------------------------------------
(* Sets in order.                                                          *)

InOrder(order) == \A i, j \in DOMAIN order : i < j => order[i] < order[j]

(* A finite set of numbers has a bound.                                    *)
LEMMA FiniteIsBounded ==
  ASSUME NEW S \in SUBSET Nat, IsFiniteSet(S)
  PROVE  \E b \in Nat : \A x \in S : x <= b
  <1> DEFINE n == Cardinality(S)
             Bounded(R) == \E b \in Nat : \A x \in R : x <= b
             T == {k \in 0 .. n : \A R \in SUBSET S : Cardinality(R) = k => Bounded(R)}
  <1>1. n \in Nat
    BY FS_CardinalityType
  <1>2. 0 \in T
    <2>1. ASSUME NEW R \in SUBSET S, Cardinality(R) = 0 PROVE Bounded(R)
      <3>1. R = {}
        BY <2>1, FS_Subset, FS_EmptySet
      <3> QED
        BY <3>1
    <2> QED
      BY <1>1, <2>1
  <1>3. ASSUME NEW k \in 0 .. n, k < n, k \in T PROVE k + 1 \in T
    <2>1. ASSUME NEW R \in SUBSET S, Cardinality(R) = k + 1 PROVE Bounded(R)
      <3>1. IsFiniteSet(R) /\ R # {}
        <4>1. k + 1 # 0
          BY <1>1
        <4> QED
          BY <2>1, <4>1, FS_Subset, FS_EmptySet
      <3>2. PICK m \in R : TRUE
        BY <3>1
      <3>3. Cardinality(R \ {m}) = k /\ R \ {m} \in SUBSET S
        <4>1. Cardinality(R \ {m}) = IF m \in R THEN Cardinality(R) - 1 ELSE Cardinality(R)
          BY <3>1, FS_RemoveElement
        <4>2. k \in Nat /\ Cardinality(R \ {m}) = (k + 1) - 1
          BY <1>1, <2>1, <3>2, <4>1
        <4>3. Cardinality(R \ {m}) = k
          BY <4>2
        <4>4. R \ {m} \in SUBSET S
          OBVIOUS
        <4> QED
          BY <4>3, <4>4
      <3>4. PICK b \in Nat : \A x \in R \ {m} : x <= b
        BY <1>3, <3>3
      <3>5. m \in Nat /\ \A x \in R : x = m \/ (x \in R \ {m} /\ x \in Nat)
        OBVIOUS
      <3>6. CASE b <= m
        <4>1. \A x \in R : x <= m
          BY <3>4, <3>5, <3>6
        <4> QED
          BY <3>5, <4>1
      <3>7. CASE m <= b
        <4>1. \A x \in R : x <= b
          BY <3>4, <3>5, <3>7
        <4> QED
          BY <4>1
      <3> QED
        BY <3>5, <3>6, <3>7
    <2>2. k + 1 \in 0 .. n
      BY <1>1, <1>3
    <2> HIDE DEF Bounded
    <2> QED
      BY <2>1, <2>2
  <1>4. n \in T
    <2> HIDE DEF T, n
    <2>1. 0 .. n \subseteq T
      BY <1>1, <1>2, <1>3, UpTo
    <2> QED
      BY <1>1, <2>1
  <1> QED
    BY <1>4

(* A finite set of numbers can be listed in order.                         *)
LEMMA SortedExists ==
  ASSUME NEW S \in SUBSET Nat, IsFiniteSet(S)
  PROVE  \E order \in SetToSeqs(S) : InOrder(order)
  <1> DEFINE n == Cardinality(S)
             Listable(R) == \E order \in [1 .. Cardinality(R) -> R] : InOrder(order)
             T == {k \in 0 .. n : \A R \in SUBSET S : Cardinality(R) = k => Listable(R)}
  <1>1. n \in Nat
    BY FS_CardinalityType
  <1>2. 0 \in T
    <2>1. ASSUME NEW R \in SUBSET S, Cardinality(R) = 0 PROVE Listable(R)
      <3>1. R = {}
        BY <2>1, FS_Subset, FS_EmptySet
      <3>2. <<>> \in [1 .. Cardinality(R) -> R] /\ InOrder(<<>>)
        BY <2>1, <3>1 DEF InOrder
      <3> QED
        BY <3>2
    <2> QED
      BY <1>1, <2>1
  <1>3. ASSUME NEW k \in 0 .. n, k < n, k \in T PROVE k + 1 \in T
    <2>1. ASSUME NEW R \in SUBSET S, Cardinality(R) = k + 1 PROVE Listable(R)
      <3> DEFINE m == Max(R)
      <3>1. IsFiniteSet(R) /\ R # {}
        <4>1. k + 1 # 0
          BY <1>1
        <4> QED
          BY <2>1, <4>1, FS_Subset, FS_EmptySet
      <3>2. m \in R /\ \A y \in R : y <= m
        <4>1. \E b \in Nat : \A x \in R : x <= b
          BY <3>1, FiniteIsBounded
        <4> QED
          BY <3>1, <4>1, MaxNat
      <3> HIDE DEF m
      <3>3. Cardinality(R \ {m}) = k /\ R \ {m} \in SUBSET S
        <4>1. Cardinality(R \ {m}) = IF m \in R THEN Cardinality(R) - 1 ELSE Cardinality(R)
          BY <3>1, FS_RemoveElement
        <4>2. k \in Nat /\ Cardinality(R \ {m}) = (k + 1) - 1
          BY <1>1, <2>1, <3>2, <4>1
        <4>3. Cardinality(R \ {m}) = k
          BY <4>2
        <4>4. R \ {m} \in SUBSET S
          OBVIOUS
        <4> QED
          BY <4>3, <4>4
      <3>4. PICK order \in [1 .. k -> R \ {m}] : InOrder(order)
        BY <1>3, <3>3
      <3> DEFINE longer == [i \in 1 .. k + 1 |-> IF i = k + 1 THEN m ELSE order[i]]
      <3>5. longer \in [1 .. k + 1 -> R]
        BY <3>2, <3>4
      <3>6. ASSUME NEW i \in 1 .. k + 1, NEW j \in 1 .. k + 1, i < j
            PROVE  longer[i] < longer[j]
        <4>1. i \in 1 .. k /\ longer[i] = order[i] /\ order[i] \in R \ {m}
          BY <3>4, <3>6
        <4>2. CASE j = k + 1
          <5>1. longer[j] = m /\ order[i] \in Nat /\ m \in Nat /\ order[i] <= m /\ order[i] # m
            BY <3>2, <4>1, <4>2
          <5> HIDE DEF longer
          <5> QED
            BY <4>1, <5>1
        <4>3. CASE j # k + 1
          <5>1. j \in 1 .. k /\ longer[j] = order[j] /\ order[i] < order[j]
            BY <3>4, <3>6, <4>1, <4>3 DEF InOrder
          <5> QED
            BY <4>1, <5>1
        <4> QED
          BY <4>2, <4>3
      <3> HIDE DEF longer
      <3>7. InOrder(longer)
        BY <3>5, <3>6 DEF InOrder
      <3> QED
        BY <2>1, <3>5, <3>7
    <2>2. k + 1 \in 0 .. n
      BY <1>1, <1>3
    <2> HIDE DEF Listable
    <2> QED
      BY <2>1, <2>2
  <1>4. n \in T
    <2> HIDE DEF T, n
    <2>1. 0 .. n \subseteq T
      BY <1>1, <1>2, <1>3, UpTo
    <2> QED
      BY <1>1, <2>1
  <1>5. PICK order \in [1 .. n -> S] : InOrder(order)
    BY <1>4
  <1>6. order \in SetToSeqs(S)
    <2>1. ASSUME NEW i \in 1 .. n, NEW j \in 1 .. n, i # j PROVE order[i] # order[j]
      <3>1. order[i] \in Nat /\ order[j] \in Nat /\ (i < j \/ j < i)
        <4>1. order[i] \in S /\ order[j] \in S /\ i \in Nat /\ j \in Nat
          BY <1>1, <1>5
        <4>2. \A a, b \in Nat : a # b => a < b \/ b < a
          OBVIOUS
        <4> QED
          BY <2>1, <4>1, <4>2
      <3>2. order[i] < order[j] \/ order[j] < order[i]
        BY <1>5, <3>1 DEF InOrder
      <3> HIDE DEF n
      <3> QED
        BY <3>1, <3>2
    <2> QED
      BY <1>5, <2>1 DEF SetToSeqs
  <1> QED
    BY <1>5, <1>6

(* So the list that Sorted returns is one of its elements.                 *)
LEMMA SortedIs ==
  ASSUME NEW S \in SUBSET Nat, IsFiniteSet(S)
  PROVE  /\ Cardinality(S) \in Nat
         /\ Sorted(S) \in [1 .. Cardinality(S) -> S]
         /\ Sorted(S) \in Seq(S) /\ Len(Sorted(S)) = Cardinality(S)
  <1>1. Sorted(S) \in SetToSeqs(S)
    BY SortedExists DEF Sorted, InOrder
  <1>2. Cardinality(S) \in Nat
    BY FS_CardinalityType
  <1>3. Sorted(S) \in [1 .. Cardinality(S) -> S]
    BY <1>1 DEF SetToSeqs
  <1> QED
    BY <1>2, <1>3

-----------------------------------------------------------------------------
(* Tables: functions whose domain is any part of a set.                    *)

Table(X, Y) == UNION {[D -> Y] : D \in SUBSET X}

LEMMA TableOf ==
  ASSUME NEW X, NEW Y, NEW f \in Table(X, Y)
  PROVE  DOMAIN f \in SUBSET X /\ f \in [DOMAIN f -> Y]
  BY DEF Table

LEMMA TableBy ==
  ASSUME NEW X, NEW Y, NEW D \in SUBSET X, NEW f \in [D -> Y]
  PROVE  f \in Table(X, Y)
  BY DEF Table

LEMMA EmptyIs ==
  ASSUME NEW X, NEW Y
  PROVE  <<>> \in Table(X, Y) /\ DOMAIN <<>> = {}
  <1>1. <<>> \in [{} -> Y] /\ DOMAIN <<>> = {}
    OBVIOUS
  <1> QED
    BY <1>1, TableBy

(* What Over, With and Without return, of whatever type.                   *)
IsOver(h, g, f) ==
  /\ DOMAIN h = DOMAIN g \union DOMAIN f
  /\ \A x \in DOMAIN g : h[x] = g[x]
  /\ \A x \in DOMAIN f : x \notin DOMAIN g => h[x] = f[x]

IsWith(h, f, x, y) ==
  /\ DOMAIN h = DOMAIN f \union {x}
  /\ h[x] = y
  /\ \A z \in DOMAIN f : z # x => h[z] = f[z]

IsWithout(h, f, x) ==
  /\ DOMAIN h = DOMAIN f \ {x}
  /\ \A z \in DOMAIN f : z # x => h[z] = f[z]

LEMMA OverIs ==
  ASSUME NEW f, NEW g
  PROVE  IsOver(Over(g, f), g, f)
  BY DEF Over, IsOver

LEMMA WithIs ==
  ASSUME NEW f, NEW x, NEW y
  PROVE  IsWith(With(f, x, y), f, x, y)
  BY DEF With, Over, IsWith

LEMMA WithoutIs ==
  ASSUME NEW f, NEW x
  PROVE  IsWithout(Without(f, x), f, x)
  BY DEF Without, Restrict, IsWithout

LEMMA OverTable ==
  ASSUME NEW X, NEW Y, NEW f \in Table(X, Y), NEW g \in Table(X, Y)
  PROVE  Over(g, f) \in Table(X, Y)
  <1>1. /\ DOMAIN f \in SUBSET X /\ f \in [DOMAIN f -> Y]
        /\ DOMAIN g \in SUBSET X /\ g \in [DOMAIN g -> Y]
    BY TableOf
  <1>2. /\ Over(g, f) \in [DOMAIN g \union DOMAIN f -> Y]
        /\ DOMAIN g \union DOMAIN f \in SUBSET X
    BY <1>1 DEF Over
  <1> QED
    BY <1>2, TableBy

LEMMA WithTable ==
  ASSUME NEW X, NEW Y, NEW f \in Table(X, Y), NEW x \in X, NEW y \in Y
  PROVE  With(f, x, y) \in Table(X, Y)
  <1> DEFINE g == [z \in {x} |-> y]
  <1>1. g \in [{x} -> Y] /\ {x} \in SUBSET X
    OBVIOUS
  <1> HIDE DEF g
  <1>2. g \in Table(X, Y)
    BY <1>1, TableBy
  <1>3. With(f, x, y) = Over(g, f)
    BY DEF With, g
  <1> QED
    BY <1>2, <1>3, OverTable

LEMMA WithoutTable ==
  ASSUME NEW X, NEW Y, NEW f \in Table(X, Y), NEW x
  PROVE  Without(f, x) \in Table(X, Y)
  <1>1. DOMAIN f \in SUBSET X /\ f \in [DOMAIN f -> Y]
    BY TableOf
  <1>2. /\ Without(f, x) \in [DOMAIN f \ {x} -> Y]
        /\ DOMAIN f \ {x} \in SUBSET X
    BY <1>1 DEF Without, Restrict
  <1> QED
    BY <1>2, TableBy

LEMMA MapIs ==
  ASSUME NEW X, NEW Y, NEW f \in Table(X, Y), NEW g \in [DOMAIN f -> Y]
  PROVE  g \in Table(X, Y) /\ DOMAIN g = DOMAIN f
  BY TableOf, TableBy

-----------------------------------------------------------------------------
(* The types of the client, over a set V of versions.                      *)

IsVersions(V) == V \subseteq Nat /\ 0 \in V

ChangeKinds == {"added", "modified", "removed"}
DocOf(V) == [version : V, id : Nat, exists : BOOLEAN, local : BOOLEAN, committed : BOOLEAN]
WriteType == [key : Keys, id : Nat, exists : BOOLEAN]
DiskOf(V) ==
  [docs : [Keys -> DocOf(V)], keys : SUBSET Keys, token : V, last : V, writes : Seq(WriteType)]
ViewOf(V) ==
  [on : BOOLEAN, docs : [Keys -> DocOf(V)], synced : SUBSET Keys, mutated : SUBSET Keys,
   limbo : SUBSET Keys, current : BOOLEAN, insync : BOOLEAN]
StateOf(V) ==
  [outstanding : Int, current : BOOLEAN, pending : BOOLEAN,
   changes : Table(Keys, ChangeKinds), token : V]
RequestOf(V) == [kind : {"watch", "unwatch"}, target : Nat, key : Keys \union {0}, token : V]
MessageOf(V) ==
  [kind : {"doc"}, key : Keys, doc : DocOf(V), updated : SUBSET Nat, removed : SUBSET Nat]
    \union [kind : {"added", "removed", "rejected", "current"}, target : Nat]
    \union [kind : {"filter"}, target : {Query}, count : Nat]
    \union [kind : {"snapshot"}, version : V]
ActiveType == Table(Nat, [key : Keys, received : BOOLEAN])
ListenOf(V) == Table(Nat, [key : Keys \union {0}, token : V])
AggOf(V) == Table(Nat, StateOf(V))
UpdatesOf(V) == Table(Keys, DocOf(V))
ServedOf(V) ==
  Table(Nat, [key : Keys \union {0}, since : V, resumed : BOOLEAN, current : BOOLEAN])

ClientOf(V) ==
  [disk : DiskOf(V), memo : V, view : ViewOf(V), ok : BOOLEAN,
   queue : Seq(Keys), byKey : [Keys -> Nat], active : ActiveType, nextId : Nat,
   listen : ListenOf(V), stream : {"off", "starting", "open"}, idle : BOOLEAN,
   online : {"unknown", "waiting", "online", "offline"},
   agg : AggOf(V), updates : UpdatesOf(V), resets : SUBSET {Query},
   out : Seq(RequestOf(V)), in : Seq(MessageOf(V))]

EventOf(V) ==
  [version : V, mismatches : SUBSET {Query}, updates : UpdatesOf(V), targets : AggOf(V)]

-----------------------------------------------------------------------------
(* What holds of a client at any time, in the middle of a handler too, of  *)
(* which the backend serves the targets s.                                 *)

Targets(c) == 0 .. c.nextId - 1

(* RemoteStore listens to the query and to the resolutions of SyncEngine.  *)
TargetsFit(c) ==
  /\ c.nextId >= 1
  /\ DOMAIN c.listen \subseteq Targets(c) /\ DOMAIN c.agg \subseteq Targets(c)
  /\ DOMAIN c.active = DOMAIN c.listen \ {Query}
  /\ \A t \in DOMAIN c.active : c.listen[t].key = c.active[t].key
  /\ \A k \in Keys : c.byKey[k] # 0 =>
       c.byKey[k] \in DOMAIN c.active /\ c.active[c.byKey[k]].key = k
  /\ Query \in DOMAIN c.listen => c.view.on

(* What a stream may do, and that a closed one leaves nothing behind.      *)
StreamFits(c) ==
  /\ c.stream = "off" => c.online # "waiting"
  /\ c.stream # "open" => DOMAIN c.agg = {} /\ c.out = <<>> /\ c.in = <<>>

(* A stream is idle when nothing is listened to.                           *)
IdleFits(c) == c.idle => c.stream = "open" /\ DOMAIN c.listen = {}

(* What the aggregator has collected about a target fits what it had.      *)
ChangesFit(c) ==
  /\ Query \in DOMAIN c.agg => KeysOf(c.agg[Query], "modified") \subseteq c.disk.keys
  /\ \A t \in DOMAIN c.agg \intersect DOMAIN c.active :
       \A k \in DOMAIN c.agg[t].changes :
         k = c.active[t].key /\ (c.agg[t].changes[k] # "added" => c.active[t].received)

(* A target that resolves a document receives that document only.          *)
IsAbout(c, t, k) == t \in Targets(c) /\ (t \in DOMAIN c.active => c.active[t].key = k)

MessageFits(c, m) ==
  /\ m.kind = "doc" => \A t \in m.updated \union m.removed : IsAbout(c, t, m.key)
  /\ m.kind \in {"added", "removed", "rejected", "current"} => m.target \in Targets(c)

MessagesFit(c) ==
  /\ \A i \in DOMAIN c.out :
       /\ c.out[i].target \in Targets(c)
       /\ c.out[i].kind = "watch" => IsAbout(c, c.out[i].target, c.out[i].key)
  /\ \A i \in DOMAIN c.in : MessageFits(c, c.in[i])

ServedFits(c, s) ==
  /\ c.stream # "open" => DOMAIN s = {}
  /\ \A t \in DOMAIN s : IsAbout(c, t, s[t].key)

Stands(c, V, s) ==
  /\ c \in ClientOf(V) /\ s \in ServedOf(V) /\ c.ok
  /\ TargetsFit(c) /\ StreamFits(c) /\ ChangesFit(c) /\ MessagesFit(c) /\ ServedFits(c, s)

(* The documents the view has synced are those of the target on disk.      *)
SyncedFits(c) == c.view.on => c.view.synced = c.disk.keys

(* The aggregator has an entry of the query if it is listened to.          *)
Held(c) == c.stream = "open" /\ Query \in DOMAIN c.listen => Query \in DOMAIN c.agg

(* What a part of a handler leaves as it was.                              *)
Kept(c, d) ==
  /\ d.in = c.in /\ d.disk = c.disk /\ d.view.on = c.view.on
  /\ d.stream = "open" <=> c.stream = "open"
  /\ Query \in DOMAIN d.listen <=> Query \in DOMAIN c.listen
  /\ Held(c) => Held(d)
  /\ IdleFits(c) => IdleFits(d)

LEMMA KeptTwice ==
  ASSUME NEW c, NEW d, NEW e, Kept(c, d), Kept(d, e)
  PROVE  Kept(c, e)
  BY DEF Kept

-----------------------------------------------------------------------------
(* RemoteStore's requests.                                                 *)

LEMMA AggWith ==
  ASSUME NEW V, NEW f \in AggOf(V), NEW t \in Nat, NEW n \in StateOf(V)
  PROVE  With(f, t, n) \in AggOf(V)
  <1> DEFINE X == Nat
             Y == StateOf(V)
  <1>1. f \in Table(X, Y) /\ t \in X /\ n \in Y
    BY DEF AggOf
  <1>2. AggOf(V) = Table(X, Y)
    BY DEF AggOf
  <1> HIDE DEF X, Y
  <1> QED
    BY <1>1, <1>2, WithTable

LEMMA TargetStateIs ==
  ASSUME NEW V, IsVersions(V), NEW c \in ClientOf(V), NEW t
  PROVE  /\ TargetState(c, t) \in StateOf(V)
         /\ t \in DOMAIN c.agg => TargetState(c, t) = c.agg[t]
         /\ t \notin DOMAIN c.agg => DOMAIN TargetState(c, t).changes = {}
  <1>1. NewTarget \in StateOf(V) /\ DOMAIN NewTarget.changes = {}
    BY EmptyIs DEF NewTarget, StateOf, IsVersions
  <1>2. c.agg \in Table(Nat, StateOf(V))
    BY DEF ClientOf, AggOf
  <1>3. \A u \in DOMAIN c.agg : c.agg[u] \in StateOf(V)
    BY <1>2, TableOf
  <1> QED
    BY <1>1, <1>3 DEF TargetState

(* What is known of targets and documents when targets only come, with new *)
(* numbers, and go.                                                        *)
Follow(c, d) ==
  /\ c.nextId <= d.nextId
  /\ \A t \in DOMAIN d.active : t < c.nextId => t \in DOMAIN c.active /\ d.active[t].key = c.active[t].key

LEMMA AboutFollows ==
  ASSUME NEW c, NEW d, c.nextId \in Nat, d.nextId \in Nat, Follow(c, d),
         NEW t, NEW k, IsAbout(c, t, k)
  PROVE  IsAbout(d, t, k)
  BY DEF Follow, IsAbout, Targets

LEMMA TargetsFollow ==
  ASSUME NEW c, NEW d, c.nextId \in Nat, d.nextId \in Nat, Follow(c, d)
  PROVE  Targets(c) \subseteq Targets(d)
  BY DEF Follow, Targets

LEMMA MessagesFollow ==
  ASSUME NEW c, NEW d, c.nextId \in Nat, d.nextId \in Nat, Follow(c, d),
         NEW s, d.stream = "open" <=> c.stream = "open"
  PROVE  /\ ServedFits(c, s) => ServedFits(d, s)
         /\ \A m : MessageFits(c, m) => MessageFits(d, m)
         /\ MessagesFit(c) /\ d.in = c.in /\ d.out = c.out => MessagesFit(d)
  <1>1. \A t, k : IsAbout(c, t, k) => IsAbout(d, t, k)
    BY AboutFollows
  <1>2. Targets(c) \subseteq Targets(d)
    BY TargetsFollow
  <1>3. \A m : MessageFits(c, m) => MessageFits(d, m)
    BY <1>1, <1>2 DEF MessageFits
  <1> QED
    BY <1>1, <1>2, <1>3 DEF MessagesFit, ServedFits

(* What a request that is sent, and counted, leaves of a client.           *)
IsSent(V, s, c, t, r, b, d) ==
  /\ Stands(d, V, s) /\ d.idle = b /\ t \in DOMAIN d.agg
  /\ DOMAIN d.agg = DOMAIN c.agg \union {t}
  /\ \A u \in DOMAIN c.agg : d.agg[u].changes = c.agg[u].changes
  /\ DOMAIN d.agg[t].changes # {} => t \in DOMAIN c.agg
  /\ d.disk = c.disk /\ d.memo = c.memo /\ d.view = c.view /\ d.queue = c.queue
  /\ d.byKey = c.byKey /\ d.active = c.active /\ d.nextId = c.nextId
  /\ d.listen = c.listen /\ d.stream = c.stream /\ d.online = c.online
  /\ d.in = c.in

LEMMA RequestKeeps ==
  ASSUME NEW V, IsVersions(V), NEW c, NEW s, Stands(c, V, s), c.stream = "open",
         NEW t \in Targets(c), NEW r \in RequestOf(V), r.target = t,
         r.kind = "watch" => IsAbout(c, t, r.key), NEW b \in BOOLEAN, NEW d,
         d = [RecordPendingTargetRequest(c, t) EXCEPT !.idle = b, !.out = Append(@, r)]
  PROVE  IsSent(V, s, c, t, r, b, d)
  <1> DEFINE n == [TargetState(c, t) EXCEPT !.outstanding = @ + 1]
  <1>1. c \in ClientOf(V) /\ s \in ServedOf(V) /\ c.ok
    BY DEF Stands
  <1>2. t \in Nat /\ TargetState(c, t) \in StateOf(V)
    BY <1>1, TargetStateIs, SMTT(30) DEF Targets, ClientOf
  <1>3. n \in StateOf(V) /\ n.changes = TargetState(c, t).changes
    BY <1>2 DEF StateOf
  <1>4. c.agg \in Table(Nat, StateOf(V))
    BY <1>1 DEF ClientOf, AggOf
  <1>5. d = [c EXCEPT !.agg = With(c.agg, t, n), !.idle = b, !.out = Append(c.out, r)]
    BY <1>1 DEF RecordPendingTargetRequest, ClientOf
  <1> HIDE DEF n
  <1>6. /\ With(c.agg, t, n) \in AggOf(V)
        /\ DOMAIN With(c.agg, t, n) = DOMAIN c.agg \union {t}
        /\ With(c.agg, t, n)[t] = n
        /\ \A u \in DOMAIN c.agg \ {t} : With(c.agg, t, n)[u] = c.agg[u]
    <2>1. IsWith(With(c.agg, t, n), c.agg, t, n)
      BY WithIs
    <2> QED
      BY <1>2, <1>3, <1>4, <2>1, AggWith DEF AggOf, IsWith
  <1>7. /\ d.disk = c.disk /\ d.memo = c.memo /\ d.view = c.view /\ d.queue = c.queue
        /\ d.byKey = c.byKey /\ d.active = c.active /\ d.nextId = c.nextId
        /\ d.listen = c.listen /\ d.stream = c.stream /\ d.online = c.online
        /\ d.in = c.in /\ d.ok = c.ok /\ d.updates = c.updates /\ d.resets = c.resets
        /\ d.idle = b /\ d.out = Append(c.out, r) /\ d.agg = With(c.agg, t, n)
    BY <1>1, <1>5 DEF ClientOf
  <1>8. d \in ClientOf(V)
    <2>1. c.out \in Seq(RequestOf(V))
      BY <1>1 DEF ClientOf
    <2>2. d.out \in Seq(RequestOf(V))
      <3>1. Append(c.out, r) \in Seq(RequestOf(V))
        BY <2>1, SeqFacts
      <3> QED
        BY <1>7, <3>1
    <2>3. d.agg \in AggOf(V)
      BY <1>6, <1>7
    <2> QED
      BY <1>1, <1>5, <1>7, <2>2, <2>3 DEF ClientOf
  <1>9. \A u \in DOMAIN c.agg : d.agg[u].changes = c.agg[u].changes
    BY <1>1, <1>3, <1>6, <1>7, TargetStateIs
  <1>10. DOMAIN d.agg[t].changes # {} => t \in DOMAIN c.agg
    BY <1>1, <1>3, <1>6, <1>7, TargetStateIs
  <1>11. TargetsFit(d)
    BY <1>6, <1>7, SMTT(30) DEF Stands, TargetsFit, Targets
  <1>12. StreamFits(d)
    BY <1>7 DEF Stands, StreamFits
  <1>13. ChangesFit(d)
    BY <1>6, <1>7, <1>9, <1>10 DEF Stands, ChangesFit, KeysOf
  <1>14. Follow(c, d) /\ c.nextId \in Nat /\ d.nextId \in Nat
    BY <1>1, <1>7 DEF Follow, ClientOf
  <1>15. ServedFits(d, s) /\ \A m : MessageFits(c, m) => MessageFits(d, m)
    <2>1. ServedFits(c, s) /\ (d.stream = "open" <=> c.stream = "open")
      BY <1>7 DEF Stands
    <2>2. ServedFits(c, s) => ServedFits(d, s)
      BY <1>1, <1>8, <1>14, <2>1, MessagesFollow
    <2>3. \A m : MessageFits(c, m) => MessageFits(d, m)
      BY <1>1, <1>8, <1>14, <2>1, MessagesFollow
    <2> QED
      BY <2>1, <2>2, <2>3
  <1>16. MessagesFit(d)
    <2>1. \A i \in DOMAIN d.in : MessageFits(d, d.in[i])
      BY <1>7, <1>15 DEF Stands, MessagesFit
    <2>2. \A u, k : IsAbout(c, u, k) => IsAbout(d, u, k)
      BY <1>1, <1>8, <1>14, AboutFollows
    <2>3. /\ c.out \in Seq(RequestOf(V)) /\ DOMAIN d.out = 1 .. Len(c.out) + 1
          /\ DOMAIN c.out = 1 .. Len(c.out)
          /\ \A i \in DOMAIN c.out : d.out[i] = c.out[i]
          /\ d.out[Len(c.out) + 1] = r /\ Len(c.out) \in Nat
      BY <1>1, <1>7 DEF ClientOf
    <2>4. \A i \in DOMAIN d.out : i \in DOMAIN c.out \/ i = Len(c.out) + 1
      BY <2>3
    <2>5. Targets(d) = Targets(c)
      BY <1>7 DEF Targets
    <2>6. \A i \in DOMAIN c.out :
            /\ c.out[i].target \in Targets(c)
            /\ c.out[i].kind = "watch" => IsAbout(c, c.out[i].target, c.out[i].key)
      BY DEF Stands, MessagesFit
    <2>7. ASSUME NEW i \in DOMAIN d.out
          PROVE  /\ d.out[i].target \in Targets(d)
                 /\ d.out[i].kind = "watch" => IsAbout(d, d.out[i].target, d.out[i].key)
      <3>1. CASE i \in DOMAIN c.out
        BY <2>2, <2>3, <2>5, <2>6, <3>1
      <3>2. CASE i = Len(c.out) + 1
        BY <2>2, <2>3, <2>5, <3>2
      <3> QED
        BY <2>4, <3>1, <3>2
    <2> QED
      BY <2>1, <2>7 DEF MessagesFit
  <1> QED
    BY <1>1, <1>6, <1>7, <1>8, <1>9, <1>10, <1>11, <1>12, <1>13, <1>15, <1>16
    DEF Stands, IsSent

(* A client stands as before if its targets and its stream are the same,   *)
(* and what the aggregator has fits.                                       *)
LEMMA StandsStill ==
  ASSUME NEW V, NEW c, NEW d, NEW s, Stands(c, V, s), d \in ClientOf(V), d.ok,
         d.view.on = c.view.on, d.byKey = c.byKey, d.active = c.active,
         d.nextId = c.nextId, d.listen = c.listen, d.stream = c.stream,
         d.stream = "off" => d.online # "waiting", d.in = c.in, d.out = c.out,
         DOMAIN d.agg \subseteq Targets(c), c.stream # "open" => d.agg = c.agg, ChangesFit(d)
  PROVE  Stands(d, V, s)
  <1>1. TargetsFit(d) /\ StreamFits(d)
    BY DEF Stands, TargetsFit, StreamFits, Targets
  <1>2. Follow(c, d) /\ c.nextId \in Nat /\ d.nextId \in Nat
    BY DEF Follow, Stands, ClientOf
  <1>3. MessagesFit(d) /\ ServedFits(d, s)
    BY <1>2, MessagesFollow DEF Stands
  <1> QED
    BY <1>1, <1>3 DEF Stands

(* RemoteStore::Listen, after which the target is listened to; e is the    *)
(* client that has the target already.                                     *)
IsListened(V, s, e, t, d) ==
  /\ Stands(d, V, s) /\ IdleFits(d)
  /\ d.disk = e.disk /\ d.memo = e.memo /\ d.view = e.view /\ d.queue = e.queue
  /\ d.byKey = e.byKey /\ d.active = e.active /\ d.nextId = e.nextId
  /\ d.listen = e.listen /\ d.in = e.in
  /\ d.stream = "open" <=> e.stream = "open"
  /\ d.stream = "open" => DOMAIN e.agg \subseteq DOMAIN d.agg /\ t \in DOMAIN d.agg

LEMMA ListenKeeps ==
  ASSUME NEW V, IsVersions(V), NEW c, NEW e, NEW s, NEW t, NEW k \in Keys \union {0},
         NEW token \in V, t \notin DOMAIN c.listen, c.listen \in ListenOf(V),
         e = [c EXCEPT !.listen = With(@, t, [key |-> k, token |-> token])],
         Stands(e, V, s), IsAbout(e, t, k), IdleFits(c), NEW d, d = Listen(c, t, k, token)
  PROVE  IsListened(V, s, e, t, d)
  <1>1. e \in ClientOf(V) /\ e.ok /\ t \in Targets(e)
    BY DEF Stands, IsAbout
  <1>2. c.stream = e.stream /\ c.idle = e.idle /\ c.online = e.online
    BY <1>1 DEF ClientOf
  <1>3. d = IF e.stream = "off" THEN StartWatchStream(e)
            ELSE IF e.stream = "open" THEN SendWatchRequest(e, t) ELSE e
    BY <1>1, <1>2 DEF Listen, ClientOf
  <1>4. CASE e.stream = "off"
    <2>1. e.online # "waiting" /\ ~ c.idle
      BY <1>2, <1>4 DEF Stands, StreamFits, IdleFits
    <2>2. /\ d.disk = e.disk /\ d.memo = e.memo /\ d.view = e.view /\ d.queue = e.queue
          /\ d.byKey = e.byKey /\ d.active = e.active /\ d.nextId = e.nextId
          /\ d.listen = e.listen /\ d.in = e.in /\ d.out = e.out /\ d.agg = e.agg
          /\ d.stream = "starting" /\ d.ok /\ d.idle = e.idle
      BY <1>1, <1>3, <1>4, <2>1 DEF StartWatchStream, ClientOf
    <2>3. d \in ClientOf(V)
      <3>1. d = [e EXCEPT !.stream = "starting", !.ok = TRUE,
                          !.online = IF e.online = "offline" THEN "offline" ELSE "waiting"]
        BY <1>1, <1>3, <1>4, <2>1 DEF StartWatchStream, ClientOf
      <3>2. CASE e.online = "offline"
        <4>1. d = [e EXCEPT !.stream = "starting", !.ok = TRUE, !.online = "offline"]
          BY <3>1, <3>2
        <4> QED
          BY ONLY <1>1, <4>1 DEF ClientOf
      <3>3. CASE e.online # "offline"
        <4>1. d = [e EXCEPT !.stream = "starting", !.ok = TRUE, !.online = "waiting"]
          BY <3>1, <3>3
        <4> QED
          BY ONLY <1>1, <4>1 DEF ClientOf
      <3> QED
        BY <3>2, <3>3
    <2>4. TargetsFit(d) /\ StreamFits(d) /\ ChangesFit(d)
      BY <1>4, <2>2 DEF Stands, TargetsFit, StreamFits, ChangesFit, Targets
    <2>5. Follow(e, d) /\ e.nextId \in Nat /\ d.nextId \in Nat
      BY <1>1, <2>2 DEF Follow, ClientOf
    <2>6. MessagesFit(d) /\ ServedFits(d, s)
      BY <1>4, <2>2, <2>5, MessagesFollow DEF Stands
    <2> QED
      BY <1>2, <1>4, <2>1, <2>2, <2>3, <2>4, <2>6 DEF Stands, IdleFits, IsListened
  <1>5. CASE e.stream = "open"
    <2> DEFINE r == [kind |-> "watch", target |-> t, key |-> k, token |-> token]
    <2>1. e.listen[t] = [key |-> k, token |-> token]
      <3>1. e.listen = With(c.listen, t, [key |-> k, token |-> token])
        BY <1>1 DEF ClientOf
      <3>2. IsWith(e.listen, c.listen, t, [key |-> k, token |-> token])
        BY <3>1, WithIs
      <3> QED
        BY <3>2 DEF IsWith
    <2>2. r \in RequestOf(V) /\ r.target = t /\ IsAbout(e, t, r.key)
      BY <1>1 DEF RequestOf, Targets, ClientOf
    <2>3. d = [RecordPendingTargetRequest(e, t) EXCEPT !.idle = FALSE, !.out = Append(@, r)]
      <3>1. [kind |-> "watch", target |-> t, key |-> e.listen[t].key,
             token |-> e.listen[t].token] = r
        BY <2>1
      <3> HIDE DEF r
      <3>2. d = SendWatchRequest(e, t)
        BY <1>3, <1>5
      <3> QED
        BY <3>1, <3>2 DEF SendWatchRequest
    <2> HIDE DEF r
    <2>4. IsSent(V, s, e, t, r, FALSE, d)
      BY <1>1, <1>5, <2>2, <2>3, RequestKeeps
    <2> QED
      BY <2>4 DEF IdleFits, IsListened, IsSent
  <1>6. CASE e.stream # "off" /\ e.stream # "open"
    BY <1>2, <1>3, <1>6 DEF IdleFits, IsListened
  <1> QED
    BY <1>4, <1>5, <1>6

(* RemoteStore::StopListening, after which it is not.                      *)
IsStopped(V, s, e, d) ==
  /\ Stands(d, V, s) /\ IdleFits(d)
  /\ d.disk = e.disk /\ d.memo = e.memo /\ d.view = e.view /\ d.queue = e.queue
  /\ d.byKey = e.byKey /\ d.active = e.active /\ d.nextId = e.nextId
  /\ d.listen = e.listen /\ d.in = e.in /\ d.stream = e.stream
  /\ DOMAIN e.agg \subseteq DOMAIN d.agg

LEMMA StopKeeps ==
  ASSUME NEW V, IsVersions(V), NEW c, NEW e, NEW s, NEW t \in DOMAIN c.listen, c.ok,
         t \in Targets(e), e = [c EXCEPT !.listen = Without(@, t)],
         Stands(e, V, s), IdleFits(c), NEW d, d = StopListening(c, t)
  PROVE  IsStopped(V, s, e, d)
  <1>1. e \in ClientOf(V) /\ e.ok
    BY DEF Stands
  <1>2. c.stream = e.stream /\ c.idle = e.idle /\ e.listen = Without(c.listen, t)
    BY <1>1 DEF ClientOf
  <1>3. [c EXCEPT !.ok = @ /\ t \in DOMAIN c.listen, !.listen = Without(@, t)] = e
    BY <1>1 DEF ClientOf
  <1> DEFINE last == DOMAIN e.listen = {}
  <1>4. d = IF e.stream = "open" THEN [SendUnwatchRequest(e, t) EXCEPT !.idle = last]
            ELSE [e EXCEPT !.online = IF last THEN "unknown" ELSE @]
    BY <1>2, <1>3 DEF StopListening
  <1>5. CASE e.stream = "open"
    <2> DEFINE r == [kind |-> "unwatch", target |-> t, key |-> 0, token |-> 0]
    <2>1. /\ r \in RequestOf(V) /\ r.target = t
          /\ r.kind = "watch" => IsAbout(e, t, r.key)
      BY <1>1 DEF RequestOf, Targets, ClientOf, IsVersions
    <2>2. d = [RecordPendingTargetRequest(e, t) EXCEPT !.idle = last, !.out = Append(@, r)]
      BY <1>1, <1>4, <1>5 DEF SendUnwatchRequest, RecordPendingTargetRequest, ClientOf
    <2> HIDE DEF r
    <2>3. CASE last
      <3>1. d = [RecordPendingTargetRequest(e, t) EXCEPT !.idle = TRUE, !.out = Append(@, r)]
        BY <2>2, <2>3
      <3>2. IsSent(V, s, e, t, r, TRUE, d)
        BY <1>1, <1>5, <2>1, <3>1, RequestKeeps
      <3> QED
        BY <1>5, <2>3, <3>2 DEF IdleFits, IsSent, IsStopped
    <2>4. CASE ~ last
      <3>1. d = [RecordPendingTargetRequest(e, t) EXCEPT !.idle = FALSE, !.out = Append(@, r)]
        BY <2>2, <2>4
      <3>2. IsSent(V, s, e, t, r, FALSE, d)
        BY <1>1, <1>5, <2>1, <3>1, RequestKeeps
      <3> QED
        BY <1>5, <2>4, <3>2 DEF IdleFits, IsSent, IsStopped
    <2> QED
      BY <2>3, <2>4
  <1>6. CASE e.stream # "open"
    <2>1. ~ c.idle
      BY <1>2, <1>6 DEF IdleFits
    <2>2. /\ d.disk = e.disk /\ d.memo = e.memo /\ d.view = e.view /\ d.queue = e.queue
          /\ d.byKey = e.byKey /\ d.active = e.active /\ d.nextId = e.nextId
          /\ d.listen = e.listen /\ d.in = e.in /\ d.stream = e.stream
          /\ d.agg = e.agg /\ d.out = e.out /\ d.ok = e.ok /\ d.idle = e.idle
          /\ d.online \in {"unknown", e.online}
      BY <1>1, <1>4, <1>6 DEF ClientOf
    <2>3. d \in ClientOf(V)
      <3> DEFINE o == IF last THEN "unknown" ELSE e.online
      <3>1. d = [e EXCEPT !.online = o]
        BY <1>4, <1>6
      <3>2. o \in {"unknown", "waiting", "online", "offline"}
        BY <1>1 DEF ClientOf
      <3> HIDE DEF o
      <3> QED
        BY ONLY <1>1, <3>1, <3>2 DEF ClientOf
    <2>4. ChangesFit(d) /\ DOMAIN d.agg \subseteq Targets(e)
          /\ (d.stream = "off" => d.online # "waiting")
      BY <2>2 DEF Stands, ChangesFit, TargetsFit, StreamFits
    <2>5. Stands(d, V, s)
      BY <1>1, <1>6, <2>2, <2>3, <2>4, StandsStill
    <2> QED
      BY <1>2, <2>1, <2>2, <2>5 DEF IdleFits, IsStopped
  <1> QED
    BY <1>5, <1>6

-----------------------------------------------------------------------------
(* SyncEngine's bookkeeping of documents in limbo.                         *)

(* What it leaves of a client.                                             *)
Bookkept(V, s, c, d) ==
  /\ Stands(d, V, s) /\ IdleFits(d) /\ Kept(c, d) /\ d.view = c.view

LEMMA BookkeptTwice ==
  ASSUME NEW V, NEW s, NEW c, NEW d, NEW e, Bookkept(V, s, c, d), Bookkept(V, s, d, e)
  PROVE  Bookkept(V, s, c, e)
  BY KeptTwice DEF Bookkept

LEMMA BookkeptAsIs ==
  ASSUME NEW V, NEW s, NEW c, Stands(c, V, s), IdleFits(c)
  PROVE  Bookkept(V, s, c, c)
  BY DEF Bookkept, Kept

(* The table of active resolutions, and that of targets.                   *)
LEMMA ActiveTable ==
  ASSUME NEW f \in ActiveType, NEW t \in Nat
  PROVE  /\ \A k \in Keys, b \in BOOLEAN : With(f, t, [key |-> k, received |-> b]) \in ActiveType
         /\ Without(f, t) \in ActiveType
  <1> DEFINE X == Nat
             Y == [key : Keys, received : BOOLEAN]
  <1>1. f \in Table(X, Y) /\ t \in X /\ ActiveType = Table(X, Y)
    BY DEF ActiveType
  <1>2. \A k \in Keys, b \in BOOLEAN : [key |-> k, received |-> b] \in Y
    OBVIOUS
  <1> HIDE DEF X, Y
  <1>3. \A y \in Y : With(f, t, y) \in Table(X, Y)
    BY <1>1, WithTable
  <1>4. Without(f, t) \in Table(X, Y)
    BY <1>1, WithoutTable
  <1> QED
    BY <1>1, <1>2, <1>3, <1>4

LEMMA ListenTable ==
  ASSUME NEW V, NEW f \in ListenOf(V), NEW t \in Nat
  PROVE  /\ \A k \in Keys \union {0}, v \in V : With(f, t, [key |-> k, token |-> v]) \in ListenOf(V)
         /\ Without(f, t) \in ListenOf(V)
  <1> DEFINE X == Nat
             Y == [key : Keys \union {0}, token : V]
  <1>1. f \in Table(X, Y) /\ t \in X /\ ListenOf(V) = Table(X, Y)
    BY DEF ListenOf
  <1>2. \A k \in Keys \union {0}, v \in V : [key |-> k, token |-> v] \in Y
    OBVIOUS
  <1> HIDE DEF X, Y
  <1>3. \A y \in Y : With(f, t, y) \in Table(X, Y)
    BY <1>1, WithTable
  <1>4. Without(f, t) \in Table(X, Y)
    BY <1>1, WithoutTable
  <1> QED
    BY <1>1, <1>2, <1>3, <1>4

LEMMA ResolveKeeps ==
  ASSUME NEW V, IsVersions(V), NEW s, NEW c, Stands(c, V, s), IdleFits(c)
  PROVE  Bookkept(V, s, c, ResolveFirst(c))
  <1>1. CASE c.queue = <<>> \/ Cardinality({x \in Keys : c.byKey[x] # 0}) >= MaxLimbo
    BY <1>1, BookkeptAsIs DEF ResolveFirst
  <1>2. CASE ~ (c.queue = <<>> \/ Cardinality({x \in Keys : c.byKey[x] # 0}) >= MaxLimbo)
    <2> DEFINE k == Head(c.queue)
               t == c.nextId
               a == [key |-> k, received |-> FALSE]
               l == [key |-> k, token |-> 0]
               b == [c.byKey EXCEPT ![k] = IF @ = 0 THEN t ELSE @]
               c0 == [c EXCEPT !.queue = Tail(@), !.nextId = @ + 1, !.active = With(@, t, a),
                               !.byKey = b]
               e == [c0 EXCEPT !.listen = With(@, t, l)]
               d == Listen(c0, t, k, 0)
    <2>1. c \in ClientOf(V) /\ c.ok /\ TargetsFit(c)
      BY DEF Stands
    <2>2. /\ c.queue \in Seq(Keys) /\ c.nextId \in Nat /\ c.active \in ActiveType
          /\ c.listen \in ListenOf(V) /\ c.byKey \in [Keys -> Nat]
      BY <2>1 DEF ClientOf
    <2>3. k \in Keys /\ Tail(c.queue) \in Seq(Keys)
      BY <1>2, <2>2
    <2>4. ResolveFirst(c) = d
      BY <1>2, <2>1 DEF ResolveFirst, ClientOf
    <2>5. /\ With(c.active, t, a) \in ActiveType /\ With(c.listen, t, l) \in ListenOf(V)
          /\ b \in [Keys -> Nat]
      BY <2>2, <2>3, ActiveTable, ListenTable DEF IsVersions
    <2>6. IsWith(With(c.active, t, a), c.active, t, a) /\ IsWith(With(c.listen, t, l), c.listen, t, l)
      BY WithIs
    <2>7. /\ e.disk = c.disk /\ e.view = c.view /\ e.ok = c.ok /\ e.online = c.online
          /\ e.stream = c.stream /\ e.agg = c.agg /\ e.in = c.in /\ e.out = c.out
          /\ e.nextId = c.nextId + 1 /\ e.byKey = b
          /\ e.active = With(c.active, t, a) /\ e.listen = With(c.listen, t, l)
          /\ c0.listen = c.listen /\ c0.stream = c.stream /\ c0.idle = c.idle
      BY <2>1 DEF ClientOf
    <2>8. e \in ClientOf(V)
      <3> HIDE DEF b, a, l, k, t
      <3>1. e = [c EXCEPT !.queue = Tail(c.queue), !.nextId = c.nextId + 1,
                          !.active = With(c.active, t, a), !.byKey = b,
                          !.listen = With(c.listen, t, l)]
        BY <2>1 DEF ClientOf
      <3>2. c.nextId + 1 \in Nat
        BY <2>2
      <3> HIDE DEF e
      <3> QED
        BY <2>1, <2>3, <2>5, <3>1, <3>2 DEF ClientOf
    <2>9. t \notin DOMAIN c.listen /\ t \notin DOMAIN c.agg /\ t # 0 /\ t \notin DOMAIN c.active
      BY <2>1, <2>2 DEF TargetsFit, Targets, Query
    <2>t. t = c.nextId /\ a.key = k /\ l.key = k
      OBVIOUS
    <2>b. \A x \in Keys : b[x] = c.byKey[x] \/ (x = k /\ b[x] = t)
      BY <2>2
    <2> HIDE DEF c0, e, d, a, l, b, t, k
    <2>e. /\ DOMAIN e.active = DOMAIN c.active \union {t} /\ e.active[t].key = k
          /\ \A u \in DOMAIN c.active : e.active[u] = c.active[u]
          /\ DOMAIN e.listen = DOMAIN c.listen \union {t} /\ e.listen[t].key = k
          /\ \A u \in DOMAIN c.listen : e.listen[u] = c.listen[u]
      <3>1. IsWith(e.active, c.active, t, a) /\ IsWith(e.listen, c.listen, t, l)
        BY <2>6, <2>7
      <3> QED
        BY <2>9, <2>t, <3>1 DEF IsWith
    <2>10. TargetsFit(e)
      <3>1. Targets(e) = Targets(c) \union {t}
        BY <2>2, <2>7, <2>t DEF Targets
      <3>2. /\ e.nextId >= 1 /\ DOMAIN e.listen \subseteq Targets(e)
            /\ DOMAIN e.agg \subseteq Targets(e)
        BY <2>1, <2>2, <2>7, <2>e, <3>1 DEF TargetsFit
      <3>3. /\ DOMAIN e.active = DOMAIN e.listen \ {Query}
            /\ \A u \in DOMAIN e.active : e.listen[u].key = e.active[u].key
            /\ Query \in DOMAIN e.listen => e.view.on
        BY <2>1, <2>7, <2>9, <2>e DEF TargetsFit, Query
      <3>4. \A x \in Keys : e.byKey[x] # 0 =>
              e.byKey[x] \in DOMAIN e.active /\ e.active[e.byKey[x]].key = x
        BY <2>1, <2>7, <2>b, <2>e DEF TargetsFit
      <3> QED
        BY <3>2, <3>3, <3>4 DEF TargetsFit
    <2>11. StreamFits(e) /\ ChangesFit(e)
      BY <2>7, <2>9, <2>e DEF Stands, StreamFits, ChangesFit
    <2>12. Follow(c, e) /\ c.nextId \in Nat /\ e.nextId \in Nat
      BY <2>2, <2>7, <2>e, <2>t DEF Follow
    <2>13. MessagesFit(e) /\ ServedFits(e, s)
      BY <2>7, <2>12, MessagesFollow DEF Stands
    <2>14. Stands(e, V, s)
      BY <2>7, <2>8, <2>10, <2>11, <2>13 DEF Stands
    <2>15. IsAbout(e, t, k)
      BY <2>2, <2>7, <2>e, <2>t DEF IsAbout, Targets
    <2>16. IsListened(V, s, e, t, d)
      <3>1. IdleFits(c0) /\ t \notin DOMAIN c0.listen /\ c0.listen \in ListenOf(V)
        BY <2>2, <2>7, <2>9 DEF IdleFits
      <3>2. e = [c0 EXCEPT !.listen = With(@, t, [key |-> k, token |-> 0])] /\ d = Listen(c0, t, k, 0)
        BY DEF e, d, l
      <3>3. k \in Keys \union {0} /\ 0 \in V
        BY <2>3 DEF IsVersions
      <3> HIDE DEF k, t
      <3> QED
        BY <2>14, <2>15, <3>1, <3>2, <3>3, ListenKeeps
    <2>17. Kept(c, d)
      BY <2>7, <2>9, <2>16, <2>e DEF Kept, IsListened, Held, Query
    <2> QED
      BY <2>4, <2>7, <2>16, <2>17 DEF Bookkept, IsListened
  <1> QED
    BY <1>1, <1>2

LEMMA PumpKeeps ==
  ASSUME NEW V, IsVersions(V), NEW s, NEW c, Stands(c, V, s), IdleFits(c)
  PROVE  Bookkept(V, s, c, PumpEnqueuedLimboResolutions(c))
  <1> DEFINE n == Len(c.queue)
             Table1(it) == it = [p \in SUBSET (1 .. n) |->
                             IF p = {} THEN c ELSE ResolveFirst(it[p \ {Max(p)}])]
             chosen == CHOOSE it : Table1(it)
             A == {x \in ClientOf(V) : Bookkept(V, s, c, x)}
             step == [p \in (1 .. n) \X A |-> ResolveFirst(p[2])]
  <1>1. n \in Nat /\ DOMAIN c.queue = 1 .. n
    BY DEF Stands, ClientOf
  <1>2. c \in A
    BY BookkeptAsIs DEF Stands
  <1>3. PumpEnqueuedLimboResolutions(c) = chosen[1 .. n]
    BY <1>1 DEF PumpEnqueuedLimboResolutions, FoldLeft, MapThenFoldSet
  <1> HIDE DEF n
  <1>4. ASSUME NEW x \in A PROVE ResolveFirst(x) \in A
    <2>1. Bookkept(V, s, c, x) /\ Stands(x, V, s) /\ IdleFits(x)
      BY DEF Bookkept
    <2>2. Bookkept(V, s, x, ResolveFirst(x))
      BY <2>1, ResolveKeeps
    <2>3. Bookkept(V, s, c, ResolveFirst(x))
      BY <2>1, <2>2, BookkeptTwice
    <2>4. ResolveFirst(x) \in ClientOf(V)
      BY <2>2 DEF Bookkept, Stands
    <2> QED
      BY <2>3, <2>4
  <1>5. step \in [(1 .. n) \X A -> A] /\ \A i \in 1 .. n, x \in A : step[<<i, x>>] = ResolveFirst(x)
    <2> HIDE DEF A
    <2> QED
      BY <1>4
  <1> HIDE DEF A, step
  <1>6. chosen[1 .. n] \in A
    <2>1. PICK it : IsTable(it, n, A, c, step)
      BY <1>1, <1>2, <1>5, FoldTable
    <2>2. Table1(it)
      <3>1. /\ it \in [SUBSET (1 .. n) -> A]
            /\ \A p \in SUBSET (1 .. n) :
                 it[p] = IF p = {} THEN c ELSE step[<<Max(p), it[p \ {Max(p)}]>>]
        BY <2>1 DEF IsTable
      <3>2. \A p \in SUBSET (1 .. n) :
              p # {} => Max(p) \in 1 .. n /\ it[p \ {Max(p)}] \in A
        BY <1>1, <3>1, MaxOfPlaces
      <3> QED
        BY <1>5, <3>1, <3>2
    <2>3. Table1(chosen)
      <3> HIDE DEF Table1
      <3> QED
        BY <2>2
    <2> HIDE DEF chosen
    <2>4. Follows(chosen, n, A, c, step)
      <3>1. chosen[{}] = c
        BY <2>3
      <3>2. ASSUME NEW p \in SUBSET (1 .. n), p # {}, chosen[p \ {Max(p)}] \in A
            PROVE  chosen[p] = step[<<Max(p), chosen[p \ {Max(p)}]>>]
        <4>1. Max(p) \in 1 .. n
          BY <1>1, <3>2, MaxOfPlaces
        <4> QED
          BY <1>5, <2>3, <3>2, <4>1
      <3> QED
        BY <3>1, <3>2 DEF Follows
    <2>5. PICK g : IsRun(g, chosen, n, A, c, step)
      BY <1>1, <1>2, <1>5, <2>4, FoldRun
    <2> QED
      BY <1>1, <2>5 DEF IsRun
  <1> QED
    BY <1>3, <1>6 DEF A

(* SyncEngine::TrackLimboChange.                                           *)
LEMMA TrackKeeps ==
  ASSUME NEW V, IsVersions(V), NEW s, NEW c, Stands(c, V, s), IdleFits(c), NEW k \in Keys
  PROVE  Bookkept(V, s, c, TrackLimboChange(c, k))
  <1>1. CASE c.byKey[k] # 0
    BY <1>1, BookkeptAsIs DEF TrackLimboChange
  <1>2. CASE c.byKey[k] = 0
    <2> DEFINE q == Append(c.queue, k)
               e == [c EXCEPT !.queue = q]
    <2>1. c \in ClientOf(V) /\ q \in Seq(Keys)
      BY SeqFacts DEF Stands, ClientOf
    <2> HIDE DEF q
    <2>2. /\ e.disk = c.disk /\ e.view = c.view /\ e.ok = c.ok /\ e.online = c.online
          /\ e.stream = c.stream /\ e.agg = c.agg /\ e.in = c.in /\ e.out = c.out
          /\ e.nextId = c.nextId /\ e.byKey = c.byKey /\ e.active = c.active
          /\ e.listen = c.listen /\ e.idle = c.idle /\ e \in ClientOf(V)
      BY <2>1 DEF ClientOf
    <2>3. TrackLimboChange(c, k) = PumpEnqueuedLimboResolutions(e)
      BY <1>2, <2>1 DEF TrackLimboChange, q, ClientOf
    <2> HIDE DEF e
    <2>4. ChangesFit(e) /\ DOMAIN e.agg \subseteq Targets(c)
      BY <2>2 DEF Stands, ChangesFit, TargetsFit
    <2>5. Stands(e, V, s)
      BY <2>2, <2>4, StandsStill DEF Stands, StreamFits
    <2>6. Bookkept(V, s, c, e) /\ IdleFits(e)
      BY <2>2, <2>5 DEF Bookkept, Kept, IdleFits, Held
    <2>7. Bookkept(V, s, e, PumpEnqueuedLimboResolutions(e))
      BY <2>5, <2>6, PumpKeeps
    <2> QED
      BY <2>3, <2>6, <2>7, BookkeptTwice
  <1> QED
    BY <1>1, <1>2

(* A client that gives up the resolution t of the document k.              *)
LEMMA DropStands ==
  ASSUME NEW V, NEW c, NEW s, Stands(c, V, s), NEW t \in DOMAIN c.active,
         NEW k \in Keys, k = c.active[t].key, NEW e \in ClientOf(V), e.ok,
         e.disk = c.disk, e.view = c.view, e.byKey = [c.byKey EXCEPT ![k] = 0],
         e.active = Without(c.active, t), e.listen = Without(c.listen, t),
         e.nextId = c.nextId, e.stream = c.stream, e.online = c.online,
         e.in = c.in, e.out = c.out, e.agg = c.agg \/ e.agg = Without(c.agg, t)
  PROVE  /\ Stands(e, V, s) /\ t # Query /\ t \in Targets(e)
         /\ Query \in DOMAIN e.listen <=> Query \in DOMAIN c.listen
         /\ Query \in DOMAIN e.agg <=> Query \in DOMAIN c.agg
  <1>1. c \in ClientOf(V) /\ TargetsFit(c)
    BY DEF Stands
  <1>2. t # Query /\ t \in DOMAIN c.listen /\ t \in Targets(c) /\ Targets(e) = Targets(c)
    BY <1>1 DEF TargetsFit, Targets
  <1>3. /\ DOMAIN e.active = DOMAIN c.active \ {t} /\ DOMAIN e.listen = DOMAIN c.listen \ {t}
        /\ \A u \in DOMAIN e.active : e.active[u] = c.active[u]
        /\ \A u \in DOMAIN e.listen : e.listen[u] = c.listen[u]
    <2>1. IsWithout(e.active, c.active, t) /\ IsWithout(e.listen, c.listen, t)
      BY WithoutIs
    <2> QED
      BY <2>1 DEF IsWithout
  <1>4. /\ DOMAIN e.agg \subseteq DOMAIN c.agg
        /\ Query \in DOMAIN e.agg <=> Query \in DOMAIN c.agg
        /\ \A u \in DOMAIN e.agg : e.agg[u] = c.agg[u]
        /\ DOMAIN c.agg = {} => DOMAIN e.agg = {}
    <2>1. IsWithout(Without(c.agg, t), c.agg, t)
      BY WithoutIs
    <2> QED
      BY <1>2, <2>1 DEF IsWithout
  <1>5. c.byKey \in [Keys -> Nat]
    BY <1>1 DEF ClientOf
  <1>6. TargetsFit(e)
    <2>1. \A x \in Keys : e.byKey[x] # 0 => e.byKey[x] = c.byKey[x] /\ x # k
      BY <1>5
    <2>2. \A x \in Keys : e.byKey[x] # 0 =>
            e.byKey[x] \in DOMAIN e.active /\ e.active[e.byKey[x]].key = x
      BY <1>1, <1>3, <2>1 DEF TargetsFit
    <2> QED
      BY <1>1, <1>2, <1>3, <1>4, <2>2 DEF TargetsFit
  <1>7. StreamFits(e) /\ ChangesFit(e)
    BY <1>3, <1>4 DEF Stands, StreamFits, ChangesFit
  <1>8. Follow(c, e) /\ c.nextId \in Nat /\ e.nextId \in Nat
    BY <1>1, <1>3 DEF Follow, ClientOf
  <1>9. MessagesFit(e) /\ ServedFits(e, s)
    BY <1>8, MessagesFollow DEF Stands
  <1>10. Stands(e, V, s)
    BY <1>6, <1>7, <1>9 DEF Stands
  <1> QED
    BY <1>2, <1>3, <1>4, <1>10

(* StopListening of a target that is listened to, written out.             *)
Requested(c, t) == [TargetState(c, t) EXCEPT !.outstanding = @ + 1]
Unwatch(t) == [kind |-> "unwatch", target |-> t, key |-> 0, token |-> 0]

IsStop(c, t, l, d) ==
  /\ c.stream = "open" /\ DOMAIN l = {} =>
       d = [c EXCEPT !.listen = l, !.agg = With(c.agg, t, Requested(c, t)),
                     !.out = Append(c.out, Unwatch(t)), !.idle = TRUE]
  /\ c.stream = "open" /\ DOMAIN l # {} =>
       d = [c EXCEPT !.listen = l, !.agg = With(c.agg, t, Requested(c, t)),
                     !.out = Append(c.out, Unwatch(t)), !.idle = FALSE]
  /\ c.stream # "open" =>
       d = [c EXCEPT !.listen = l, !.online = IF DOMAIN l = {} THEN "unknown" ELSE c.online]

LEMMA StopIs ==
  ASSUME NEW V, NEW c \in ClientOf(V), NEW t \in DOMAIN c.listen, c.ok
  PROVE  IsStop(c, t, Without(c.listen, t), StopListening(c, t))
  <1> DEFINE l == Without(c.listen, t)
             e == [c EXCEPT !.listen = l]
             n == Requested(c, t)
             r == Unwatch(t)
  <1>1. e = [c EXCEPT !.ok = @ /\ t \in DOMAIN c.listen, !.listen = Without(@, t)]
    BY DEF ClientOf
  <1>2. /\ e.stream = c.stream /\ e.agg = c.agg /\ e.out = c.out
        /\ e.idle = c.idle /\ e.online = c.online /\ e.listen = l
    BY DEF ClientOf
  <1>3. RecordPendingTargetRequest(e, t) = [e EXCEPT !.agg = With(c.agg, t, n)]
    <2> HIDE DEF e
    <2> QED
      BY <1>2 DEF RecordPendingTargetRequest, Requested, TargetState
  <1> HIDE DEF n
  <1>4. SendUnwatchRequest(e, t)
          = [e EXCEPT !.agg = With(c.agg, t, n), !.idle = FALSE, !.out = Append(c.out, r)]
    BY <1>3 DEF SendUnwatchRequest, Unwatch, ClientOf
  <1> HIDE DEF r
  <1>5. StopListening(c, t) = IF c.stream = "open"
                              THEN [SendUnwatchRequest(e, t) EXCEPT !.idle = DOMAIN l = {}]
                              ELSE [e EXCEPT !.online = IF DOMAIN l = {} THEN "unknown" ELSE @]
    <2> HIDE DEF e
    <2> QED
      BY <1>1, <1>2 DEF StopListening
  <1>6. ASSUME c.stream = "open", DOMAIN l = {}
        PROVE  StopListening(c, t) = [c EXCEPT !.listen = l, !.agg = With(c.agg, t, n),
                                               !.out = Append(c.out, r), !.idle = TRUE]
    <2>1. StopListening(c, t) = [SendUnwatchRequest(e, t) EXCEPT !.idle = TRUE]
      BY <1>5, <1>6
    <2> QED
      BY <1>4, <2>1 DEF ClientOf
  <1>7. ASSUME c.stream = "open", DOMAIN l # {}
        PROVE  StopListening(c, t) = [c EXCEPT !.listen = l, !.agg = With(c.agg, t, n),
                                               !.out = Append(c.out, r), !.idle = FALSE]
    <2>1. StopListening(c, t) = [SendUnwatchRequest(e, t) EXCEPT !.idle = FALSE]
      BY <1>5, <1>7
    <2> QED
      BY <1>4, <2>1 DEF ClientOf
  <1>8. ASSUME c.stream # "open"
        PROVE  StopListening(c, t) = [c EXCEPT !.listen = l, !.online =
                                                 IF DOMAIN l = {} THEN "unknown" ELSE c.online]
    BY <1>5, <1>8 DEF ClientOf
  <1> QED
    BY <1>6, <1>7, <1>8 DEF IsStop, n, r

(* SyncEngine::RemoveLimboTarget.                                          *)
LEMMA RemoveKeeps ==
  ASSUME NEW V, IsVersions(V), NEW s, NEW c, Stands(c, V, s), IdleFits(c), NEW k \in Keys
  PROVE  Bookkept(V, s, c, RemoveLimboTarget(c, k))
  <1>1. CASE c.byKey[k] = 0
    BY <1>1, BookkeptAsIs DEF RemoveLimboTarget
  <1>2. CASE c.byKey[k] # 0
    <2> DEFINE t == c.byKey[k]
               b == [c.byKey EXCEPT ![k] = 0]
               a == Without(c.active, t)
               l == Without(c.listen, t)
               c1 == [c EXCEPT !.byKey = b, !.active = a]
               e == [c1 EXCEPT !.listen = Without(@, t)]
               d == StopListening(c1, t)
    <2>1. c \in ClientOf(V) /\ c.ok /\ TargetsFit(c)
      BY DEF Stands
    <2>2. c.byKey \in [Keys -> Nat] /\ c.active \in ActiveType /\ c.listen \in ListenOf(V)
      BY <2>1 DEF ClientOf
    <2>3. /\ t \in DOMAIN c.active /\ c.active[t].key = k /\ t \in DOMAIN c.listen
          /\ t \in Nat /\ b \in [Keys -> Nat]
      BY <1>2, <2>1, <2>2 DEF TargetsFit
    <2>4. a \in ActiveType /\ l \in ListenOf(V)
      BY <2>2, <2>3, ActiveTable, ListenTable
    <2>5. [StopListening(c, t) EXCEPT !.byKey[k] = 0, !.active = Without(@, t)] = d
      <3> DEFINE ag == With(c.agg, t, Requested(c, t))
                 ou == Append(c.out, Unwatch(t))
                 on == IF DOMAIN l = {} THEN "unknown" ELSE c.online
                 x == StopListening(c, t)
      <3>1. c1 \in ClientOf(V)
        <4> HIDE DEF b, a
        <4> QED
          BY <2>1, <2>3, <2>4 DEF ClientOf
      <3>2. /\ c1.stream = c.stream /\ c1.ok = c.ok /\ c1.agg = c.agg /\ c1.out = c.out
            /\ c1.idle = c.idle /\ c1.online = c.online /\ c1.listen = c.listen
        BY <2>1 DEF ClientOf
      <3>3. Requested(c1, t) = Requested(c, t)
        <4> HIDE DEF c1
        <4> QED
          BY <3>2 DEF Requested, TargetState
      <3>7. IsStop(c, t, l, x)
        BY <2>1, <2>3, StopIs
      <3>8. IsStop(c1, t, l, d)
        <4> HIDE DEF c1
        <4> QED
          BY <2>1, <2>3, <3>1, <3>2, StopIs
      <3> HIDE DEF l, t, x, d
      <3>4. CASE c.stream = "open" /\ DOMAIN l = {}
        <4> DEFINE Y(z) == [z EXCEPT !.listen = l, !.agg = ag, !.out = ou, !.idle = TRUE]
        <4>1. x = Y(c)
          BY <3>7, <3>4 DEF IsStop
        <4>2. d = Y(c1)
          <5> HIDE DEF c1
          <5> QED
            BY <3>2, <3>3, <3>8, <3>4 DEF IsStop
        <4> HIDE DEF ag, ou
        <4>3. x.byKey = c.byKey /\ x.active = c.active
          BY <2>1, <4>1 DEF ClientOf
        <4>4. [Y(c) EXCEPT !.byKey = b, !.active = a] = Y(c1)
          <5> HIDE DEF a, b
          <5> QED
            BY <2>1 DEF ClientOf
        <4>5. [x EXCEPT !.byKey[k] = 0, !.active = Without(@, t)] = [x EXCEPT !.byKey = b, !.active = a]
          <5> HIDE DEF x
          <5> QED
            BY <4>3
        <4> HIDE DEF Y
        <4> QED
          BY <4>1, <4>2, <4>4, <4>5 DEF x, d
      <3>5. CASE c.stream = "open" /\ DOMAIN l # {}
        <4> DEFINE Y(z) == [z EXCEPT !.listen = l, !.agg = ag, !.out = ou, !.idle = FALSE]
        <4>1. x = Y(c)
          BY <3>7, <3>5 DEF IsStop
        <4>2. d = Y(c1)
          <5> HIDE DEF c1
          <5> QED
            BY <3>2, <3>3, <3>8, <3>5 DEF IsStop
        <4> HIDE DEF ag, ou
        <4>3. x.byKey = c.byKey /\ x.active = c.active
          BY <2>1, <4>1 DEF ClientOf
        <4>4. [Y(c) EXCEPT !.byKey = b, !.active = a] = Y(c1)
          <5> HIDE DEF a, b
          <5> QED
            BY <2>1 DEF ClientOf
        <4>5. [x EXCEPT !.byKey[k] = 0, !.active = Without(@, t)] = [x EXCEPT !.byKey = b, !.active = a]
          <5> HIDE DEF x
          <5> QED
            BY <4>3
        <4> HIDE DEF Y
        <4> QED
          BY <4>1, <4>2, <4>4, <4>5 DEF x, d
      <3>6. CASE c.stream # "open"
        <4> DEFINE Y(z) == [z EXCEPT !.listen = l, !.online = on]
        <4>1. x = Y(c)
          BY <3>7, <3>6 DEF IsStop
        <4>2. d = Y(c1)
          <5> HIDE DEF c1
          <5> QED
            BY <3>2, <3>8, <3>6 DEF IsStop
        <4> HIDE DEF on
        <4>3. x.byKey = c.byKey /\ x.active = c.active
          BY <2>1, <4>1 DEF ClientOf
        <4>4. [Y(c) EXCEPT !.byKey = b, !.active = a] = Y(c1)
          <5> HIDE DEF a, b
          <5> QED
            BY <2>1 DEF ClientOf
        <4>5. [x EXCEPT !.byKey[k] = 0, !.active = Without(@, t)] = [x EXCEPT !.byKey = b, !.active = a]
          <5> HIDE DEF x
          <5> QED
            BY <4>3
        <4> HIDE DEF Y
        <4> QED
          BY <4>1, <4>2, <4>4, <4>5 DEF x, d
      <3> QED
        BY <3>4, <3>5, <3>6
    <2>6. RemoveLimboTarget(c, k) = PumpEnqueuedLimboResolutions(d)
      <3> HIDE DEF d
      <3> QED
        BY <1>2, <2>5 DEF RemoveLimboTarget
    <2>7. /\ e.disk = c.disk /\ e.view = c.view /\ e.ok = c.ok /\ e.online = c.online
          /\ e.stream = c.stream /\ e.agg = c.agg /\ e.in = c.in /\ e.out = c.out
          /\ e.nextId = c.nextId /\ e.byKey = b /\ e.active = a /\ e.listen = l
          /\ e.idle = c.idle /\ e \in ClientOf(V)
          /\ c1.ok = c.ok /\ c1.listen = c.listen /\ c1.idle = c.idle /\ c1.stream = c.stream
      <3> HIDE DEF b, a, t
      <3> QED
        BY <2>1, <2>3, <2>4 DEF ClientOf
    <2>8. /\ Stands(e, V, s) /\ t # Query /\ t \in Targets(e)
          /\ Query \in DOMAIN e.listen <=> Query \in DOMAIN c.listen
      <3> HIDE DEF e, t
      <3> QED
        <4>1. k = c.active[t].key /\ e.ok /\ t \in DOMAIN c.active
          BY <2>1, <2>3, <2>7
        <4>2. /\ e.byKey = [c.byKey EXCEPT ![k] = 0] /\ e.active = Without(c.active, t)
              /\ e.listen = Without(c.listen, t)
          BY <2>7 DEF a, b, l
        <4> HIDE DEF a, b, l
        <4> QED
          BY <2>7, <4>1, <4>2, DropStands
    <2>9. IsStopped(V, s, e, d)
      <3>1. IdleFits(c1) /\ t \in DOMAIN c1.listen /\ c1.ok
        BY <2>1, <2>3, <2>7 DEF IdleFits
      <3>2. e = [c1 EXCEPT !.listen = Without(@, t)] /\ d = StopListening(c1, t)
        OBVIOUS
      <3> HIDE DEF e, d, c1, t
      <3> QED
        BY <2>8, <3>1, <3>2, StopKeeps
    <2> HIDE DEF e, d
    <2>10. Bookkept(V, s, c, d) /\ IdleFits(d)
      BY <2>7, <2>8, <2>9 DEF Bookkept, Kept, Held, IsStopped
    <2>11. Bookkept(V, s, d, PumpEnqueuedLimboResolutions(d))
      BY <2>10, PumpKeeps DEF Bookkept
    <2> QED
      BY <2>6, <2>10, <2>11, BookkeptTwice
  <1> QED
    BY <1>1, <1>2

(* Several documents that are no longer in limbo, and several that now are.  *)
LEMMA RemoveAllKeeps ==
  ASSUME NEW V, IsVersions(V), NEW s, NEW c, Stands(c, V, s), IdleFits(c), NEW order \in Seq(Keys)
  PROVE  Bookkept(V, s, c, FoldLeft(RemoveLimboTarget, c, order))
  <1> DEFINE n == Len(order)
             Table1(it) == it = [p \in SUBSET (1 .. n) |->
                             IF p = {} THEN c ELSE RemoveLimboTarget(it[p \ {Max(p)}], order[Max(p)])]
             chosen == CHOOSE it : Table1(it)
             A == {x \in ClientOf(V) : Bookkept(V, s, c, x)}
             step == [p \in (1 .. n) \X A |-> RemoveLimboTarget(p[2], order[p[1]])]
  <1>1. n \in Nat /\ DOMAIN order = 1 .. n /\ \A i \in 1 .. n : order[i] \in Keys
    OBVIOUS
  <1>2. c \in A
    BY BookkeptAsIs DEF Stands
  <1>3. FoldLeft(RemoveLimboTarget, c, order) = chosen[1 .. n]
    BY <1>1 DEF FoldLeft, MapThenFoldSet
  <1> HIDE DEF n
  <1>4. ASSUME NEW x \in A, NEW i \in 1 .. n PROVE RemoveLimboTarget(x, order[i]) \in A
    <2> DEFINE y == RemoveLimboTarget(x, order[i])
    <2>1. Bookkept(V, s, c, x) /\ Stands(x, V, s) /\ IdleFits(x) /\ order[i] \in Keys
      BY <1>1 DEF Bookkept
    <2>2. Bookkept(V, s, x, y)
      BY <2>1, RemoveKeeps
    <2> HIDE DEF y
    <2>3. Bookkept(V, s, c, y)
      BY <2>1, <2>2, BookkeptTwice
    <2>4. y \in ClientOf(V)
      BY <2>2 DEF Bookkept, Stands
    <2>5. y \in A
      BY <2>3, <2>4
    <2> QED
      BY <2>5 DEF y
  <1>5. /\ step \in [(1 .. n) \X A -> A]
        /\ \A i \in 1 .. n, x \in A : step[<<i, x>>] = RemoveLimboTarget(x, order[i])
    <2> HIDE DEF A
    <2> QED
      BY <1>4
  <1> HIDE DEF A, step
  <1>6. chosen[1 .. n] \in A
    <2>1. PICK it : IsTable(it, n, A, c, step)
      BY <1>1, <1>2, <1>5, FoldTable
    <2>2. Table1(it)
      <3>1. /\ it \in [SUBSET (1 .. n) -> A]
            /\ \A p \in SUBSET (1 .. n) :
                 it[p] = IF p = {} THEN c ELSE step[<<Max(p), it[p \ {Max(p)}]>>]
        BY <2>1 DEF IsTable
      <3>2. \A p \in SUBSET (1 .. n) :
              p # {} => Max(p) \in 1 .. n /\ it[p \ {Max(p)}] \in A
        BY <1>1, <3>1, MaxOfPlaces
      <3> QED
        BY <1>5, <3>1, <3>2
    <2>3. Table1(chosen)
      <3> HIDE DEF Table1
      <3> QED
        BY <2>2
    <2> HIDE DEF chosen
    <2>4. Follows(chosen, n, A, c, step)
      <3>1. chosen[{}] = c
        BY <2>3
      <3>2. ASSUME NEW p \in SUBSET (1 .. n), p # {}, chosen[p \ {Max(p)}] \in A
            PROVE  chosen[p] = step[<<Max(p), chosen[p \ {Max(p)}]>>]
        <4>1. Max(p) \in 1 .. n
          BY <1>1, <3>2, MaxOfPlaces
        <4> QED
          BY <1>5, <2>3, <3>2, <4>1
      <3> QED
        BY <3>1, <3>2 DEF Follows
    <2>5. PICK g : IsRun(g, chosen, n, A, c, step)
      BY <1>1, <1>2, <1>5, <2>4, FoldRun
    <2> QED
      BY <1>1, <2>5 DEF IsRun
  <1> QED
    BY <1>3, <1>6 DEF A

LEMMA TrackAllKeeps ==
  ASSUME NEW V, IsVersions(V), NEW s, NEW c, Stands(c, V, s), IdleFits(c), NEW order \in Seq(Keys)
  PROVE  Bookkept(V, s, c, FoldLeft(TrackLimboChange, c, order))
  <1> DEFINE n == Len(order)
             Table1(it) == it = [p \in SUBSET (1 .. n) |->
                             IF p = {} THEN c ELSE TrackLimboChange(it[p \ {Max(p)}], order[Max(p)])]
             chosen == CHOOSE it : Table1(it)
             A == {x \in ClientOf(V) : Bookkept(V, s, c, x)}
             step == [p \in (1 .. n) \X A |-> TrackLimboChange(p[2], order[p[1]])]
  <1>1. n \in Nat /\ DOMAIN order = 1 .. n /\ \A i \in 1 .. n : order[i] \in Keys
    OBVIOUS
  <1>2. c \in A
    BY BookkeptAsIs DEF Stands
  <1>3. FoldLeft(TrackLimboChange, c, order) = chosen[1 .. n]
    BY <1>1 DEF FoldLeft, MapThenFoldSet
  <1> HIDE DEF n
  <1>4. ASSUME NEW x \in A, NEW i \in 1 .. n PROVE TrackLimboChange(x, order[i]) \in A
    <2> DEFINE y == TrackLimboChange(x, order[i])
    <2>1. Bookkept(V, s, c, x) /\ Stands(x, V, s) /\ IdleFits(x) /\ order[i] \in Keys
      BY <1>1 DEF Bookkept
    <2>2. Bookkept(V, s, x, y)
      BY <2>1, TrackKeeps
    <2> HIDE DEF y
    <2>3. Bookkept(V, s, c, y)
      BY <2>1, <2>2, BookkeptTwice
    <2>4. y \in ClientOf(V)
      BY <2>2 DEF Bookkept, Stands
    <2>5. y \in A
      BY <2>3, <2>4
    <2> QED
      BY <2>5 DEF y
  <1>5. /\ step \in [(1 .. n) \X A -> A]
        /\ \A i \in 1 .. n, x \in A : step[<<i, x>>] = TrackLimboChange(x, order[i])
    <2> HIDE DEF A
    <2> QED
      BY <1>4
  <1> HIDE DEF A, step
  <1>6. chosen[1 .. n] \in A
    <2>1. PICK it : IsTable(it, n, A, c, step)
      BY <1>1, <1>2, <1>5, FoldTable
    <2>2. Table1(it)
      <3>1. /\ it \in [SUBSET (1 .. n) -> A]
            /\ \A p \in SUBSET (1 .. n) :
                 it[p] = IF p = {} THEN c ELSE step[<<Max(p), it[p \ {Max(p)}]>>]
        BY <2>1 DEF IsTable
      <3>2. \A p \in SUBSET (1 .. n) :
              p # {} => Max(p) \in 1 .. n /\ it[p \ {Max(p)}] \in A
        BY <1>1, <3>1, MaxOfPlaces
      <3> QED
        BY <1>5, <3>1, <3>2
    <2>3. Table1(chosen)
      <3> HIDE DEF Table1
      <3> QED
        BY <2>2
    <2> HIDE DEF chosen
    <2>4. Follows(chosen, n, A, c, step)
      <3>1. chosen[{}] = c
        BY <2>3
      <3>2. ASSUME NEW p \in SUBSET (1 .. n), p # {}, chosen[p \ {Max(p)}] \in A
            PROVE  chosen[p] = step[<<Max(p), chosen[p \ {Max(p)}]>>]
        <4>1. Max(p) \in 1 .. n
          BY <1>1, <3>2, MaxOfPlaces
        <4> QED
          BY <1>5, <2>3, <3>2, <4>1
      <3> QED
        BY <3>1, <3>2 DEF Follows
    <2>5. PICK g : IsRun(g, chosen, n, A, c, step)
      BY <1>1, <1>2, <1>5, <2>4, FoldRun
    <2> QED
      BY <1>1, <2>5 DEF IsRun
  <1> QED
    BY <1>3, <1>6 DEF A

(* SyncEngine::RemoveAndCleanupTarget, of a query that is not listened to. *)
LEMMA CleanupKeeps ==
  ASSUME WatchedQueryAssumption, NEW V, IsVersions(V), NEW s, NEW c, Stands(c, V, s), IdleFits(c),
         Query \notin DOMAIN c.listen, NEW d, d = RemoveAndCleanupTarget(c)
  PROVE  /\ Stands(d, V, s) /\ IdleFits(d) /\ d.in = c.in /\ d.disk = c.disk
         /\ ~ d.view.on /\ Query \notin DOMAIN d.listen /\ Held(d)
         /\ d.stream = "open" <=> c.stream = "open"
  <1> DEFINE e == [c EXCEPT !.view = NoView]
             order == Sorted(c.view.limbo)
  <1>1. c \in ClientOf(V) /\ c.ok /\ c.view.limbo \subseteq Keys
    BY DEF Stands, ClientOf, ViewOf
  <1>2. order \in Seq(Keys)
    <2>1. c.view.limbo \in SUBSET Nat /\ IsFiniteSet(c.view.limbo)
      BY <1>1, FS_Subset DEF WatchedQueryAssumption
    <2>2. order \in [1 .. Cardinality(c.view.limbo) -> c.view.limbo] /\ Cardinality(c.view.limbo) \in Nat
      BY <2>1, SortedIs
    <2> HIDE DEF order
    <2> QED
      BY <1>1, <2>2
  <1>3. d = FoldLeft(RemoveLimboTarget, e, order)
    BY DEF RemoveAndCleanupTarget
  <1>4. NoView \in ViewOf(V) /\ ~ NoView.on
    BY DEF NoView, ViewOf, Unknown, DocOf, IsVersions
  <1>5. /\ e.disk = c.disk /\ e.view = NoView /\ e.ok = c.ok /\ e.online = c.online
        /\ e.stream = c.stream /\ e.agg = c.agg /\ e.in = c.in /\ e.out = c.out
        /\ e.nextId = c.nextId /\ e.byKey = c.byKey /\ e.active = c.active
        /\ e.listen = c.listen /\ e.idle = c.idle /\ e \in ClientOf(V)
    BY <1>1, <1>4 DEF ClientOf
  <1> HIDE DEF e, order
  <1>6. Stands(e, V, s)
    <2>1. TargetsFit(e) /\ StreamFits(e) /\ ChangesFit(e)
      BY <1>5 DEF Stands, TargetsFit, StreamFits, ChangesFit, Targets
    <2>2. Follow(c, e) /\ c.nextId \in Nat /\ e.nextId \in Nat
      BY <1>1, <1>5 DEF Follow, ClientOf
    <2>3. MessagesFit(e) /\ ServedFits(e, s)
      BY <1>5, <2>2, MessagesFollow DEF Stands
    <2> QED
      BY <1>1, <1>5, <2>1, <2>3 DEF Stands
  <1>7. IdleFits(e)
    BY <1>5 DEF IdleFits
  <1>8. Bookkept(V, s, e, d)
    BY <1>2, <1>3, <1>6, <1>7, RemoveAllKeeps
  <1> QED
    BY <1>4, <1>5, <1>8 DEF Bookkept, Kept, Held

-----------------------------------------------------------------------------
(* The view.                                                               *)

LEMMA UnknownIs ==
  ASSUME NEW V, IsVersions(V)
  PROVE  Unknown \in DocOf(V) /\ NoView \in ViewOf(V) /\ NewTarget \in StateOf(V)
  BY EmptyIs DEF Unknown, DocOf, NoView, ViewOf, NewTarget, StateOf, IsVersions

LEMMA GetDocumentIs ==
  ASSUME NEW V, IsVersions(V), NEW d \in DiskOf(V), NEW k \in Keys
  PROVE  GetDocument(d, k) \in DocOf(V)
  <1> DEFINE own == {i \in DOMAIN d.writes : d.writes[i].key = k}
             m == Max(own)
             last == d.writes[m]
  <1>1. d.docs[k] \in DocOf(V) /\ d.writes \in Seq(WriteType)
    BY DEF DiskOf
  <1>2. CASE own = {}
    BY <1>1, <1>2 DEF GetDocument
  <1>3. CASE own # {}
    <2>1. m \in DOMAIN d.writes
      <3>1. own \in SUBSET (1 .. Len(d.writes)) /\ Len(d.writes) \in Nat
        BY <1>1
      <3> HIDE DEF own
      <3> QED
        BY <1>1, <1>3, <3>1, MaxOfPlaces
    <2> HIDE DEF m
    <2>2. last \in WriteType
      BY <1>1, <2>1
    <2>3. GetDocument(d, k) = [Unknown EXCEPT !.id = last.id, !.exists = last.exists, !.local = TRUE]
      BY <1>3 DEF GetDocument, m
    <2> HIDE DEF last
    <2> QED
      BY <2>2, <2>3, UnknownIs DEF WriteType, DocOf
  <1> QED
    BY <1>2, <1>3

(* The documents that are synced after what came for the query's target.   *)
Synced(S, targets) ==
  IF Query \in DOMAIN targets
  THEN (S \union KeysOf(targets[Query], "added")) \ KeysOf(targets[Query], "removed")
  ELSE S

LEMMA KeysOfTarget ==
  ASSUME NEW V, NEW targets \in AggOf(V), NEW t \in DOMAIN targets
  PROVE  /\ targets[t] \in StateOf(V) /\ DOMAIN targets[t].changes \subseteq Keys
         /\ \A type : KeysOf(targets[t], type) \subseteq Keys
  <1>1. targets \in Table(Nat, StateOf(V))
    BY DEF AggOf
  <1>2. targets[t] \in StateOf(V)
    BY <1>1, TableOf
  <1>3. targets[t].changes \in Table(Keys, ChangeKinds)
    BY <1>2 DEF StateOf
  <1>4. DOMAIN targets[t].changes \subseteq Keys
    BY <1>3, TableOf
  <1> QED
    BY <1>2, <1>4 DEF KeysOf

(* View's part of a snapshot.                                              *)
IsViewed(V, v, targets, w) ==
  w \in ViewOf(V) /\ w.on = v.on /\ w.synced = Synced(v.synced, targets)

LEMMA ViewKeeps ==
  ASSUME NEW V, IsVersions(V), NEW v \in ViewOf(V), NEW d \in DiskOf(V),
         NEW keys \in SUBSET Keys, NEW targets \in AggOf(V)
  PROVE  IsViewed(V, v, targets, UpdateLimboDocuments(
           ApplyTargetChange(ComputeDocumentChanges(v, d, keys), targets)))
  <1> DEFINE w1 == ComputeDocumentChanges(v, d, keys)
             w2 == ApplyTargetChange(w1, targets)
             w3 == UpdateLimboDocuments(w2)
  <1>1. w1 \in ViewOf(V) /\ w1.on = v.on /\ w1.synced = v.synced
    <2> DEFINE new(k) == IF GetDocument(d, k).exists THEN GetDocument(d, k) ELSE Unknown
               changed == {k \in keys : IsChange(v.docs[k], new(k), k \in v.mutated)}
               docs == [k \in Keys |-> IF k \in changed THEN new(k) ELSE v.docs[k]]
               mutated == (v.mutated \ changed) \union {k \in changed : new(k).local}
    <2>1. docs \in [Keys -> DocOf(V)]
      <3>1. \A k \in Keys : new(k) \in DocOf(V) /\ v.docs[k] \in DocOf(V)
        BY GetDocumentIs, UnknownIs DEF ViewOf
      <3> HIDE DEF new, changed
      <3> QED
        BY <3>1
    <2>2. mutated \in SUBSET Keys
      <3> HIDE DEF new
      <3> QED
        BY DEF ViewOf
    <2>3. w1 = [v EXCEPT !.docs = docs, !.mutated = mutated]
      <3>1. \A k \in Keys : v.docs[k] \in DocOf(V)
        BY DEF ViewOf
      <3> QED
        BY DEF ComputeDocumentChanges, ViewOf
    <2> HIDE DEF docs, mutated, w1
    <2> QED
      BY <2>1, <2>2, <2>3 DEF ViewOf
  <1> HIDE DEF w1
  <1>2. w2 \in ViewOf(V) /\ w2.on = v.on /\ w2.synced = Synced(v.synced, targets)
    <2>1. CASE Query \notin DOMAIN targets
      BY <1>1, <2>1 DEF ApplyTargetChange, Synced
    <2>2. CASE Query \in DOMAIN targets
      <3> DEFINE n == Synced(v.synced, targets)
      <3>1. targets[Query].current \in BOOLEAN /\ n \in SUBSET Keys
        <4>1. targets[Query] \in StateOf(V) /\ \A type : KeysOf(targets[Query], type) \subseteq Keys
          BY <2>2, KeysOfTarget
        <4>2. v.synced \subseteq Keys
          BY DEF ViewOf
        <4> QED
          BY <2>2, <4>1, <4>2 DEF StateOf, Synced
      <3>2. w2 = [w1 EXCEPT !.synced = n, !.current = targets[Query].current]
        BY <1>1, <2>2 DEF ApplyTargetChange, Synced, ViewOf
      <3> HIDE DEF n, w2
      <3>3. w2 \in ViewOf(V) /\ w2.on = w1.on /\ w2.synced = n
        BY <1>1, <3>1, <3>2 DEF ViewOf
      <3> QED
        BY <1>1, <3>3 DEF n
    <2> QED
      BY <2>1, <2>2
  <1> HIDE DEF w2
  <1>3. w3 \in ViewOf(V) /\ w3.on = w2.on /\ w3.synced = w2.synced
    <2> DEFINE limbo == IF w2.current THEN {k \in Keys : ShouldBeInLimbo(w2, k)} ELSE w2.limbo
    <2>1. limbo \in SUBSET Keys
      <3>1. w2.limbo \in SUBSET Keys
        BY <1>2 DEF ViewOf
      <3> QED
        BY <3>1
    <2>2. w3 = [w2 EXCEPT !.limbo = limbo, !.insync = w2.current /\ limbo = {}]
      BY DEF UpdateLimboDocuments
    <2> HIDE DEF limbo
    <2> QED
      BY <1>2, <2>1, <2>2 DEF ViewOf
  <1> QED
    BY <1>2, <1>3 DEF IsViewed, w1, w2

(* SyncEngine::EmitNewSnapshots.                                           *)
IsEmitted(V, s, c, targets, d) ==
  /\ Stands(d, V, s) /\ IdleFits(d) /\ Kept(c, d)
  /\ c.view.on => d.view.synced = Synced(c.view.synced, targets)

LEMMA SortedKeys ==
  ASSUME WatchedQueryAssumption, NEW S \in SUBSET Keys
  PROVE  Sorted(S) \in Seq(Keys)
  <1> DEFINE order == Sorted(S)
  <1>1. S \in SUBSET Nat /\ IsFiniteSet(S)
    BY FS_Subset DEF WatchedQueryAssumption
  <1>2. order \in [1 .. Cardinality(S) -> S] /\ Cardinality(S) \in Nat
    BY <1>1, SortedIs
  <1> DEFINE n == Cardinality(S)
  <1> HIDE DEF order, n
  <1>3. order \in [1 .. n -> Keys] /\ n \in Nat
    BY <1>2 DEF n
  <1>4. order \in Seq(Keys)
    BY <1>3
  <1> QED
    BY <1>4 DEF order

LEMMA EmitKeeps ==
  ASSUME WatchedQueryAssumption, NEW V, IsVersions(V), NEW s, NEW c, Stands(c, V, s), IdleFits(c),
         NEW keys \in SUBSET Keys, NEW targets \in AggOf(V),
         c.view.on /\ Query \in DOMAIN targets
           => KeysOf(targets[Query], "modified") \subseteq c.view.synced,
         NEW d, d = EmitNewSnapshots(c, keys, targets)
  PROVE  IsEmitted(V, s, c, targets, d)
  <1>1. CASE ~ c.view.on
    BY <1>1 DEF EmitNewSnapshots, IsEmitted, Kept
  <1>2. CASE c.view.on
    <2> DEFINE view == UpdateLimboDocuments(
                         ApplyTargetChange(ComputeDocumentChanges(c.view, c.disk, keys), targets))
               e == [c EXCEPT !.view = view]
               old == Sorted(c.view.limbo \ view.limbo)
               new == Sorted(view.limbo \ c.view.limbo)
               resolved == FoldLeft(RemoveLimboTarget, e, old)
    <2>1. c \in ClientOf(V) /\ c.ok /\ c.view \in ViewOf(V) /\ c.disk \in DiskOf(V)
      BY DEF Stands, ClientOf
    <2>2. IsViewed(V, c.view, targets, view)
      BY <2>1, ViewKeeps
    <2> HIDE DEF view
    <2>3. /\ view \in ViewOf(V) /\ view.on = c.view.on
          /\ view.synced = Synced(c.view.synced, targets)
      BY <2>2 DEF IsViewed
    <2>4. old \in Seq(Keys) /\ new \in Seq(Keys)
      <3>1. view.limbo \in SUBSET Keys /\ c.view.limbo \in SUBSET Keys
        BY <2>1, <2>3 DEF ViewOf
      <3> QED
        BY <3>1, SortedKeys
    <2>5. d = FoldLeft(TrackLimboChange, resolved, new)
      <3> DEFINE modified == IF Query \in DOMAIN targets THEN KeysOf(targets[Query], "modified")
                             ELSE {}
                 shown == [c EXCEPT !.view = view, !.ok = @ /\ modified \subseteq c.view.synced]
      <3>1. modified \subseteq c.view.synced
        BY <1>2
      <3>2. shown = e
        <4> HIDE DEF modified
        <4> QED
          BY <2>1, <3>1 DEF ClientOf
      <3>3. d = FoldLeft(TrackLimboChange, FoldLeft(RemoveLimboTarget, shown, old), new)
        BY <1>2 DEF EmitNewSnapshots, view
      <3> HIDE DEF shown, e, old, new
      <3> QED
        BY <3>2, <3>3
    <2>6. /\ e.disk = c.disk /\ e.view = view /\ e.ok = c.ok /\ e.online = c.online
          /\ e.stream = c.stream /\ e.agg = c.agg /\ e.in = c.in /\ e.out = c.out
          /\ e.nextId = c.nextId /\ e.byKey = c.byKey /\ e.active = c.active
          /\ e.listen = c.listen /\ e.idle = c.idle /\ e \in ClientOf(V)
      BY <2>1, <2>3 DEF ClientOf
    <2> HIDE DEF e, old, new
    <2>7. Stands(e, V, s) /\ IdleFits(e)
      <3>1. ChangesFit(e) /\ DOMAIN e.agg \subseteq Targets(c)
        BY <2>6 DEF Stands, ChangesFit, TargetsFit
      <3> QED
        BY <2>1, <2>3, <2>6, <3>1, StandsStill DEF Stands, StreamFits, IdleFits
    <2>8. Bookkept(V, s, e, resolved)
      BY <2>4, <2>7, RemoveAllKeeps
    <2> HIDE DEF resolved
    <2>9. Bookkept(V, s, resolved, d)
      BY <2>4, <2>5, <2>8, TrackAllKeeps DEF Bookkept
    <2>10. Bookkept(V, s, e, d)
      BY <2>8, <2>9, BookkeptTwice
    <2>11. Kept(c, e)
      BY <2>3, <2>6 DEF Kept, Held, IdleFits
    <2>12. Kept(c, d)
      BY <2>10, <2>11, KeptTwice DEF Bookkept
    <2> QED
      BY <2>3, <2>6, <2>10, <2>12 DEF IsEmitted, Bookkept
  <1> QED
    BY <1>1, <1>2

-----------------------------------------------------------------------------
(* What comes of the changes that the aggregator hands on.                 *)

(* They fit a client that has taken them from its aggregator.              *)
EventFits(c, targets) ==
  /\ c.view.on /\ Query \in DOMAIN targets
       => KeysOf(targets[Query], "modified") \subseteq c.view.synced
  /\ \A t \in DOMAIN targets \intersect DOMAIN c.active :
       \A k \in DOMAIN targets[t].changes :
         k = c.active[t].key /\ (targets[t].changes[k] # "added" => c.active[t].received)
  /\ \A t \in DOMAIN targets \intersect DOMAIN c.agg : DOMAIN c.agg[t].changes = {}

IsResolved(V, s, c, targets, d) ==
  /\ Stands(d, V, s) /\ DOMAIN d.active = DOMAIN c.active
  /\ \E a : d = [c EXCEPT !.active = a]

LEMMA ResolutionsKeep ==
  ASSUME NEW V, NEW s, NEW c, Stands(c, V, s), NEW targets \in AggOf(V),
         EventFits(c, targets), NEW d, d = UpdateLimboResolutions(c, targets)
  PROVE  IsResolved(V, s, c, targets, d)
  <1> DEFINE resolved == DOMAIN c.active \intersect DOMAIN targets
             added(t) == KeysOf(targets[t], "added") # {}
             removed(t) == KeysOf(targets[t], "removed") # {}
             a == [t \in DOMAIN c.active |->
                     IF t \in resolved
                     THEN [c.active[t] EXCEPT !.received = added(t) \/ (c.active[t].received /\ ~ removed(t))]
                     ELSE c.active[t]]
             okay == \A t \in resolved :
                       /\ Cardinality(DOMAIN targets[t].changes) <= 1
                       /\ ~ added(t) /\ DOMAIN targets[t].changes # {} => c.active[t].received
  <1>1. c \in ClientOf(V) /\ c.ok /\ c.active \in ActiveType
    BY DEF Stands, ClientOf
  <1>2. okay
    <2> SUFFICES ASSUME NEW t \in resolved
                 PROVE  /\ Cardinality(DOMAIN targets[t].changes) <= 1
                        /\ ~ added(t) /\ DOMAIN targets[t].changes # {} => c.active[t].received
      OBVIOUS
    <2>1. \A k \in DOMAIN targets[t].changes :
            k = c.active[t].key /\ (targets[t].changes[k] # "added" => c.active[t].received)
      BY DEF EventFits
    <2>2. Cardinality(DOMAIN targets[t].changes) <= 1
      <3> DEFINE S == DOMAIN targets[t].changes
                 k == c.active[t].key
      <3>1. S = {} \/ S = {k}
        BY <2>1
      <3> HIDE DEF S, k
      <3>2. CASE S = {}
        <4>1. Cardinality(S) = 0
          BY <3>2, FS_EmptySet
        <4> QED
          BY <4>1 DEF S
      <3>3. CASE S = {k}
        <4>1. Cardinality(S) = 1
          BY <3>3, FS_Singleton
        <4> QED
          BY <4>1 DEF S
      <3> QED
        BY <3>1, <3>2, <3>3
    <2> QED
      BY <2>1, <2>2 DEF KeysOf
  <1>3. d = [c EXCEPT !.active = a]
    <2>1. d = [c EXCEPT !.ok = @ /\ okay, !.active = a]
      BY DEF UpdateLimboResolutions
    <2> HIDE DEF okay, a
    <2> QED
      BY <1>1, <1>2, <2>1 DEF ClientOf
  <1>4. a \in ActiveType /\ DOMAIN a = DOMAIN c.active
    <2> DEFINE X == Nat
               Y == [key : Keys, received : BOOLEAN]
    <2>1. c.active \in Table(X, Y) /\ ActiveType = Table(X, Y)
      BY <1>1 DEF ActiveType
    <2>2. \A t \in DOMAIN c.active : c.active[t] \in Y
      <3> HIDE DEF X, Y
      <3> QED
        BY <2>1, TableOf
    <2>3. \A t \in DOMAIN c.active : a[t] \in Y
      <3>1. \A t \in DOMAIN c.active : a[t] = c.active[t]
              \/ a[t] = [c.active[t] EXCEPT !.received = TRUE]
              \/ a[t] = [c.active[t] EXCEPT !.received = FALSE]
        <4>1. ASSUME NEW t \in DOMAIN c.active
              PROVE  \/ a[t] = c.active[t]
                     \/ a[t] = [c.active[t] EXCEPT !.received = TRUE]
                     \/ a[t] = [c.active[t] EXCEPT !.received = FALSE]
          <5> DEFINE b == added(t) \/ (c.active[t].received /\ ~ removed(t))
          <5>1. a[t] = IF t \in resolved THEN [c.active[t] EXCEPT !.received = b] ELSE c.active[t]
            OBVIOUS
          <5> HIDE DEF a
          <5>2. CASE b
            BY <5>1, <5>2
          <5>3. CASE ~ b
            BY <5>1, <5>3
          <5> QED
            BY <5>2, <5>3
        <4> QED
          BY <4>1
      <3> HIDE DEF a
      <3> QED
        BY <2>2, <3>1
    <2>4. a = [t \in DOMAIN c.active |-> a[t]]
      OBVIOUS
    <2> HIDE DEF a, X, Y
    <2>5. a \in [DOMAIN c.active -> Y]
      BY <2>3, <2>4
    <2> QED
      BY <2>1, <2>5, MapIs
  <1>5. \A t \in DOMAIN c.active :
          a[t].key = c.active[t].key /\ (t \notin resolved => a[t] = c.active[t])
    <2> DEFINE X == Nat
               Y == [key : Keys, received : BOOLEAN]
    <2>1. c.active \in Table(X, Y)
      BY <1>1 DEF ActiveType
    <2>2. \A t \in DOMAIN c.active : c.active[t] \in Y
      <3> HIDE DEF X, Y
      <3> QED
        BY <2>1, TableOf
    <2> QED
      BY <2>2
  <1> HIDE DEF a
  <1>6. /\ d.disk = c.disk /\ d.view = c.view /\ d.ok = c.ok /\ d.online = c.online
        /\ d.stream = c.stream /\ d.agg = c.agg /\ d.in = c.in /\ d.out = c.out
        /\ d.nextId = c.nextId /\ d.byKey = c.byKey /\ d.active = a
        /\ d.listen = c.listen /\ d.idle = c.idle /\ d \in ClientOf(V)
    BY <1>1, <1>3, <1>4 DEF ClientOf
  <1>7. TargetsFit(d) /\ StreamFits(d)
    BY <1>4, <1>5, <1>6 DEF Stands, TargetsFit, StreamFits, Targets
  <1>8. ChangesFit(d)
    <2>1. ASSUME NEW t \in DOMAIN d.agg \intersect DOMAIN d.active, NEW k \in DOMAIN d.agg[t].changes
          PROVE  k = d.active[t].key /\ (d.agg[t].changes[k] # "added" => d.active[t].received)
      <3>1. t \notin resolved
        BY <1>6, <2>1 DEF EventFits
      <3> QED
        BY <1>4, <1>5, <1>6, <2>1, <3>1 DEF Stands, ChangesFit
    <2> QED
      BY <1>6, <2>1 DEF Stands, ChangesFit
  <1>9. Follow(c, d) /\ c.nextId \in Nat /\ d.nextId \in Nat
    BY <1>1, <1>4, <1>5, <1>6 DEF Follow, ClientOf
  <1>10. MessagesFit(d) /\ ServedFits(d, s)
    BY <1>6, <1>9, MessagesFollow DEF Stands
  <1>11. Stands(d, V, s)
    BY <1>6, <1>7, <1>8, <1>10 DEF Stands
  <1> QED
    BY <1>3, <1>4, <1>6, <1>11 DEF IsResolved

(* What is on disk never gets older.                                       *)
IsNotOlder(d, e) ==
  \A k \in Keys : e.docs[k].version >= d.docs[k].version \/ e.docs[k].version = 0

LEMMA StoreTargetIs ==
  ASSUME NEW V, NEW d \in DiskOf(V), NEW memo \in V, NEW targets \in AggOf(V),
         Query \in DOMAIN targets, NEW e, e = StoreTarget(d, memo, targets[Query])
  PROVE  /\ e \in DiskOf(V) /\ e.keys = Synced(d.keys, targets)
         /\ e.docs = d.docs /\ e.writes = d.writes /\ e.last = d.last
  <1> DEFINE target == targets[Query]
             keys == (d.keys \ KeysOf(target, "removed")) \union KeysOf(target, "added")
             token == IF target.token # 0 /\ (memo = 0 \/ DOMAIN target.changes # {})
                      THEN target.token ELSE d.token
  <1>1. target \in StateOf(V) /\ \A type : KeysOf(target, type) \subseteq Keys
    BY KeysOfTarget
  <1>2. keys = Synced(d.keys, targets)
    BY DEF Synced, KeysOf
  <1>3. keys \in SUBSET Keys
    BY <1>1 DEF DiskOf
  <1>4. token \in V
    BY <1>1 DEF DiskOf, StateOf
  <1>5. e = [d EXCEPT !.keys = keys, !.token = token]
    BY DEF StoreTarget, DiskOf
  <1> HIDE DEF keys, token
  <1> QED
    BY <1>2, <1>3, <1>4, <1>5 DEF DiskOf

LEMMA StoreDocumentsIs ==
  ASSUME NEW V, IsVersions(V), NEW d \in DiskOf(V), NEW updates \in UpdatesOf(V), NEW v \in V,
         NEW e, e = StoreDocuments(d, updates, v)
  PROVE  e \in DiskOf(V) /\ e.keys = d.keys /\ e.writes = d.writes /\ IsNotOlder(d, e)
  <1> DEFINE docs == [k \in Keys |->
                        IF k \in DOMAIN updates /\ IsNews(d.docs[k], updates[k])
                        THEN updates[k] ELSE d.docs[k]]
             last == IF v = 0 THEN d.last ELSE v
  <1>1. \A k \in Keys : d.docs[k] \in DocOf(V)
    BY DEF DiskOf
  <1>2. \A k \in DOMAIN updates : updates[k] \in DocOf(V)
    BY TableOf DEF UpdatesOf
  <1>3. docs \in [Keys -> DocOf(V)] /\ last \in V
    BY <1>1, <1>2 DEF DiskOf
  <1>4. e = [d EXCEPT !.docs = docs, !.last = last]
    BY DEF StoreDocuments, DiskOf
  <1>5. \A k \in Keys : docs[k].version >= d.docs[k].version \/ docs[k].version = 0
    <2>1. \A x, y \in DocOf(V) : IsNews(x, y) => y.version >= x.version \/ y.version = 0
      <3>1. \A x \in DocOf(V) : x.version \in Nat
        BY DEF DocOf, IsVersions
      <3> QED
        BY <3>1 DEF IsNews
    <2>2. ASSUME NEW x \in DocOf(V) PROVE x.version >= x.version
      <3>1. x.version \in Nat
        BY DEF DocOf, IsVersions
      <3> QED
        BY <3>1
    <2> QED
      BY <1>1, <1>2, <2>1, <2>2
  <1> HIDE DEF docs, last
  <1>6. e.docs = docs /\ e.keys = d.keys /\ e.writes = d.writes /\ e \in DiskOf(V)
    BY <1>3, <1>4 DEF DiskOf
  <1> QED
    BY <1>5, <1>6 DEF IsNotOlder

(* What a handler leaves of a client.                                      *)
IsHandled(V, s, c, d) ==
  /\ Stands(d, V, s) /\ IdleFits(d) /\ SyncedFits(d)
  /\ d.in = c.in /\ d.disk.writes = c.disk.writes /\ IsNotOlder(c.disk, d.disk)
  /\ d.stream = "open" <=> c.stream = "open"
  /\ (c.view.on <=> Query \in DOMAIN c.listen) => (d.view.on <=> Query \in DOMAIN d.listen)

(* Most leave the aggregator's entry of the query too.                     *)
HoldsOn(c, d) == Held(c) => Held(d)

LEMMA NotOlderAsIs ==
  ASSUME NEW V, IsVersions(V), NEW d \in DiskOf(V), NEW e, e.docs = d.docs
  PROVE  IsNotOlder(d, e)
  <1>1. ASSUME NEW k \in Keys PROVE e.docs[k].version >= d.docs[k].version
    <2>1. d.docs[k] \in DocOf(V)
      BY DEF DiskOf
    <2>2. d.docs[k].version \in Nat
      BY <2>1 DEF DocOf, IsVersions
    <2> QED
      BY <2>2
  <1> QED
    BY <1>1 DEF IsNotOlder

(* SyncEngine::ApplyRemoteEvent.                                           *)
LEMMA RemoteEventKeeps ==
  ASSUME WatchedQueryAssumption, NEW V, IsVersions(V), NEW s, NEW c, Stands(c, V, s), IdleFits(c),
         SyncedFits(c), NEW event \in EventOf(V), EventFits(c, event.targets),
         event.version = 0 \/ event.version >= c.disk.last, NEW d, d = ApplyRemoteEvent(c, event)
  PROVE  IsHandled(V, s, c, d) /\ HoldsOn(c, d)
  <1> DEFINE targets == event.targets
             known == Query \in DOMAIN targets /\ c.view.on
             stored == IF known THEN StoreTarget(c.disk, c.memo, targets[Query]) ELSE c.disk
             disk == StoreDocuments(stored, event.updates, event.version)
             memo == IF known /\ targets[Query].token # 0 THEN targets[Query].token ELSE c.memo
             news == {k \in DOMAIN event.updates : IsNews(c.disk.docs[k], event.updates[k])}
             c1 == UpdateLimboResolutions(c, targets)
             c2 == [c1 EXCEPT !.disk = disk, !.memo = memo]
  <1>1. c \in ClientOf(V) /\ c.ok /\ c.disk \in DiskOf(V) /\ c.memo \in V
    BY DEF Stands, ClientOf
  <1>2. targets \in AggOf(V) /\ event.updates \in UpdatesOf(V) /\ event.version \in V
    BY DEF EventOf
  <1>3. Stands(c1, V, s) /\ DOMAIN c1.active = DOMAIN c.active /\ \E a : c1 = [c EXCEPT !.active = a]
    <2>1. IsResolved(V, s, c, targets, c1)
      BY <1>2, ResolutionsKeep
    <2> HIDE DEF c1
    <2> QED
      BY <2>1 DEF IsResolved
  <1>4. c1 \in ClientOf(V) /\ c1.ok
    BY <1>3 DEF Stands
  <1>5. /\ c1.disk = c.disk /\ c1.memo = c.memo /\ c1.view = c.view /\ c1.listen = c.listen
        /\ c1.stream = c.stream /\ c1.agg = c.agg /\ c1.in = c.in /\ c1.idle = c.idle
    <2> HIDE DEF c1
    <2> QED
      BY <1>1, <1>3 DEF ClientOf
  <1>6. d = EmitNewSnapshots(c2, news, targets)
    <2> DEFINE fresh == event.version = 0 \/ event.version >= c.disk.last
               c3 == [c1 EXCEPT !.disk = disk, !.memo = memo, !.ok = @ /\ fresh]
    <2>1. d = EmitNewSnapshots(c3, news, targets)
      BY <1>5 DEF ApplyRemoteEvent
    <2>2. c3 = c2
      <3> HIDE DEF c1, disk, memo, fresh
      <3> QED
        BY <1>4 DEF ClientOf, fresh
    <2> HIDE DEF c3, c2, news, targets
    <2> QED
      BY <2>1, <2>2
  <1> HIDE DEF c1
  <1>7. /\ stored \in DiskOf(V) /\ stored.docs = c.disk.docs /\ stored.writes = c.disk.writes
        /\ known => stored.keys = Synced(c.disk.keys, targets)
        /\ ~ known => stored.keys = c.disk.keys
    <2>1. CASE known
      <3> DEFINE e == StoreTarget(c.disk, c.memo, targets[Query])
      <3> HIDE DEF e, targets
      <3>1. e \in DiskOf(V) /\ e.docs = c.disk.docs /\ e.writes = c.disk.writes
            /\ e.keys = Synced(c.disk.keys, targets)
        BY <1>1, <1>2, <2>1, StoreTargetIs DEF e
      <3> QED
        BY <2>1, <3>1 DEF e
    <2>2. CASE ~ known
      BY <1>1, <2>2
    <2> QED
      BY <2>1, <2>2
  <1>8. /\ disk \in DiskOf(V) /\ disk.keys = stored.keys /\ disk.writes = c.disk.writes
        /\ IsNotOlder(c.disk, disk)
    <2> HIDE DEF stored
    <2>1. /\ disk \in DiskOf(V) /\ disk.keys = stored.keys /\ disk.writes = stored.writes
          /\ IsNotOlder(stored, disk)
      BY <1>2, <1>7, StoreDocumentsIs
    <2> QED
      BY <1>7, <2>1 DEF IsNotOlder
  <1>9. memo \in V
    <2>1. known => targets[Query] \in StateOf(V)
      BY <1>2, KeysOfTarget
    <2> QED
      BY <1>1, <2>1 DEF StateOf
  <1>10. news \in SUBSET Keys
    BY <1>2, TableOf DEF UpdatesOf
  <1> HIDE DEF disk, memo, stored, news
  <1>11. /\ c2.disk = disk /\ c2.view = c1.view /\ c2.ok = c1.ok /\ c2.online = c1.online
         /\ c2.stream = c1.stream /\ c2.agg = c1.agg /\ c2.in = c1.in /\ c2.out = c1.out
         /\ c2.nextId = c1.nextId /\ c2.byKey = c1.byKey /\ c2.active = c1.active
         /\ c2.listen = c1.listen /\ c2.idle = c1.idle /\ c2 \in ClientOf(V)
    BY <1>4, <1>8, <1>9 DEF ClientOf
  <1> HIDE DEF c2
  <1>12. Stands(c2, V, s) /\ IdleFits(c2)
    <2>1. Query \in DOMAIN c2.agg => KeysOf(c2.agg[Query], "modified") \subseteq c2.disk.keys
      <3>1. CASE known
        <4>1. Query \in DOMAIN c2.agg => DOMAIN c2.agg[Query].changes = {}
          BY <1>5, <1>11, <3>1 DEF EventFits
        <4> QED
          BY <4>1 DEF KeysOf
      <3>2. CASE ~ known
        BY <1>5, <1>7, <1>8, <1>11, <3>2 DEF Stands, ChangesFit
      <3> QED
        BY <3>1, <3>2
    <2>2. ChangesFit(c2) /\ DOMAIN c2.agg \subseteq Targets(c1)
      BY <1>3, <1>11, <2>1 DEF Stands, ChangesFit, TargetsFit
    <2>3. Stands(c2, V, s)
      BY <1>3, <1>4, <1>11, <2>2, StandsStill DEF Stands, StreamFits
    <2> QED
      BY <1>5, <1>11, <2>3 DEF IdleFits
  <1>13. IsEmitted(V, s, c2, targets, d)
    <2>1. c2.view.on /\ Query \in DOMAIN targets
            => KeysOf(targets[Query], "modified") \subseteq c2.view.synced
      BY <1>5, <1>11 DEF EventFits
    <2> HIDE DEF targets
    <2> QED
      BY <1>2, <1>6, <1>10, <1>12, <2>1, EmitKeeps
  <1>14. SyncedFits(d)
    <2> SUFFICES ASSUME c.view.on PROVE d.view.synced = d.disk.keys
      BY <1>5, <1>11, <1>13 DEF SyncedFits, IsEmitted, Kept
    <2>1. d.view.synced = Synced(c.disk.keys, targets) /\ d.disk.keys = stored.keys
      BY <1>5, <1>8, <1>11, <1>13 DEF SyncedFits, IsEmitted, Kept
    <2>2. CASE known
      BY <1>7, <2>1, <2>2
    <2>3. CASE ~ known
      BY <1>7, <2>1, <2>3 DEF Synced
    <2> QED
      BY <2>2, <2>3
  <1> QED
    BY <1>5, <1>8, <1>11, <1>13, <1>14 DEF IsHandled, IsEmitted, Kept, Held, HoldsOn

-----------------------------------------------------------------------------
(* The aggregator of changes.                                              *)

(* What is collected about a target fits what the target has.              *)
StateFits(c, t, n) ==
  /\ t = Query => KeysOf(n, "modified") \subseteq c.disk.keys
  /\ t \in DOMAIN c.active =>
       \A k \in DOMAIN n.changes :
         k = c.active[t].key /\ (n.changes[k] # "added" => c.active[t].received)

LEMMA StatesFit ==
  ASSUME NEW V, IsVersions(V), NEW c \in ClientOf(V), ChangesFit(c), NEW t
  PROVE  StateFits(c, t, TargetState(c, t))
  BY TargetStateIs DEF StateFits, ChangesFit, KeysOf

(* An entry with the same changes, or with none, fits too.                 *)
LEMMA SameFits ==
  ASSUME NEW c, NEW t, NEW n, StateFits(c, t, n), NEW o,
         o.changes = n.changes \/ DOMAIN o.changes = {}
  PROVE  StateFits(c, t, o)
  BY DEF StateFits, KeysOf

LEMMA ChangesTable ==
  ASSUME NEW f \in Table(Keys, ChangeKinds), NEW k \in Keys
  PROVE  /\ \A type \in ChangeKinds : With(f, k, type) \in Table(Keys, ChangeKinds)
         /\ Without(f, k) \in Table(Keys, ChangeKinds)
  BY WithTable, WithoutTable

(* A document is added to what is collected, or removed from it.           *)
IsCollected(V, c, t, n) == n \in StateOf(V) /\ StateFits(c, t, n)

LEMMA DocumentCollected ==
  ASSUME NEW V, IsVersions(V), NEW c \in ClientOf(V), TargetsFit(c), ChangesFit(c), SyncedFits(c),
         NEW t \in DOMAIN c.listen, NEW k \in Keys, IsAbout(c, t, k),
         NEW n, n = AddDocument(c, t, k) \/ n = RemoveDocument(c, t, k)
  PROVE  IsCollected(V, c, t, n)
  <1> DEFINE o == TargetState(c, t)
             held == RemoteKeys(c, t)
  <1>1. o \in StateOf(V) /\ StateFits(c, t, o)
    BY TargetStateIs, StatesFit
  <1>2. t = Query \/ (t # Query /\ t \in DOMAIN c.active /\ c.active[t].key = k)
    BY DEF TargetsFit, IsAbout
  <1>3. /\ t = Query => held = c.disk.keys /\ t \notin DOMAIN c.active
        /\ t # Query => (k \in held <=> c.active[t].received)
    BY <1>2 DEF RemoteKeys, SyncedFits, TargetsFit
  <1>4. PICK ch : /\ n = [o EXCEPT !.pending = TRUE, !.changes = ch]
                  /\ \/ k \in held /\ ch = With(o.changes, k, "modified")
                     \/ k \notin held /\ ch = With(o.changes, k, "added")
                     \/ k \in held /\ ch = With(o.changes, k, "removed")
                     \/ k \notin held /\ ch = Without(o.changes, k)
    <2>1. AddDocument(c, t, k) = [o EXCEPT !.pending = TRUE, !.changes =
            With(o.changes, k, IF k \in held THEN "modified" ELSE "added")]
      BY <1>1 DEF AddDocument, StateOf
    <2>2. RemoveDocument(c, t, k) = [o EXCEPT !.pending = TRUE, !.changes =
            IF k \in held THEN With(o.changes, k, "removed") ELSE Without(o.changes, k)]
      BY <1>1 DEF RemoveDocument, StateOf
    <2> HIDE DEF o, held
    <2> QED
      BY <2>1, <2>2
  <1> HIDE DEF o, held
  <1>5. ch \in Table(Keys, ChangeKinds)
    <2>1. o.changes \in Table(Keys, ChangeKinds)
      BY <1>1 DEF StateOf
    <2>2. "modified" \in ChangeKinds /\ "added" \in ChangeKinds /\ "removed" \in ChangeKinds
      BY DEF ChangeKinds
    <2> QED
      BY <1>4, <2>1, <2>2, ChangesTable
  <1>6. n.changes = ch /\ n \in StateOf(V)
    BY <1>1, <1>4, <1>5 DEF StateOf
  <1>7. /\ \A x \in DOMAIN ch : x = k \/ (x \in DOMAIN o.changes /\ ch[x] = o.changes[x])
        /\ k \in DOMAIN ch => \/ ch[k] = "modified" /\ k \in held
                              \/ ch[k] = "added"
                              \/ ch[k] = "removed" /\ k \in held
    <2>1. \A y : IsWith(With(o.changes, k, y), o.changes, k, y)
      BY WithIs
    <2>2. IsWithout(Without(o.changes, k), o.changes, k)
      BY WithoutIs
    <2> QED
      BY <1>4, <2>1, <2>2 DEF IsWith, IsWithout
  <1>8. StateFits(c, t, n)
    <2>1. CASE t = Query
      BY <1>1, <1>3, <1>6, <1>7, <2>1 DEF StateFits, KeysOf
    <2>2. CASE t # Query
      BY <1>1, <1>2, <1>3, <1>6, <1>7, <2>2 DEF StateFits
    <2> QED
      BY <2>1, <2>2
  <1> QED
    BY <1>6, <1>8 DEF IsCollected

(* What a change of the aggregator leaves of a client.                     *)
LEMMA AggKeeps ==
  ASSUME NEW V, IsVersions(V), NEW s, NEW c, Stands(c, V, s), IdleFits(c), SyncedFits(c),
         c.stream = "open", NEW g \in AggOf(V),
         \A t \in DOMAIN g : t \in Targets(c) /\ StateFits(c, t, g[t]),
         NEW u \in UpdatesOf(V), NEW r \in SUBSET {Query},
         NEW d, d = [c EXCEPT !.agg = g, !.updates = u, !.resets = r]
  PROVE  /\ IsHandled(V, s, c, d)
         /\ Query \in DOMAIN g \/ DOMAIN c.agg \subseteq DOMAIN g => HoldsOn(c, d)
  <1>1. c \in ClientOf(V) /\ c.ok /\ c.disk \in DiskOf(V)
    BY DEF Stands, ClientOf
  <1>2. /\ d.disk = c.disk /\ d.view = c.view /\ d.ok = c.ok /\ d.online = c.online
        /\ d.stream = c.stream /\ d.agg = g /\ d.in = c.in /\ d.out = c.out
        /\ d.nextId = c.nextId /\ d.byKey = c.byKey /\ d.active = c.active
        /\ d.listen = c.listen /\ d.idle = c.idle /\ d \in ClientOf(V)
    BY <1>1 DEF ClientOf
  <1>3. ChangesFit(d) /\ DOMAIN d.agg \subseteq Targets(c)
    BY <1>2 DEF ChangesFit, StateFits
  <1>4. Stands(d, V, s)
    <2>1. TargetsFit(d) /\ StreamFits(d)
      BY <1>2, <1>3 DEF Stands, TargetsFit, StreamFits, Targets
    <2>2. Follow(c, d) /\ c.nextId \in Nat /\ d.nextId \in Nat
      BY <1>1, <1>2 DEF Follow, ClientOf
    <2>3. MessagesFit(c) /\ ServedFits(c, s) /\ (d.stream = "open" <=> c.stream = "open")
          /\ d.in = c.in /\ d.out = c.out
      BY <1>2 DEF Stands
    <2>4. MessagesFit(d) /\ ServedFits(d, s)
      <3> HIDE <1>1, <1>2, <1>3
      <3> QED
        BY <2>2, <2>3, MessagesFollow
    <2> QED
      BY <1>1, <1>2, <1>3, <2>1, <2>4 DEF Stands
  <1>5. IsNotOlder(c.disk, d.disk)
    BY <1>1, <1>2, NotOlderAsIs
  <1> QED
    BY <1>2, <1>4, <1>5 DEF IsHandled, IdleFits, SyncedFits, HoldsOn, Held

(* A client that a message of an open stream is for.                       *)
Ready(V, s, c) == Stands(c, V, s) /\ IdleFits(c) /\ SyncedFits(c) /\ c.stream = "open"

LEMMA ReadyIs ==
  ASSUME NEW V, IsVersions(V), NEW s, NEW c, Ready(V, s, c)
  PROVE  /\ c \in ClientOf(V) /\ c.ok /\ TargetsFit(c) /\ ChangesFit(c) /\ SyncedFits(c)
         /\ c.agg \in AggOf(V) /\ c.updates \in UpdatesOf(V) /\ c.resets \in SUBSET {Query}
         /\ \A t \in DOMAIN c.agg : /\ t \in Targets(c) /\ t \in Nat
                                    /\ c.agg[t] \in StateOf(V) /\ StateFits(c, t, c.agg[t])
         /\ DOMAIN c.listen \subseteq Targets(c) /\ DOMAIN c.listen \subseteq Nat
  <1>1. /\ c \in ClientOf(V) /\ c.ok /\ TargetsFit(c) /\ ChangesFit(c) /\ SyncedFits(c)
        /\ c.agg \in AggOf(V) /\ c.updates \in UpdatesOf(V) /\ c.resets \in SUBSET {Query}
    BY DEF Ready, Stands, ClientOf
  <1>2. DOMAIN c.listen \subseteq Targets(c) /\ DOMAIN c.agg \subseteq Targets(c)
    BY <1>1 DEF TargetsFit
  <1>3. Targets(c) \subseteq Nat
    BY <1>1 DEF Targets, ClientOf
  <1>4. ASSUME NEW t \in DOMAIN c.agg PROVE c.agg[t] \in StateOf(V) /\ StateFits(c, t, c.agg[t])
    BY <1>1, StatesFit, TargetStateIs
  <1> QED
    BY <1>1, <1>2, <1>3, <1>4

(* What a handler of the aggregator does.                                  *)
AggHandled(V, s, c, g, d) ==
  /\ IsHandled(V, s, c, d)
  /\ d.listen = c.listen /\ d.stream = c.stream /\ d.agg = g
  /\ d.disk = c.disk /\ d.view = c.view /\ d.active = c.active /\ d.in = c.in
  /\ Query \in DOMAIN g \/ DOMAIN c.agg \subseteq DOMAIN g => HoldsOn(c, d)

LEMMA AggHandles ==
  ASSUME NEW V, IsVersions(V), NEW s, NEW c, Ready(V, s, c), NEW g \in AggOf(V),
         \A t \in DOMAIN g : t \in Targets(c) /\ StateFits(c, t, g[t]),
         NEW d, \/ d = [c EXCEPT !.agg = g]
                \/ \E u \in UpdatesOf(V) : d = [c EXCEPT !.agg = g, !.updates = u]
                \/ \E r \in SUBSET {Query} : d = [c EXCEPT !.agg = g, !.resets = r]
                \/ \E u \in UpdatesOf(V), r \in SUBSET {Query} :
                     d = [c EXCEPT !.agg = g, !.updates = u, !.resets = r]
  PROVE  AggHandled(V, s, c, g, d)
  <1>1. c \in ClientOf(V) /\ c.updates \in UpdatesOf(V) /\ c.resets \in SUBSET {Query}
    BY ReadyIs
  <1>2. PICK u \in UpdatesOf(V), r \in SUBSET {Query} :
          d = [c EXCEPT !.agg = g, !.updates = u, !.resets = r]
    <2>1. CASE d = [c EXCEPT !.agg = g]
      <3>1. d = [c EXCEPT !.agg = g, !.updates = c.updates, !.resets = c.resets]
        BY <1>1, <2>1 DEF ClientOf
      <3> QED
        BY <1>1, <3>1
    <2>2. CASE \E u \in UpdatesOf(V) : d = [c EXCEPT !.agg = g, !.updates = u]
      <3>1. PICK u \in UpdatesOf(V) : d = [c EXCEPT !.agg = g, !.updates = u]
        BY <2>2
      <3>2. d = [c EXCEPT !.agg = g, !.updates = u, !.resets = c.resets]
        BY <1>1, <3>1 DEF ClientOf
      <3> QED
        BY <1>1, <3>2
    <2>3. CASE \E r \in SUBSET {Query} : d = [c EXCEPT !.agg = g, !.resets = r]
      <3>1. PICK r \in SUBSET {Query} : d = [c EXCEPT !.agg = g, !.resets = r]
        BY <2>3
      <3>2. d = [c EXCEPT !.agg = g, !.updates = c.updates, !.resets = r]
        BY <1>1, <3>1 DEF ClientOf
      <3> QED
        BY <1>1, <3>2
    <2> QED
      BY <2>1, <2>2, <2>3

  <1>3. /\ d.listen = c.listen /\ d.stream = c.stream /\ d.agg = g
        /\ d.disk = c.disk /\ d.view = c.view /\ d.active = c.active /\ d.in = c.in
    BY <1>1, <1>2 DEF ClientOf
  <1>4. /\ IsHandled(V, s, c, d)
        /\ Query \in DOMAIN g \/ DOMAIN c.agg \subseteq DOMAIN g => HoldsOn(c, d)
    BY <1>2, AggKeeps DEF Ready
  <1> QED
    BY <1>3, <1>4 DEF AggHandled

(* The entry of one target changes.                                        *)
LEMMA OneTargetHandles ==
  ASSUME NEW V, IsVersions(V), NEW s, NEW c, Ready(V, s, c), NEW t \in Targets(c),
         NEW n, IsCollected(V, c, t, n), NEW d, d = [c EXCEPT !.agg = With(@, t, n)]
  PROVE  AggHandled(V, s, c, With(c.agg, t, n), d) /\ HoldsOn(c, d)
         /\ t \in DOMAIN d.agg
  <1> DEFINE g == With(c.agg, t, n)
  <1>1. c \in ClientOf(V) /\ c.agg \in AggOf(V) /\ t \in Nat /\ n \in StateOf(V)
        /\ \A x \in DOMAIN c.agg : x \in Targets(c) /\ StateFits(c, x, c.agg[x])
    BY ReadyIs DEF Targets, IsCollected, ClientOf
  <1>2. g \in AggOf(V)
    BY <1>1, AggWith
  <1>3. IsWith(g, c.agg, t, n)
    BY WithIs
  <1> HIDE DEF g
  <1>4. \A x \in DOMAIN g : x \in Targets(c) /\ StateFits(c, x, g[x])
    BY <1>1, <1>3 DEF IsWith, IsCollected
  <1>5. d = [c EXCEPT !.agg = g]
    BY DEF g
  <1>6. AggHandled(V, s, c, g, d)
    BY <1>2, <1>4, <1>5, AggHandles
  <1>7. DOMAIN c.agg \subseteq DOMAIN g /\ t \in DOMAIN g
    BY <1>3 DEF IsWith
  <1> QED
    BY <1>6, <1>7 DEF AggHandled, g

LEMMA TargetAddedHandles ==
  ASSUME NEW V, IsVersions(V), NEW s, NEW c, Ready(V, s, c), NEW t \in Targets(c),
         NEW d, d = HandleTargetAdded(c, t)
  PROVE  /\ IsHandled(V, s, c, d) /\ HoldsOn(c, d) /\ t \in DOMAIN d.agg
         /\ d.stream = c.stream /\ d.listen = c.listen
  <1> DEFINE o == TargetState(c, t)
             r == Responded(c, t)
             n == IF r.outstanding # 0 THEN r ELSE [r EXCEPT !.pending = FALSE, !.changes = <<>>]
  <1>1. o \in StateOf(V) /\ StateFits(c, t, o)
    BY ReadyIs, TargetStateIs, StatesFit
  <1>2. r \in StateOf(V) /\ r.changes = o.changes
    BY <1>1 DEF Responded, StateOf
  <1> HIDE DEF o, r
  <1>3. n \in StateOf(V) /\ (n.changes = o.changes \/ DOMAIN n.changes = {})
    BY <1>2, EmptyIs DEF StateOf
  <1>4. IsCollected(V, c, t, n)
    BY <1>1, <1>3, SameFits DEF IsCollected
  <1>5. d = [c EXCEPT !.agg = With(@, t, n)]
    BY DEF HandleTargetAdded, r
  <1> HIDE DEF n
  <1>6. AggHandled(V, s, c, With(c.agg, t, n), d) /\ HoldsOn(c, d) /\ t \in DOMAIN d.agg
    BY <1>4, <1>5, OneTargetHandles
  <1> QED
    BY <1>6 DEF AggHandled

LEMMA TargetRemovedHandles ==
  ASSUME NEW V, IsVersions(V), NEW s, NEW c, Ready(V, s, c), NEW t \in Targets(c),
         NEW d, d = HandleTargetRemoved(c, t)
  PROVE  IsHandled(V, s, c, d) /\ (t # Query => HoldsOn(c, d))
  <1> DEFINE o == TargetState(c, t)
             r == Responded(c, t)
  <1>1. o \in StateOf(V) /\ StateFits(c, t, o)
    BY ReadyIs, TargetStateIs, StatesFit
  <1>2. r \in StateOf(V) /\ r.changes = o.changes
    BY <1>1 DEF Responded, StateOf
  <1> HIDE DEF o, r
  <1>3. CASE r.outstanding # 0
    <2>1. d = [c EXCEPT !.agg = With(@, t, r)]
      BY <1>3 DEF HandleTargetRemoved, r
    <2>2. IsCollected(V, c, t, r)
      BY <1>1, <1>2, SameFits DEF IsCollected
    <2>3. AggHandled(V, s, c, With(c.agg, t, r), d) /\ HoldsOn(c, d)
      BY <2>1, <2>2, OneTargetHandles
    <2> QED
      BY <2>3 DEF AggHandled
  <1>4. CASE r.outstanding = 0
    <2> DEFINE g == Without(c.agg, t)
    <2>1. d = [c EXCEPT !.agg = g]
      BY <1>4 DEF HandleTargetRemoved, r
    <2>2. c.agg \in AggOf(V) /\ \A x \in DOMAIN c.agg : x \in Targets(c) /\ StateFits(c, x, c.agg[x])
      BY ReadyIs
    <2>3. g \in AggOf(V)
      BY <2>2, WithoutTable DEF AggOf
    <2>4. IsWithout(g, c.agg, t)
      BY WithoutIs
    <2> HIDE DEF g
    <2>5. \A x \in DOMAIN g : x \in Targets(c) /\ StateFits(c, x, g[x])
      BY <2>2, <2>4 DEF IsWithout
    <2>6. AggHandled(V, s, c, g, d)
      BY <2>1, <2>3, <2>5, AggHandles
    <2>7. t # Query => HoldsOn(c, d)
      BY <2>4, <2>6 DEF AggHandled, IsWithout, HoldsOn, Held
    <2> QED
      BY <2>6, <2>7 DEF AggHandled
  <1> QED
    BY <1>3, <1>4

(* A handler that changes nothing.                                         *)
LEMMA HandledAsIs ==
  ASSUME NEW V, IsVersions(V), NEW s, NEW c, Ready(V, s, c)
  PROVE  IsHandled(V, s, c, c) /\ HoldsOn(c, c)
  <1>1. c.disk \in DiskOf(V)
    BY DEF Ready, Stands, ClientOf
  <1>2. IsNotOlder(c.disk, c.disk)
    BY <1>1, NotOlderAsIs
  <1> QED
    BY <1>2 DEF IsHandled, HoldsOn, Ready

LEMMA TargetCurrentHandles ==
  ASSUME NEW V, IsVersions(V), NEW s, NEW c, Ready(V, s, c), NEW t \in Targets(c),
         NEW d, d = HandleTargetCurrent(c, t)
  PROVE  IsHandled(V, s, c, d) /\ HoldsOn(c, d)
  <1>1. CASE ~ IsActiveTarget(c, t)
    BY <1>1, HandledAsIs DEF HandleTargetCurrent
  <1>2. CASE IsActiveTarget(c, t)
    <2> DEFINE o == TargetState(c, t)
               n == [o EXCEPT !.current = TRUE, !.pending = TRUE]
    <2>1. o \in StateOf(V) /\ StateFits(c, t, o)
      BY ReadyIs, TargetStateIs, StatesFit
    <2>2. d = [c EXCEPT !.agg = With(@, t, n)]
      BY <1>2 DEF HandleTargetCurrent
    <2> HIDE DEF o
    <2>3. n \in StateOf(V) /\ n.changes = o.changes
      BY <2>1 DEF StateOf
    <2>4. IsCollected(V, c, t, n)
      BY <2>1, <2>3, SameFits DEF IsCollected
    <2> HIDE DEF n
    <2>5. AggHandled(V, s, c, With(c.agg, t, n), d) /\ HoldsOn(c, d)
      BY <2>2, <2>4, OneTargetHandles
    <2> QED
      BY <2>5 DEF AggHandled
  <1> QED
    BY <1>1, <1>2

(* Documents or targets that change together.                              *)
LEMMA TargetsTable ==
  ASSUME NEW V, NEW D \in SUBSET Nat, NEW f, f = [t \in D |-> f[t]],
         \A t \in D : f[t] \in StateOf(V)
  PROVE  f \in AggOf(V) /\ DOMAIN f = D
  <1> DEFINE X == Nat
             Y == StateOf(V)
  <1>1. f \in [D -> Y] /\ D \in SUBSET X
    <2> HIDE DEF X, Y
    <2>1. \A t \in D : f[t] \in Y
      BY DEF Y
    <2>2. f \in [D -> Y]
      BY <2>1
    <2> QED
      BY <2>2 DEF X
  <1>2. DOMAIN f = D
    OBVIOUS
  <1>3. AggOf(V) = Table(X, Y)
    BY DEF AggOf
  <1>4. f \in Table(X, Y)
    BY <1>1 DEF Table
  <1> HIDE DEF X, Y
  <1> QED
    BY <1>2, <1>3, <1>4

LEMMA OverAgg ==
  ASSUME NEW V, NEW f \in AggOf(V), NEW g \in AggOf(V)
  PROVE  Over(g, f) \in AggOf(V)
  BY OverTable DEF AggOf

LEMMA DocumentHandles ==
  ASSUME NEW V, IsVersions(V), NEW s, NEW c, Ready(V, s, c), NEW m, m.key \in Keys,
         m.doc \in DocOf(V), \A t \in m.updated \union m.removed : IsAbout(c, t, m.key),
         NEW d, d = HandleDocumentChange(c, m)
  PROVE  IsHandled(V, s, c, d) /\ HoldsOn(c, d)
  <1> DEFINE active == {t \in m.updated \union m.removed : IsActiveTarget(c, t)}
             f == [t \in active |-> IF t \in m.updated THEN AddDocument(c, t, m.key)
                                    ELSE RemoveDocument(c, t, m.key)]
             g == Over(f, c.agg)
             u == With(c.updates, m.key, m.doc)
  <1>1. CASE active = {}
    <2>1. d = c
      BY <1>1 DEF HandleDocumentChange
    <2> QED
      BY <2>1, HandledAsIs
  <1>2. CASE active # {}
    <2>1. /\ c \in ClientOf(V) /\ TargetsFit(c) /\ ChangesFit(c) /\ SyncedFits(c)
          /\ c.agg \in AggOf(V) /\ c.updates \in UpdatesOf(V)
          /\ \A x \in DOMAIN c.agg : x \in Targets(c) /\ StateFits(c, x, c.agg[x])
          /\ DOMAIN c.listen \subseteq Targets(c) /\ DOMAIN c.listen \subseteq Nat
      BY ReadyIs
    <2>2. /\ active \subseteq DOMAIN c.listen /\ f = [t \in active |-> f[t]]
          /\ \A t \in active : IsAbout(c, t, m.key)
          /\ \A t \in active : f[t] = AddDocument(c, t, m.key) \/ f[t] = RemoveDocument(c, t, m.key)
      BY DEF IsActiveTarget
    <2>3. d = [c EXCEPT !.agg = g, !.updates = u]
      BY <1>2, <2>1 DEF HandleDocumentChange, ClientOf
    <2> HIDE DEF active, f
    <2>4. \A t \in active : IsCollected(V, c, t, f[t])
      BY <2>1, <2>2, DocumentCollected
    <2>5. f \in AggOf(V) /\ DOMAIN f = active
      BY <2>1, <2>2, <2>4, TargetsTable DEF IsCollected
    <2>6. g \in AggOf(V)
      BY <2>1, <2>5, OverAgg
    <2>7. IsOver(g, f, c.agg)
      BY OverIs
    <2>8. u \in UpdatesOf(V)
      <3> DEFINE Y == DocOf(V)
      <3>1. c.updates \in Table(Keys, Y) /\ m.doc \in Y /\ UpdatesOf(V) = Table(Keys, Y)
        BY <2>1 DEF UpdatesOf
      <3> HIDE DEF Y
      <3> QED
        BY <3>1, WithTable
    <2> HIDE DEF g, u
    <2>9. \A x \in DOMAIN g : x \in Targets(c) /\ StateFits(c, x, g[x])
      BY <2>1, <2>2, <2>4, <2>5, <2>7 DEF IsOver, IsCollected
    <2>10. DOMAIN c.agg \subseteq DOMAIN g
      BY <2>7 DEF IsOver
    <2>11. AggHandled(V, s, c, g, d)
      BY <2>3, <2>6, <2>8, <2>9, AggHandles
    <2> QED
      BY <2>10, <2>11 DEF AggHandled
  <1> QED
    BY <1>1, <1>2

LEMMA TokensHandle ==
  ASSUME NEW V, IsVersions(V), NEW s, NEW c, Ready(V, s, c), NEW v \in V,
         NEW d, d = UpdateResumeTokens(c, v)
  PROVE  \E g : AggHandled(V, s, c, g, d) /\ DOMAIN g = DOMAIN c.agg
  <1> DEFINE g == [t \in DOMAIN c.agg |->
                     IF IsActiveTarget(c, t) THEN [c.agg[t] EXCEPT !.token = v, !.pending = TRUE]
                     ELSE c.agg[t]]
  <1>1. /\ c.agg \in AggOf(V)
        /\ \A x \in DOMAIN c.agg : /\ x \in Targets(c) /\ x \in Nat
                                   /\ c.agg[x] \in StateOf(V) /\ StateFits(c, x, c.agg[x])
    BY ReadyIs
  <1>2. d = [c EXCEPT !.agg = g]
    BY DEF UpdateResumeTokens
  <1>3. /\ g = [t \in DOMAIN c.agg |-> g[t]] /\ DOMAIN c.agg \in SUBSET Nat
        /\ \A t \in DOMAIN c.agg : g[t] \in StateOf(V) /\ g[t].changes = c.agg[t].changes
    <2>1. ASSUME NEW t \in DOMAIN c.agg
          PROVE  g[t] \in StateOf(V) /\ g[t].changes = c.agg[t].changes
      BY <1>1 DEF StateOf
    <2>2. DOMAIN c.agg \in SUBSET Nat
      BY <1>1
    <2> QED
      BY <2>1, <2>2
  <1> HIDE DEF g
  <1>4. g \in AggOf(V) /\ DOMAIN g = DOMAIN c.agg
    BY <1>3, TargetsTable
  <1>5. \A t \in DOMAIN g : t \in Targets(c) /\ StateFits(c, t, g[t])
    BY <1>1, <1>3, <1>4, SameFits
  <1>6. AggHandled(V, s, c, g, d)
    BY <1>2, <1>4, <1>5, AggHandles
  <1> QED
    BY <1>4, <1>6

LEMMA FilterHandles ==
  ASSUME NEW V, IsVersions(V), NEW s, NEW c, Ready(V, s, c), Held(c), NEW count,
         NEW d, d = HandleExistenceFilter(c, Query, count)
  PROVE  IsHandled(V, s, c, d) /\ HoldsOn(c, d)
  <1>1. CASE ~ (IsActiveTarget(c, Query) /\ GetCurrentDocumentCount(c, Query) # count)
    BY <1>1, HandledAsIs DEF HandleExistenceFilter
  <1>2. CASE IsActiveTarget(c, Query) /\ GetCurrentDocumentCount(c, Query) # count
    <2> DEFINE ch == [k \in RemoteKeys(c, Query) |-> "removed"]
               n == [NewTarget EXCEPT !.changes = ch]
               g == With(c.agg, Query, n)
               r == c.resets \union {Query}
    <2>1. /\ c \in ClientOf(V) /\ c.ok /\ c.agg \in AggOf(V) /\ TargetsFit(c)
          /\ \A x \in DOMAIN c.agg : x \in Targets(c) /\ StateFits(c, x, c.agg[x])
          /\ c.resets \in SUBSET {Query}
      BY ReadyIs
    <2>2. Query \in DOMAIN c.agg /\ Query \in Targets(c) /\ Query \notin DOMAIN c.active
      BY <1>2, <2>1 DEF Ready, Held, IsActiveTarget, TargetsFit
    <2>3. d = [c EXCEPT !.agg = g, !.resets = r]
      <3>1. ResetTarget(c, Query) = [c EXCEPT !.agg = g]
        <4>1. ResetTarget(c, Query) = [c EXCEPT !.agg = g, !.ok = @ /\ Query \in DOMAIN c.agg]
          BY DEF ResetTarget
        <4> HIDE DEF g
        <4> QED
          BY <2>1, <2>2, <4>1 DEF ClientOf
      <3> HIDE DEF g
      <3> QED
        BY <1>2, <2>1, <3>1 DEF HandleExistenceFilter, ClientOf
    <2>4. ch \in Table(Keys, ChangeKinds)
      <3> DEFINE D == RemoteKeys(c, Query)
      <3>1. D \in SUBSET Keys
        BY <2>1 DEF RemoteKeys, ClientOf, ViewOf
      <3>2. ch \in [D -> ChangeKinds]
        BY DEF ChangeKinds
      <3> HIDE DEF D, ch
      <3> QED
        BY <3>1, <3>2, TableBy
    <2>5. /\ n \in StateOf(V) /\ n.changes = ch /\ \A k \in DOMAIN ch : ch[k] = "removed"
      <3>1. \A k \in DOMAIN ch : ch[k] = "removed"
        OBVIOUS
      <3> HIDE DEF ch
      <3> QED
        BY <2>4, <3>1, UnknownIs DEF StateOf
    <2> HIDE DEF ch, n
    <2>6. StateFits(c, Query, n)
      BY <2>2, <2>5 DEF StateFits, KeysOf
    <2>7. g \in AggOf(V) /\ IsWith(g, c.agg, Query, n)
      BY <2>1, <2>5, AggWith, WithIs DEF Query
    <2> HIDE DEF g
    <2>8. \A x \in DOMAIN g : x \in Targets(c) /\ StateFits(c, x, g[x])
      BY <2>1, <2>2, <2>6, <2>7 DEF IsWith
    <2>9. r \in SUBSET {Query}
      BY <2>1
    <2> HIDE DEF r
    <2>10. AggHandled(V, s, c, g, d)
      BY <2>3, <2>7, <2>8, <2>9, AggHandles
    <2> QED
      BY <2>7, <2>10 DEF AggHandled, IsWith
  <1> QED
    BY <1>1, <1>2

LEMMA DeletesHandle ==
  ASSUME NEW V, IsVersions(V), NEW s, NEW c, Ready(V, s, c), NEW v \in V,
         NEW d, d = SynthesizeDeletes(c, v)
  PROVE  \E g : AggHandled(V, s, c, g, d) /\ DOMAIN g = DOMAIN c.agg
  <1> DEFINE key(t) == c.listen[t].key
             missing == {t \in DOMAIN c.agg \ {Query} :
                           /\ IsActiveTarget(c, t) /\ c.agg[t].current
                           /\ key(t) \notin DOMAIN c.updates \union RemoteKeys(c, t)}
             f == [t \in missing |-> RemoveDocument(c, t, key(t))]
             w == [k \in {key(t) : t \in missing} |-> [Unknown EXCEPT !.version = v]]
             g == Over(f, c.agg)
             u == Over(w, c.updates)
  <1>1. /\ c \in ClientOf(V) /\ TargetsFit(c) /\ ChangesFit(c) /\ SyncedFits(c)
        /\ c.agg \in AggOf(V) /\ c.updates \in UpdatesOf(V)
        /\ \A x \in DOMAIN c.agg : x \in Targets(c) /\ StateFits(c, x, c.agg[x])
        /\ DOMAIN c.listen \subseteq Targets(c) /\ DOMAIN c.listen \subseteq Nat
    BY ReadyIs
  <1>2. d = [c EXCEPT !.agg = g, !.updates = u]
    BY DEF SynthesizeDeletes
  <1>3. /\ missing \subseteq DOMAIN c.listen /\ missing \subseteq DOMAIN c.agg
        /\ \A t \in missing : t # Query
        /\ \A t \in missing : f[t] = RemoveDocument(c, t, key(t))
        /\ f = [t \in missing |-> f[t]]
    BY DEF IsActiveTarget
  <1>4. \A t \in missing : key(t) \in Keys /\ IsAbout(c, t, key(t))
    <2> SUFFICES ASSUME NEW t \in missing PROVE key(t) \in Keys /\ IsAbout(c, t, key(t))
      OBVIOUS
    <2>1. t \in DOMAIN c.active /\ c.active[t].key = key(t) /\ t \in Targets(c)
      BY <1>1, <1>3 DEF TargetsFit
    <2> DEFINE X == Nat
               Y == [key : Keys, received : BOOLEAN]
    <2>2. c.active \in Table(X, Y)
      BY <1>1 DEF ClientOf, ActiveType
    <2>3. c.active[t] \in Y
      <3> HIDE DEF X, Y
      <3> QED
        BY <2>1, <2>2, TableOf
    <2> QED
      BY <2>1, <2>3 DEF IsAbout
  <1>5. w \in UpdatesOf(V)
    <2> DEFINE D == {key(t) : t \in missing}
               x == [Unknown EXCEPT !.version = v]
    <2>1. D \in SUBSET Keys
      BY <1>4
    <2>2. x \in DocOf(V)
      BY UnknownIs DEF DocOf
    <2>3. w = [k \in D |-> x]
      OBVIOUS
    <2> HIDE DEF D, x, w
    <2>4. w \in [D -> DocOf(V)]
      BY <2>2, <2>3
    <2> QED
      BY <2>1, <2>4, TableBy DEF UpdatesOf
  <1> HIDE DEF missing, f, w
  <1>6. \A t \in missing : IsCollected(V, c, t, f[t])
    <2> SUFFICES ASSUME NEW t \in missing PROVE IsCollected(V, c, t, f[t])
      OBVIOUS
    <2> DEFINE k == key(t)
    <2>1. t \in DOMAIN c.listen /\ f[t] = RemoveDocument(c, t, k) /\ k \in Keys /\ IsAbout(c, t, k)
      BY <1>3, <1>4
    <2> HIDE DEF k
    <2> QED
      BY <1>1, <2>1, DocumentCollected
  <1>7. f \in AggOf(V) /\ DOMAIN f = missing
    BY <1>1, <1>3, <1>6, TargetsTable DEF IsCollected
  <1>8. g \in AggOf(V) /\ IsOver(g, f, c.agg)
    BY <1>1, <1>7, OverAgg, OverIs
  <1>9. u \in UpdatesOf(V)
    BY <1>1, <1>5, OverTable DEF UpdatesOf
  <1> HIDE DEF g, u
  <1>10. \A x \in DOMAIN g : x \in Targets(c) /\ StateFits(c, x, g[x])
    BY <1>1, <1>3, <1>6, <1>7, <1>8 DEF IsOver, IsCollected
  <1>11. DOMAIN g = DOMAIN c.agg
    BY <1>3, <1>7, <1>8 DEF IsOver
  <1>12. AggHandled(V, s, c, g, d)
    BY <1>2, <1>8, <1>9, <1>10, AggHandles
  <1> QED
    BY <1>11, <1>12

(* A snapshot is raised: the changes are taken from the aggregator.        *)
LEMMA ClearHandles ==
  ASSUME NEW V, IsVersions(V), NEW s, NEW c, Ready(V, s, c), NEW d, d = ClearPendingChanges(c)
  PROVE  \E g : /\ AggHandled(V, s, c, g, d) /\ DOMAIN g = DOMAIN c.agg
                /\ \A t \in DOMAIN g : IsActiveTarget(c, t) => DOMAIN g[t].changes = {}
  <1> DEFINE g == [t \in DOMAIN c.agg |->
                     IF IsActiveTarget(c, t)
                     THEN [c.agg[t] EXCEPT !.pending = FALSE, !.changes = <<>>] ELSE c.agg[t]]
             u == <<>>
             r == {}
  <1>1. /\ c \in ClientOf(V) /\ c.agg \in AggOf(V)
        /\ \A x \in DOMAIN c.agg : /\ x \in Targets(c) /\ x \in Nat
                                   /\ c.agg[x] \in StateOf(V) /\ StateFits(c, x, c.agg[x])
    BY ReadyIs
  <1>2. d = [c EXCEPT !.agg = g, !.updates = u, !.resets = r]
    BY <1>1 DEF ClearPendingChanges, ClientOf
  <1>3. /\ g = [t \in DOMAIN c.agg |-> g[t]] /\ DOMAIN c.agg \in SUBSET Nat
        /\ \A t \in DOMAIN c.agg :
             /\ g[t] \in StateOf(V) /\ (g[t].changes = c.agg[t].changes \/ DOMAIN g[t].changes = {})
             /\ IsActiveTarget(c, t) => DOMAIN g[t].changes = {}
    <2>1. ASSUME NEW t \in DOMAIN c.agg
          PROVE  /\ g[t] \in StateOf(V)
                 /\ g[t].changes = c.agg[t].changes \/ DOMAIN g[t].changes = {}
                 /\ IsActiveTarget(c, t) => DOMAIN g[t].changes = {}
      <3>1. c.agg[t] \in StateOf(V) /\ <<>> \in Table(Keys, ChangeKinds) /\ DOMAIN <<>> = {}
        BY <1>1, EmptyIs
      <3>2. CASE IsActiveTarget(c, t)
        <4>1. g[t] = [c.agg[t] EXCEPT !.pending = FALSE, !.changes = <<>>]
          BY <3>2
        <4> HIDE DEF g
        <4>2. g[t] \in StateOf(V) /\ g[t].changes = <<>>
          BY <3>1, <4>1 DEF StateOf
        <4> QED
          BY <3>1, <4>2
      <3>3. CASE ~ IsActiveTarget(c, t)
        BY <3>1, <3>3
      <3> QED
        BY <3>2, <3>3
    <2>2. DOMAIN c.agg \in SUBSET Nat
      BY <1>1
    <2>3. g = [t \in DOMAIN c.agg |-> g[t]]
      OBVIOUS
    <2> HIDE DEF g
    <2> QED
      BY <2>1, <2>2, <2>3
  <1> HIDE DEF g
  <1>4. g \in AggOf(V) /\ DOMAIN g = DOMAIN c.agg
    BY <1>3, TargetsTable
  <1>5. \A t \in DOMAIN g : t \in Targets(c) /\ StateFits(c, t, g[t])
    BY <1>1, <1>3, <1>4, SameFits
  <1>6. u \in UpdatesOf(V) /\ r \in SUBSET {Query}
    BY EmptyIs DEF UpdatesOf
  <1> HIDE DEF u, r
  <1>7. AggHandled(V, s, c, g, d)
    BY <1>2, <1>4, <1>5, <1>6, AggHandles
  <1> QED
    BY <1>3, <1>4, <1>7

(* A client prepares for what it hands on.                                 *)
Prepared(V, s, c, d) ==
  /\ Ready(V, s, d)
  /\ d.disk = c.disk /\ d.view = c.view /\ d.in = c.in /\ d.stream = c.stream
  /\ d.active = c.active /\ DOMAIN d.listen = DOMAIN c.listen /\ HoldsOn(c, d)

LEMMA PreparedTwice ==
  ASSUME NEW V, NEW s, NEW c, NEW d, NEW e, Prepared(V, s, c, d), Prepared(V, s, d, e)
  PROVE  Prepared(V, s, c, e)
  BY DEF Prepared, HoldsOn

LEMMA AggPrepares ==
  ASSUME NEW V, NEW s, NEW c, Ready(V, s, c), NEW g, NEW d, AggHandled(V, s, c, g, d),
         DOMAIN g = DOMAIN c.agg
  PROVE  Prepared(V, s, c, d)
  BY DEF AggHandled, IsHandled, Prepared, Ready

(* The tokens of the targets change.                                       *)
LEMMA RelistenPrepares ==
  ASSUME NEW V, IsVersions(V), NEW s, NEW c, Ready(V, s, c), NEW l \in ListenOf(V),
         DOMAIN l = DOMAIN c.listen, \A t \in DOMAIN l : l[t].key = c.listen[t].key,
         NEW d, d = [c EXCEPT !.listen = l]
  PROVE  Prepared(V, s, c, d) /\ d.agg = c.agg /\ d.nextId = c.nextId /\ d.listen = l
  <1>1. c \in ClientOf(V) /\ c.ok /\ Stands(c, V, s)
    BY DEF Ready, Stands
  <1>2. /\ d.disk = c.disk /\ d.view = c.view /\ d.ok = c.ok /\ d.online = c.online
        /\ d.stream = c.stream /\ d.agg = c.agg /\ d.in = c.in /\ d.out = c.out
        /\ d.nextId = c.nextId /\ d.byKey = c.byKey /\ d.active = c.active
        /\ d.listen = l /\ d.idle = c.idle /\ d \in ClientOf(V)
    BY <1>1 DEF ClientOf
  <1>3. TargetsFit(d) /\ StreamFits(d) /\ ChangesFit(d)
    BY <1>1, <1>2 DEF Stands, TargetsFit, StreamFits, ChangesFit, Targets
  <1>4. Follow(c, d) /\ c.nextId \in Nat /\ d.nextId \in Nat
    BY <1>1, <1>2 DEF Follow, ClientOf
  <1>5. /\ MessagesFit(c) /\ ServedFits(c, s) /\ (d.stream = "open" <=> c.stream = "open")
        /\ d.in = c.in /\ d.out = c.out
    BY <1>1, <1>2 DEF Stands
  <1>6. MessagesFit(d) /\ ServedFits(d, s)
    <2> HIDE <1>1, <1>2, <1>3
    <2> QED
      BY <1>4, <1>5, MessagesFollow
  <1>7. Stands(d, V, s)
    BY <1>1, <1>2, <1>3, <1>6 DEF Stands
  <1> QED
    BY <1>2, <1>7 DEF Prepared, Ready, HoldsOn, Held, IdleFits, SyncedFits

(* Any table of tokens for the targets is one.                             *)
IsRelisted(V, f, l) ==
  l \in ListenOf(V) /\ DOMAIN l = DOMAIN f /\ \A t \in DOMAIN l : l[t].key = f[t].key

LEMMA ListenMap ==
  ASSUME NEW V, NEW f \in ListenOf(V), NEW l, l = [t \in DOMAIN f |-> l[t]],
         \A t \in DOMAIN f : l[t] = f[t] \/ \E v \in V : l[t] = [f[t] EXCEPT !.token = v]
  PROVE  IsRelisted(V, f, l)
  <1> DEFINE X == Nat
             Y == [key : Keys \union {0}, token : V]
  <1>1. f \in Table(X, Y) /\ ListenOf(V) = Table(X, Y)
    BY DEF ListenOf
  <1>2. \A t \in DOMAIN f : f[t] \in Y
    <2> HIDE DEF X, Y
    <2> QED
      BY <1>1, TableOf
  <1>3. \A t \in DOMAIN f : l[t] \in Y /\ l[t].key = f[t].key
    BY <1>2
  <1>4. DOMAIN l = DOMAIN f
    OBVIOUS
  <1> HIDE DEF X, Y
  <1>5. l \in [DOMAIN f -> Y]
    BY <1>3
  <1>6. l \in Table(X, Y)
    BY <1>1, <1>5, MapIs
  <1> QED
    BY <1>1, <1>3, <1>4, <1>6 DEF IsRelisted

LEMMA RewatchPrepares ==
  ASSUME NEW V, IsVersions(V), NEW s, NEW c, Ready(V, s, c), Query \in DOMAIN c.listen,
         NEW d, d = Rewatch(c)
  PROVE  /\ Prepared(V, s, c, d)
         /\ \A t \in DOMAIN c.agg : t \in DOMAIN d.agg /\ d.agg[t].changes = c.agg[t].changes
  <1> DEFINE l == [c.listen EXCEPT ![Query].token = 0]
             c0 == [c EXCEPT !.listen = l]
             r1 == [kind |-> "unwatch", target |-> Query, key |-> 0, token |-> 0]
             c1 == SendUnwatchRequest(c0, Query)
             r2 == [kind |-> "watch", target |-> Query, key |-> c1.listen[Query].key,
                    token |-> c1.listen[Query].token]
  <1>1. /\ c \in ClientOf(V) /\ c.listen \in ListenOf(V) /\ Query \in Targets(c) /\ TargetsFit(c)
    BY ReadyIs DEF ClientOf
  <1>2. l \in ListenOf(V) /\ DOMAIN l = DOMAIN c.listen /\ \A t \in DOMAIN l : l[t].key = c.listen[t].key
    <2>1. /\ l = [t \in DOMAIN c.listen |-> l[t]]
          /\ \A t \in DOMAIN c.listen : l[t] = c.listen[t] \/ l[t] = [c.listen[t] EXCEPT !.token = 0]
      OBVIOUS
    <2> HIDE DEF l
    <2>2. \A t \in DOMAIN c.listen : l[t] = c.listen[t]
                                     \/ \E v \in V : l[t] = [c.listen[t] EXCEPT !.token = v]
      BY <2>1 DEF IsVersions
    <2>3. IsRelisted(V, c.listen, l)
      BY <1>1, <2>1, <2>2, ListenMap
    <2> QED
      BY <2>3 DEF IsRelisted
  <1>3. d = SendWatchRequest(c1, Query)
    <2>1. [c EXCEPT !.listen[Query].token = 0] = c0
      BY <1>1 DEF ClientOf
    <2> HIDE DEF c0
    <2> QED
      BY <2>1 DEF Rewatch
  <1> HIDE DEF l
  <1>4. Prepared(V, s, c, c0) /\ c0.agg = c.agg /\ c0.nextId = c.nextId /\ c0.listen = l
    BY <1>2, RelistenPrepares
  <1> HIDE DEF c0
  <1>5. Stands(c0, V, s) /\ c0.stream = "open" /\ Query \in Targets(c0) /\ Query \in DOMAIN c0.listen
    BY <1>1, <1>2, <1>4 DEF Prepared, Ready, Targets
  <1>6. IsSent(V, s, c0, Query, r1, FALSE, c1)
    <2>1. r1 \in RequestOf(V) /\ r1.target = Query /\ (r1.kind = "watch" => IsAbout(c0, Query, r1.key))
      BY DEF RequestOf, IsVersions, Query
    <2>2. c1 = [RecordPendingTargetRequest(c0, Query) EXCEPT !.idle = FALSE, !.out = Append(@, r1)]
      BY DEF SendUnwatchRequest
    <2> HIDE DEF r1, c1
    <2> QED
      BY <1>5, <2>1, <2>2, RequestKeeps
  <1> HIDE DEF c1, r1
  <1>7. /\ Stands(c1, V, s) /\ c1.stream = "open" /\ Query \in Targets(c1) /\ Query \in DOMAIN c1.listen
        /\ Query \notin DOMAIN c1.active /\ c1 \in ClientOf(V)
    <2>1. Stands(c1, V, s) /\ c1.listen = c0.listen /\ c1.stream = c0.stream /\ c1.nextId = c0.nextId
      BY <1>6 DEF IsSent
    <2> QED
      BY <1>5, <2>1 DEF Targets, Stands, TargetsFit
  <1>8. IsSent(V, s, c1, Query, r2, FALSE, d)
    <2>1. r2 \in RequestOf(V)
      <3> DEFINE X == Nat
                 Y == [key : Keys \union {0}, token : V]
      <3>1. c1.listen \in Table(X, Y)
        BY <1>7 DEF ClientOf, ListenOf
      <3>2. c1.listen[Query] \in Y
        <4> HIDE DEF X, Y
        <4> QED
          BY <1>7, <3>1, TableOf
      <3> QED
        BY <3>2 DEF RequestOf, Query
    <2>2. r2.target = Query /\ IsAbout(c1, Query, r2.key)
      BY <1>7 DEF IsAbout
    <2>3. d = [RecordPendingTargetRequest(c1, Query) EXCEPT !.idle = FALSE, !.out = Append(@, r2)]
      BY <1>3 DEF SendWatchRequest
    <2> HIDE DEF r2
    <2> QED
      BY <1>7, <2>1, <2>2, <2>3, RequestKeeps
  <1> HIDE DEF r2
  <1>9. Prepared(V, s, c0, d)
    <2>1. IdleFits(d) /\ SyncedFits(d)
      BY <1>4, <1>6, <1>8 DEF Prepared, Ready, IsSent, IdleFits, SyncedFits
    <2> QED
      BY <1>4, <1>6, <1>8, <2>1 DEF Prepared, Ready, IsSent, HoldsOn, Held
  <1>10. \A t \in DOMAIN c.agg : t \in DOMAIN d.agg /\ d.agg[t].changes = c.agg[t].changes
    BY <1>4, <1>6, <1>8 DEF IsSent
  <1> QED
    BY <1>4, <1>9, <1>10, PreparedTwice

LEMMA RestrictAgg ==
  ASSUME NEW V, NEW f \in AggOf(V), NEW S \in SUBSET DOMAIN f
  PROVE  /\ Restrict(f, S) \in AggOf(V) /\ DOMAIN Restrict(f, S) = S
         /\ \A t \in S : Restrict(f, S)[t] = f[t]
  <1> DEFINE h == Restrict(f, S)
  <1>1. \A t \in DOMAIN f : f[t] \in StateOf(V) /\ t \in Nat
    <2> DEFINE X == Nat
               Y == StateOf(V)
    <2>1. f \in Table(X, Y)
      BY DEF AggOf
    <2> HIDE DEF X, Y
    <2>2. DOMAIN f \in SUBSET X /\ \A t \in DOMAIN f : f[t] \in Y
      BY <2>1, TableOf
    <2> QED
      BY <2>2 DEF X, Y
  <1>2. h = [t \in S |-> h[t]] /\ DOMAIN h = S /\ \A t \in S : h[t] = f[t]
    BY DEF Restrict
  <1> HIDE DEF h
  <1>3. S \in SUBSET Nat /\ \A t \in S : h[t] \in StateOf(V)
    BY <1>1, <1>2
  <1>4. h \in AggOf(V)
    BY <1>2, <1>3, TargetsTable
  <1> QED
    BY <1>2, <1>4 DEF h

(* WatchChangeAggregator::CreateRemoteEvent.                               *)
LEMMA EventIs ==
  ASSUME NEW V, IsVersions(V), NEW s, NEW c, Ready(V, s, c), NEW v \in V,
         NEW event, event = RemoteEvent(c, v)
  PROVE  /\ event \in EventOf(V) /\ event.version = v /\ event.mismatches \subseteq {Query}
         /\ DOMAIN event.targets \subseteq DOMAIN c.agg
         /\ \A t \in DOMAIN event.targets : event.targets[t] = c.agg[t] /\ IsActiveTarget(c, t)
  <1> DEFINE S == {t \in DOMAIN c.agg : IsActiveTarget(c, t) /\ c.agg[t].pending}
             targets == Restrict(c.agg, S)
  <1>1. c \in ClientOf(V) /\ c.agg \in AggOf(V) /\ c.updates \in UpdatesOf(V) /\ c.resets \in SUBSET {Query}
    BY ReadyIs
  <1>2. S \in SUBSET DOMAIN c.agg /\ \A t \in S : IsActiveTarget(c, t)
    OBVIOUS
  <1>3. event = [version |-> v, mismatches |-> c.resets, updates |-> c.updates, targets |-> targets]
    BY DEF RemoteEvent
  <1> HIDE DEF S
  <1>4. targets \in AggOf(V) /\ DOMAIN targets = S /\ \A t \in S : targets[t] = c.agg[t]
    BY <1>1, <1>2, RestrictAgg
  <1> HIDE DEF targets
  <1> QED
    BY <1>1, <1>2, <1>3, <1>4 DEF EventOf

(* WatchStreamChange's snapshots: RemoteStore::RaiseWatchSnapshot.         *)
LEMMA RaiseHandles ==
  ASSUME WatchedQueryAssumption, NEW V, IsVersions(V), NEW s, NEW c, Ready(V, s, c),
         NEW v \in V, v >= c.disk.last, NEW d, d = RaiseWatchSnapshot(c, v)
  PROVE  IsHandled(V, s, c, d) /\ HoldsOn(c, d)
  <1> DEFINE complete == SynthesizeDeletes(c, v)
             event == RemoteEvent(complete, v)
             targets == event.targets
             cleared == ClearPendingChanges(complete)
             token(t) == IF t \in DOMAIN targets THEN targets[t].token ELSE 0
             l == [t \in DOMAIN cleared.listen |->
                     IF token(t) = 0 THEN cleared.listen[t]
                     ELSE [cleared.listen[t] EXCEPT !.token = token(t)]]
             raised == [cleared EXCEPT !.listen = l]
             last == IF event.mismatches \intersect DOMAIN c.listen = {} THEN raised
                     ELSE Rewatch(raised)
  <1>1. d = ApplyRemoteEvent(last, event)
    BY DEF RaiseWatchSnapshot
  <1>2. Prepared(V, s, c, complete)
    <2>1. PICK g : AggHandled(V, s, c, g, complete) /\ DOMAIN g = DOMAIN c.agg
      BY DeletesHandle
    <2> QED
      BY <2>1, AggPrepares
  <1> HIDE DEF complete
  <1>3. Ready(V, s, complete)
    BY <1>2 DEF Prepared
  <1>4. /\ event \in EventOf(V) /\ event.version = v /\ event.mismatches \subseteq {Query}
        /\ DOMAIN targets \subseteq DOMAIN complete.agg
        /\ \A t \in DOMAIN targets : targets[t] = complete.agg[t] /\ IsActiveTarget(complete, t)
    BY <1>3, EventIs
  <1>5. /\ Prepared(V, s, complete, cleared)
        /\ \A t \in DOMAIN cleared.agg : IsActiveTarget(complete, t) => DOMAIN cleared.agg[t].changes = {}
        /\ DOMAIN cleared.agg = DOMAIN complete.agg
    <2>1. PICK g : /\ AggHandled(V, s, complete, g, cleared) /\ DOMAIN g = DOMAIN complete.agg
                   /\ \A t \in DOMAIN g : IsActiveTarget(complete, t) => DOMAIN g[t].changes = {}
      BY <1>3, ClearHandles
    <2>2. cleared.agg = g
      BY <2>1 DEF AggHandled
    <2> QED
      BY <1>3, <2>1, <2>2, AggPrepares
  <1>6. \A t : token(t) \in V
    <2>1. \A t \in DOMAIN targets : targets[t] \in StateOf(V)
      BY <1>4, KeysOfTarget DEF EventOf
    <2> HIDE DEF targets
    <2> QED
      BY <2>1 DEF StateOf, IsVersions
  <1> HIDE DEF cleared
  <1>7. IsRelisted(V, cleared.listen, l)
    <2>1. cleared.listen \in ListenOf(V)
      BY <1>5 DEF Prepared, Ready, Stands, ClientOf
    <2> HIDE DEF token
    <2>2. /\ l = [t \in DOMAIN cleared.listen |-> l[t]]
          /\ \A t \in DOMAIN cleared.listen :
               \/ l[t] = cleared.listen[t]
               \/ \E w \in V : l[t] = [cleared.listen[t] EXCEPT !.token = w]
      BY <1>6
    <2> HIDE DEF l
    <2> QED
      BY <2>1, <2>2, ListenMap
  <1> HIDE DEF l
  <1>8. Prepared(V, s, cleared, raised) /\ raised.agg = cleared.agg
    BY <1>5, <1>7, RelistenPrepares DEF IsRelisted, Prepared
  <1> HIDE DEF raised
  <1>9. Prepared(V, s, c, raised)
    <2>1. Prepared(V, s, c, cleared)
      BY <1>2, <1>5, PreparedTwice
    <2> QED
      BY <1>8, <2>1, PreparedTwice
  <1>10. /\ Prepared(V, s, c, last)
         /\ \A t \in DOMAIN raised.agg :
              t \in DOMAIN last.agg /\ last.agg[t].changes = raised.agg[t].changes
    <2>1. CASE event.mismatches \intersect DOMAIN c.listen = {}
      <3>1. last = raised
        BY <2>1
      <3> HIDE DEF last
      <3> QED
        BY <1>9, <3>1
    <2>2. CASE event.mismatches \intersect DOMAIN c.listen # {}
      <3>1. last = Rewatch(raised)
        BY <2>2
      <3>2. Query \in DOMAIN raised.listen /\ Ready(V, s, raised)
        BY <1>4, <1>9, <2>2 DEF Prepared
      <3> HIDE DEF last
      <3>3. /\ Prepared(V, s, raised, last)
            /\ \A t \in DOMAIN raised.agg :
                 t \in DOMAIN last.agg /\ last.agg[t].changes = raised.agg[t].changes
        BY <3>1, <3>2, RewatchPrepares
      <3> QED
        BY <1>9, <3>3, PreparedTwice
    <2> QED
      BY <2>1, <2>2
  <1> HIDE DEF last, event
  <1>11. EventFits(last, targets)
    <2>1. /\ ChangesFit(complete) /\ SyncedFits(complete)
          /\ last.view = complete.view /\ last.disk = complete.disk /\ last.active = complete.active
      BY <1>2, <1>3, <1>10 DEF Prepared, Ready, Stands
    <2>2. \A t \in DOMAIN targets : DOMAIN last.agg[t].changes = {}
      BY <1>4, <1>5, <1>8, <1>10
    <2> HIDE DEF targets
    <2> QED
      BY <1>4, <2>1, <2>2 DEF EventFits, ChangesFit, SyncedFits
  <1>12. IsHandled(V, s, last, d) /\ HoldsOn(last, d)
    <2>1. Stands(last, V, s) /\ IdleFits(last) /\ SyncedFits(last) /\ last.disk = c.disk
      BY <1>10 DEF Prepared, Ready
    <2> QED
      BY <1>1, <1>4, <1>11, <2>1, RemoteEventKeeps
  <1> QED
    BY <1>10, <1>12 DEF IsHandled, HoldsOn, Prepared

LEMMA SnapshotHandles ==
  ASSUME WatchedQueryAssumption, NEW V, IsVersions(V), NEW s, NEW c, Ready(V, s, c),
         NEW v \in V, NEW d, d = HandleSnapshot(c, v)
  PROVE  IsHandled(V, s, c, d) /\ HoldsOn(c, d)
  <1> DEFINE updated == UpdateResumeTokens(c, v)
  <1>1. PICK g : AggHandled(V, s, c, g, updated) /\ DOMAIN g = DOMAIN c.agg
    BY TokensHandle
  <1> HIDE DEF updated
  <1>2. Prepared(V, s, c, updated)
    BY <1>1, AggPrepares
  <1>3. CASE v >= c.disk.last
    <2>1. d = RaiseWatchSnapshot(updated, v)
      BY <1>3 DEF HandleSnapshot, updated
    <2>2. Ready(V, s, updated) /\ v >= updated.disk.last
      BY <1>2, <1>3 DEF Prepared
    <2>3. IsHandled(V, s, updated, d) /\ HoldsOn(updated, d)
      BY <2>1, <2>2, RaiseHandles
    <2> QED
      BY <1>2, <2>3 DEF IsHandled, HoldsOn, Prepared
  <1>4. CASE ~ (v >= c.disk.last)
    <2>1. d = updated
      BY <1>4 DEF HandleSnapshot, updated
    <2> QED
      BY <1>1, <2>1 DEF AggHandled
  <1> QED
    BY <1>3, <1>4

-----------------------------------------------------------------------------
(* Targets that are given up or refused.                                   *)

(* A client that gives up the query, whose target on disk takes the latest *)
(* token.                                                                  *)
IsReleased(V, s, c, e) ==
  /\ Stands(e, V, s) /\ e.view = c.view /\ e.in = c.in /\ e.stream = c.stream
  /\ e.idle = c.idle /\ e.ok = c.ok /\ e.active = c.active /\ e.nextId = c.nextId
  /\ e.disk \in DiskOf(V) /\ e.disk.docs = c.disk.docs /\ e.disk.writes = c.disk.writes
  /\ DOMAIN e.listen = DOMAIN c.listen \ {Query}

LEMMA ReleaseStands ==
  ASSUME NEW V, NEW s, NEW c, Stands(c, V, s),
         NEW g, g = c.agg \/ g = Without(c.agg, Query),
         NEW e, e = [c EXCEPT !.listen = Without(c.listen, Query), !.agg = g,
                              !.disk = [c.disk EXCEPT !.token = c.memo]]
  PROVE  IsReleased(V, s, c, e)
  <1> DEFINE l == Without(c.listen, Query)
             disk == [c.disk EXCEPT !.token = c.memo]
  <1>1. c \in ClientOf(V) /\ c.ok /\ c.disk \in DiskOf(V) /\ c.memo \in V /\ c.agg \in AggOf(V)
        /\ c.listen \in ListenOf(V)
    BY DEF Stands, ClientOf
  <1>2. l \in ListenOf(V) /\ IsWithout(l, c.listen, Query)
    BY <1>1, ListenTable, WithoutIs DEF Query
  <1>3. /\ g \in AggOf(V) /\ DOMAIN g \subseteq DOMAIN c.agg
        /\ \A t \in DOMAIN g : g[t] = c.agg[t]
    <2>1. CASE g = c.agg
      BY <1>1, <2>1
    <2>2. CASE g = Without(c.agg, Query)
      <3>1. IsWithout(g, c.agg, Query)
        BY <2>2, WithoutIs
      <3>2. g \in AggOf(V)
        BY <1>1, <2>2, WithoutTable DEF AggOf
      <3> QED
        BY <3>1, <3>2 DEF IsWithout
    <2> QED
      BY <2>1, <2>2
  <1>4. /\ disk \in DiskOf(V) /\ disk.docs = c.disk.docs /\ disk.writes = c.disk.writes
        /\ disk.keys = c.disk.keys
    BY <1>1 DEF DiskOf
  <1> HIDE DEF l, disk
  <1>5. e = [c EXCEPT !.listen = l, !.agg = g, !.disk = disk]
    BY DEF l, disk
  <1>6. /\ e.disk = disk /\ e.view = c.view /\ e.ok = c.ok /\ e.online = c.online
        /\ e.stream = c.stream /\ e.agg = g /\ e.in = c.in /\ e.out = c.out
        /\ e.nextId = c.nextId /\ e.byKey = c.byKey /\ e.active = c.active
        /\ e.listen = l /\ e.idle = c.idle /\ e \in ClientOf(V)
    <2>1. l \in ListenOf(V) /\ g \in AggOf(V) /\ disk \in DiskOf(V)
      BY <1>2, <1>3, <1>4
    <2>2. e \in ClientOf(V)
      BY ONLY <1>1, <1>5, <2>1 DEF ClientOf
    <2>3. /\ e.disk = disk /\ e.view = c.view /\ e.ok = c.ok /\ e.online = c.online
          /\ e.stream = c.stream /\ e.agg = g /\ e.in = c.in /\ e.out = c.out
      BY ONLY <1>1, <1>5 DEF ClientOf
    <2>4. /\ e.nextId = c.nextId /\ e.byKey = c.byKey /\ e.active = c.active
          /\ e.listen = l /\ e.idle = c.idle
      BY ONLY <1>1, <1>5 DEF ClientOf
    <2> QED
      BY <2>2, <2>3, <2>4
  <1>7. TargetsFit(e)
    <2>1. /\ DOMAIN l = DOMAIN c.listen \ {Query}
          /\ \A t \in DOMAIN c.active : t \in DOMAIN c.listen /\ t # Query
          /\ \A t \in DOMAIN l : l[t] = c.listen[t]
      BY <1>2 DEF Stands, TargetsFit, IsWithout
    <2> QED
      BY <1>3, <1>6, <2>1 DEF Stands, TargetsFit, Targets
  <1>8. StreamFits(e) /\ ChangesFit(e)
    <2>1. StreamFits(c) /\ ChangesFit(c)
      BY DEF Stands
    <2>2. StreamFits(e)
      BY <1>3, <1>6, <2>1 DEF StreamFits
    <2>3. Query \in DOMAIN e.agg => KeysOf(e.agg[Query], "modified") \subseteq e.disk.keys
      BY <1>3, <1>4, <1>6, <2>1 DEF ChangesFit
    <2>4. \A t \in DOMAIN e.agg \intersect DOMAIN e.active :
            t \in DOMAIN c.agg \intersect DOMAIN c.active /\ e.agg[t] = c.agg[t]
      BY <1>3, <1>6
    <2>5. ChangesFit(e)
      BY <1>6, <2>1, <2>3, <2>4 DEF ChangesFit
    <2> QED
      BY <2>2, <2>5
  <1>9. Follow(c, e) /\ c.nextId \in Nat /\ e.nextId \in Nat
    BY <1>1, <1>6 DEF Follow, ClientOf
  <1>10. MessagesFit(c) /\ ServedFits(c, s) /\ (e.stream = "open" <=> c.stream = "open")
         /\ e.in = c.in /\ e.out = c.out
    BY <1>6 DEF Stands
  <1>11. MessagesFit(e) /\ ServedFits(e, s)
    <2> HIDE <1>1, <1>2, <1>3, <1>4, <1>5, <1>6
    <2> QED
      BY <1>9, <1>10, MessagesFollow
  <1>12. Stands(e, V, s)
    BY <1>1, <1>6, <1>7, <1>8, <1>11 DEF Stands
  <1> QED
    BY <1>2, <1>4, <1>6, <1>12 DEF IsReleased, IsWithout

(* SyncEngine::HandleRejectedListen of the query, and of a resolution,     *)
(* after RemoteStore::ProcessTargetError has dropped the target.           *)
LEMMA TargetErrorHandles ==
  ASSUME WatchedQueryAssumption, NEW V, IsVersions(V), NEW s, NEW c, Ready(V, s, c), NEW t \in Nat,
         NEW d, d = ProcessTargetError(c, t)
  PROVE  IsHandled(V, s, c, d) /\ HoldsOn(c, d)
  <1> DEFINE l == Without(c.listen, t)
             g == Without(c.agg, t)
             c1 == [c EXCEPT !.listen = l, !.agg = g]
  <1>1. /\ c \in ClientOf(V) /\ c.ok /\ TargetsFit(c) /\ Stands(c, V, s) /\ IdleFits(c)
        /\ SyncedFits(c) /\ c.agg \in AggOf(V) /\ c.listen \in ListenOf(V) /\ c.active \in ActiveType
        /\ c.disk \in DiskOf(V) /\ c.memo \in V /\ c.byKey \in [Keys -> Nat]
    BY ReadyIs DEF Ready, ClientOf
  <1>2. CASE t \notin DOMAIN c.listen
    BY <1>2, HandledAsIs DEF ProcessTargetError
  <1>3. CASE t \in DOMAIN c.listen /\ t \notin DOMAIN c.active
    <2> DEFINE e == ReleaseTarget(c1)
    <2>1. t = Query
      BY <1>1, <1>3 DEF TargetsFit
    <2>2. d = RemoveAndCleanupTarget(e)
      BY <1>3 DEF ProcessTargetError, HandleRejectedListen
    <2>3. e = [c EXCEPT !.listen = l, !.agg = g, !.disk = [c.disk EXCEPT !.token = c.memo]]
      <3> HIDE DEF l, g
      <3> QED
        BY <1>1 DEF ReleaseTarget, ClientOf
    <2> HIDE DEF e
    <2>4. IsReleased(V, s, c, e)
      BY <1>1, <2>1, <2>3, ReleaseStands
    <2>5. Stands(e, V, s) /\ IdleFits(e) /\ Query \notin DOMAIN e.listen
      BY <1>1, <2>4 DEF IsReleased, IdleFits
    <2>6. /\ Stands(d, V, s) /\ IdleFits(d) /\ d.in = e.in /\ d.disk = e.disk
          /\ ~ d.view.on /\ Query \notin DOMAIN d.listen /\ Held(d)
          /\ d.stream = "open" <=> e.stream = "open"
      BY <2>2, <2>5, CleanupKeeps
    <2>7. IsNotOlder(c.disk, d.disk)
      BY <1>1, <2>4, <2>6, NotOlderAsIs DEF IsReleased
    <2> QED
      BY <2>4, <2>6, <2>7 DEF IsHandled, HoldsOn, IsReleased, SyncedFits
  <1>4. CASE t \in DOMAIN c.listen /\ t \in DOMAIN c.active
    <2> DEFINE k == c.active[t].key
               b == [c.byKey EXCEPT ![k] = 0]
               a == Without(c.active, t)
               e == [c1 EXCEPT !.byKey = b, !.active = a]
               p == PumpEnqueuedLimboResolutions(e)
               u == [x \in {k} |-> Unknown]
               event == [version |-> 0, targets |-> <<>>, mismatches |-> {}, updates |-> u]
    <2>1. k \in Keys
      <3>1. c.active[t] \in [key : Keys, received : BOOLEAN]
        <4>1. c.active \in Table(Nat, [key : Keys, received : BOOLEAN])
          BY <1>1 DEF ActiveType
        <4>2. c.active \in [DOMAIN c.active -> [key : Keys, received : BOOLEAN]]
          BY <4>1, TableOf
        <4> QED
          BY <1>4, <4>2
      <3> QED
        BY <3>1
    <2>2. d = ApplyRemoteEvent(p, event)
      <3>1. c1.active = c.active /\ c1.byKey = c.byKey
        BY <1>1 DEF ClientOf
      <3>2. e = [c1 EXCEPT !.byKey[k] = 0, !.active = Without(@, t)]
        <4> HIDE DEF c1
        <4> QED
          BY <3>1
      <3>3. d = HandleRejectedListen(c1, t)
        BY <1>4 DEF ProcessTargetError
      <3> HIDE DEF c1, e
      <3> QED
        BY <1>4, <3>1, <3>2, <3>3 DEF HandleRejectedListen
    <2>3. l \in ListenOf(V) /\ g \in AggOf(V) /\ a \in ActiveType /\ b \in [Keys -> Nat]
      <3>1. g \in AggOf(V)
        BY <1>1, WithoutTable DEF AggOf
      <3> QED
        BY <1>1, <3>1, ListenTable, ActiveTable
    <2>4. /\ e.disk = c.disk /\ e.view = c.view /\ e.ok = c.ok /\ e.online = c.online
          /\ e.stream = c.stream /\ e.agg = g /\ e.in = c.in /\ e.out = c.out
          /\ e.nextId = c.nextId /\ e.byKey = b /\ e.active = a /\ e.listen = l
          /\ e.idle = c.idle /\ e \in ClientOf(V)
      <3> HIDE DEF l, g, a, b
      <3> QED
        BY <1>1, <2>3 DEF ClientOf
    <2> HIDE DEF e, k
    <2>5. /\ Stands(e, V, s) /\ t # Query
          /\ Query \in DOMAIN e.listen <=> Query \in DOMAIN c.listen
          /\ Query \in DOMAIN e.agg <=> Query \in DOMAIN c.agg
      <3>1. k = c.active[t].key /\ t \in DOMAIN c.active /\ e.ok
        BY <1>1, <1>4, <2>4 DEF k
      <3>2. /\ e.byKey = [c.byKey EXCEPT ![k] = 0] /\ e.active = Without(c.active, t)
            /\ e.listen = Without(c.listen, t) /\ e.agg = Without(c.agg, t)
        BY <2>4
      <3> HIDE DEF l, g, a, b
      <3> QED
        BY <1>1, <2>1, <2>4, <3>1, <3>2, DropStands
    <2>6. IdleFits(e) /\ SyncedFits(e)
      BY <1>1, <1>4, <2>4 DEF IdleFits, SyncedFits
    <2>7. Bookkept(V, s, e, p)
      BY <2>5, <2>6, PumpKeeps
    <2> HIDE DEF p
    <2>8. Stands(p, V, s) /\ IdleFits(p) /\ SyncedFits(p) /\ p.view = c.view /\ p.disk = c.disk
      BY <2>4, <2>6, <2>7 DEF Bookkept, Kept, SyncedFits
    <2>9. event \in EventOf(V) /\ EventFits(p, event.targets) /\ event.version = 0
      <3>1. Unknown \in DocOf(V) /\ 0 \in V
        BY UnknownIs DEF IsVersions
      <3>2. u \in [{k} -> DocOf(V)] /\ {k} \in SUBSET Keys
        BY <2>1, <3>1
      <3> HIDE DEF u
      <3>3. u \in UpdatesOf(V)
        BY <3>2, TableBy DEF UpdatesOf
      <3>4. <<>> \in AggOf(V) /\ DOMAIN <<>> = {}
        BY EmptyIs DEF AggOf
      <3> QED
        BY <3>1, <3>3, <3>4 DEF EventOf, EventFits
    <2> HIDE DEF event
    <2>10. IsHandled(V, s, p, d) /\ HoldsOn(p, d)
      BY <2>2, <2>8, <2>9, RemoteEventKeeps
    <2> QED
      BY <2>4, <2>5, <2>7, <2>8, <2>10 DEF IsHandled, HoldsOn, Bookkept, Kept, Held
  <1> QED
    BY <1>2, <1>3, <1>4

-----------------------------------------------------------------------------
(* Messages.  The aggregator has an entry of the query when the backend    *)
(* counts its documents: the answer to the request for it has come, and    *)
(* none to a request to drop it since.                                     *)

IsFor(m, kind) == m.kind = kind /\ m.target = Query
Answered(in, i) ==
  \E j \in 1 .. i - 1 : IsFor(in[j], "added") /\ \A l \in j + 1 .. i - 1 : ~ IsFor(in[l], "removed")
Untouched(in, i) == \A j \in 1 .. i - 1 : ~ IsFor(in[j], "removed")
Sure(c, i) == Answered(c.in, i) \/ (Untouched(c.in, i) /\ Held(c))
FilterFits(c, s) ==
  /\ \A i \in DOMAIN c.in : c.in[i].kind = "filter" => Sure(c, i)
  /\ Query \in DOMAIN s => Sure(c, Len(c.in) + 1)

(* What a message of the stream leaves of a client.                        *)
IsReceived(V, s, c, m, d) ==
  /\ IsHandled(V, s, c, d)
  /\ ~ IsFor(m, "removed") => HoldsOn(c, d)
  /\ IsFor(m, "added") => Held(d)

LEMMA ChangeHandles ==
  ASSUME WatchedQueryAssumption, NEW V, IsVersions(V), NEW s, NEW c, Ready(V, s, c),
         NEW m \in MessageOf(V), MessageFits(c, m), m.kind = "filter" => Held(c),
         NEW d, d = OnWatchStreamChange(c, m)
  PROVE  IsReceived(V, s, c, m, d)
  <1>1. CASE m.kind = "doc"
    <2>1. d = HandleDocumentChange(c, m)
      BY <1>1 DEF OnWatchStreamChange
    <2>2. m.key \in Keys /\ m.doc \in DocOf(V)
      BY <1>1 DEF MessageOf
    <2>3. \A t \in m.updated \union m.removed : IsAbout(c, t, m.key)
      BY <1>1 DEF MessageFits
    <2>4. IsHandled(V, s, c, d) /\ HoldsOn(c, d)
      BY <2>1, <2>2, <2>3, DocumentHandles
    <2> QED
      BY <1>1, <2>4 DEF IsReceived, IsFor
  <1>2. CASE m.kind = "added"
    <2>1. d = HandleTargetAdded(c, m.target) /\ m.target \in Targets(c)
      BY <1>2 DEF OnWatchStreamChange, MessageFits
    <2>2. IsHandled(V, s, c, d) /\ HoldsOn(c, d) /\ m.target \in DOMAIN d.agg
      BY <2>1, TargetAddedHandles
    <2> QED
      BY <2>2 DEF IsReceived, IsFor, Held
  <1>3. CASE m.kind = "removed"
    <2>1. d = HandleTargetRemoved(c, m.target) /\ m.target \in Targets(c)
      BY <1>3 DEF OnWatchStreamChange, MessageFits
    <2>2. IsHandled(V, s, c, d) /\ (m.target # Query => HoldsOn(c, d))
      BY <2>1, TargetRemovedHandles
    <2> QED
      BY <1>3, <2>2 DEF IsReceived, IsFor
  <1>4. CASE m.kind = "rejected"
    <2>1. d = ProcessTargetError(c, m.target) /\ m.target \in Nat
      BY <1>4 DEF OnWatchStreamChange, MessageOf
    <2>2. IsHandled(V, s, c, d) /\ HoldsOn(c, d)
      BY <2>1, TargetErrorHandles
    <2> QED
      BY <1>4, <2>2 DEF IsReceived, IsFor
  <1>5. CASE m.kind = "current"
    <2>1. d = HandleTargetCurrent(c, m.target) /\ m.target \in Targets(c)
      BY <1>5 DEF OnWatchStreamChange, MessageFits
    <2>2. IsHandled(V, s, c, d) /\ HoldsOn(c, d)
      BY <2>1, TargetCurrentHandles
    <2> QED
      BY <1>5, <2>2 DEF IsReceived, IsFor
  <1>6. CASE m.kind = "filter"
    <2>1. d = HandleExistenceFilter(c, Query, m.count)
      BY <1>6 DEF OnWatchStreamChange, MessageOf
    <2>2. IsHandled(V, s, c, d) /\ HoldsOn(c, d)
      BY <1>6, <2>1, FilterHandles
    <2> QED
      BY <1>6, <2>2 DEF IsReceived, IsFor
  <1>7. CASE m.kind = "snapshot"
    <2>1. d = HandleSnapshot(c, m.version) /\ m.version \in V
      BY <1>7 DEF OnWatchStreamChange, MessageOf
    <2>2. IsHandled(V, s, c, d) /\ HoldsOn(c, d)
      BY <2>1, SnapshotHandles
    <2> QED
      BY <1>7, <2>2 DEF IsReceived, IsFor
  <1> QED
    BY <1>1, <1>2, <1>3, <1>4, <1>5, <1>6, <1>7 DEF MessageOf

(* The client that is about to handle the first message.                   *)
IsTaken(V, s, c, e) ==
  /\ Ready(V, s, e) /\ e.in = Tail(c.in) /\ e.view = c.view /\ e.disk = c.disk
  /\ e.listen = c.listen /\ e.agg = c.agg /\ e.stream = c.stream
  /\ Head(c.in) \in MessageOf(V) /\ MessageFits(e, Head(c.in))

LEMMA TakeStands ==
  ASSUME NEW V, NEW s, NEW c, Stands(c, V, s), IdleFits(c), SyncedFits(c), c.in # <<>>,
         NEW e, e = [c EXCEPT !.in = Tail(@), !.online = "online"]
  PROVE  IsTaken(V, s, c, e)
  <1>1. c \in ClientOf(V) /\ c.ok /\ c.in \in Seq(MessageOf(V)) /\ c.nextId \in Nat
    BY DEF Stands, ClientOf
  <1>2. /\ Tail(c.in) \in Seq(MessageOf(V)) /\ Head(c.in) = c.in[1] /\ 1 \in DOMAIN c.in
        /\ Head(c.in) \in MessageOf(V)
        /\ \A i \in DOMAIN Tail(c.in) : i + 1 \in DOMAIN c.in /\ Tail(c.in)[i] = c.in[i + 1]
    BY <1>1
  <1> DEFINE rest == Tail(c.in)
  <1> HIDE DEF rest
  <1>3. e = [c EXCEPT !.in = rest, !.online = "online"] /\ rest \in Seq(MessageOf(V))
    BY <1>2 DEF rest
  <1>4. /\ e.disk = c.disk /\ e.view = c.view /\ e.ok = c.ok /\ e.online = "online"
        /\ e.stream = c.stream /\ e.agg = c.agg /\ e.in = rest /\ e.out = c.out
        /\ e.nextId = c.nextId /\ e.byKey = c.byKey /\ e.active = c.active
        /\ e.listen = c.listen /\ e.idle = c.idle /\ e \in ClientOf(V)
    <2>1. e \in ClientOf(V)
      BY ONLY <1>1, <1>3 DEF ClientOf
    <2> QED
      BY ONLY <1>1, <1>3, <2>1 DEF ClientOf
  <1>5. c.stream = "open"
    BY DEF Stands, StreamFits
  <1>6. TargetsFit(e) /\ StreamFits(e) /\ ChangesFit(e)
    BY <1>4, <1>5 DEF Stands, TargetsFit, StreamFits, ChangesFit, Targets
  <1>7. Follow(c, e) /\ e.nextId \in Nat
    BY <1>1, <1>4 DEF Follow
  <1>8. ServedFits(e, s) /\ \A m : MessageFits(c, m) => MessageFits(e, m)
    <2>1. ServedFits(c, s) /\ (e.stream = "open" <=> c.stream = "open")
      BY <1>4 DEF Stands
    <2>2. ServedFits(c, s) => ServedFits(e, s)
      BY <1>1, <1>7, <2>1, MessagesFollow
    <2>3. \A m : MessageFits(c, m) => MessageFits(e, m)
      BY <1>1, <1>7, <2>1, MessagesFollow
    <2> QED
      BY <2>1, <2>2, <2>3
  <1>9. \A i \in DOMAIN c.in : MessageFits(e, c.in[i])
    BY <1>8 DEF Stands, MessagesFit
  <1>10. MessagesFit(e)
    <2>1. \A i \in DOMAIN e.in : MessageFits(e, e.in[i])
      BY <1>2, <1>4, <1>9 DEF rest
    <2>2. \A t, k : IsAbout(c, t, k) => IsAbout(e, t, k)
      BY <1>1, <1>7, AboutFollows
    <2>3. Targets(e) = Targets(c)
      BY <1>4 DEF Targets
    <2> QED
      BY <1>4, <2>1, <2>2, <2>3 DEF Stands, MessagesFit
  <1>11. Ready(V, s, e)
    BY <1>1, <1>4, <1>5, <1>6, <1>8, <1>10 DEF Ready, Stands, IdleFits, SyncedFits
  <1> QED
    BY <1>2, <1>4, <1>9, <1>11 DEF IsTaken, rest

(* After the first message the entry of the query is as sure as before.    *)
LEMMA FilterStays ==
  ASSUME NEW V, NEW s, NEW c, Stands(c, V, s), FilterFits(c, s), c.in # <<>>, NEW d,
         d.in = Tail(c.in), ~ IsFor(Head(c.in), "removed") => HoldsOn(c, d),
         IsFor(Head(c.in), "added") => Held(d)
  PROVE  FilterFits(d, s)
  <1>1. /\ c.in \in Seq(MessageOf(V)) /\ Len(c.in) \in Nat /\ Len(c.in) >= 1
        /\ DOMAIN c.in = 1 .. Len(c.in) /\ DOMAIN d.in = 1 .. Len(c.in) - 1
        /\ Len(d.in) = Len(c.in) - 1
    BY DEF Stands, ClientOf
  <1>2. \A i \in 1 .. Len(c.in) - 1 : d.in[i] = c.in[i + 1]
    BY <1>1
  <1>3. Head(c.in) = c.in[1]
    BY <1>1
  <1>4. ASSUME NEW i \in 1 .. Len(c.in), Sure(c, i + 1) PROVE Sure(d, i)
    <2>1. \A j \in 1 .. i - 1 : j \in 1 .. Len(c.in) - 1 /\ d.in[j] = c.in[j + 1]
      BY <1>1, <1>2
    <2>2. CASE Untouched(c.in, i + 1) /\ Held(c)
      <3>1. ~ IsFor(c.in[1], "removed")
        <4>1. 1 \in 1 .. (i + 1) - 1
          BY <1>1
        <4> QED
          BY <2>2, <4>1 DEF Untouched
      <3>2. Held(d)
        BY <1>3, <2>2, <3>1 DEF HoldsOn
      <3>3. Untouched(d.in, i)
        <4>1. \A j \in 1 .. i - 1 : j + 1 \in 1 .. (i + 1) - 1
          BY <1>1
        <4> QED
          BY <2>1, <2>2, <4>1 DEF Untouched
      <3> QED
        BY <3>2, <3>3 DEF Sure
    <2>3. CASE Answered(c.in, i + 1)
      <3>1. PICK j \in 1 .. (i + 1) - 1 :
              /\ IsFor(c.in[j], "added")
              /\ \A l \in j + 1 .. (i + 1) - 1 : ~ IsFor(c.in[l], "removed")
        BY <2>3 DEF Answered
      <3>2. CASE j = 1
        <4>1. Held(d)
          BY <1>3, <3>1, <3>2
        <4>2. \A l \in 1 .. i - 1 : l + 1 \in j + 1 .. (i + 1) - 1
          BY <1>1, <3>2
        <4>3. Untouched(d.in, i)
          BY <2>1, <3>1, <4>2 DEF Untouched
        <4> QED
          BY <4>1, <4>3 DEF Sure
      <3>3. CASE j # 1
        <4>1. j - 1 \in 1 .. i - 1 /\ d.in[j - 1] = c.in[j]
          <5>1. j - 1 \in 1 .. i - 1 /\ (j - 1) + 1 = j
            BY <1>1, <3>1, <3>3
          <5> QED
            BY <2>1, <5>1
        <4>2. \A l \in (j - 1) + 1 .. i - 1 :
                l \in 1 .. i - 1 /\ l + 1 \in j + 1 .. (i + 1) - 1
          BY <1>1, <3>1
        <4>3. \A l \in (j - 1) + 1 .. i - 1 : ~ IsFor(d.in[l], "removed")
          BY <2>1, <3>1, <4>2
        <4>4. Answered(d.in, i)
          BY <3>1, <4>1, <4>3 DEF Answered
        <4> QED
          BY <4>4 DEF Sure
      <3> QED
        BY <3>2, <3>3
    <2> QED
      BY <1>4, <2>2, <2>3 DEF Sure
  <1>5. ASSUME NEW i \in DOMAIN d.in, d.in[i].kind = "filter" PROVE Sure(d, i)
    <2>1. i + 1 \in DOMAIN c.in /\ d.in[i] = c.in[i + 1] /\ i \in 1 .. Len(c.in)
      BY <1>1, <1>2
    <2> QED
      BY <1>4, <1>5, <2>1 DEF FilterFits
  <1>6. Query \in DOMAIN s => Sure(d, Len(d.in) + 1)
    <2>1. Len(d.in) + 1 = Len(c.in) /\ Len(c.in) \in 1 .. Len(c.in)
      BY <1>1
    <2> QED
      BY <1>4, <2>1 DEF FilterFits
  <1> QED
    BY <1>5, <1>6 DEF FilterFits

-----------------------------------------------------------------------------
(* What holds of a client between two handlers.                            *)

Settled(c, V, s) ==
  /\ Stands(c, V, s) /\ IdleFits(c) /\ SyncedFits(c) /\ FilterFits(c, s)
  /\ c.view.on <=> Query \in DOMAIN c.listen

LEMMA HandledSettles ==
  ASSUME NEW V, NEW s, NEW c, Settled(c, V, s), NEW d, IsHandled(V, s, c, d), HoldsOn(c, d)
  PROVE  Settled(d, V, s)
  <1>1. d.in = c.in /\ \A i : Sure(c, i) => Sure(d, i)
    BY DEF IsHandled, HoldsOn, Sure
  <1>2. FilterFits(d, s)
    BY <1>1 DEF Settled, FilterFits
  <1> QED
    BY <1>2 DEF Settled, IsHandled

(* More versions only make the types larger.                               *)
LEMMA TableGrows ==
  ASSUME NEW X, NEW Y, NEW Z, Y \subseteq Z
  PROVE  Table(X, Y) \subseteq Table(X, Z)
  <1>1. ASSUME NEW f \in Table(X, Y) PROVE f \in Table(X, Z)
    <2>1. DOMAIN f \in SUBSET X /\ f \in [DOMAIN f -> Y]
      BY TableOf
    <2>2. f \in [DOMAIN f -> Z]
      BY <2>1
    <2> QED
      BY <2>1, <2>2, TableBy
  <1> QED
    BY <1>1

LEMMA SeqGrows ==
  ASSUME NEW Y, NEW Z, Y \subseteq Z
  PROVE  Seq(Y) \subseteq Seq(Z)
  OBVIOUS

LEMMA TypesGrow ==
  ASSUME NEW V, NEW W, V \subseteq W
  PROVE  ClientOf(V) \subseteq ClientOf(W) /\ ServedOf(V) \subseteq ServedOf(W)
  <1>1. DocOf(V) \subseteq DocOf(W) /\ StateOf(V) \subseteq StateOf(W)
    BY DEF DocOf, StateOf
  <1>2. DiskOf(V) \subseteq DiskOf(W) /\ ViewOf(V) \subseteq ViewOf(W)
    <2>1. [Keys -> DocOf(V)] \subseteq [Keys -> DocOf(W)]
      BY <1>1
    <2>2. DiskOf(V) \subseteq DiskOf(W)
      BY <2>1 DEF DiskOf
    <2>3. ViewOf(V) \subseteq ViewOf(W)
      BY <2>1 DEF ViewOf
    <2> QED
      BY <2>2, <2>3
  <1>3. ListenOf(V) \subseteq ListenOf(W)
    <2>1. [key : Keys \union {0}, token : V] \subseteq [key : Keys \union {0}, token : W]
      OBVIOUS
    <2> QED
      BY <2>1, TableGrows DEF ListenOf
  <1>4. AggOf(V) \subseteq AggOf(W) /\ UpdatesOf(V) \subseteq UpdatesOf(W)
    BY <1>1, TableGrows DEF AggOf, UpdatesOf
  <1>5. Seq(RequestOf(V)) \subseteq Seq(RequestOf(W))
    <2>1. RequestOf(V) \subseteq RequestOf(W)
      BY DEF RequestOf
    <2> QED
      BY <2>1, SeqGrows
  <1>6. Seq(MessageOf(V)) \subseteq Seq(MessageOf(W))
    <2>1. [kind : {"doc"}, key : Keys, doc : DocOf(V), updated : SUBSET Nat, removed : SUBSET Nat]
            \subseteq
          [kind : {"doc"}, key : Keys, doc : DocOf(W), updated : SUBSET Nat, removed : SUBSET Nat]
      BY <1>1
    <2>2. [kind : {"snapshot"}, version : V] \subseteq [kind : {"snapshot"}, version : W]
      OBVIOUS
    <2>3. MessageOf(V) \subseteq MessageOf(W)
      BY <2>1, <2>2 DEF MessageOf
    <2> QED
      BY <2>3, SeqGrows
  <1>7. ClientOf(V) \subseteq ClientOf(W)
    BY <1>2, <1>3, <1>4, <1>5, <1>6 DEF ClientOf
  <1>8. ServedOf(V) \subseteq ServedOf(W)
    <2>1. [key : Keys \union {0}, since : V, resumed : BOOLEAN, current : BOOLEAN]
            \subseteq [key : Keys \union {0}, since : W, resumed : BOOLEAN, current : BOOLEAN]
      OBVIOUS
    <2> QED
      BY <2>1, TableGrows DEF ServedOf
  <1> QED
    BY <1>7, <1>8

LEMMA SettledGrows ==
  ASSUME NEW V, NEW W, V \subseteq W, NEW s, NEW c, Settled(c, V, s)
  PROVE  Settled(c, W, s)
  BY TypesGrow DEF Settled, Stands

(* A client whose stream is not open, and of which nothing is served.      *)
IsClosed(V, s, c, w, o, v, d) ==
  /\ Settled(c, V, s) /\ Settled(d, V, <<>>) /\ d.disk = c.disk
  /\ d.stream = w /\ d.online = o /\ d.view = v

LEMMA ClosedSettles ==
  ASSUME NEW V, NEW s, NEW c, Settled(c, V, s), NEW w \in {"off", "starting"},
         NEW o \in {"unknown", "waiting", "online", "offline"}, w = "off" => o # "waiting",
         NEW v \in ViewOf(V), v.on = c.view.on, v.synced = c.view.synced,
         NEW d, d = [c EXCEPT !.stream = w, !.idle = FALSE, !.agg = <<>>, !.updates = <<>>,
                              !.resets = {}, !.out = <<>>, !.in = <<>>, !.online = o, !.view = v]
  PROVE  IsClosed(V, s, c, w, o, v, d)
  <1>1. c \in ClientOf(V) /\ c.ok
    BY DEF Settled, Stands
  <1>2. /\ <<>> \in AggOf(V) /\ <<>> \in UpdatesOf(V) /\ <<>> \in ServedOf(V) /\ DOMAIN <<>> = {}
        /\ <<>> \in Seq(RequestOf(V)) /\ <<>> \in Seq(MessageOf(V))
    BY EmptyIs DEF AggOf, UpdatesOf, ServedOf
  <1>3. /\ d.disk = c.disk /\ d.view = v /\ d.ok = c.ok /\ d.online = o
        /\ d.stream = w /\ d.agg = <<>> /\ d.in = <<>> /\ d.out = <<>>
        /\ d.nextId = c.nextId /\ d.byKey = c.byKey /\ d.active = c.active
        /\ d.listen = c.listen /\ d.idle = FALSE /\ d \in ClientOf(V)
    BY <1>1, <1>2 DEF ClientOf
  <1>4. TargetsFit(d) /\ StreamFits(d) /\ ChangesFit(d)
    BY <1>2, <1>3 DEF Settled, Stands, TargetsFit, StreamFits, ChangesFit, Targets
  <1>5. MessagesFit(d) /\ ServedFits(d, <<>>)
    BY <1>2, <1>3 DEF MessagesFit, ServedFits
  <1>6. FilterFits(d, <<>>)
    BY <1>2, <1>3 DEF FilterFits
  <1>7. Stands(d, V, <<>>)
    BY <1>1, <1>2, <1>3, <1>4, <1>5 DEF Stands
  <1> QED
    BY <1>3, <1>6, <1>7 DEF Settled, IdleFits, SyncedFits, IsClosed

(* A new process.                                                          *)
LEMMA NewSettles ==
  ASSUME NEW V, IsVersions(V), NEW disk \in DiskOf(V)
  PROVE  Settled(NewClient(disk), V, <<>>) /\ NewClient(disk).disk = disk
  <1> DEFINE d == NewClient(disk)
  <1>1. /\ <<>> \in AggOf(V) /\ <<>> \in UpdatesOf(V) /\ <<>> \in ServedOf(V) /\ DOMAIN <<>> = {}
        /\ <<>> \in ListenOf(V) /\ <<>> \in ActiveType
        /\ <<>> \in Seq(RequestOf(V)) /\ <<>> \in Seq(MessageOf(V)) /\ <<>> \in Seq(Keys)
    BY EmptyIs DEF AggOf, UpdatesOf, ServedOf, ListenOf, ActiveType
  <1>2. NoView \in ViewOf(V) /\ ~ NoView.on
    BY UnknownIs DEF NoView
  <1>3. /\ d.disk = disk /\ d.view = NoView /\ d.ok /\ d.online = "unknown"
        /\ d.stream = "off" /\ d.agg = <<>> /\ d.in = <<>> /\ d.out = <<>>
        /\ d.nextId = 1 /\ d.byKey = [k \in Keys |-> 0] /\ d.active = <<>>
        /\ d.listen = <<>> /\ d.idle = FALSE
    BY DEF NewClient
  <1>4. d \in ClientOf(V)
    <2>1. 0 \in V /\ [k \in Keys |-> 0] \in [Keys -> Nat]
      BY DEF IsVersions
    <2> QED
      BY <1>1, <1>2, <2>1 DEF NewClient, ClientOf
  <1> HIDE DEF d
  <1>5. TargetsFit(d) /\ StreamFits(d) /\ ChangesFit(d)
    BY <1>1, <1>3 DEF TargetsFit, StreamFits, ChangesFit, Targets
  <1>6. MessagesFit(d) /\ ServedFits(d, <<>>)
    BY <1>1, <1>3 DEF MessagesFit, ServedFits
  <1>7. FilterFits(d, <<>>)
    BY <1>1, <1>3 DEF FilterFits
  <1>8. Stands(d, V, <<>>)
    BY <1>1, <1>3, <1>4, <1>5, <1>6 DEF Stands
  <1>9. Settled(d, V, <<>>) /\ d.disk = disk
    BY <1>1, <1>2, <1>3, <1>7, <1>8 DEF Settled, IdleFits, SyncedFits
  <1> QED
    BY <1>9 DEF d

(* The app's query begins.                                                 *)
IsStarted(V, s, c, e, d) ==
  Settled(c, V, s) /\ Settled(d, V, s) /\ d.disk = c.disk /\ e.disk = c.disk

LEMMA StartSettles ==
  ASSUME WatchedQueryAssumption, NEW V, IsVersions(V), NEW s, NEW c, Settled(c, V, s), ~ c.view.on,
         NEW e, e = [c EXCEPT !.memo = c.disk.token,
                              !.view = [NoView EXCEPT !.on = TRUE, !.synced = c.disk.keys]],
         NEW d, d = Listen(EmitNewSnapshots(e, Keys, <<>>), Query, 0, e.memo)
  PROVE  IsStarted(V, s, c, e, d)
  <1> DEFINE view == [NoView EXCEPT !.on = TRUE, !.synced = c.disk.keys]
             p == EmitNewSnapshots(e, Keys, <<>>)
             q == [p EXCEPT !.listen = With(@, Query, [key |-> 0, token |-> e.memo])]
  <1>1. c \in ClientOf(V) /\ c.ok /\ c.disk \in DiskOf(V) /\ Stands(c, V, s) /\ IdleFits(c)
        /\ c.disk.keys \in SUBSET Keys /\ c.disk.token \in V /\ Query \notin DOMAIN c.listen
    BY DEF Settled, Stands, ClientOf, DiskOf
  <1>2. view \in ViewOf(V) /\ view.on /\ view.synced = c.disk.keys
    <2>1. NoView \in ViewOf(V)
      BY UnknownIs
    <2> QED
      BY <1>1, <2>1 DEF ViewOf
  <1> HIDE DEF view
  <1>3. e = [c EXCEPT !.memo = c.disk.token, !.view = view]
    BY DEF view
  <1>4. /\ e.disk = c.disk /\ e.view = view /\ e.ok = c.ok /\ e.online = c.online
        /\ e.stream = c.stream /\ e.agg = c.agg /\ e.in = c.in /\ e.out = c.out
        /\ e.nextId = c.nextId /\ e.byKey = c.byKey /\ e.active = c.active
        /\ e.listen = c.listen /\ e.idle = c.idle /\ e.memo = c.disk.token /\ e \in ClientOf(V)
    BY <1>1, <1>2, <1>3 DEF ClientOf
  <1>5. Stands(e, V, s) /\ IdleFits(e)
    <2>1. TargetsFit(e) /\ StreamFits(e) /\ ChangesFit(e)
      BY <1>1, <1>2, <1>4 DEF Stands, TargetsFit, StreamFits, ChangesFit, Targets
    <2>2. Follow(c, e) /\ c.nextId \in Nat /\ e.nextId \in Nat
      BY <1>1, <1>4 DEF Follow, ClientOf
    <2>3. MessagesFit(c) /\ ServedFits(c, s) /\ (e.stream = "open" <=> c.stream = "open")
          /\ e.in = c.in /\ e.out = c.out
      BY <1>1, <1>4 DEF Stands
    <2>4. MessagesFit(e) /\ ServedFits(e, s)
      <3> HIDE <1>1, <1>2, <1>3, <1>4
      <3> QED
        BY <2>2, <2>3, MessagesFollow
    <2> QED
      BY <1>1, <1>4, <2>1, <2>4 DEF Stands, IdleFits
  <1>6. <<>> \in AggOf(V) /\ DOMAIN <<>> = {}
    BY EmptyIs DEF AggOf
  <1>7. IsEmitted(V, s, e, <<>>, p)
    BY <1>5, <1>6, EmitKeeps
  <1> HIDE DEF p
  <1>8. /\ Stands(p, V, s) /\ IdleFits(p) /\ p.in = c.in /\ p.disk = c.disk /\ p.view.on
        /\ Query \notin DOMAIN p.listen /\ p.view.synced = p.disk.keys
        /\ p.stream = "open" <=> c.stream = "open"
    BY <1>1, <1>2, <1>4, <1>6, <1>7 DEF IsEmitted, Kept, Synced
  <1>9. p \in ClientOf(V) /\ p.ok /\ p.listen \in ListenOf(V) /\ e.memo \in V /\ TargetsFit(p)
    BY <1>1, <1>4, <1>8 DEF Stands, ClientOf
  <1> DEFINE l == With(p.listen, Query, [key |-> 0, token |-> e.memo])
  <1>10. l \in ListenOf(V) /\ IsWith(l, p.listen, Query, [key |-> 0, token |-> e.memo])
    BY <1>9, ListenTable, WithIs DEF Query
  <1> HIDE DEF l
  <1>11. q = [p EXCEPT !.listen = l]
    BY DEF l
  <1>12. /\ q.disk = p.disk /\ q.view = p.view /\ q.ok = p.ok /\ q.online = p.online
         /\ q.stream = p.stream /\ q.agg = p.agg /\ q.in = p.in /\ q.out = p.out
         /\ q.nextId = p.nextId /\ q.byKey = p.byKey /\ q.active = p.active
         /\ q.listen = l /\ q.idle = p.idle /\ q \in ClientOf(V)
    <2> HIDE DEF q
    <2> QED
      BY <1>9, <1>10, <1>11 DEF ClientOf
  <1>13. Query \in Targets(q) /\ Query \notin DOMAIN q.active
    BY <1>9, <1>12 DEF TargetsFit, Targets, ClientOf, Query
  <1>14. Stands(q, V, s) /\ IsAbout(q, Query, 0)
    <2>1. TargetsFit(q)
      <3>1. /\ DOMAIN l = DOMAIN p.listen \union {Query}
            /\ \A t \in DOMAIN p.active : t \in DOMAIN p.listen /\ t # Query /\ l[t] = p.listen[t]
        BY <1>9, <1>10 DEF TargetsFit, IsWith
      <3>2. DOMAIN l \subseteq Targets(q) /\ Targets(q) = Targets(p)
        BY <1>9, <1>12, <1>13, <3>1 DEF TargetsFit, Targets
      <3> QED
        BY <1>8, <1>9, <1>12, <3>1, <3>2 DEF TargetsFit
    <2>2. StreamFits(q) /\ ChangesFit(q)
      BY <1>8, <1>12 DEF Stands, StreamFits, ChangesFit
    <2>3. Follow(p, q) /\ p.nextId \in Nat /\ q.nextId \in Nat
      BY <1>9, <1>12 DEF Follow, ClientOf
    <2>4. MessagesFit(p) /\ ServedFits(p, s) /\ (q.stream = "open" <=> p.stream = "open")
          /\ q.in = p.in /\ q.out = p.out
      BY <1>8, <1>12 DEF Stands
    <2> HIDE DEF q
    <2>5. MessagesFit(q) /\ ServedFits(q, s)
      <3> HIDE <1>1, <1>2, <1>3, <1>4, <1>8, <1>9, <1>10, <1>11, <1>12, <1>13
      <3> QED
        BY <2>3, <2>4, MessagesFollow
    <2>6. Stands(q, V, s)
      BY <1>8, <1>12, <2>1, <2>2, <2>5 DEF Stands
    <2> QED
      BY <1>13, <2>6 DEF IsAbout
  <1>15. d = Listen(p, Query, 0, e.memo)
    BY DEF p
  <1>16. IsListened(V, s, q, Query, d)
    <2>1. q = [p EXCEPT !.listen = With(@, Query, [key |-> 0, token |-> e.memo])]
      OBVIOUS
    <2> HIDE DEF q
    <2> QED
      BY <1>8, <1>9, <1>14, <1>15, <2>1, ListenKeeps
  <1>17. /\ d.in = c.in /\ d.disk = c.disk /\ d.view = p.view /\ Query \in DOMAIN d.listen
         /\ Held(d)
    <2> HIDE DEF q
    <2> QED
      BY <1>8, <1>10, <1>12, <1>16 DEF IsListened, IsWith, Held
  <1>18. FilterFits(d, s)
    <2>1. \A i : Sure(c, i) => Sure(d, i)
      BY <1>17 DEF Sure
    <2> QED
      BY <1>17, <2>1 DEF Settled, FilterFits
  <1> QED
    BY <1>4, <1>8, <1>16, <1>17, <1>18 DEF Settled, IsListened, SyncedFits, IsStarted

(* The app's query ends.                                                   *)
LEMMA StopSettles ==
  ASSUME WatchedQueryAssumption, NEW V, IsVersions(V), NEW s, NEW c, Settled(c, V, s), c.view.on,
         NEW d, d = RemoveAndCleanupTarget(StopListening(ReleaseTarget(c), Query))
  PROVE  Settled(d, V, s) /\ d.disk.docs = c.disk.docs /\ d.disk.writes = c.disk.writes
  <1> DEFINE r == ReleaseTarget(c)
             e == [r EXCEPT !.listen = Without(@, Query)]
             p == StopListening(r, Query)
  <1>1. /\ c \in ClientOf(V) /\ c.ok /\ Stands(c, V, s) /\ IdleFits(c) /\ TargetsFit(c)
        /\ Query \in DOMAIN c.listen /\ c.nextId \in Nat
    BY DEF Settled, Stands, ClientOf
  <1>2. r.ok /\ r.listen = c.listen /\ r.idle = c.idle /\ r.stream = c.stream
    BY <1>1 DEF ReleaseTarget, ClientOf
  <1>3. e = [c EXCEPT !.listen = Without(c.listen, Query), !.agg = c.agg,
                      !.disk = [c.disk EXCEPT !.token = c.memo]]
    <2> DEFINE l == Without(c.listen, Query)
    <2>1. e = [r EXCEPT !.listen = l]
      <3> HIDE DEF r
      <3> QED
        BY <1>2
    <2> HIDE DEF l
    <2>2. [r EXCEPT !.listen = l]
            = [c EXCEPT !.listen = l, !.agg = c.agg, !.disk = [c.disk EXCEPT !.token = c.memo]]
      BY <1>1 DEF ReleaseTarget, ClientOf
    <2> QED
      BY <2>1, <2>2 DEF l
  <1>4. IsReleased(V, s, c, e)
    <2> HIDE DEF e
    <2> QED
      BY <1>1, <1>3, ReleaseStands
  <1>5. IdleFits(r) /\ Query \in Targets(e) /\ Stands(e, V, s)
    <2> HIDE DEF r, e
    <2> QED
      BY <1>1, <1>2, <1>4 DEF IdleFits, IsReleased, TargetsFit, Targets, Query
  <1>6. IsStopped(V, s, e, p)
    <2>1. e = [r EXCEPT !.listen = Without(@, Query)] /\ Query \in DOMAIN r.listen
      BY <1>1, <1>2
    <2> HIDE DEF r, e
    <2> QED
      BY <1>2, <1>5, <2>1, StopKeeps
  <1> HIDE DEF e
  <1>7. d = RemoveAndCleanupTarget(p)
    OBVIOUS
  <1> HIDE DEF p, r
  <1>8. /\ Stands(p, V, s) /\ IdleFits(p) /\ Query \notin DOMAIN p.listen
        /\ p.in = c.in /\ p.disk.docs = c.disk.docs /\ p.disk.writes = c.disk.writes
    BY <1>4, <1>6 DEF IsReleased, IsStopped
  <1>9. /\ Stands(d, V, s) /\ IdleFits(d) /\ d.in = p.in /\ d.disk = p.disk
        /\ ~ d.view.on /\ Query \notin DOMAIN d.listen /\ Held(d)
    BY <1>7, <1>8, CleanupKeeps
  <1>10. FilterFits(d, s)
    <2>1. \A i : Sure(c, i) => Sure(d, i)
      BY <1>8, <1>9 DEF Sure
    <2> QED
      BY <1>8, <1>9, <2>1 DEF Settled, FilterFits
  <1> QED
    BY <1>8, <1>9, <1>10 DEF Settled, SyncedFits

(* The app's writes change what is on disk, and the view is told.          *)
LEMMA DiskSettles ==
  ASSUME WatchedQueryAssumption, NEW V, IsVersions(V), NEW s, NEW c, Settled(c, V, s),
         NEW disk \in DiskOf(V), disk.keys = c.disk.keys, NEW keys \in SUBSET Keys,
         NEW d, d = EmitNewSnapshots([c EXCEPT !.disk = disk], keys, <<>>)
  PROVE  Settled(d, V, s) /\ d.disk = disk
  <1> DEFINE e == [c EXCEPT !.disk = disk]
  <1>1. c \in ClientOf(V) /\ c.ok /\ Stands(c, V, s) /\ IdleFits(c)
    BY DEF Settled, Stands
  <1>2. /\ e.disk = disk /\ e.view = c.view /\ e.ok = c.ok /\ e.online = c.online
        /\ e.stream = c.stream /\ e.agg = c.agg /\ e.in = c.in /\ e.out = c.out
        /\ e.nextId = c.nextId /\ e.byKey = c.byKey /\ e.active = c.active
        /\ e.listen = c.listen /\ e.idle = c.idle /\ e \in ClientOf(V)
    BY <1>1 DEF ClientOf
  <1> HIDE DEF e
  <1>3. Stands(e, V, s) /\ IdleFits(e)
    <2>1. ChangesFit(e) /\ DOMAIN e.agg \subseteq Targets(c)
          /\ (e.stream = "off" => e.online # "waiting")
      BY <1>1, <1>2 DEF Stands, ChangesFit, TargetsFit, StreamFits
    <2>2. Stands(e, V, s)
      BY <1>1, <1>2, <2>1, StandsStill
    <2> QED
      BY <1>1, <1>2, <2>2 DEF IdleFits
  <1>4. <<>> \in AggOf(V) /\ DOMAIN <<>> = {}
    BY EmptyIs DEF AggOf
  <1>5. d = EmitNewSnapshots(e, keys, <<>>)
    BY DEF e
  <1>6. IsEmitted(V, s, e, <<>>, d)
    BY <1>3, <1>4, <1>5, EmitKeeps
  <1>7. /\ Stands(d, V, s) /\ IdleFits(d) /\ d.in = c.in /\ d.disk = disk
        /\ d.view.on = c.view.on /\ (Query \in DOMAIN d.listen <=> Query \in DOMAIN c.listen)
        /\ (c.view.on => d.view.synced = c.view.synced) /\ HoldsOn(c, d)
    BY <1>2, <1>4, <1>6 DEF IsEmitted, Kept, Synced, HoldsOn, Held
  <1>8. FilterFits(d, s)
    <2>1. \A i : Sure(c, i) => Sure(d, i)
      BY <1>7 DEF Sure, HoldsOn
    <2> QED
      BY <1>7, <2>1 DEF Settled, FilterFits
  <1> QED
    BY <1>7, <1>8 DEF Settled, SyncedFits

(* The stream opens: all that is listened to is requested.                 *)
IsOpened(V, s, c, d) ==
  /\ Stands(d, V, s) /\ ~ d.idle /\ d.stream = "open" /\ d.in = <<>>
  /\ d.disk = c.disk /\ d.view = c.view /\ d.listen = c.listen

LEMMA RequestsOpen ==
  ASSUME NEW V, IsVersions(V), NEW s, NEW c, NEW e, IsOpened(V, s, c, e),
         NEW order \in Seq(DOMAIN c.listen)
  PROVE  IsOpened(V, s, c, FoldLeft(SendWatchRequest, e, order))
  <1> DEFINE n == Len(order)
             Table1(it) == it = [p \in SUBSET (1 .. n) |->
                             IF p = {} THEN e ELSE SendWatchRequest(it[p \ {Max(p)}], order[Max(p)])]
             chosen == CHOOSE it : Table1(it)
             A == {x \in ClientOf(V) : IsOpened(V, s, c, x)}
             step == [p \in (1 .. n) \X A |-> SendWatchRequest(p[2], order[p[1]])]
  <1>1. n \in Nat /\ DOMAIN order = 1 .. n /\ \A i \in 1 .. n : order[i] \in DOMAIN c.listen
    OBVIOUS
  <1>2. e \in A
    BY DEF IsOpened, Stands
  <1>3. FoldLeft(SendWatchRequest, e, order) = chosen[1 .. n]
    BY <1>1 DEF FoldLeft, MapThenFoldSet
  <1> HIDE DEF n
  <1>4. ASSUME NEW x \in A, NEW i \in 1 .. n PROVE SendWatchRequest(x, order[i]) \in A
    <2> DEFINE y == SendWatchRequest(x, order[i])
               t == order[i]
               r == [kind |-> "watch", target |-> t, key |-> x.listen[t].key, token |-> x.listen[t].token]
    <2>1. /\ IsOpened(V, s, c, x) /\ Stands(x, V, s) /\ x.stream = "open" /\ TargetsFit(x)
          /\ x \in ClientOf(V) /\ x.listen = c.listen /\ t \in DOMAIN x.listen
      BY <1>1 DEF IsOpened, Stands
    <2> HIDE DEF t
    <2>2. x.listen[t] \in [key : Keys \union {0}, token : V] /\ t \in Nat
      <3>1. x.listen \in Table(Nat, [key : Keys \union {0}, token : V])
        BY <2>1 DEF ClientOf, ListenOf
      <3>2. /\ DOMAIN x.listen \in SUBSET Nat
            /\ x.listen \in [DOMAIN x.listen -> [key : Keys \union {0}, token : V]]
        BY <3>1, TableOf
      <3> QED
        BY <2>1, <3>2
    <2>3. t \in Targets(x) /\ IsAbout(x, t, x.listen[t].key)
      BY <2>1 DEF TargetsFit, IsAbout
    <2>4. r \in RequestOf(V) /\ r.target = t /\ IsAbout(x, t, r.key)
      BY <2>2, <2>3 DEF RequestOf
    <2>5. y = [RecordPendingTargetRequest(x, t) EXCEPT !.idle = FALSE, !.out = Append(@, r)]
      BY DEF SendWatchRequest, t
    <2> HIDE DEF r, y
    <2>6. IsSent(V, s, x, t, r, FALSE, y)
      BY <2>1, <2>3, <2>4, <2>5, RequestKeeps
    <2>7. IsOpened(V, s, c, y) /\ y \in ClientOf(V)
      BY <2>1, <2>6 DEF IsSent, IsOpened, Stands
    <2>8. y \in A
      BY <2>7
    <2> QED
      BY <2>8 DEF y
  <1>5. /\ step \in [(1 .. n) \X A -> A]
        /\ \A i \in 1 .. n, x \in A : step[<<i, x>>] = SendWatchRequest(x, order[i])
    <2> HIDE DEF A
    <2> QED
      BY <1>4
  <1> HIDE DEF A, step
  <1>6. chosen[1 .. n] \in A
    <2>1. PICK it : IsTable(it, n, A, e, step)
      BY <1>1, <1>2, <1>5, FoldTable
    <2>2. Table1(it)
      <3>1. /\ it \in [SUBSET (1 .. n) -> A]
            /\ \A p \in SUBSET (1 .. n) :
                 it[p] = IF p = {} THEN e ELSE step[<<Max(p), it[p \ {Max(p)}]>>]
        BY <2>1 DEF IsTable
      <3>2. \A p \in SUBSET (1 .. n) :
              p # {} => Max(p) \in 1 .. n /\ it[p \ {Max(p)}] \in A
        BY <1>1, <3>1, MaxOfPlaces
      <3> QED
        BY <1>5, <3>1, <3>2
    <2>3. Table1(chosen)
      <3> HIDE DEF Table1
      <3> QED
        BY <2>2
    <2> HIDE DEF chosen
    <2>4. Follows(chosen, n, A, e, step)
      <3>1. chosen[{}] = e
        BY <2>3
      <3>2. ASSUME NEW p \in SUBSET (1 .. n), p # {}, chosen[p \ {Max(p)}] \in A
            PROVE  chosen[p] = step[<<Max(p), chosen[p \ {Max(p)}]>>]
        <4>1. Max(p) \in 1 .. n
          BY <1>1, <3>2, MaxOfPlaces
        <4> QED
          BY <1>5, <2>3, <3>2, <4>1
      <3> QED
        BY <3>1, <3>2 DEF Follows
    <2>5. PICK g : IsRun(g, chosen, n, A, e, step)
      BY <1>1, <1>2, <1>5, <2>4, FoldRun
    <2> QED
      BY <1>1, <2>5 DEF IsRun
  <1> QED
    BY <1>3, <1>6 DEF A

(* The targets of a client, in order.                                      *)
LEMMA SortedTargets ==
  ASSUME NEW n \in Nat, NEW S \in SUBSET (0 .. n - 1)
  PROVE  /\ S \in SUBSET Nat /\ IsFiniteSet(S) /\ Cardinality(S) \in Nat
         /\ Sorted(S) \in [1 .. Cardinality(S) -> S]
  <1>1. S \in SUBSET Nat
    OBVIOUS
  <1>2. IsFiniteSet(0 .. n - 1)
    <2>1. 0 \in Int /\ n - 1 \in Int
      OBVIOUS
    <2> QED
      BY <2>1, FS_Interval
  <1>3. IsFiniteSet(S)
    BY <1>2, FS_Subset
  <1> QED
    BY <1>1, <1>3, SortedIs

LEMMA OpenSettles ==
  ASSUME NEW V, IsVersions(V), NEW s, NEW c, Settled(c, V, s), c.stream = "starting",
         NEW d, d = FoldLeft(SendWatchRequest, [c EXCEPT !.stream = "open"], Sorted(DOMAIN c.listen))
  PROVE  Settled(d, V, s) /\ d.disk = c.disk
  <1> DEFINE e == [c EXCEPT !.stream = "open"]
             order == Sorted(DOMAIN c.listen)
  <1>1. /\ c \in ClientOf(V) /\ c.ok /\ c.nextId \in Nat /\ DOMAIN c.listen \subseteq Targets(c)
        /\ c.in = <<>> /\ ~ c.idle /\ DOMAIN s = {}
    BY DEF Settled, Stands, ClientOf, TargetsFit, StreamFits, IdleFits, ServedFits
  <1>2. order \in Seq(DOMAIN c.listen)
    <2> DEFINE S == DOMAIN c.listen
    <2>1. c.nextId \in Nat /\ S \in SUBSET (0 .. c.nextId - 1)
      BY <1>1 DEF Targets
    <2> HIDE DEF S
    <2>2. Sorted(S) \in [1 .. Cardinality(S) -> S] /\ Cardinality(S) \in Nat
      BY <2>1, SortedTargets
    <2> DEFINE o == Sorted(S)
               n == Cardinality(S)
    <2> HIDE DEF o, n
    <2>3. o \in [1 .. n -> S] /\ n \in Nat
      BY <2>2 DEF o, n
    <2>4. o \in Seq(S)
      BY <2>3
    <2> QED
      BY <2>4 DEF o, S
  <1>3. /\ e.disk = c.disk /\ e.view = c.view /\ e.ok = c.ok /\ e.online = c.online
        /\ e.stream = "open" /\ e.agg = c.agg /\ e.in = c.in /\ e.out = c.out
        /\ e.nextId = c.nextId /\ e.byKey = c.byKey /\ e.active = c.active
        /\ e.listen = c.listen /\ e.idle = c.idle /\ e \in ClientOf(V)
    BY <1>1 DEF ClientOf
  <1> HIDE DEF e, order
  <1>4. Stands(e, V, s)
    <2>1. TargetsFit(e) /\ StreamFits(e) /\ ChangesFit(e)
      BY <1>3 DEF Settled, Stands, TargetsFit, StreamFits, ChangesFit, Targets
    <2>2. MessagesFit(e)
      <3>1. c.out = <<>> /\ c.in = <<>>
        BY DEF Settled, Stands, StreamFits
      <3> QED
        BY <1>3, <3>1 DEF MessagesFit
    <2>3. ServedFits(e, s)
      BY <1>1, <1>3 DEF ServedFits
    <2> QED
      BY <1>1, <1>3, <2>1, <2>2, <2>3 DEF Settled, Stands
  <1>5. IsOpened(V, s, c, e)
    BY <1>1, <1>3, <1>4 DEF IsOpened
  <1>6. d = FoldLeft(SendWatchRequest, e, order)
    BY DEF e, order
  <1>7. IsOpened(V, s, c, d)
    BY <1>2, <1>5, <1>6, RequestsOpen
  <1>8. FilterFits(d, s)
    BY <1>1, <1>7 DEF FilterFits, IsOpened
  <1> QED
    BY <1>7, <1>8 DEF Settled, IsOpened, IdleFits, SyncedFits

(* A message of the stream.                                                *)
IsDelivered(V, s, c, d) ==
  /\ Settled(c, V, s) /\ Settled(d, V, s)
  /\ d.disk.writes = c.disk.writes /\ IsNotOlder(c.disk, d.disk)

LEMMA ReceiveSettles ==
  ASSUME WatchedQueryAssumption, NEW V, IsVersions(V), NEW s, NEW c, Settled(c, V, s), c.in # <<>>,
         NEW d, d = OnWatchStreamChange([c EXCEPT !.in = Tail(@), !.online = "online"], Head(c.in))
  PROVE  IsDelivered(V, s, c, d)
  <1> DEFINE e == [c EXCEPT !.in = Tail(@), !.online = "online"]
             m == Head(c.in)
  <1>1. Stands(c, V, s) /\ IdleFits(c) /\ SyncedFits(c) /\ FilterFits(c, s)
    BY DEF Settled
  <1>2. IsTaken(V, s, c, e)
    <2> HIDE DEF e
    <2> QED
      BY <1>1, TakeStands DEF e
  <1>3. d = OnWatchStreamChange(e, m)
    OBVIOUS
  <1> HIDE DEF e, m
  <1>4. /\ Ready(V, s, e) /\ m \in MessageOf(V) /\ MessageFits(e, m) /\ e.in = Tail(c.in)
        /\ e.view = c.view /\ e.disk = c.disk /\ e.listen = c.listen /\ (Held(c) <=> Held(e))
    BY <1>2 DEF IsTaken, Held, m
  <1>5. m.kind = "filter" => Held(e)
    <2>1. SUFFICES ASSUME m.kind = "filter" PROVE Held(c)
      BY <1>4
    <2>2. c.in \in Seq(MessageOf(V))
      BY <1>1 DEF Stands, ClientOf
    <2>3. 1 \in DOMAIN c.in /\ m = c.in[1]
      BY <2>2 DEF m
    <2>4. Sure(c, 1)
      BY <1>1, <2>1, <2>3 DEF FilterFits
    <2>5. ~ Answered(c.in, 1)
      BY DEF Answered
    <2> QED
      BY <2>4, <2>5 DEF Sure
  <1>6. IsReceived(V, s, e, m, d)
    BY <1>3, <1>4, <1>5, ChangeHandles
  <1>7. FilterFits(d, s)
    <2>1. d.in = Tail(c.in) /\ (~ IsFor(m, "removed") => HoldsOn(c, d)) /\ (IsFor(m, "added") => Held(d))
      BY <1>4, <1>6 DEF IsReceived, IsHandled, HoldsOn
    <2> QED
      BY <1>1, <2>1, FilterStays DEF m
  <1> QED
    BY <1>4, <1>6, <1>7 DEF Settled, IsReceived, IsHandled, IsDelivered

(* The stream is given up for a while: the view is not current.            *)
LEMMA OfflineSettles ==
  ASSUME NEW V, NEW s, NEW c, Settled(c, V, s), NEW d, d = Offline(c)
  PROVE  Settled(d, V, s) /\ d.disk = c.disk
  <1> DEFINE v == [c.view EXCEPT !.current = FALSE, !.insync = @ /\ ~ c.view.current]
  <1>1. c \in ClientOf(V) /\ c.ok /\ Stands(c, V, s) /\ c.view \in ViewOf(V)
    BY DEF Settled, Stands, ClientOf
  <1>2. v \in ViewOf(V) /\ v.on = c.view.on /\ v.synced = c.view.synced
    BY <1>1 DEF ViewOf
  <1>3. d = [c EXCEPT !.online = "offline", !.view = v]
    BY <1>1 DEF Offline, ClientOf, ViewOf
  <1> HIDE DEF v
  <1>4. /\ d.disk = c.disk /\ d.view = v /\ d.ok = c.ok /\ d.online = "offline"
        /\ d.stream = c.stream /\ d.agg = c.agg /\ d.in = c.in /\ d.out = c.out
        /\ d.nextId = c.nextId /\ d.byKey = c.byKey /\ d.active = c.active
        /\ d.listen = c.listen /\ d.idle = c.idle /\ d \in ClientOf(V)
    BY <1>1, <1>2, <1>3 DEF ClientOf
  <1>5. ChangesFit(d) /\ DOMAIN d.agg \subseteq Targets(c)
    BY <1>1, <1>4 DEF Stands, ChangesFit, TargetsFit
  <1>6. Stands(d, V, s)
    BY <1>1, <1>2, <1>4, <1>5, StandsStill
  <1>7. FilterFits(d, s)
    <2>1. \A i : Sure(c, i) => Sure(d, i)
      BY <1>4 DEF Sure, Held
    <2> QED
      BY <1>4, <2>1 DEF Settled, FilterFits
  <1> QED
    BY <1>2, <1>4, <1>6, <1>7 DEF Settled, IdleFits, SyncedFits

(* Messages arrive; the entry of the query stays as sure as it is unless   *)
(* they answer a request to drop it.                                       *)
IsSure(M, c, more, d) ==
  /\ d.in \in Seq(M)
  /\ \A i \in 1 .. Len(c.in) + 1 : Sure(c, i) => Sure(d, i)
  /\ Sure(c, Len(c.in) + 1) /\ (\A j \in DOMAIN more : ~ IsFor(more[j], "removed"))
       => \A i \in Len(c.in) + 1 .. Len(d.in) + 1 : Sure(d, i)

LEMMA SureStays ==
  ASSUME NEW M, NEW c, NEW d, c.in \in Seq(M), NEW more \in Seq(M), d.in = c.in \o more,
         Held(c) => Held(d)
  PROVE  IsSure(M, c, more, d)
  <1> DEFINE n == Len(c.in)
             k == Len(more)
  <1>1. /\ n \in Nat /\ k \in Nat /\ Len(d.in) = n + k
        /\ \A i \in 1 .. n : d.in[i] = c.in[i]
        /\ \A i \in n + 1 .. n + k : d.in[i] = more[i - n] /\ i - n \in DOMAIN more
    OBVIOUS
  <1> HIDE DEF n, k
  <1>2. ASSUME NEW i \in 1 .. n + 1, Sure(c, i) PROVE Sure(d, i)
    <2>1. \A j \in 1 .. i - 1 : j \in 1 .. n
      BY <1>1
    <2>2. CASE Answered(c.in, i)
      <3>1. PICK j \in 1 .. i - 1 :
              IsFor(c.in[j], "added") /\ \A l \in j + 1 .. i - 1 : ~ IsFor(c.in[l], "removed")
        BY <2>2 DEF Answered
      <3>2. \A l \in j + 1 .. i - 1 : l \in 1 .. i - 1
        BY <1>1, <3>1
      <3>3. IsFor(d.in[j], "added") /\ \A l \in j + 1 .. i - 1 : ~ IsFor(d.in[l], "removed")
        BY <1>1, <2>1, <3>1, <3>2
      <3> QED
        BY <3>1, <3>3 DEF Answered, Sure
    <2>3. CASE Untouched(c.in, i) /\ Held(c)
      <3>1. \A j \in 1 .. i - 1 : ~ IsFor(d.in[j], "removed")
        BY <1>1, <2>1, <2>3 DEF Untouched
      <3> QED
        BY <2>3, <3>1 DEF Untouched, Sure
    <2> QED
      BY <1>2, <2>2, <2>3 DEF Sure
  <1>3. ASSUME Sure(c, n + 1), \A j \in DOMAIN more : ~ IsFor(more[j], "removed"),
               NEW i \in n + 1 .. n + k + 1
        PROVE  Sure(d, i)
    <2>1. \A l \in n + 1 .. i - 1 : l \in n + 1 .. n + k /\ ~ IsFor(d.in[l], "removed")
      <3>1. \A l \in n + 1 .. i - 1 : l \in n + 1 .. n + k
        BY <1>1
      <3> QED
        BY <1>1, <1>3, <3>1
    <2>2. CASE Answered(c.in, n + 1)
      <3>1. PICK j \in 1 .. (n + 1) - 1 :
              IsFor(c.in[j], "added") /\ \A l \in j + 1 .. (n + 1) - 1 : ~ IsFor(c.in[l], "removed")
        BY <2>2 DEF Answered
      <3>2. /\ j \in 1 .. n /\ j \in 1 .. i - 1
            /\ \A l \in j + 1 .. i - 1 : \/ l \in j + 1 .. (n + 1) - 1 /\ l \in 1 .. n
                                         \/ l \in n + 1 .. i - 1
        BY <1>1, <3>1
      <3>3. IsFor(d.in[j], "added") /\ \A l \in j + 1 .. i - 1 : ~ IsFor(d.in[l], "removed")
        BY <1>1, <2>1, <3>1, <3>2
      <3> QED
        BY <3>2, <3>3 DEF Answered, Sure
    <2>3. CASE Untouched(c.in, n + 1) /\ Held(c)
      <3>1. \A j \in 1 .. i - 1 : (j \in 1 .. (n + 1) - 1 /\ j \in 1 .. n) \/ j \in n + 1 .. i - 1
        BY <1>1
      <3>2. \A j \in 1 .. i - 1 : ~ IsFor(d.in[j], "removed")
        BY <1>1, <2>1, <2>3, <3>1 DEF Untouched
      <3> QED
        BY <2>3, <3>2 DEF Untouched, Sure
    <2> QED
      BY <1>3, <2>2, <2>3 DEF Sure
  <1>4. Len(d.in) + 1 = n + k + 1
    BY <1>1
  <1>5. \A i \in 1 .. Len(c.in) + 1 : Sure(c, i) => Sure(d, i)
    BY <1>2 DEF n
  <1>6. Sure(c, Len(c.in) + 1) /\ (\A j \in DOMAIN more : ~ IsFor(more[j], "removed"))
              => \A i \in Len(c.in) + 1 .. Len(d.in) + 1 : Sure(d, i)
    BY <1>3, <1>4 DEF n
  <1>7. d.in \in Seq(M)
    OBVIOUS
  <1> QED
    BY <1>5, <1>6, <1>7 DEF IsSure

(* What the backend does to a client: it takes requests and sends messages.*)
IsArrived(V, s, c, more, out, r, d) ==
  /\ Settled(c, V, s) /\ Settled(d, V, r) /\ d.disk = c.disk
  /\ d.out = out /\ d.in = c.in \o more

LEMMA ArriveSettles ==
  ASSUME NEW V, NEW s, NEW c, Settled(c, V, s), c.stream = "open",
         NEW more \in Seq(MessageOf(V)), NEW out \in Seq(RequestOf(V)),
         \A i \in DOMAIN out : \E j \in DOMAIN c.out : out[i] = c.out[j],
         \A j \in DOMAIN more : MessageFits(c, more[j]),
         NEW r \in ServedOf(V), ServedFits(c, r),
         NEW d, d = [c EXCEPT !.out = out, !.in = @ \o more],
         FilterFits(d, r)
  PROVE  IsArrived(V, s, c, more, out, r, d)
  <1> DEFINE in == c.in \o more
  <1>1. c \in ClientOf(V) /\ c.ok /\ Stands(c, V, s) /\ c.in \in Seq(MessageOf(V)) /\ c.nextId \in Nat
    BY DEF Settled, Stands, ClientOf
  <1>2. /\ in \in Seq(MessageOf(V))
        /\ \A i \in DOMAIN in : \/ i \in DOMAIN c.in /\ in[i] = c.in[i]
                                \/ \E j \in DOMAIN more : in[i] = more[j]
    <2>1. in \in Seq(MessageOf(V))
      BY <1>1
    <2>2. /\ Len(c.in) \in Nat /\ Len(more) \in Nat /\ DOMAIN in = 1 .. Len(c.in) + Len(more)
          /\ DOMAIN c.in = 1 .. Len(c.in) /\ DOMAIN more = 1 .. Len(more)
          /\ \A i \in 1 .. Len(c.in) : in[i] = c.in[i]
          /\ \A i \in Len(c.in) + 1 .. Len(c.in) + Len(more) :
               in[i] = more[i - Len(c.in)] /\ i - Len(c.in) \in DOMAIN more
      BY <1>1
    <2> HIDE DEF in
    <2>3. ASSUME NEW i \in DOMAIN in
          PROVE  \/ i \in DOMAIN c.in /\ in[i] = c.in[i]
                 \/ \E j \in DOMAIN more : in[i] = more[j]
      <3>1. i \in 1 .. Len(c.in) \/ i \in Len(c.in) + 1 .. Len(c.in) + Len(more)
        BY <2>2
      <3> QED
        BY <2>2, <3>1
    <2> QED
      BY <2>1, <2>3
  <1> HIDE DEF in
  <1>3. d = [c EXCEPT !.out = out, !.in = in]
    BY DEF in
  <1>4. /\ d.disk = c.disk /\ d.view = c.view /\ d.ok = c.ok /\ d.online = c.online
        /\ d.stream = c.stream /\ d.agg = c.agg /\ d.in = in /\ d.out = out
        /\ d.nextId = c.nextId /\ d.byKey = c.byKey /\ d.active = c.active
        /\ d.listen = c.listen /\ d.idle = c.idle /\ d \in ClientOf(V)
    BY <1>1, <1>2, <1>3 DEF ClientOf
  <1>5. TargetsFit(d) /\ StreamFits(d) /\ ChangesFit(d)
    BY <1>1, <1>4 DEF Stands, TargetsFit, StreamFits, ChangesFit, Targets
  <1>6. Follow(c, d) /\ d.nextId \in Nat /\ Targets(d) = Targets(c)
    BY <1>1, <1>4 DEF Follow, Targets
  <1>7. \A t, k : IsAbout(c, t, k) => IsAbout(d, t, k)
    BY <1>1, <1>6, AboutFollows
  <1>8. ServedFits(d, r) /\ \A m : MessageFits(c, m) => MessageFits(d, m)
    <2>1. \A m : MessageFits(c, m) => MessageFits(d, m)
      BY <1>6, <1>7 DEF MessageFits
    <2>2. ServedFits(d, r)
      BY <1>4, <1>7 DEF ServedFits
    <2> QED
      BY <2>1, <2>2
  <1>9. MessagesFit(d)
    <2>1. \A i \in DOMAIN d.in : MessageFits(c, d.in[i])
      BY <1>1, <1>2, <1>4 DEF Stands, MessagesFit
    <2>2. \A i \in DOMAIN c.out :
            /\ c.out[i].target \in Targets(d)
            /\ c.out[i].kind = "watch" => IsAbout(d, c.out[i].target, c.out[i].key)
      BY <1>1, <1>6, <1>7 DEF Stands, MessagesFit
    <2>3. \A i \in DOMAIN d.out : \E j \in DOMAIN c.out : d.out[i] = c.out[j]
      BY <1>4
    <2>4. \A i \in DOMAIN d.out :
            /\ d.out[i].target \in Targets(d)
            /\ d.out[i].kind = "watch" => IsAbout(d, d.out[i].target, d.out[i].key)
      BY <2>2, <2>3
    <2> QED
      BY <1>8, <2>1, <2>4 DEF MessagesFit
  <1>10. Stands(d, V, r)
    BY <1>1, <1>4, <1>5, <1>8, <1>9 DEF Stands
  <1> QED
    BY <1>4, <1>10 DEF Settled, IdleFits, SyncedFits, IsArrived, in

(* The backend answers a request.                                          *)
Response(c, m) == [c EXCEPT !.out = Tail(@), !.in = Append(@, m)]

LEMMA ServeSettles ==
  ASSUME NEW V, NEW s, NEW c, Settled(c, V, s), c.out # <<>>,
         NEW m, m.kind \in {"added", "rejected", "removed"},
         m = Message(m.kind, Head(c.out).target),
         NEW r \in ServedOf(V), ServedFits(c, r),
         Query \in DOMAIN r => (Query \in DOMAIN s /\ ~ IsFor(m, "removed")) \/ IsFor(m, "added"),
         NEW d, d = Response(c, m)
  PROVE  IsArrived(V, s, c, <<m>>, Tail(c.out), r, d)
  <1>1. /\ c \in ClientOf(V) /\ Stands(c, V, s) /\ c.in \in Seq(MessageOf(V))
        /\ c.out \in Seq(RequestOf(V)) /\ c.stream = "open" /\ FilterFits(c, s)
    BY DEF Settled, Stands, ClientOf, StreamFits
  <1> DEFINE out == Tail(c.out)
             more == <<m>>
             n == Len(c.in)
  <1>2. /\ out \in Seq(RequestOf(V)) /\ 1 \in DOMAIN c.out /\ Head(c.out) = c.out[1]
        /\ \A i \in DOMAIN out : i + 1 \in DOMAIN c.out /\ out[i] = c.out[i + 1]
    BY <1>1
  <1>3. m.target \in Targets(c) /\ m.target \in Nat /\ m = [kind |-> m.kind, target |-> m.target]
    <2>1. m.target = c.out[1].target /\ m = [kind |-> m.kind, target |-> m.target]
      BY <1>2 DEF Message
    <2>2. c.out[1].target \in Targets(c)
      BY <1>1, <1>2 DEF Stands, MessagesFit
    <2> QED
      BY <1>1, <2>1, <2>2 DEF Targets, ClientOf
  <1>4. m \in MessageOf(V) /\ MessageFits(c, m) /\ m.kind # "filter"
    BY <1>3 DEF MessageOf, MessageFits
  <1>5. more \in Seq(MessageOf(V)) /\ \A j \in DOMAIN more : more[j] = m
    BY <1>4
  <1>6. Append(c.in, m) = c.in \o more
    BY <1>1, <1>4
  <1>7. d = [c EXCEPT !.out = out, !.in = @ \o more]
    BY <1>1, <1>6 DEF ClientOf, Response
  <1> HIDE DEF out
  <1>8. d.in = c.in \o more /\ (Held(c) => Held(d))
    BY <1>1, <1>7 DEF ClientOf, Held
  <1>9. /\ n \in Nat /\ DOMAIN c.in = 1 .. n /\ Len(d.in) = n + 1 /\ DOMAIN d.in = 1 .. n + 1
        /\ \A i \in 1 .. n : d.in[i] = c.in[i]
        /\ d.in[n + 1] = m
    BY <1>1, <1>4, <1>6, <1>8
  <1>10. /\ \A i \in 1 .. n + 1 : Sure(c, i) => Sure(d, i)
         /\ Sure(c, n + 1) /\ (\A j \in DOMAIN more : ~ IsFor(more[j], "removed"))
              => \A i \in n + 1 .. Len(d.in) + 1 : Sure(d, i)
    <2> HIDE DEF more, n
    <2>1. IsSure(MessageOf(V), c, more, d)
      BY <1>1, <1>5, <1>8, SureStays
    <2> QED
      BY <2>1 DEF IsSure, n
  <1> HIDE DEF n, more
  <1>11. ASSUME NEW i \in DOMAIN d.in, d.in[i].kind = "filter" PROVE Sure(d, i)
    <2>1. i \in 1 .. n /\ c.in[i].kind = "filter"
      <3>1. i # n + 1
        BY <1>4, <1>9, <1>11
      <3>2. i \in 1 .. n
        BY <1>9, <3>1
      <3> QED
        BY <1>9, <1>11, <3>2
    <2>2. Sure(c, i) /\ i \in 1 .. n + 1
      BY <1>1, <1>9, <2>1 DEF FilterFits
    <2> QED
      BY <1>10, <2>2
  <1>12. ASSUME Query \in DOMAIN r PROVE Sure(d, Len(d.in) + 1)
    <2>1. CASE IsFor(m, "added")
      <3>1. n + 1 \in 1 .. (n + 2) - 1 /\ IsFor(d.in[n + 1], "added") /\ Len(d.in) + 1 = n + 2
        BY <1>9, <2>1
      <3>2. \A l \in (n + 1) + 1 .. (n + 2) - 1 : FALSE
        BY <1>9
      <3>3. Answered(d.in, n + 2)
        BY <3>1, <3>2 DEF Answered
      <3> QED
        BY <3>1, <3>3 DEF Sure
    <2>2. CASE Query \in DOMAIN s /\ ~ IsFor(m, "removed")
      <3>1. Sure(c, n + 1)
        BY <1>1, <2>2 DEF FilterFits, n
      <3>2. Len(d.in) + 1 \in n + 1 .. Len(d.in) + 1
        BY <1>9
      <3> QED
        BY <1>5, <1>10, <2>2, <3>1, <3>2
    <2> QED
      BY <1>12, <2>1, <2>2
  <1>13. FilterFits(d, r)
    BY <1>11, <1>12 DEF FilterFits
  <1>14. \A i \in DOMAIN out : \E j \in DOMAIN c.out : out[i] = c.out[j]
    BY <1>2
  <1>15. \A j \in DOMAIN more : MessageFits(c, more[j])
    BY <1>4, <1>5
  <1>16. IsArrived(V, s, c, more, out, r, d)
    BY <1>1, <1>2, <1>5, <1>7, <1>13, <1>14, <1>15, ArriveSettles
  <1> QED
    BY <1>16 DEF more, out

(* The backend publishes what is new.                                      *)
Published(c, more) == [c EXCEPT !.in = @ \o more]

LEMMA PublishSettles ==
  ASSUME NEW V, NEW s, NEW c, Settled(c, V, s), c.stream = "open",
         NEW more \in Seq(MessageOf(V)),
         \A j \in DOMAIN more : /\ MessageFits(c, more[j]) /\ ~ IsFor(more[j], "removed")
                                /\ more[j].kind = "filter" => Query \in DOMAIN s,
         NEW r \in ServedOf(V), DOMAIN r = DOMAIN s, \A t \in DOMAIN s : r[t].key = s[t].key,
         NEW d, d = Published(c, more)
  PROVE  IsArrived(V, s, c, more, c.out, r, d)
  <1>1. /\ c \in ClientOf(V) /\ Stands(c, V, s) /\ c.in \in Seq(MessageOf(V))
        /\ c.out \in Seq(RequestOf(V)) /\ FilterFits(c, s)
    BY DEF Settled, Stands, ClientOf
  <1> DEFINE n == Len(c.in)
             k == Len(more)
  <1>2. d = [c EXCEPT !.out = c.out, !.in = @ \o more]
    BY <1>1 DEF ClientOf, Published
  <1>3. d.in = c.in \o more /\ (Held(c) => Held(d))
    BY <1>1, <1>2 DEF ClientOf, Held
  <1>4. /\ n \in Nat /\ k \in Nat /\ DOMAIN c.in = 1 .. n /\ Len(d.in) = n + k
        /\ DOMAIN d.in = 1 .. n + k
        /\ \A i \in 1 .. n : d.in[i] = c.in[i]
        /\ \A i \in n + 1 .. n + k : d.in[i] = more[i - n] /\ i - n \in DOMAIN more
    BY <1>1, <1>3
  <1>5. /\ \A i \in 1 .. n + 1 : Sure(c, i) => Sure(d, i)
        /\ Sure(c, n + 1) => \A i \in n + 1 .. Len(d.in) + 1 : Sure(d, i)
    <2>1. IsSure(MessageOf(V), c, more, d)
      BY <1>1, <1>3, SureStays
    <2> QED
      BY <2>1 DEF IsSure
  <1> HIDE DEF n, k
  <1>6. Query \in DOMAIN s => Sure(c, n + 1)
    BY <1>1 DEF FilterFits, n
  <1>7. ASSUME NEW i \in DOMAIN d.in, d.in[i].kind = "filter" PROVE Sure(d, i)
    <2>1. CASE i \in 1 .. n
      <3>1. Sure(c, i) /\ i \in 1 .. n + 1
        BY <1>1, <1>4, <1>7, <2>1 DEF FilterFits
      <3> QED
        BY <1>5, <3>1
    <2>2. CASE i \in n + 1 .. n + k
      <3>1. Query \in DOMAIN s
        BY <1>4, <1>7, <2>2
      <3>2. i \in n + 1 .. Len(d.in) + 1
        BY <1>4, <2>2
      <3> QED
        BY <1>5, <1>6, <3>1, <3>2
    <2>3. i \in 1 .. n \/ i \in n + 1 .. n + k
      BY <1>4
    <2> QED
      BY <2>1, <2>2, <2>3
  <1>8. ASSUME Query \in DOMAIN r PROVE Sure(d, Len(d.in) + 1)
    <2>1. Len(d.in) + 1 \in n + 1 .. Len(d.in) + 1
      BY <1>4
    <2> QED
      BY <1>5, <1>6, <1>8, <2>1
  <1>9. FilterFits(d, r)
    BY <1>7, <1>8 DEF FilterFits
  <1>10. ServedFits(c, r)
    BY <1>1 DEF Stands, ServedFits
  <1>11. \A i \in DOMAIN c.out : \E j \in DOMAIN c.out : c.out[i] = c.out[j]
    OBVIOUS
  <1> QED
    BY <1>1, <1>2, <1>9, <1>10, <1>11, ArriveSettles

-----------------------------------------------------------------------------
(* The inductive invariant, and the actions.                               *)

(* What the backend has applied is the first of the app's writes.          *)
AppliedFits ==
  applied # 0 =>
    /\ client.disk.writes # <<>>
    /\ applied \in 1 .. Len(history) /\ history[applied].key = Head(client.disk.writes).key

Inv ==
  /\ history \in Seq(WriteType) /\ applied \in Versions /\ made \in Nat
  /\ Settled(client, Versions, served)
  /\ AppliedFits

(* What an action leaves.                                                  *)
Good == Inv' /\ IsNotOlder(client.disk, client'.disk)

LEMMA VersionsAre ==
  ASSUME history \in Seq(WriteType)
  PROVE  IsVersions(Versions) /\ Len(history) \in Versions /\ Len(history) \in Nat
  BY DEF IsVersions, Versions

LEMMA InvIs ==
  ASSUME Inv
  PROVE  /\ IsVersions(Versions) /\ Len(history) \in Versions /\ Len(history) \in Nat
         /\ Settled(client, Versions, served) /\ Stands(client, Versions, served)
         /\ client \in ClientOf(Versions) /\ client.disk \in DiskOf(Versions)
         /\ client.disk.writes \in Seq(WriteType) /\ served \in ServedOf(Versions)
  <1>1. Settled(client, Versions, served) /\ Stands(client, Versions, served)
    BY DEF Inv, Settled
  <1>2. client \in ClientOf(Versions) /\ client.disk \in DiskOf(Versions)
        /\ client.disk.writes \in Seq(WriteType) /\ served \in ServedOf(Versions)
    BY <1>1 DEF Stands, ClientOf, DiskOf
  <1>3. IsVersions(Versions) /\ Len(history) \in Versions /\ Len(history) \in Nat
    BY VersionsAre DEF Inv
  <1> QED
    BY <1>1, <1>2, <1>3

(* A document as of a version.                                             *)
LEMMA AtIs ==
  ASSUME history \in Seq(WriteType), NEW k \in Keys, NEW v \in Versions
  PROVE  /\ At(k, v) \in DocOf(Versions)
         /\ v # 0 /\ history[v].key = k => At(k, v).version = v
  <1> DEFINE T == {i \in 1 .. v : history[i].key = k}
             m == Max(T)
  <1>1. v \in Nat /\ v <= Len(history) /\ Len(history) \in Nat
    BY DEF Versions
  <1>2. Unknown \in DocOf(Versions)
    BY VersionsAre, UnknownIs
  <1>3. CASE T = {}
    <2>1. At(k, v) = Unknown
      BY <1>3 DEF At
    <2>2. v # 0 => v \in 1 .. v
      BY <1>1
    <2>3. ~ (v # 0 /\ history[v].key = k)
      BY <1>3, <2>2
    <2> QED
      BY <1>2, <2>1, <2>3
  <1>4. CASE T # {}
    <2>1. m \in T /\ \A y \in T : y <= m
      <3>1. T \in SUBSET Nat /\ \A x \in T : x <= v
        BY <1>1
      <3> HIDE DEF T
      <3> QED
        BY <1>1, <1>4, <3>1, MaxNat
    <2>2. At(k, v) = [Unknown EXCEPT !.version = m, !.id = history[m].id, !.exists = history[m].exists]
      BY <1>4 DEF At
    <2> HIDE DEF m
    <2>3. m \in 1 .. v /\ history[m].key = k /\ \A y \in T : y <= m
      BY <2>1
    <2>4. m \in Versions /\ m \in 1 .. Len(history)
      BY <1>1, <2>3 DEF Versions
    <2>5. history[m] \in WriteType
      BY <2>4
    <2>6. history[m].id \in Nat /\ history[m].exists \in BOOLEAN
      BY <2>5 DEF WriteType
    <2>7. At(k, v) \in DocOf(Versions) /\ At(k, v).version = m
      BY <1>2, <2>2, <2>4, <2>6 DEF DocOf
    <2>8. v # 0 /\ history[v].key = k => m = v
      <3>1. v # 0 /\ history[v].key = k => v \in T
        BY <1>1
      <3> QED
        BY <1>1, <2>3, <3>1
    <2> QED
      BY <2>7, <2>8
  <1> QED
    BY <1>3, <1>4

(* An action that leaves the history, and the app's writes, as they are.   *)
LEMMA StillGood ==
  ASSUME Inv, history' = history, made' = made, applied' = applied \/ applied' = 0,
         Settled(client', Versions, served'), client'.disk.writes = client.disk.writes,
         IsNotOlder(client.disk, client'.disk)
  PROVE  Good
  <1>1. Versions' = Versions
    BY DEF Versions
  <1>2. Settled(client, Versions, served)'
    BY <1>1
  <1>3. applied' \in Versions'
    BY <1>1 DEF Inv, Versions
  <1>4. AppliedFits'
    BY DEF Inv, AppliedFits
  <1>5. history' \in Seq(WriteType) /\ made' \in Nat
    BY DEF Inv
  <1> QED
    BY <1>2, <1>3, <1>4, <1>5 DEF Good, Inv

(* One that leaves the documents on disk as they are, too.                 *)
LEMMA QuietGood ==
  ASSUME Inv, history' = history, made' = made, applied' = applied \/ applied' = 0,
         Settled(client', Versions, served'), client'.disk.writes = client.disk.writes,
         client'.disk.docs = client.disk.docs
  PROVE  Good
  <1>1. IsNotOlder(client.disk, client'.disk)
    BY InvIs, NotOlderAsIs
  <1> QED
    BY <1>1, StillGood

LEMMA InitInv ==
  ASSUME WatchedQueryAssumption, Init
  PROVE  Inv
  <1> DEFINE n == Cardinality(Keys)
             order == Sorted(Keys)
             seen == [Installed EXCEPT !.docs = [k \in Keys |-> At(k, Len(history))],
                                       !.keys = Keys, !.token = Len(history), !.last = Len(history)]
  <1>1. n \in Nat /\ order \in [1 .. n -> Keys]
    BY SortedIs DEF WatchedQueryAssumption
  <1> HIDE DEF n, order
  <1>2. history = [i \in 1 .. n |-> [key |-> order[i], id |-> i, exists |-> TRUE]]
    BY DEF Init, n, order
  <1>3. history \in Seq(WriteType) /\ Len(history) = n
    <2>1. \A i \in 1 .. n : [key |-> order[i], id |-> i, exists |-> TRUE] \in WriteType
      BY <1>1 DEF WriteType
    <2> QED
      BY <1>1, <1>2, <2>1
  <1>4. IsVersions(Versions) /\ Len(history) \in Versions
    BY <1>3, VersionsAre
  <1>5. Installed \in DiskOf(Versions)
    <2>1. Unknown \in DocOf(Versions) /\ 0 \in Versions
      BY <1>4, UnknownIs DEF IsVersions
    <2> QED
      BY <2>1 DEF Installed, DiskOf
  <1>6. seen \in DiskOf(Versions)
    <2> DEFINE docs == [k \in Keys |-> At(k, Len(history))]
    <2>1. docs \in [Keys -> DocOf(Versions)]
      BY <1>3, <1>4, AtIs
    <2> HIDE DEF docs
    <2> QED
      BY <1>4, <1>5, <2>1 DEF DiskOf, docs
  <1> HIDE DEF seen
  <1>7. client = NewClient(Installed) \/ client = NewClient(seen)
    BY DEF Init, seen
  <1>8. Settled(client, Versions, served)
    BY <1>4, <1>5, <1>6, <1>7, NewSettles DEF Init
  <1>9. applied = 0 /\ made = Len(history)
    BY DEF Init
  <1> QED
    BY <1>1, <1>3, <1>4, <1>8, <1>9 DEF Inv, AppliedFits, IsVersions

(* A document changes, by others or by the app: there is a version more.   *)
LEMMA HistoryGrows ==
  ASSUME Inv, NEW w \in WriteType, history' = Append(history, w), served' = served, client' = client
  PROVE  /\ history' \in Seq(WriteType) /\ Len(history') = Len(history) + 1
         /\ Versions \subseteq Versions' /\ Len(history') \in Versions' /\ Len(history') # 0
         /\ \A i \in 1 .. Len(history) : i \in 1 .. Len(history') /\ history'[i] = history[i]
         /\ history'[Len(history')] = w /\ Len(history') \in 1 .. Len(history')
         /\ Settled(client, Versions, served)' /\ IsNotOlder(client.disk, client'.disk)
  <1>1. history \in Seq(WriteType) /\ Len(history) \in Nat
    BY DEF Inv
  <1>2. /\ history' \in Seq(WriteType) /\ Len(history') = Len(history) + 1
        /\ \A i \in 1 .. Len(history) : i \in 1 .. Len(history') /\ history'[i] = history[i]
        /\ history'[Len(history')] = w
    BY <1>1
  <1>3. /\ Versions \subseteq Versions' /\ Len(history') \in Versions' /\ Len(history') # 0
        /\ Len(history') \in 1 .. Len(history')
    BY <1>1, <1>2 DEF Versions
  <1>4. Settled(client', Versions', served')
    BY <1>3, InvIs, SettledGrows
  <1>5. IsNotOlder(client.disk, client'.disk)
    BY InvIs, NotOlderAsIs
  <1> QED
    BY <1>2, <1>3, <1>4, <1>5

LEMMA OthersChangeKeeps ==
  ASSUME Inv, NEW k \in Keys, NEW exists \in BOOLEAN, OthersChange(k, exists)
  PROVE  Good
  <1> DEFINE w == [key |-> k, id |-> made', exists |-> exists]
  <1>1. made' \in Nat /\ w \in WriteType
    BY DEF OthersChange, Inv, WriteType
  <1>2. history' = Append(history, w) /\ served' = served /\ client' = client /\ applied' = applied
    BY DEF OthersChange, Changed
  <1> HIDE DEF w
  <1>3. /\ history' \in Seq(WriteType) /\ Versions \subseteq Versions'
        /\ \A i \in 1 .. Len(history) : i \in 1 .. Len(history') /\ history'[i] = history[i]
        /\ Settled(client, Versions, served)' /\ IsNotOlder(client.disk, client'.disk)
    BY <1>1, <1>2, HistoryGrows
  <1>4. AppliedFits'
    BY <1>2, <1>3 DEF Inv, AppliedFits
  <1> QED
    BY <1>1, <1>2, <1>3, <1>4 DEF Good, Inv

LEMMA ApplyWriteKeeps ==
  ASSUME Inv, ApplyWrite
  PROVE  Good
  <1> DEFINE write == Head(client.disk.writes)
             w == [key |-> write.key, id |-> write.id, exists |-> write.exists]
  <1>1. write \in WriteType /\ client.disk.writes # <<>>
    BY InvIs, TailFacts DEF ApplyWrite
  <1>2. w \in WriteType /\ w.key = write.key
    BY <1>1 DEF WriteType
  <1>3. history' = Append(history, w) /\ served' = served /\ client' = client /\ made' = made
        /\ applied' = Len(history')
    BY DEF ApplyWrite, Changed, counts
  <1> HIDE DEF w
  <1>4. /\ history' \in Seq(WriteType) /\ Len(history') \in Versions'
        /\ history'[Len(history')] = w /\ Len(history') \in 1 .. Len(history')
        /\ Settled(client, Versions, served)' /\ IsNotOlder(client.disk, client'.disk)
    BY <1>2, <1>3, HistoryGrows
  <1>5. AppliedFits'
    BY <1>1, <1>2, <1>3, <1>4 DEF AppliedFits
  <1> QED
    BY <1>3, <1>4, <1>5 DEF Good, Inv

LEMMA StartListeningKeeps ==
  ASSUME WatchedQueryAssumption, Inv, StartListening
  PROVE  Good
  <1> DEFINE e == [client EXCEPT !.memo = client.disk.token,
                                 !.view = [NoView EXCEPT !.on = TRUE, !.synced = client.disk.keys]]
  <1>1. ~ client.view.on /\ client' = Listen(EmitNewSnapshots(e, Keys, <<>>), Query, 0, e.memo)
    BY DEF StartListening
  <1>2. history' = history /\ served' = served /\ applied' = applied /\ made' = made
    BY DEF StartListening, backend, counts
  <1>3. e = [client EXCEPT !.memo = client.disk.token,
                           !.view = [NoView EXCEPT !.on = TRUE, !.synced = client.disk.keys]]
    OBVIOUS
  <1> HIDE DEF e
  <1>4. IsStarted(Versions, served, client, e, client')
    BY <1>1, <1>3, InvIs, StartSettles
  <1>5. Settled(client', Versions, served) /\ client'.disk = client.disk
    BY <1>4 DEF IsStarted
  <1> QED
    BY <1>2, <1>5, QuietGood

LEMMA StopListeningKeeps ==
  ASSUME WatchedQueryAssumption, Inv, StopListeningToQuery
  PROVE  Good
  <1>1. /\ client.view.on
        /\ client' = RemoveAndCleanupTarget(StopListening(ReleaseTarget(client), Query))
    BY DEF StopListeningToQuery
  <1>2. history' = history /\ served' = served /\ applied' = applied /\ made' = made
    BY DEF StopListeningToQuery, backend
  <1>3. /\ Settled(client', Versions, served) /\ client'.disk.docs = client.disk.docs
        /\ client'.disk.writes = client.disk.writes
    BY <1>1, InvIs, StopSettles
  <1> QED
    BY <1>2, <1>3, QuietGood

LEMMA WriteKeeps ==
  ASSUME WatchedQueryAssumption, Inv, NEW k \in Keys, NEW exists \in BOOLEAN, Write(k, exists)
  PROVE  Good
  <1> DEFINE w == [key |-> k, id |-> made', exists |-> exists]
             writes == Append(client.disk.writes, w)
             disk == [client.disk EXCEPT !.writes = writes]
  <1>1. made' \in Nat /\ w \in WriteType
    BY DEF Write, Inv, WriteType
  <1>2. history' = history /\ served' = served /\ applied' = applied
    BY DEF Write, backend
  <1>3. client.disk \in DiskOf(Versions) /\ client.disk.writes \in Seq(WriteType)
    BY InvIs
  <1> HIDE DEF w
  <1>4. writes \in Seq(WriteType) /\ (client.disk.writes # <<>> =>
          writes # <<>> /\ Head(writes) = Head(client.disk.writes))
    BY <1>1, <1>3
  <1>5. client' = EmitNewSnapshots([client EXCEPT !.disk = disk], {k}, <<>>)
    <2>1. [client EXCEPT !.disk.writes = Append(@, w)] = [client EXCEPT !.disk = disk]
      OBVIOUS
    <2> QED
      BY <2>1 DEF Write, w
  <1> HIDE DEF writes
  <1>6. /\ disk \in DiskOf(Versions) /\ disk.keys = client.disk.keys /\ disk.docs = client.disk.docs
        /\ disk.writes = writes
    BY <1>3, <1>4 DEF DiskOf
  <1> HIDE DEF disk
  <1>7. Settled(client', Versions, served) /\ client'.disk = disk
    BY <1>5, <1>6, InvIs, DiskSettles, SMTT(30)
  <1>8. IsNotOlder(client.disk, client'.disk)
    BY <1>3, <1>6, <1>7, InvIs, NotOlderAsIs
  <1>9. Versions' = Versions
    BY <1>2 DEF Versions
  <1>10. AppliedFits'
    BY <1>2, <1>4, <1>6, <1>7 DEF Inv, AppliedFits
  <1>11. Settled(client, Versions, served)'
    BY <1>2, <1>7, <1>9
  <1> QED
    BY <1>1, <1>2, <1>8, <1>9, <1>10, <1>11 DEF Good, Inv

LEMMA AcknowledgeBatchKeeps ==
  ASSUME WatchedQueryAssumption, Inv, AcknowledgeBatch
  PROVE  Good
  <1> DEFINE key == Head(client.disk.writes).key
             old == client.disk.docs[key]
             new == [At(key, applied) EXCEPT !.committed = TRUE]
             doc == IF old.version < applied THEN new ELSE old
             docs == [client.disk.docs EXCEPT ![key] = doc]
             writes == Tail(client.disk.writes)
             disk == [client.disk EXCEPT !.writes = writes, !.docs = docs]
  <1>1. applied # 0 /\ applied' = 0 /\ history' = history /\ served' = served /\ made' = made
    BY DEF AcknowledgeBatch, counts
  <1>2. /\ client.disk \in DiskOf(Versions) /\ client.disk.writes \in Seq(WriteType)
        /\ client \in ClientOf(Versions)
    BY InvIs
  <1>3. client.disk.writes # <<>> /\ history[applied].key = key /\ applied \in Versions
    BY <1>1 DEF Inv, AppliedFits
  <1>4. key \in Keys /\ writes \in Seq(WriteType)
    <2>1. Head(client.disk.writes) \in WriteType /\ writes \in Seq(WriteType)
      BY <1>2, <1>3, TailFacts
    <2> QED
      BY <2>1 DEF WriteType
  <1>5. client' = EmitNewSnapshots([client EXCEPT !.disk = disk], {key}, <<>>)
    <2>1. client' = EmitNewSnapshots([client EXCEPT !.disk.writes = Tail(@), !.disk.docs[key] = doc],
                                     {key}, <<>>)
      BY DEF AcknowledgeBatch
    <2>2. [client EXCEPT !.disk.writes = Tail(@), !.disk.docs[key] = doc] = [client EXCEPT !.disk = disk]
      <3> HIDE DEF doc, key
      <3> QED
        BY <1>2 DEF ClientOf, DiskOf
    <2> HIDE DEF doc, disk, key
    <2> QED
      BY <2>1, <2>2
  <1> HIDE DEF key, writes
  <1>6. old \in DocOf(Versions) /\ old.version \in Nat
    <2>1. old \in DocOf(Versions)
      BY <1>2, <1>4 DEF DiskOf
    <2> QED
      BY <2>1, InvIs DEF DocOf, IsVersions
  <1>7. new \in DocOf(Versions) /\ new.version = applied
    <2>1. At(key, applied) \in DocOf(Versions) /\ At(key, applied).version = applied
      BY <1>1, <1>3, <1>4, AtIs DEF Inv
    <2> QED
      BY <2>1 DEF DocOf
  <1>8. applied \in Nat
    BY <1>3, InvIs DEF IsVersions
  <1> HIDE DEF old, new
  <1>9. doc \in DocOf(Versions) /\ doc.version >= old.version
    BY <1>6, <1>7, <1>8
  <1> HIDE DEF doc
  <1>10. client.disk.docs \in [Keys -> DocOf(Versions)]
    BY <1>2 DEF DiskOf
  <1>11. docs \in [Keys -> DocOf(Versions)] /\ docs[key] = doc
         /\ \A k \in Keys : k # key => docs[k] = client.disk.docs[k]
    BY <1>4, <1>9, <1>10
  <1> HIDE DEF docs
  <1>12. /\ disk \in DiskOf(Versions) /\ disk.keys = client.disk.keys /\ disk.docs = docs
    BY <1>2, <1>4, <1>11 DEF DiskOf
  <1> HIDE DEF disk
  <1>13. Settled(client', Versions, served) /\ client'.disk = disk
    BY <1>4, <1>5, <1>12, InvIs, DiskSettles
  <1>14. IsNotOlder(client.disk, client'.disk)
    <2>1. ASSUME NEW k \in Keys PROVE docs[k].version >= client.disk.docs[k].version
      <3>1. CASE k = key
        BY <1>9, <1>11, <3>1 DEF old
      <3>2. CASE k # key
        <4>1. client.disk.docs[k].version \in Nat
          BY <1>10, InvIs DEF DocOf, IsVersions
        <4> QED
          BY <1>11, <3>2, <4>1
      <3> QED
        BY <3>1, <3>2
    <2> QED
      BY <1>12, <1>13, <2>1 DEF IsNotOlder
  <1>15. Versions' = Versions
    BY <1>1 DEF Versions
  <1>16. Settled(client, Versions, served)' /\ AppliedFits' /\ applied' \in Versions'
    BY <1>1, <1>13, <1>15, InvIs DEF AppliedFits, IsVersions
  <1> QED
    BY <1>1, <1>14, <1>15, <1>16 DEF Good, Inv

LEMMA RejectBatchKeeps ==
  ASSUME WatchedQueryAssumption, Inv, RejectBatch
  PROVE  Good
  <1> DEFINE writes == Tail(client.disk.writes)
             key == Head(client.disk.writes).key
             disk == [client.disk EXCEPT !.writes = writes]
  <1>1. /\ client.disk.writes # <<>> /\ applied = 0 /\ applied' = applied
        /\ history' = history /\ served' = served /\ made' = made
    BY DEF RejectBatch, backend, counts
  <1>2. client.disk \in DiskOf(Versions) /\ client.disk.writes \in Seq(WriteType)
    BY InvIs
  <1>3. writes \in Seq(WriteType) /\ key \in Keys
    <2>1. Head(client.disk.writes) \in WriteType /\ writes \in Seq(WriteType)
      BY <1>1, <1>2, TailFacts
    <2> QED
      BY <2>1 DEF WriteType
  <1>4. client' = EmitNewSnapshots([client EXCEPT !.disk = disk], {key}, <<>>)
    <2>1. [client EXCEPT !.disk.writes = Tail(@)] = [client EXCEPT !.disk = disk]
      OBVIOUS
    <2> QED
      BY <2>1 DEF RejectBatch
  <1> HIDE DEF writes, key
  <1>5. disk \in DiskOf(Versions) /\ disk.keys = client.disk.keys /\ disk.docs = client.disk.docs
    BY <1>2, <1>3 DEF DiskOf
  <1> HIDE DEF disk
  <1>6. Settled(client', Versions, served) /\ client'.disk = disk
    BY <1>3, <1>4, <1>5, InvIs, DiskSettles
  <1>7. IsNotOlder(client.disk, client'.disk)
    BY <1>2, <1>5, <1>6, InvIs, NotOlderAsIs
  <1>8. Versions' = Versions
    BY <1>1 DEF Versions
  <1>9. Settled(client, Versions, served)' /\ AppliedFits' /\ applied' \in Versions'
    BY <1>1, <1>6, <1>8 DEF AppliedFits, Inv
  <1> QED
    BY <1>1, <1>7, <1>8, <1>9 DEF Good, Inv

LEMMA OpenKeeps ==
  ASSUME Inv, OnWatchStreamOpen
  PROVE  Good
  <1>1. /\ client.stream = "starting"
        /\ client' = FoldLeft(SendWatchRequest, [client EXCEPT !.stream = "open"],
                              Sorted(DOMAIN client.listen))
    BY DEF OnWatchStreamOpen
  <1>2. history' = history /\ served' = served /\ applied' = applied /\ made' = made
    BY DEF OnWatchStreamOpen, backend, counts
  <1>3. Settled(client', Versions, served) /\ client'.disk = client.disk
    BY <1>1, InvIs, OpenSettles
  <1> QED
    BY <1>2, <1>3, QuietGood

LEMMA ReceiveKeeps ==
  ASSUME WatchedQueryAssumption, Inv, Receive
  PROVE  Good
  <1>1. /\ client.in # <<>>
        /\ client' = OnWatchStreamChange([client EXCEPT !.in = Tail(@), !.online = "online"],
                                         Head(client.in))
    BY DEF Receive
  <1>2. history' = history /\ served' = served /\ applied' = applied /\ made' = made
    BY DEF Receive, backend, counts
  <1>3. /\ Settled(client', Versions, served) /\ client'.disk.writes = client.disk.writes
        /\ IsNotOlder(client.disk, client'.disk)
    <2>1. IsDelivered(Versions, served, client, client')
      BY <1>1, InvIs, ReceiveSettles
    <2> QED
      BY <2>1 DEF IsDelivered
  <1> QED
    BY <1>2, <1>3, StillGood

LEMMA IdleTimeoutKeeps ==
  ASSUME Inv, IdleTimeout
  PROVE  Good
  <1>1. history' = history /\ served' = <<>> /\ applied' = applied /\ made' = made /\ client.idle
    BY DEF IdleTimeout, counts
  <1>2. client \in ClientOf(Versions) /\ client.ok /\ client.view \in ViewOf(Versions)
        /\ DOMAIN client.listen = {} /\ Settled(client, Versions, served)
    BY <1>1, InvIs DEF Settled, Stands, ClientOf, IdleFits
  <1>3. client' = [client EXCEPT !.stream = "off", !.idle = FALSE, !.agg = <<>>, !.updates = <<>>,
                     !.resets = {}, !.out = <<>>, !.in = <<>>, !.online = "unknown",
                     !.view = client.view]
    BY <1>2 DEF IdleTimeout, CleanUpWatchStreamState, ClientOf
  <1>4. Settled(client', Versions, <<>>) /\ client'.disk = client.disk
    <2>1. IsClosed(Versions, served, client, "off", "unknown", client.view, client')
      BY <1>2, <1>3, ClosedSettles
    <2> QED
      BY <2>1 DEF IsClosed
  <1> QED
    BY <1>1, <1>4, QuietGood

LEMMA OnlineStateTimeoutKeeps ==
  ASSUME Inv, OnlineStateTimeout
  PROVE  Good
  <1>1. history' = history /\ served' = served /\ applied' = applied /\ made' = made
        /\ client' = Offline(client)
    BY DEF OnlineStateTimeout, backend, counts
  <1>2. Settled(client', Versions, served) /\ client'.disk = client.disk
    BY <1>1, InvIs, OfflineSettles
  <1> QED
    BY <1>1, <1>2, QuietGood

LEMMA WatchStreamFailsKeeps ==
  ASSUME Inv, WatchStreamFails
  PROVE  Good
  <1> DEFINE closed == CleanUpWatchStreamState(client)
             v == [client.view EXCEPT !.current = FALSE, !.insync = @ /\ ~ client.view.current]
             Closed(w, o, x) == [client EXCEPT !.stream = w, !.idle = FALSE, !.agg = <<>>,
                                   !.updates = <<>>, !.resets = {}, !.out = <<>>, !.in = <<>>,
                                   !.online = o, !.view = x]
  <1>1. history' = history /\ served' = <<>> /\ applied' = applied /\ made' = made
    BY DEF WatchStreamFails
  <1>2. client \in ClientOf(Versions) /\ client.ok /\ client.view \in ViewOf(Versions)
        /\ Settled(client, Versions, served)
    BY InvIs DEF Settled, Stands, ClientOf
  <1>3. v \in ViewOf(Versions) /\ v.on = client.view.on /\ v.synced = client.view.synced
    BY <1>2 DEF ViewOf
  <1>4. CASE DOMAIN client.listen = {}
    <2>1. client' = [closed EXCEPT !.online = "unknown"]
      BY <1>4 DEF WatchStreamFails
    <2>2. client' = Closed("off", "unknown", client.view)
      BY <1>2, <2>1 DEF CleanUpWatchStreamState, ClientOf
    <2>3. Settled(client', Versions, <<>>) /\ client'.disk = client.disk
      <3>1. IsClosed(Versions, served, client, "off", "unknown", client.view, client')
        BY <1>2, <2>2, ClosedSettles
      <3> QED
        BY <3>1 DEF IsClosed
    <2> QED
      BY <1>1, <2>3, QuietGood
  <1>5. CASE DOMAIN client.listen # {} /\ client.online = "online"
    <2>1. client' = StartWatchStream([closed EXCEPT !.online = "unknown"])
      <3>1. client.online = "online" /\ DOMAIN client.listen # {}
        BY <1>5
      <3> QED
        BY <3>1 DEF WatchStreamFails
    <2>2. client' = Closed("starting", "waiting", client.view)
      BY <1>2, <2>1 DEF CleanUpWatchStreamState, StartWatchStream, ClientOf
    <2>3. Settled(client', Versions, <<>>) /\ client'.disk = client.disk
      <3>1. IsClosed(Versions, served, client, "starting", "waiting", client.view, client')
        BY <1>2, <2>2, ClosedSettles
      <3> QED
        BY <3>1 DEF IsClosed
    <2> QED
      BY <1>1, <2>3, QuietGood
  <1>6. CASE DOMAIN client.listen # {} /\ client.online # "online"
    <2>1. client' = StartWatchStream(Offline(closed))
      <3>1. client.online # "online" /\ DOMAIN client.listen # {}
        BY <1>6
      <3> QED
        BY <3>1 DEF WatchStreamFails
    <2> DEFINE d == [closed EXCEPT !.online = "offline", !.view = v]
    <2>2. Offline(closed) = d
      <3>1. closed.view = client.view /\ closed.view \in ViewOf(Versions)
        BY <1>2 DEF CleanUpWatchStreamState, ClientOf
      <3> HIDE DEF closed
      <3> QED
        BY <3>1 DEF Offline
    <2> HIDE DEF v
    <2>3. StartWatchStream(d) = Closed("starting", "offline", v)
      <3>1. d = [client EXCEPT !.stream = "off", !.idle = FALSE, !.agg = <<>>, !.updates = <<>>,
                               !.resets = {}, !.out = <<>>, !.in = <<>>,
                               !.online = "offline", !.view = v]
        BY ONLY <1>2 DEF CleanUpWatchStreamState, ClientOf
      <3> HIDE DEF d
      <3>2. StartWatchStream(d) = [d EXCEPT !.stream = "starting", !.ok = TRUE, !.online = "offline"]
        BY ONLY <1>2, <3>1 DEF StartWatchStream, ClientOf
      <3> QED
        BY ONLY <1>2, <3>1, <3>2 DEF ClientOf
    <2>4. client' = Closed("starting", "offline", v)
      BY <2>1, <2>2, <2>3
    <2>5. Settled(client', Versions, <<>>) /\ client'.disk = client.disk
      <3>1. IsClosed(Versions, served, client, "starting", "offline", v, client')
        BY <1>2, <1>3, <2>4, ClosedSettles
      <3> QED
        BY <3>1 DEF IsClosed
    <2> QED
      BY <1>1, <2>5, QuietGood
  <1> QED
    BY <1>4, <1>5, <1>6

LEMMA KillKeeps ==
  ASSUME Inv, Kill
  PROVE  Good
  <1>1. history' = history /\ served' = <<>> /\ applied' = 0 /\ made' = made
        /\ client' = NewClient(client.disk)
    BY DEF Kill
  <1>2. Settled(client', Versions, <<>>) /\ client'.disk = client.disk
    BY <1>1, InvIs, NewSettles
  <1> QED
    BY <1>1, <1>2, QuietGood

LEMMA ServeRequestKeeps ==
  ASSUME Inv, ServeRequest
  PROVE  Good
  <1> DEFINE q == Head(client.out)
             t == q.target
             entry == [key |-> q.key, since |-> q.token, resumed |-> q.token > 0, current |-> FALSE]
  <1>1. history' = history /\ applied' = applied /\ made' = made /\ client.out # <<>>
    BY DEF ServeRequest
  <1>2. /\ \/ q.kind = "watch" /\ client' = Response(client, Message("added", t)) /\ served' = With(served, t, entry)
           \/ client' = Response(client, Message("rejected", t)) /\ served' = served
           \/ client' = Response(client, Message("removed", t)) /\ served' = Without(served, t)
    BY DEF ServeRequest, Response
  <1>3. /\ Settled(client, Versions, served) /\ Stands(client, Versions, served)
        /\ client \in ClientOf(Versions) /\ client.out \in Seq(RequestOf(Versions))
        /\ served \in ServedOf(Versions) /\ ServedFits(client, served) /\ client.stream = "open"
    BY <1>1, InvIs DEF Stands, ClientOf, StreamFits
  <1>4. /\ q \in RequestOf(Versions) /\ t \in Nat
        /\ q.kind = "watch" => IsAbout(client, t, q.key)
    <2>1. 1 \in DOMAIN client.out /\ q = client.out[1]
      BY <1>1, <1>3
    <2>2. q \in RequestOf(Versions)
      BY <1>3, <2>1
    <2> QED
      BY <1>3, <2>1, <2>2 DEF Stands, MessagesFit, RequestOf
  <1> HIDE DEF q
  <1>5. CASE q.kind = "watch" /\ client' = Response(client, Message("added", t)) /\ served' = With(served, t, entry)
    <2>1. entry \in [key : Keys \union {0}, since : Versions, resumed : BOOLEAN, current : BOOLEAN]
          /\ entry.key = q.key
      BY <1>4 DEF RequestOf
    <2> HIDE DEF entry
    <2>2. served' \in ServedOf(Versions)
      BY <1>3, <1>4, <1>5, <2>1, WithTable DEF ServedOf
    <2>3. IsWith(served', served, t, entry)
      BY <1>5, WithIs
    <2>4. ServedFits(client, served')
      BY <1>3, <1>4, <1>5, <2>1, <2>3 DEF ServedFits, IsWith
    <2> DEFINE m == Message("added", t)
    <2>5. Query \in DOMAIN served' =>
            (Query \in DOMAIN served /\ ~ IsFor(m, "removed")) \/ IsFor(m, "added")
      BY <2>3 DEF IsWith, IsFor, Message
    <2>6. client' = Response(client, m)
      BY <1>5 DEF q
    <2>7. m = Message(m.kind, Head(client.out).target) /\ m.kind \in {"added", "rejected", "removed"}
      BY DEF q, Message
    <2> HIDE DEF m
    <2>8. IsArrived(Versions, served, client, <<m>>, Tail(client.out), served', client')
      BY ONLY <1>1, <1>3, <2>2, <2>4, <2>5, <2>6, <2>7, ServeSettles
    <2> QED
      BY <1>1, <2>8, QuietGood DEF IsArrived
  <1>6. CASE client' = Response(client, Message("rejected", t)) /\ served' = served
    <2> DEFINE m == Message("rejected", t)
    <2>1. Query \in DOMAIN served =>
            (Query \in DOMAIN served /\ ~ IsFor(m, "removed")) \/ IsFor(m, "added")
      BY DEF IsFor, Message
    <2>2. client' = Response(client, m)
      BY <1>6 DEF q
    <2>3. m = Message(m.kind, Head(client.out).target) /\ m.kind \in {"added", "rejected", "removed"}
      BY DEF q, Message
    <2> HIDE DEF m
    <2>4. IsArrived(Versions, served, client, <<m>>, Tail(client.out), served, client')
      BY ONLY <1>1, <1>3, <2>1, <2>2, <2>3, ServeSettles
    <2> QED
      BY <1>1, <1>6, <2>4, QuietGood DEF IsArrived
  <1>7. CASE client' = Response(client, Message("removed", t)) /\ served' = Without(served, t)
    <2>1. served' \in ServedOf(Versions)
      BY <1>3, <1>7, WithoutTable DEF ServedOf
    <2>2. IsWithout(served', served, t)
      BY <1>7, WithoutIs
    <2>3. ServedFits(client, served')
      BY <1>3, <2>2 DEF ServedFits, IsWithout
    <2> DEFINE m == Message("removed", t)
    <2>4. Query \in DOMAIN served' =>
            (Query \in DOMAIN served /\ ~ IsFor(m, "removed")) \/ IsFor(m, "added")
      BY <2>2 DEF IsWithout, IsFor, Message
    <2>5. client' = Response(client, m)
      BY <1>7 DEF q
    <2>6. m = Message(m.kind, Head(client.out).target) /\ m.kind \in {"added", "rejected", "removed"}
      BY DEF q, Message
    <2> HIDE DEF m
    <2>7. IsArrived(Versions, served, client, <<m>>, Tail(client.out), served', client')
      BY ONLY <1>1, <1>3, <2>1, <2>3, <2>4, <2>5, <2>6, ServeSettles
    <2> QED
      BY <1>1, <2>7, QuietGood DEF IsArrived
  <1> HIDE DEF entry
  <1> QED
    BY <1>2, <1>5, <1>6, <1>7

(* What the backend may publish.                                           *)
AreNews(more) ==
  /\ more \in Seq(MessageOf(Versions))
  /\ \A j \in DOMAIN more : /\ MessageFits(client, more[j]) /\ ~ IsFor(more[j], "removed")
                            /\ more[j].kind = "filter" => Query \in DOMAIN served

LEMMA NewsFollows ==
  ASSUME NEW more, AreNews(more), NEW rest, AreNews(rest)
  PROVE  AreNews(more \o rest)
  <1> DEFINE M == MessageOf(Versions)
             Fits(m) == /\ MessageFits(client, m) /\ ~ IsFor(m, "removed")
                        /\ m.kind = "filter" => Query \in DOMAIN served
  <1>1. /\ more \in Seq(M) /\ \A j \in DOMAIN more : Fits(more[j])
        /\ rest \in Seq(M) /\ \A j \in DOMAIN rest : Fits(rest[j])
    BY DEF AreNews
  <1> HIDE DEF M, Fits
  <1>2. more \o rest \in Seq(M) /\ \A j \in DOMAIN (more \o rest) : Fits((more \o rest)[j])
    BY <1>1
  <1> QED
    BY <1>2 DEF AreNews, M, Fits

LEMMA DocumentNews ==
  ASSUME WatchedQueryAssumption, Inv, NEW forgets \in BOOLEAN
  PROVE  AreNews(DocumentMessages(forgets))
  <1> DEFINE keys == {k \in Keys : Updated(k) \union Removed(k, forgets) # {}}
             Doc(k) == [kind |-> "doc", key |-> k, doc |-> At(k, Len(history)),
                        updated |-> Updated(k), removed |-> Removed(k, forgets)]
             more == [i \in 1 .. Cardinality(keys) |-> Doc(Sorted(keys)[i])]
  <1>1. DocumentMessages(forgets) = more
    BY DEF DocumentMessages
  <1>2. DOMAIN served \subseteq Nat /\ ServedFits(client, served)
    BY InvIs, TableOf DEF ServedOf, Stands
  <1>3. ASSUME NEW k \in Keys
        PROVE  Doc(k) \in MessageOf(Versions) /\ MessageFits(client, Doc(k)) /\ Doc(k).kind = "doc"
    <2>1. At(k, Len(history)) \in DocOf(Versions)
      BY InvIs, AtIs DEF Inv
    <2>2. Updated(k) \subseteq DOMAIN served /\ Removed(k, forgets) \subseteq DOMAIN served
      BY DEF Updated, Removed
    <2>3. Doc(k) \in MessageOf(Versions)
      BY <1>2, <2>1, <2>2 DEF MessageOf
    <2>4. ASSUME NEW t \in Updated(k) \union Removed(k, forgets) PROVE IsAbout(client, t, k)
      <3>1. t \in DOMAIN served /\ (t = Query \/ served[t].key = k)
        BY DEF Updated, Removed, NewsOf, Covers
      <3>2. t \in Targets(client) /\ (t \in DOMAIN client.active => client.active[t].key = served[t].key)
        BY <1>2, <3>1 DEF ServedFits, IsAbout
      <3>3. Query \notin DOMAIN client.active
        BY InvIs DEF Stands, TargetsFit
      <3> QED
        BY <3>1, <3>2, <3>3 DEF IsAbout
    <2> QED
      BY <2>3, <2>4 DEF MessageFits
  <1>4. Cardinality(keys) \in Nat /\ Sorted(keys) \in [1 .. Cardinality(keys) -> keys]
    <2>1. keys \subseteq Keys
      OBVIOUS
    <2> HIDE DEF keys
    <2>2. keys \in SUBSET Nat /\ IsFiniteSet(keys)
      BY <2>1, FS_Subset DEF WatchedQueryAssumption
    <2> QED
      BY <2>2, SortedIs
  <1> HIDE DEF Doc
  <1>5. \A i \in 1 .. Cardinality(keys) : Sorted(keys)[i] \in Keys
    BY <1>4
  <1> HIDE DEF keys
  <1>6. more \in [1 .. Cardinality(keys) -> MessageOf(Versions)]
    BY <1>3, <1>5
  <1>7. more \in Seq(MessageOf(Versions)) /\ DOMAIN more = 1 .. Cardinality(keys)
    BY <1>4, <1>6
  <1>8. \A j \in DOMAIN more : MessageFits(client, more[j]) /\ more[j].kind = "doc"
    BY <1>3, <1>5, <1>7
  <1> HIDE DEF more
  <1> QED
    BY <1>1, <1>7, <1>8 DEF AreNews, IsFor

LEMMA CurrentNews ==
  ASSUME Inv
  PROVE  AreNews(CurrentMessages)
  <1> DEFINE targets == {t \in DOMAIN served : ~ served[t].current}
             more == [i \in 1 .. Cardinality(targets) |-> Message("current", Sorted(targets)[i])]
  <1>1. CurrentMessages = more
    BY DEF CurrentMessages
  <1>2. client.nextId \in Nat /\ DOMAIN served \subseteq Targets(client)
    BY InvIs DEF Stands, ClientOf, ServedFits, IsAbout
  <1>3. targets \in SUBSET (0 .. client.nextId - 1)
    BY <1>2 DEF Targets
  <1> HIDE DEF targets
  <1>4. targets \in SUBSET Nat /\ Cardinality(targets) \in Nat
        /\ Sorted(targets) \in [1 .. Cardinality(targets) -> targets]
    BY <1>2, <1>3, SortedTargets
  <1>5. \A i \in 1 .. Cardinality(targets) :
          /\ Sorted(targets)[i] \in Nat /\ Sorted(targets)[i] \in Targets(client)
    BY <1>3, <1>4 DEF Targets
  <1>6. ASSUME NEW t \in Nat, t \in Targets(client)
        PROVE  /\ Message("current", t) \in MessageOf(Versions)
               /\ MessageFits(client, Message("current", t)) /\ Message("current", t).kind = "current"
    BY <1>6 DEF Message, MessageOf, MessageFits
  <1>7. more \in [1 .. Cardinality(targets) -> MessageOf(Versions)]
    BY <1>5, <1>6
  <1>8. more \in Seq(MessageOf(Versions)) /\ DOMAIN more = 1 .. Cardinality(targets)
    BY <1>4, <1>7
  <1>9. \A j \in DOMAIN more : MessageFits(client, more[j]) /\ more[j].kind = "current"
    BY <1>5, <1>6, <1>8
  <1> HIDE DEF more
  <1> QED
    BY <1>1, <1>8, <1>9 DEF AreNews, IsFor

LEMMA LastNews ==
  ASSUME WatchedQueryAssumption, Inv
  PROVE  /\ Query \in DOMAIN served => AreNews(<<FilterMessage>>)
         /\ AreNews(<<>>) /\ AreNews(<<[kind |-> "snapshot", version |-> Len(history)]>>)
  <1> DEFINE there == {k \in Keys : Exists(k)}
             last == [kind |-> "snapshot", version |-> Len(history)]
  <1>1. Cardinality(there) \in Nat
    <2>1. there \subseteq Keys
      OBVIOUS
    <2> HIDE DEF there
    <2>2. IsFiniteSet(there)
      BY <2>1, FS_Subset DEF WatchedQueryAssumption
    <2> QED
      BY <2>2, FS_CardinalityType
  <1>2. FilterMessage = [kind |-> "filter", target |-> Query, count |-> Cardinality(there)]
    BY DEF FilterMessage
  <1> HIDE DEF there
  <1>3. FilterMessage \in MessageOf(Versions) /\ FilterMessage.kind = "filter"
    BY <1>1, <1>2 DEF MessageOf
  <1>4. last \in MessageOf(Versions) /\ last.kind = "snapshot"
    BY InvIs DEF MessageOf
  <1> HIDE DEF last
  <1>5. Query \in DOMAIN served => AreNews(<<FilterMessage>>)
    BY <1>3 DEF AreNews, IsFor, MessageFits
  <1>6. AreNews(<<last>>)
    BY <1>4 DEF AreNews, IsFor, MessageFits
  <1>7. AreNews(<<>>)
    BY DEF AreNews
  <1> QED
    BY <1>5, <1>6, <1>7 DEF last

(* Three sequences, in either order of joining them.                       *)
IsJoined(M, a, b, c) ==
  /\ b \o c \in Seq(M)
  /\ (a \o b) \o c = a \o (b \o c)

LEMMA Joined ==
  ASSUME NEW M, NEW a \in Seq(M), NEW b \in Seq(M), NEW c \in Seq(M)
  PROVE  IsJoined(M, a, b, c)
  BY DEF IsJoined

LEMMA PublishKeeps ==
  ASSUME WatchedQueryAssumption, Inv, NEW forgets \in BOOLEAN, Publish(forgets)
  PROVE  Good
  <1> DEFINE filter == IF forgets THEN <<FilterMessage>> ELSE <<>>
             last == <<[kind |-> "snapshot", version |-> Len(history)]>>
             more == DocumentMessages(forgets) \o CurrentMessages \o filter \o last
             Told(t) == [served[t] EXCEPT !.since = Len(history), !.current = TRUE]
  <1>1. history' = history /\ applied' = applied /\ made' = made
        /\ served' = [t \in DOMAIN served |-> Told(t)]
        /\ Unpublished /\ (forgets => Query \in DOMAIN served)
    BY DEF Publish
  <1>2. /\ Settled(client, Versions, served) /\ Stands(client, Versions, served)
        /\ client \in ClientOf(Versions) /\ client.in \in Seq(MessageOf(Versions))
        /\ served \in ServedOf(Versions) /\ ServedFits(client, served)
    BY InvIs DEF Stands, ClientOf
  <1>3. client.stream = "open"
    <2>1. DOMAIN served # {}
      BY <1>1 DEF Unpublished
    <2> QED
      BY <1>2, <2>1 DEF ServedFits
  <1>4. AreNews(filter) /\ AreNews(last)
    BY <1>1, LastNews
  <1>5. AreNews(DocumentMessages(forgets)) /\ AreNews(CurrentMessages)
    BY DocumentNews, CurrentNews
  <1>6. client' = [client EXCEPT !.in = @ \o DocumentMessages(forgets) \o CurrentMessages \o filter \o last]
    BY DEF Publish
  <1> HIDE DEF filter, last
  <1>7. AreNews(more)
    <2>1. AreNews(DocumentMessages(forgets) \o CurrentMessages)
      BY <1>5, NewsFollows
    <2>2. AreNews(DocumentMessages(forgets) \o CurrentMessages \o filter)
      BY <1>4, <2>1, NewsFollows
    <2> QED
      BY <1>4, <2>2, NewsFollows
  <1>8. client' = Published(client, more)
    <2>1. /\ DocumentMessages(forgets) \in Seq(MessageOf(Versions))
          /\ CurrentMessages \in Seq(MessageOf(Versions))
          /\ filter \in Seq(MessageOf(Versions)) /\ last \in Seq(MessageOf(Versions))
      BY <1>4, <1>5 DEF AreNews
    <2>2. client.in \o DocumentMessages(forgets) \o CurrentMessages \o filter \o last = client.in \o more
      <3> DEFINE M == MessageOf(Versions)
                 a == client.in
                 b == DocumentMessages(forgets)
                 c == CurrentMessages
      <3>1. a \in Seq(M) /\ b \in Seq(M) /\ c \in Seq(M) /\ filter \in Seq(M) /\ last \in Seq(M)
        BY <1>2, <2>1
      <3> HIDE DEF M, a, b, c
      <3>2. IsJoined(M, a, b, c)
        BY <3>1, Joined
      <3>3. b \o c \in Seq(M)
        BY <3>2 DEF IsJoined
      <3>4. IsJoined(M, a, b \o c, filter)
        BY <3>1, <3>3, Joined
      <3>5. (b \o c) \o filter \in Seq(M)
        BY <3>4 DEF IsJoined
      <3>6. IsJoined(M, a, (b \o c) \o filter, last)
        BY <3>1, <3>5, Joined
      <3> QED
        BY <3>2, <3>4, <3>6 DEF IsJoined, a, b, c
    <2> HIDE DEF more
    <2> QED
      BY <1>2, <1>6, <2>2 DEF Published, ClientOf
  <1> HIDE DEF more
  <1>9. /\ served' \in ServedOf(Versions) /\ DOMAIN served' = DOMAIN served
        /\ \A t \in DOMAIN served : served'[t].key = served[t].key
    <2> DEFINE Entry == [key : Keys \union {0}, since : Versions, resumed : BOOLEAN, current : BOOLEAN]
    <2>1. served \in Table(Nat, Entry) /\ served \in [DOMAIN served -> Entry]
      BY <1>2, TableOf DEF ServedOf
    <2>2. ASSUME NEW t \in DOMAIN served PROVE Told(t) \in Entry /\ Told(t).key = served[t].key
      BY <2>1, InvIs
    <2> HIDE DEF Entry, Told
    <2>3. served' \in [DOMAIN served -> Entry] /\ \A t \in DOMAIN served : served'[t] = Told(t)
      BY <1>1, <2>2
    <2>4. served' \in Table(Nat, Entry) /\ DOMAIN served' = DOMAIN served
      BY <2>1, <2>3, MapIs
    <2> QED
      BY <2>2, <2>3, <2>4 DEF ServedOf, Entry
  <1>10. IsArrived(Versions, served, client, more, client.out, served', client')
    BY <1>2, <1>3, <1>7, <1>8, <1>9, PublishSettles DEF AreNews
  <1> QED
    BY <1>1, <1>10, QuietGood DEF IsArrived

LEMMA NextKeeps ==
  ASSUME Inv, [Next]_vars
  PROVE  Good
  <1>1. WatchedQueryAssumption
    BY WatchedQueryAssumption
  <1>2. ASSUME NEW k \in Keys, NEW exists \in BOOLEAN, OthersChange(k, exists) PROVE Good
    BY <1>2, OthersChangeKeeps
  <1>3. ASSUME NEW k \in Keys, NEW exists \in BOOLEAN, Write(k, exists) PROVE Good
    BY <1>1, <1>3, WriteKeeps
  <1>4. CASE StartListening
    BY <1>1, <1>4, StartListeningKeeps
  <1>5. CASE StopListeningToQuery
    BY <1>1, <1>5, StopListeningKeeps
  <1>6. CASE Work
    <2>1. CASE OnWatchStreamOpen
      BY <2>1, OpenKeeps
    <2>2. CASE Receive
      BY <1>1, <2>2, ReceiveKeeps
    <2>3. CASE ServeRequest
      BY <2>3, ServeRequestKeeps
    <2>4. CASE Publish(FALSE)
      BY <1>1, <2>4, PublishKeeps
    <2>5. CASE Publish(TRUE)
      BY <1>1, <2>5, PublishKeeps
    <2>6. CASE ApplyWrite
      BY <2>6, ApplyWriteKeeps
    <2>7. CASE AcknowledgeBatch
      BY <1>1, <2>7, AcknowledgeBatchKeeps
    <2>8. CASE RejectBatch
      BY <1>1, <2>8, RejectBatchKeeps
    <2> QED
      BY <1>6, <2>1, <2>2, <2>3, <2>4, <2>5, <2>6, <2>7, <2>8 DEF Work
  <1>7. CASE IdleTimeout
    BY <1>7, IdleTimeoutKeeps
  <1>8. CASE OnlineStateTimeout
    BY <1>8, OnlineStateTimeoutKeeps
  <1>9. CASE WatchStreamFails
    BY <1>9, WatchStreamFailsKeeps
  <1>10. CASE Kill
    BY <1>10, KillKeeps
  <1>11. CASE UNCHANGED vars
    <2>1. history' = history /\ served' = served /\ applied' = applied /\ client' = client
          /\ made' = made
      BY <1>11 DEF vars, backend, counts
    <2>2. Settled(client', Versions, served')
      BY <2>1, InvIs
    <2> QED
      BY <2>1, <2>2, QuietGood
  <1> QED
    BY <1>2, <1>3, <1>4, <1>5, <1>6, <1>7, <1>8, <1>9, <1>10, <1>11 DEF Next

LEMMA Invariant == Spec => []Inv
  <1>1. Init => Inv
    BY WatchedQueryAssumption, InitInv
  <1>2. Inv /\ [Next]_vars => Inv'
    BY NextKeeps DEF Good
  <1> QED
    BY <1>1, <1>2, PTL DEF Spec

-----------------------------------------------------------------------------
(* The theorems.                                                           *)

(* Whatever the app, the stream and the backend do, and in whichever order *)
(* messages, acknowledgements and timers come: the client passes its       *)
(* HARD_ASSERTs, and knows no document from a version yet to come.         *)
THEOREM AlwaysSound == Spec => []Sound
  <1>1. Inv => Sound
    <2> SUFFICES ASSUME Inv PROVE Sound
      OBVIOUS
    <2>1. /\ client \in ClientOf(Versions) /\ client.ok /\ TargetsFit(client)
      BY InvIs DEF Stands
    <2>2. history \in Seq([key : Keys, id : Nat, exists : BOOLEAN]) /\ applied \in Versions
      BY DEF Inv, WriteType
    <2>3. /\ client.disk.keys \subseteq Keys
          /\ client.disk.token \in Versions /\ client.disk.last \in Versions
          /\ client.memo \in Versions
      BY <2>1 DEF ClientOf, DiskOf
    <2>4. /\ client.stream \in {"off", "starting", "open"}
          /\ client.online \in {"unknown", "waiting", "online", "offline"}
      BY <2>1 DEF ClientOf
    <2>5. client.view.synced \union client.view.mutated \union client.view.limbo \subseteq Keys
      BY <2>1 DEF ClientOf, ViewOf
    <2>6. DOMAIN client.active \subseteq 1 .. client.nextId
      BY <2>1 DEF ClientOf, TargetsFit, Targets, Query
    <2>7. Range(client.queue) \subseteq Keys
      BY <2>1 DEF ClientOf, Range
    <2> QED
      BY <2>1, <2>2, <2>3, <2>4, <2>5, <2>6, <2>7 DEF Sound, TypeOK, AssertionsHold
  <1> QED
    BY <1>1, Invariant, PTL

(* SyncEngine and RemoteStore never disagree on the targets, however often *)
(* resolutions start, end, are refused, or are cleaned up with the view.   *)
THEOREM TargetsAlwaysAgree == Spec => []TargetsAgree
  <1>1. Inv => TargetsAgree
    <2> SUFFICES ASSUME Inv PROVE TargetsAgree
      OBVIOUS
    <2>1. TargetsFit(client) /\ (client.view.on <=> Query \in DOMAIN client.listen)
      BY InvIs DEF Stands, Settled
    <2> QED
      BY <2>1 DEF TargetsFit, TargetsAgree
  <1> QED
    BY <1>1, Invariant, PTL

(* What the client has on disk of a document is never replaced by anything *)
(* older, whether an acknowledgement or the watch stream is the first to   *)
(* bring it, in whichever connection and after whichever restart.          *)
THEOREM DocumentsNeverGetOlder == Spec => NeverOlder
  <1>1. Inv /\ [Next]_vars =>
          [\A k \in Keys : LET old == client.disk.docs[k].version
                               new == client'.disk.docs[k].version
                           IN  new >= old \/ new = 0]_vars
    <2> SUFFICES ASSUME Inv, [Next]_vars PROVE IsNotOlder(client.disk, client'.disk)
      BY DEF IsNotOlder
    <2> QED
      BY NextKeeps DEF Good
  <1> QED
    BY <1>1, Invariant, PTL DEF Spec, NeverOlder
=============================================================================
