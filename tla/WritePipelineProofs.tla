------------------------ MODULE WritePipelineProofs ------------------------
(***************************************************************************)
(* Theorems about WritePipeline, for every set of users, every length of   *)
(* the pipeline and any number of writes, announcements and faults: the    *)
(* client passes its assertions, the answers of the backend meet the       *)
(* requests that they answer, what callbacks are told is true, and the     *)
(* writes of every user go the way that Outbox promises.                   *)
(***************************************************************************)
EXTENDS WritePipeline, SequenceLemmas

-----------------------------------------------------------------------------
(* The types of the client.                                                *)

BatchType == [id : Nat \ {0}, write : Writes]
BlockType == {Token} \union {Change(u) : u \in Users}
CallType == [user : Users \union {None}, out : Seq(0 .. MaxWrites), in : Seq(0 .. MaxWrites),
             ended : {"no", "ended", "cut", "failing"}]
AskType == [stage : {"none", "asked", "fetched", "main", "worker"},
            user : Users \union {None}, fresh : BOOLEAN, ok : BOOLEAN]
ClientType ==
  [enabled : BOOLEAN, pipeline : Seq(BatchType),
   state : {"Initial", "Starting", "Backoff", "Open", "Error"},
   ready : BOOLEAN, idle : BOOLEAN, call : CallType, ask : AskType,
   main : Seq(BlockType), worker : Seq(BlockType)]
WaitType == [id : Nat, writes : SUBSET Writes, answer : {"none", "ok", "cancelled"}]

LEMMA Constants == /\ First \in Users /\ None \notin Users
                   /\ MaxPendingWrites \in Nat /\ MaxPendingWrites >= 1
                   /\ MaxWrites \in Nat /\ MaxMoves \in Nat /\ MaxFaults \in Nat
                   /\ \A w \in Writes : w \in Nat /\ w >= 1 /\ w <= MaxWrites /\ w \in 0 .. MaxWrites
  BY WritePipelineAssumption DEF Writes

(* A block is the token or the announcement of a user.                     *)
LEMMA Blocks ==
  /\ Token \in BlockType /\ ~ IsChange(Token)
  /\ \A u \in Users : Change(u) \in BlockType /\ IsChange(Change(u)) /\ Change(u).user = u
  /\ \A b \in BlockType : IF IsChange(b) THEN b.user \in Users /\ b = Change(b.user) ELSE b = Token
  <1>1. Token \in BlockType /\ ~ IsChange(Token)
    BY DEF BlockType, IsChange, Token
  <1>2. ASSUME NEW u \in Users
        PROVE  Change(u) \in BlockType /\ IsChange(Change(u)) /\ Change(u).user = u
    BY DEF BlockType, IsChange, Change
  <1>3. ASSUME NEW b \in BlockType
        PROVE  IF IsChange(b) THEN b.user \in Users /\ b = Change(b.user) ELSE b = Token
    <2>1. CASE b = Token
      BY <1>1, <2>1
    <2>2. ASSUME NEW u \in Users, b = Change(u)
          PROVE  IsChange(b) /\ b.user \in Users /\ b = Change(b.user)
      BY <1>2, <2>2
    <2> QED
      BY <2>1, <2>2 DEF BlockType
  <1> QED
    BY <1>1, <1>2, <1>3

LEMMA NoneTyped == NoCall \in CallType /\ NoAsk \in AskType
  <1>1. <<>> \in Seq(0 .. MaxWrites)
    OBVIOUS
  <1> QED
    BY <1>1 DEF NoCall, NoAsk, CallType, AskType

(* The writes of some batches, in their order.                             *)
LEMMA WritesOfIs ==
  ASSUME NEW p \in Seq(BatchType)
  PROVE  /\ WritesOf(p) \in Seq(Writes) /\ WritesOf(p) \in Seq(0 .. MaxWrites)
         /\ Len(WritesOf(p)) = Len(p)
         /\ \A i \in 1 .. Len(p) : WritesOf(p)[i] = p[i].write
  <1>1. /\ Len(p) \in Nat /\ DOMAIN p = 1 .. Len(p)
        /\ \A i \in 1 .. Len(p) : p[i].write \in Writes
    <2>1. Len(p) \in Nat /\ DOMAIN p = 1 .. Len(p) /\ \A i \in 1 .. Len(p) : p[i] \in BatchType
      BY SeqFacts
    <2> QED
      BY <2>1 DEF BatchType
  <1>2. WritesOf(p) = [i \in 1 .. Len(p) |-> p[i].write]
    BY <1>1 DEF WritesOf
  <1>3. WritesOf(p) \in Seq(Writes) /\ Len(WritesOf(p)) = Len(p)
    BY <1>1, <1>2
  <1>4. Writes \subseteq 0 .. MaxWrites
    BY Constants
  <1> QED
    BY <1>1, <1>2, <1>3, <1>4, SeqMonotonic

-----------------------------------------------------------------------------
(* The two queues of blocks.                                               *)

OneToken(s) == \A i, j \in DOMAIN s : s[i] = Token /\ s[j] = Token => i = j
NoToken(s) == \A i \in DOMAIN s : s[i] # Token
Quiet(s) == \A i \in DOMAIN s : ~ IsChange(s[i])
TokenFirst(s) == \A i, j \in DOMAIN s : s[j] = Token /\ IsChange(s[i]) => j < i

(* The last announcement of the queue is that of u.                        *)
Ends(s, u) ==
  \A i \in DOMAIN s :
    IsChange(s[i]) /\ (\A j \in DOMAIN s : i < j => ~ IsChange(s[j])) => s[i].user = u

LEMMA TokenDropped ==
  ASSUME NEW s \in Seq(BlockType), OneToken(s)
  PROVE  LET r == RemoveFirst(s, Token)
         IN  /\ r \in Seq(BlockType) /\ NoToken(r) /\ (Quiet(r) => Quiet(s))
             /\ \A u \in Users : Ends(s, u) => Ends(r, u)
  <1> DEFINE r == RemoveFirst(s, Token)
  <1>1. Len(s) \in Nat /\ DOMAIN s = 1 .. Len(s)
    BY SeqFacts
  <1>2. /\ r \in Seq(BlockType) /\ \A i \in 1 .. Len(r) : r[i] # Token
        /\ \E k \in Nat : /\ k <= Len(s) => s[k] = Token
                          /\ k >= 1
                          /\ Len(r) = IF k <= Len(s) THEN Len(s) - 1 ELSE Len(s)
                          /\ \A i \in 1 .. Len(r) : r[i] = IF i < k THEN s[i] ELSE s[i + 1]
    <2>1. \A i, j \in 1 .. Len(s) : s[i] = Token /\ s[j] = Token => i = j
      BY <1>1 DEF OneToken
    <2> QED
      BY <2>1, RemoveOnly
  <1> HIDE DEF r
  <1>3. PICK k \in Nat : /\ k <= Len(s) => s[k] = Token
                         /\ k >= 1
                         /\ Len(r) = IF k <= Len(s) THEN Len(s) - 1 ELSE Len(s)
                         /\ \A i \in 1 .. Len(r) : r[i] = IF i < k THEN s[i] ELSE s[i + 1]
    BY <1>2
  <1>4. DOMAIN r = 1 .. Len(r) /\ Len(r) \in Nat
    BY <1>2, SeqFacts
  <1> DEFINE at(i) == IF i < k THEN i ELSE i + 1
  <1>5. /\ Len(r) \in Int /\ Len(s) \in Int /\ k \in Int /\ k >= 1
        /\ (k <= Len(s) => Len(r) = Len(s) - 1) /\ (k > Len(s) => Len(r) = Len(s))
        /\ (k <= Len(s) => s[k] = Token)
        /\ \A i \in 1 .. Len(r) : (i < k => r[i] = s[i]) /\ (i >= k => r[i] = s[i + 1])
    <2>1. k \in Int /\ Len(s) \in Int /\ Len(r) \in Int
      BY <1>1, <1>4
    <2>2. (k <= Len(s) => Len(r) = Len(s) - 1) /\ (~ (k <= Len(s)) => Len(r) = Len(s))
      BY <1>3
    <2>3. k > Len(s) => ~ (k <= Len(s))
      BY <2>1
    <2>4. \A i \in 1 .. Len(r) : (i < k => r[i] = s[i]) /\ (~ (i < k) => r[i] = s[i + 1])
      BY <1>3
    <2>5. \A i \in 1 .. Len(r) : i >= k => ~ (i < k)
      BY <2>1
    <2> QED
      BY <1>3, <2>1, <2>2, <2>3, <2>4, <2>5
  <1>6. /\ \A i \in 1 .. Len(r) : at(i) \in 1 .. Len(s) /\ r[i] = s[at(i)]
        /\ \A x \in 1 .. Len(s) : IsChange(s[x]) =>
               \E i \in 1 .. Len(r) : r[i] = s[x] /\ at(i) = x
    <2>1. ASSUME NEW i \in 1 .. Len(r) PROVE at(i) \in 1 .. Len(s) /\ r[i] = s[at(i)]
      BY <1>5
    <2>2. ASSUME NEW x \in 1 .. Len(s), IsChange(s[x])
          PROVE  \E i \in 1 .. Len(r) : r[i] = s[x] /\ at(i) = x
      <3>1. x # k
        BY <1>5, <2>2, Blocks
      <3>2. CASE x < k
        <4>1. x \in 1 .. Len(r) /\ r[x] = s[x] /\ at(x) = x
          BY <1>5, <3>2
        <4> QED
          BY <4>1
      <3>3. CASE x > k
        <4> DEFINE i == x - 1
        <4>1. i \in 1 .. Len(r) /\ i >= k /\ i + 1 = x /\ ~ (i < k)
          BY <1>5, <3>3
        <4>2. r[i] = s[x] /\ at(i) = x
          BY <1>5, <4>1
        <4> QED
          BY <4>1, <4>2
      <3> QED
        BY <1>5, <3>1, <3>2, <3>3
    <2> QED
      BY <2>1, <2>2
  <1>7. ASSUME Quiet(r) PROVE Quiet(s)
    BY <1>1, <1>4, <1>6, <1>7 DEF Quiet
  <1>8. ASSUME NEW u \in Users, Ends(s, u) PROVE Ends(r, u)
    <2> SUFFICES ASSUME NEW i \in 1 .. Len(r), IsChange(r[i]),
                        \A j \in 1 .. Len(r) : i < j => ~ IsChange(r[j])
                 PROVE  r[i].user = u
      BY <1>4 DEF Ends
    <2>1. at(i) \in 1 .. Len(s) /\ r[i] = s[at(i)]
      BY <1>6
    <2>2. ASSUME NEW x \in 1 .. Len(s), at(i) < x PROVE ~ IsChange(s[x])
      <3> SUFFICES ASSUME IsChange(s[x]) PROVE FALSE
        OBVIOUS
      <3>1. PICK j \in 1 .. Len(r) : r[j] = s[x] /\ at(j) = x
        BY <1>6
      <3>2. at(i) < at(j)
        BY <2>2, <3>1
      <3>3. i < j
        BY <1>3, <1>4, <3>2
      <3> QED
        BY <3>1, <3>3
    <2> QED
      BY <1>1, <1>8, <2>1, <2>2 DEF Ends
  <1> QED
    BY <1>2, <1>4, <1>7, <1>8 DEF NoToken, r

(* A block more at the end.                                                *)
LEMMA BlockAppended ==
  ASSUME NEW s \in Seq(BlockType), NEW b \in BlockType
  PROVE  LET r == Append(s, b)
         IN  /\ r \in Seq(BlockType)
             /\ IsChange(b) => /\ ~ Quiet(r) /\ Ends(r, b.user)
                               /\ (OneToken(s) => OneToken(r)) /\ (NoToken(s) => NoToken(r))
             /\ b = Token => /\ (Quiet(r) <=> Quiet(s))
                             /\ (\A u \in Users : Ends(s, u) => Ends(r, u))
                             /\ (NoToken(s) => OneToken(r))
                             /\ (TokenFirst(r) => Quiet(s))
             /\ TokenFirst(r) => TokenFirst(s)
  <1> DEFINE r == Append(s, b)
             n == Len(s)
  <1>1. /\ r \in Seq(BlockType) /\ n \in Nat /\ DOMAIN s = 1 .. n /\ DOMAIN r = 1 .. n + 1
        /\ r[n + 1] = b /\ \A i \in 1 .. n : r[i] = s[i]
    BY AppendProperties, SeqFacts
  <1>2. 1 .. n + 1 = 1 .. n \union {n + 1} /\ n + 1 \notin 1 .. n /\ \A i \in 1 .. n : i < n + 1
    BY <1>1
  <1>3. ~ IsChange(Token)
    BY Blocks
  <1> HIDE DEF r, n
  <1>4. TokenFirst(r) => TokenFirst(s)
    BY <1>1, <1>2 DEF TokenFirst
  <1>5. ASSUME IsChange(b)
        PROVE  /\ ~ Quiet(r) /\ Ends(r, b.user)
               /\ (OneToken(s) => OneToken(r)) /\ (NoToken(s) => NoToken(r))
    <2>1. ~ Quiet(r)
      BY <1>1, <1>2, <1>5 DEF Quiet
    <2>2. Ends(r, b.user)
      BY <1>1, <1>2, <1>5 DEF Ends
    <2>3. OneToken(s) => OneToken(r)
      BY <1>1, <1>2, <1>3, <1>5 DEF OneToken
    <2>4. NoToken(s) => NoToken(r)
      BY <1>1, <1>2, <1>3, <1>5 DEF NoToken
    <2> QED
      BY <2>1, <2>2, <2>3, <2>4
  <1>6. ASSUME b = Token
        PROVE  /\ (Quiet(r) <=> Quiet(s))
               /\ (\A u \in Users : Ends(s, u) => Ends(r, u))
               /\ (NoToken(s) => OneToken(r))
               /\ (TokenFirst(r) => Quiet(s))
    <2>1. Quiet(r) <=> Quiet(s)
      BY <1>1, <1>2, <1>3, <1>6 DEF Quiet
    <2>2. ASSUME NEW u \in Users, Ends(s, u) PROVE Ends(r, u)
      BY <1>1, <1>2, <1>3, <1>6, <2>2 DEF Ends
    <2>3. NoToken(s) => OneToken(r)
      BY <1>1, <1>2 DEF OneToken, NoToken
    <2>4. TokenFirst(r) => Quiet(s)
      <3> SUFFICES ASSUME TokenFirst(r), NEW i \in 1 .. n, IsChange(s[i]) PROVE FALSE
        BY <1>1 DEF Quiet
      <3>1. n + 1 < i
        BY <1>1, <1>2, <1>6 DEF TokenFirst
      <3> QED
        BY <1>1, <3>1
    <2> QED
      BY <2>1, <2>2, <2>3, <2>4
  <1> QED
    BY <1>1, <1>4, <1>5, <1>6 DEF r

(* The block at the head is taken.                                         *)
LEMMA BlockTaken ==
  ASSUME NEW s \in Seq(BlockType), s # <<>>, OneToken(s)
  PROVE  LET r == Tail(s)
         IN  /\ r \in Seq(BlockType) /\ Head(s) \in BlockType /\ OneToken(r)
             /\ NoToken(s) => NoToken(r)
             /\ \A u \in Users : Ends(s, u) => Ends(r, u)
             /\ IsChange(Head(s)) =>
                  /\ ~ Quiet(s)
                  /\ \A u \in Users : Ends(s, u) /\ Quiet(r) => Head(s).user = u
             /\ ~ IsChange(Head(s)) => /\ NoToken(r) /\ (Quiet(r) <=> Quiet(s)) /\ TokenFirst(s)
                                       /\ Head(s) = Token /\ ~ NoToken(s)
  <1> DEFINE r == Tail(s)
             n == Len(s)
  <1>1. /\ r \in Seq(BlockType) /\ Head(s) \in BlockType /\ Head(s) = s[1]
        /\ n \in Nat /\ n >= 1 /\ DOMAIN s = 1 .. n /\ DOMAIN r = 1 .. n - 1
        /\ \A i \in 1 .. n - 1 : r[i] = s[i + 1]
    BY HeadTailProperties, SeqFacts, EmptySeq
  <1>2. /\ \A i \in 1 .. n - 1 : i + 1 \in 1 .. n /\ i + 1 > 1
        /\ \A i \in 1 .. n : i # 1 => i - 1 \in 1 .. n - 1 /\ (i - 1) + 1 = i
        /\ 1 \in 1 .. n
    BY <1>1
  <1>3. \A i \in 1 .. n : i # 1 => i - 1 \in 1 .. n - 1 /\ s[i] = r[i - 1]
    BY <1>1, <1>2
  <1> HIDE DEF r
  <1>4. OneToken(r)
    BY <1>1, <1>2 DEF OneToken
  <1>5. NoToken(s) => NoToken(r)
    BY <1>1, <1>2 DEF NoToken
  <1>6. ASSUME NEW u \in Users, Ends(s, u) PROVE Ends(r, u)
    <2> SUFFICES ASSUME NEW i \in 1 .. n - 1, IsChange(r[i]),
                        \A j \in 1 .. n - 1 : i < j => ~ IsChange(r[j])
                 PROVE  r[i].user = u
      BY <1>1 DEF Ends
    <2>1. ASSUME NEW x \in 1 .. n, i + 1 < x PROVE ~ IsChange(s[x])
      <3>1. x # 1 /\ i < x - 1
        BY <1>1, <2>1
      <3> QED
        BY <1>3, <3>1
    <2> QED
      BY <1>1, <1>2, <1>6, <2>1 DEF Ends
  <1>7. ASSUME IsChange(Head(s))
        PROVE  /\ ~ Quiet(s)
               /\ \A u \in Users : Ends(s, u) /\ Quiet(r) => Head(s).user = u
    <2>1. ~ Quiet(s)
      BY <1>1, <1>2, <1>7 DEF Quiet
    <2>2. ASSUME NEW u \in Users, Ends(s, u), Quiet(r) PROVE Head(s).user = u
      <3>1. \A j \in 1 .. n : 1 < j => ~ IsChange(s[j])
        BY <1>1, <1>3, <2>2 DEF Quiet
      <3> QED
        BY <1>1, <1>2, <1>7, <2>2, <3>1 DEF Ends
    <2> QED
      BY <2>1, <2>2
  <1>8. ASSUME ~ IsChange(Head(s))
        PROVE  /\ NoToken(r) /\ (Quiet(r) <=> Quiet(s)) /\ TokenFirst(s)
               /\ Head(s) = Token /\ ~ NoToken(s)
    <2>1. s[1] = Token /\ Head(s) = Token
      BY <1>1, <1>8, Blocks
    <2>2. NoToken(r) /\ ~ NoToken(s)
      BY <1>1, <1>2, <2>1 DEF OneToken, NoToken
    <2>3. Quiet(r) <=> Quiet(s)
      BY <1>1, <1>2, <1>3, <1>8 DEF Quiet
    <2>4. TokenFirst(s)
      <3> SUFFICES ASSUME NEW i \in 1 .. n, NEW j \in 1 .. n, s[j] = Token, IsChange(s[i])
                   PROVE  j < i
        BY <1>1 DEF TokenFirst
      <3>1. j = 1 /\ i # 1
        BY <1>1, <1>2, <1>8, <2>1 DEF OneToken
      <3> QED
        BY <1>1, <3>1
    <2> QED
      BY <2>1, <2>2, <2>3, <2>4
  <1> QED
    BY <1>1, <1>4, <1>5, <1>6, <1>7, <1>8 DEF r

-----------------------------------------------------------------------------
(* What holds of the client, whose queue of mutations is q, when D are the *)
(* writes that the backend refuses.                                        *)

(* The states of the stream.                                               *)
StreamStands(c) ==
  /\ c.idle => IsOpen(c) /\ c.pipeline = <<>>
  /\ c.ask.stage # "none" <=> c.state = "Starting"
  /\ c.ready => IsOpen(c)
  /\ IsStarted(c) => c.enabled /\ (c.ready \/ c.pipeline # <<>>)
  /\ ~ IsOpen(c) => c.call = NoCall
  /\ c.call.ended # "no" => c.ready

(* There is one token on its way at most, and the stream knows where.      *)
TokensPlaced(c) ==
  /\ OneToken(c.main) /\ OneToken(c.worker)
  /\ c.ask.stage # "main" => NoToken(c.main)
  /\ c.ask.stage # "worker" => NoToken(c.worker)

Ascending(q) == \A i, j \in 1 .. Len(q) : i < j => q[i].id < q[j].id
Begins(p, q) == Len(p) <= Len(q) /\ \A i \in 1 .. Len(p) : p[i] = q[i]
Room(q) == IF Len(q) < MaxPendingWrites THEN Len(q) ELSE MaxPendingWrites

(* The requests and answers of the call are those of the pipeline.         *)
CallFits(c, D) ==
  /\ IsOpen(c) /\ ~ c.ready => c.call.in \o c.call.out = <<0>>
  /\ c.ready => /\ Len(c.call.in) + Len(c.call.out) <= Len(c.pipeline)
                /\ \A i \in 1 .. Len(c.call.in) : c.call.in[i] = c.pipeline[i].write
                /\ \A i \in 1 .. Len(c.call.out) :
                     c.call.out[i] = c.pipeline[Len(c.call.in) + i].write
  /\ c.ready /\ c.call.ended = "no" => Len(c.call.in) + Len(c.call.out) = Len(c.pipeline)
  /\ c.call.ended # "no" => /\ c.call.out = <<>> /\ Len(c.call.in) < Len(c.pipeline)
                            /\ c.pipeline[Len(c.call.in) + 1].write \in D

(* What FillWritePipeline relies on, and what it brings about.             *)
Fillable(c, q, D) ==
  /\ StreamStands(c) /\ TokensPlaced(c) /\ CallFits(c, D)
  /\ Begins(c.pipeline, q) /\ Len(c.pipeline) <= MaxPendingWrites
  /\ c.enabled \/ c.pipeline = <<>>

ClientStands(c, q, D) ==
  /\ Fillable(c, q, D)
  /\ c.enabled => Len(c.pipeline) = Room(q)
  /\ c.pipeline # <<>> => IsStarted(c)

(* The user of Auth is the one announced last, here or to SyncEngine.      *)
UserFollows(c, cur, auth) ==
  /\ Ends(c.main, auth)
  /\ Quiet(c.main) => Ends(c.worker, auth)
  /\ Quiet(c.main) /\ Quiet(c.worker) => cur = auth

(* A token that will be used, and the one that is used, are the user's.    *)
TokenIsTheirs(c, cur) ==
  /\ c.ask.stage = "fetched" /\ c.ask.ok /\ c.ask.fresh /\ Quiet(c.main) /\ Quiet(c.worker)
       => c.ask.user = cur
  /\ c.ask.stage = "main" /\ c.ask.ok /\ c.ask.fresh /\ TokenFirst(c.main) /\ Quiet(c.worker)
       => c.ask.user = cur
  /\ c.ask.stage = "worker" /\ c.ask.ok /\ TokenFirst(c.worker) => c.ask.user = cur
  /\ IsOpen(c) => c.call.user = cur

-----------------------------------------------------------------------------
(* Closing and starting the stream.                                        *)

AtRest(c) ==
  /\ ~ IsStarted(c) /\ ~ c.ready /\ ~ c.idle /\ c.call = NoCall /\ c.ask.stage = "none"
  /\ NoToken(c.main) /\ NoToken(c.worker)

LEMMA CloseIs ==
  ASSUME NEW c \in ClientType, OneToken(c.main), OneToken(c.worker),
         NEW state \in {"Initial", "Error"}
  PROVE  LET r == Close(c, state)
         IN  /\ r \in ClientType /\ AtRest(r) /\ r.state = state
             /\ r.enabled = c.enabled /\ r.pipeline = c.pipeline
             /\ \A cur, auth \in Users : UserFollows(c, cur, auth) => UserFollows(r, cur, auth)
  <1> DEFINE r == Close(c, state)
             main == RemoveFirst(c.main, Token)
             worker == RemoveFirst(c.worker, Token)
  <1>1. c.main \in Seq(BlockType) /\ c.worker \in Seq(BlockType)
    BY DEF ClientType
  <1>2. /\ main \in Seq(BlockType) /\ NoToken(main) /\ (Quiet(main) => Quiet(c.main))
        /\ \A u \in Users : Ends(c.main, u) => Ends(main, u)
    BY <1>1, TokenDropped
  <1>3. /\ worker \in Seq(BlockType) /\ NoToken(worker) /\ (Quiet(worker) => Quiet(c.worker))
        /\ \A u \in Users : Ends(c.worker, u) => Ends(worker, u)
    BY <1>1, TokenDropped
  <1>4. /\ r.main = main /\ r.worker = worker /\ r.state = state /\ r.enabled = c.enabled
        /\ r.pipeline = c.pipeline /\ r.ready = FALSE /\ r.idle = FALSE
        /\ r.call = NoCall /\ r.ask = NoAsk
    BY DEF Close, ClientType
  <1> HIDE DEF main, worker
  <1>5. r \in ClientType
    <2>1. r = [c EXCEPT !.state = state, !.ready = FALSE, !.idle = FALSE, !.call = NoCall,
                        !.ask = NoAsk, !.main = main, !.worker = worker]
      BY DEF Close, ClientType, main, worker
    <2> HIDE DEF r
    <2> QED
      BY <1>2, <1>3, <2>1, NoneTyped DEF ClientType
  <1> HIDE DEF r
  <1>6. AtRest(r)
    BY <1>2, <1>3, <1>4 DEF AtRest, IsStarted, NoAsk
  <1>7. ASSUME NEW cur \in Users, NEW auth \in Users, UserFollows(c, cur, auth)
        PROVE  UserFollows(r, cur, auth)
    BY <1>2, <1>3, <1>4, <1>7 DEF UserFollows
  <1> QED
    BY <1>4, <1>5, <1>6, <1>7 DEF r

(* A stream at rest has no request, no answer and no token.                *)
LEMMA RestStands ==
  ASSUME NEW c \in ClientType, AtRest(c), NEW D, NEW cur
  PROVE  StreamStands(c) /\ TokensPlaced(c) /\ CallFits(c, D) /\ TokenIsTheirs(c, cur)
  <1>1. c.state \notin {"Starting", "Backoff", "Open"} /\ c.call.ended = "no"
    BY DEF AtRest, IsStarted, NoCall
  <1>2. StreamStands(c)
    BY <1>1 DEF AtRest, StreamStands, IsOpen, IsStarted
  <1>3. TokensPlaced(c)
    BY DEF AtRest, TokensPlaced, OneToken, NoToken
  <1>4. CallFits(c, D)
    BY <1>1 DEF AtRest, CallFits, IsOpen
  <1>5. TokenIsTheirs(c, cur)
    BY <1>1 DEF AtRest, TokenIsTheirs, IsOpen
  <1> QED
    BY <1>2, <1>3, <1>4, <1>5

LEMMA RestsUnlessStarted ==
  ASSUME NEW c \in ClientType, StreamStands(c), TokensPlaced(c), ~ IsStarted(c)
  PROVE  AtRest(c)
  <1>1. c.state \notin {"Starting", "Backoff", "Open"}
    BY DEF IsStarted
  <1>2. ~ IsOpen(c) /\ c.ask.stage = "none" /\ ~ c.idle /\ ~ c.ready /\ c.call = NoCall
    BY <1>1 DEF StreamStands, IsOpen
  <1> QED
    BY <1>2 DEF AtRest, TokensPlaced

LEMMA StopIs ==
  ASSUME NEW c \in ClientType, OneToken(c.main), OneToken(c.worker), IsStarted(c) \/ AtRest(c)
  PROVE  LET r == Stop(c)
         IN  /\ r \in ClientType /\ AtRest(r)
             /\ r.enabled = c.enabled /\ r.pipeline = c.pipeline
             /\ \A cur, auth \in Users : UserFollows(c, cur, auth) => UserFollows(r, cur, auth)
  <1>1. CASE IsStarted(c)
    <2>1. Stop(c) = Close(c, "Initial")
      BY <1>1 DEF Stop
    <2> QED
      BY <2>1, CloseIs
  <1>2. CASE ~ IsStarted(c)
    <2>1. Stop(c) = c
      BY <1>2 DEF Stop
    <2> QED
      BY <1>2, <2>1
  <1> QED
    BY <1>1, <1>2

(* StartWriteStream starts the stream if there is something to write.      *)
LEMMA StartIs ==
  ASSUME NEW c \in ClientType, StreamStands(c), TokensPlaced(c),
         c.enabled \/ c.pipeline = <<>>
  PROVE  LET r == StartWriteStream(c)
         IN  /\ r \in ClientType
             /\ r.enabled = c.enabled /\ r.pipeline = c.pipeline /\ r.ready = c.ready
             /\ r.call = c.call /\ r.main = c.main /\ r.worker = c.worker
             /\ StreamStands(r) /\ TokensPlaced(r) /\ (r.pipeline # <<>> => IsStarted(r))
             /\ (IsOpen(r) <=> IsOpen(c))
             /\ \A cur \in Users : TokenIsTheirs(c, cur) => TokenIsTheirs(r, cur)
  <1> DEFINE r == StartWriteStream(c)
  <1>1. CASE ~ ShouldStartWriteStream(c)
    <2>1. r = c
      BY <1>1 DEF StartWriteStream
    <2>2. c.pipeline # <<>> => IsStarted(c)
      BY <1>1 DEF ShouldStartWriteStream
    <2> HIDE DEF r
    <2> QED
      BY <2>1, <2>2 DEF r
  <1>2. CASE ShouldStartWriteStream(c)
    <2>1. c.enabled /\ ~ IsStarted(c) /\ c.pipeline # <<>> /\ AtRest(c)
      BY <1>2, RestsUnlessStarted DEF ShouldStartWriteStream
    <2>2. r = Start(c)
      BY <1>2 DEF StartWriteStream
    <2>3. /\ r \in ClientType /\ r.state \in {"Starting", "Backoff"}
          /\ r.enabled = c.enabled /\ r.pipeline = c.pipeline /\ r.ready = c.ready
          /\ r.idle = c.idle /\ r.call = c.call /\ r.main = c.main /\ r.worker = c.worker
          /\ IF r.state = "Starting" THEN r.ask.stage = "asked" ELSE r.ask = c.ask
      <3>1. CASE c.state = "Error"
        <4>1. r = [c EXCEPT !.state = "Backoff"]
          BY <2>2, <3>1 DEF Start
        <4> HIDE DEF r
        <4> QED
          BY <4>1 DEF ClientType
      <3>2. CASE c.state # "Error"
        <4> DEFINE ask == [NoAsk EXCEPT !.stage = "asked"]
        <4>1. r = [c EXCEPT !.state = "Starting", !.ask = ask]
          BY <2>2, <3>2 DEF Start, RequestCredentials
        <4>2. ask \in AskType /\ ask.stage = "asked"
          BY DEF NoAsk, AskType
        <4> HIDE DEF r, ask
        <4> QED
          BY <4>1, <4>2 DEF ClientType
      <3> QED
        BY <3>1, <3>2
    <2> HIDE DEF r
    <2>4. IsStarted(r) /\ ~ IsOpen(r) /\ ~ IsOpen(c)
      BY <2>1, <2>3 DEF IsStarted, IsOpen
    <2>5. StreamStands(r)
      BY <2>1, <2>3, <2>4 DEF StreamStands, AtRest, NoCall
    <2>6. TokensPlaced(r)
      BY <2>1, <2>3 DEF TokensPlaced, AtRest
    <2>7. ASSUME NEW cur \in Users PROVE TokenIsTheirs(r, cur)
      <3>1. r.ask.stage \in {"asked", "none"}
        BY <2>1, <2>3 DEF AtRest
      <3> QED
        BY <2>4, <3>1 DEF TokenIsTheirs
    <2> QED
      BY <2>3, <2>4, <2>5, <2>6, <2>7 DEF r
  <1> QED
    BY <1>1, <1>2

(* Send takes a message to the backend, unless the call has ended.         *)
LEMMA SendIs ==
  ASSUME NEW c \in ClientType, NEW m \in Seq(0 .. MaxWrites)
  PROVE  LET r == Send(c, m)
         IN  /\ r \in ClientType
             /\ r.enabled = c.enabled /\ r.pipeline = c.pipeline /\ r.state = c.state
             /\ r.ready = c.ready /\ r.ask = c.ask /\ r.main = c.main /\ r.worker = c.worker
             /\ r.call.user = c.call.user /\ r.call.in = c.call.in
             /\ r.idle = (c.idle /\ m = <<>>)
             /\ (c.call.ended = "no" <=> r.call.ended = "no")
             /\ r.call.out = IF c.call.ended = "no" THEN c.call.out \o m ELSE c.call.out
  <1> DEFINE r == Send(c, m)
  <1>1. /\ c.call \in CallType /\ c.idle \in BOOLEAN /\ c.call.out \in Seq(0 .. MaxWrites)
        /\ c.call.ended \in {"no", "ended", "cut", "failing"}
    BY DEF ClientType, CallType
  <1>2. CASE m = <<>>
    <2>1. r = c
      BY <1>2 DEF Send
    <2>2. c.call.out \o m = c.call.out
      BY <1>1, <1>2, ConcatEmptySeq
    <2> HIDE DEF r
    <2> QED
      BY <1>1, <1>2, <2>1, <2>2 DEF r
  <1>3. CASE m # <<>> /\ c.call.ended = "ended"
    <2> DEFINE call == [c.call EXCEPT !.ended = "cut"]
    <2>1. r = [c EXCEPT !.idle = FALSE, !.call = call]
      BY <1>3 DEF Send, ClientType
    <2>2. /\ call \in CallType /\ call.user = c.call.user /\ call.in = c.call.in
          /\ call.out = c.call.out /\ call.ended = "cut"
      BY <1>1 DEF CallType
    <2> HIDE DEF call, r
    <2>3. r \in ClientType /\ r.call = call /\ r.idle = FALSE
      BY <2>1, <2>2 DEF ClientType
    <2> QED
      BY <1>1, <1>3, <2>1, <2>2, <2>3 DEF r, ClientType
  <1>4. CASE m # <<>> /\ c.call.ended \in {"cut", "failing"}
    <2>1. r = [c EXCEPT !.idle = FALSE]
      BY <1>4 DEF Send
    <2> HIDE DEF r
    <2> QED
      BY <1>1, <1>4, <2>1 DEF r, ClientType
  <1>5. CASE m # <<>> /\ c.call.ended = "no"
    <2> DEFINE out == c.call.out \o m
               call == [c.call EXCEPT !.out = out]
    <2>1. r = [c EXCEPT !.idle = FALSE, !.call = call]
      BY <1>5 DEF Send, ClientType
    <2>2. out \in Seq(0 .. MaxWrites)
      BY <1>1, ConcatProperties
    <2> HIDE DEF out
    <2>3. /\ call \in CallType /\ call.user = c.call.user /\ call.in = c.call.in
          /\ call.out = out /\ call.ended = "no"
      BY <1>1, <1>5, <2>2 DEF CallType
    <2> HIDE DEF call, r
    <2>4. r \in ClientType /\ r.call = call /\ r.idle = FALSE
      BY <2>1, <2>3 DEF ClientType
    <2> QED
      BY <1>1, <1>5, <2>1, <2>3, <2>4 DEF r, out, ClientType
  <1> QED
    BY <1>1, <1>2, <1>3, <1>4, <1>5

-----------------------------------------------------------------------------
(* Filling the pipeline.                                                   *)

(* The next batches are those that come after the pipeline in the queue.   *)
LEMMA NextIs ==
  ASSUME NEW c \in ClientType, NEW q \in Seq(BatchType), Ascending(q),
         Begins(c.pipeline, q), Len(c.pipeline) <= MaxPendingWrites,
         c.enabled \/ c.pipeline = <<>>
  PROVE  LET new == NextBatches(c, q)
             all == c.pipeline \o new
         IN  /\ new \in Seq(BatchType) /\ all \in Seq(BatchType)
             /\ Len(all) = Len(c.pipeline) + Len(new)
             /\ \A i \in 1 .. Len(c.pipeline) : all[i] = c.pipeline[i]
             /\ \A i \in 1 .. Len(new) : all[Len(c.pipeline) + i] = new[i]
             /\ Begins(all, q) /\ Len(all) <= MaxPendingWrites
             /\ c.enabled => Len(all) = Room(q)
             /\ ~ c.enabled => new = <<>>
  <1> DEFINE p == c.pipeline
             k == Len(p)
             last == IF p = <<>> THEN 0 ELSE Last(p).id
             beyond == {i \in DOMAIN q : q[i].id > last} \union {Len(q) + 1}
             first == Min(beyond)
             room == IF c.enabled THEN MaxPendingWrites - k ELSE 0
             to == Min({first + room - 1, Len(q)})
             new == SubSeq(q, first, to)
             all == p \o new
  <1>1. /\ p \in Seq(BatchType) /\ k \in Nat /\ Len(q) \in Nat /\ DOMAIN q = 1 .. Len(q)
        /\ k <= Len(q) /\ k <= MaxPendingWrites /\ MaxPendingWrites \in Nat
        /\ \A i \in 1 .. k : p[i] = q[i]
    <2>1. p \in Seq(BatchType)
      BY DEF ClientType
    <2> QED
      BY <2>1, SeqFacts, Constants DEF Begins
  <1>2. \A i \in 1 .. Len(q) : q[i] \in BatchType /\ q[i].id \in Nat /\ q[i].id > 0
    <2>1. \A i \in 1 .. Len(q) : q[i] \in BatchType
      BY <1>1, SeqFacts
    <2> QED
      BY <2>1 DEF BatchType
  <1>3. \A i, j \in 1 .. Len(q) : i < j => q[i].id < q[j].id
    BY DEF Ascending
  <1>4. IF k = 0 THEN last = 0 ELSE last = q[k].id
    <2>1. p = <<>> <=> k = 0
      BY <1>1, EmptySeq
    <2>2. CASE k = 0
      BY <2>1, <2>2
    <2>3. CASE k # 0
      <3>1. k \in 1 .. k /\ p # <<>>
        BY <1>1, <2>1, <2>3
      <3> QED
        BY <1>1, <2>3, <3>1 DEF Last
    <2> QED
      BY <2>2, <2>3
  <1>5. last \in Nat
    BY <1>1, <1>2, <1>4
  <1> HIDE DEF p, k, last
  <1>6. \A i \in 1 .. Len(q) : q[i].id > last <=> i > k
    <2> SUFFICES ASSUME NEW i \in 1 .. Len(q) PROVE q[i].id > last <=> i > k
      OBVIOUS
    <2>1. CASE k = 0
      BY <1>2, <1>4, <2>1
    <2>2. CASE k # 0
      <3>1. k \in 1 .. Len(q) /\ last = q[k].id /\ q[k].id \in Nat /\ q[i].id \in Nat
        BY <1>1, <1>2, <1>4, <2>2
      <3>2. CASE i > k
        BY <1>3, <3>1, <3>2
      <3>3. CASE i = k
        BY <3>1, <3>3
      <3>4. CASE i < k
        <4>1. q[i].id < q[k].id
          BY <1>3, <3>1, <3>4
        <4> QED
          BY <1>1, <3>1, <3>4, <4>1
      <3> QED
        BY <1>1, <3>2, <3>3, <3>4
    <2> QED
      BY <2>1, <2>2
  <1>7. first = k + 1
    <2>1. beyond \in SUBSET Nat /\ k + 1 \in beyond /\ \A i \in beyond : k + 1 <= i
      BY <1>1, <1>6
    <2> HIDE DEF beyond
    <2>2. first \in beyond /\ \A i \in beyond : first <= i
      BY <2>1, MinNat
    <2> HIDE DEF first
    <2>3. first \in Nat /\ first <= k + 1 /\ k + 1 <= first
      BY <2>1, <2>2
    <2> QED
      BY <1>1, <2>3
  <1>8. to = IF c.enabled THEN Room(q) ELSE k
    <2> DEFINE x == first + room - 1
    <2>1. x \in Nat /\ x = IF c.enabled THEN MaxPendingWrites ELSE k
      BY <1>1, <1>7
    <2> HIDE DEF x
    <2>2. to \in {x, Len(q)} /\ to <= x /\ to <= Len(q)
      <3>1. {x, Len(q)} \in SUBSET Nat /\ {x, Len(q)} # {}
        BY <1>1, <2>1
      <3>2. to = Min({x, Len(q)})
        BY DEF x
      <3> HIDE DEF to
      <3> QED
        BY <3>1, <3>2, MinNat
    <2> HIDE DEF to
    <2>3. to \in Nat
      BY <1>1, <2>1, <2>2
    <2> DEFINE n == Len(q)
    <2>6. n \in Nat /\ k \in Nat /\ k <= n /\ MaxPendingWrites \in Nat
      BY <1>1
    <2>7. (to = x \/ to = n) /\ to <= x /\ to <= n
      BY <2>2
    <2> HIDE DEF n
    <2>4. CASE c.enabled
      <3>1. x = MaxPendingWrites
        BY <2>1, <2>4
      <3>2. CASE n < MaxPendingWrites
        <4>1. to = n
          BY <2>3, <2>6, <2>7, <3>1, <3>2
        <4> QED
          BY <2>4, <3>2, <4>1 DEF Room, n
      <3>3. CASE ~ (n < MaxPendingWrites)
        <4>1. to = MaxPendingWrites
          BY <2>3, <2>6, <2>7, <3>1, <3>3
        <4> QED
          BY <2>4, <3>3, <4>1 DEF Room, n
      <3> QED
        BY <3>2, <3>3
    <2>5. CASE ~ c.enabled
      <3>1. x = k
        BY <2>1, <2>5
      <3>2. to = k
        BY <2>3, <2>6, <2>7, <3>1
      <3> QED
        BY <2>5, <3>2
    <2> QED
      BY <2>4, <2>5
  <1>9. to \in Nat /\ to >= k /\ to <= Len(q) /\ to <= MaxPendingWrites
    BY <1>1, <1>8 DEF Room
  <1> HIDE DEF first, room, to
  <1>10. /\ new \in Seq(BatchType) /\ Len(new) = to - k
         /\ \A i \in 1 .. to - k : new[i] = q[k + i]
    <2>1. \A i \in k + 1 .. to : q[i] \in BatchType
      BY <1>1, <1>2, <1>9
    <2>2. /\ new \in Seq(BatchType)
          /\ Len(new) = IF first <= to THEN to - first + 1 ELSE 0
          /\ \A i \in 1 .. to - first + 1 : new[i] = q[first + i - 1]
      <3>1. first \in Int /\ to \in Int /\ \A i \in first .. to : q[i] \in BatchType
        BY <1>1, <1>7, <1>9, <2>1
      <3> QED
        BY <3>1, SubSeqProperties
    <2> HIDE DEF new
    <2>3. Len(new) = to - k
      BY <1>1, <1>7, <1>9, <2>2
    <2>4. ASSUME NEW i \in 1 .. to - k PROVE new[i] = q[k + i]
      <3>1. i \in 1 .. to - first + 1 /\ first + i - 1 = k + i
        BY <1>1, <1>7, <1>9
      <3> QED
        BY <2>2, <3>1
    <2> QED
      BY <2>2, <2>3, <2>4
  <1>11. NextBatches(c, q) = new
    BY DEF NextBatches, new, to, room, first, beyond, last, k, p
  <1> HIDE DEF new
  <1>12. /\ all \in Seq(BatchType) /\ Len(all) = to
         /\ \A i \in 1 .. to : all[i] = IF i <= k THEN p[i] ELSE new[i - k]
    <2>1. /\ all \in Seq(BatchType) /\ Len(all) = Len(p) + Len(new)
          /\ \A i \in 1 .. Len(p) + Len(new) :
               all[i] = IF i <= Len(p) THEN p[i] ELSE new[i - Len(p)]
      BY <1>1, <1>10, ConcatProperties
    <2> HIDE DEF all
    <2>2. Len(p) = k /\ Len(p) + Len(new) = to
      BY <1>1, <1>9, <1>10 DEF k
    <2> QED
      BY <2>1, <2>2
  <1> HIDE DEF all
  <1>13. \A i \in 1 .. k : all[i] = p[i]
    BY <1>1, <1>9, <1>12
  <1>14. ASSUME NEW i \in 1 .. Len(new) PROVE all[k + i] = new[i]
    <2>1. k + i \in 1 .. to /\ ~ (k + i <= k) /\ (k + i) - k = i
      BY <1>1, <1>9, <1>10
    <2> QED
      BY <1>12, <2>1
  <1>15. Begins(all, q)
    <2>1. ASSUME NEW i \in 1 .. to PROVE all[i] = q[i]
      <3>1. CASE i <= k
        BY <1>1, <1>9, <1>12, <3>1
      <3>2. CASE i > k
        <4>1. i - k \in 1 .. to - k /\ k + (i - k) = i /\ ~ (i <= k)
          BY <1>1, <1>9, <3>2
        <4> QED
          BY <1>10, <1>12, <4>1
      <3> QED
        BY <1>1, <3>1, <3>2
    <2> QED
      BY <1>9, <1>12, <2>1 DEF Begins
  <1>16. ~ c.enabled => new = <<>>
    <2>1. ~ c.enabled => Len(new) = 0
      BY <1>1, <1>8, <1>10
    <2> QED
      BY <1>10, <2>1, EmptySeq
  <1>17. /\ all \in Seq(BatchType) /\ new \in Seq(BatchType)
         /\ Len(all) = k + Len(new) /\ Len(all) <= MaxPendingWrites
         /\ (c.enabled => Len(all) = Room(q))
    BY <1>1, <1>8, <1>9, <1>10, <1>12
  <1> QED
    BY <1>11, <1>13, <1>14, <1>15, <1>16, <1>17 DEF all, p, k

(* The call still fits when more is added to the pipeline and, if the call *)
(* takes writes, sent.                                                     *)
LEMMA FitsMore ==
  ASSUME NEW c \in ClientType, NEW r \in ClientType, NEW D, CallFits(c, D),
         c.call.ended # "no" => c.ready,
         NEW new \in Seq(BatchType),
         r.state = c.state, r.ready = c.ready, r.call.in = c.call.in,
         c.call.ended = "no" <=> r.call.ended = "no",
         r.call.out = IF c.ready /\ c.call.ended = "no"
                      THEN c.call.out \o WritesOf(new) ELSE c.call.out,
         Len(r.pipeline) = Len(c.pipeline) + Len(new),
         \A i \in 1 .. Len(c.pipeline) : r.pipeline[i] = c.pipeline[i],
         \A i \in 1 .. Len(new) : r.pipeline[Len(c.pipeline) + i] = new[i]
  PROVE  CallFits(r, D)
  <1> DEFINE in == c.call.in
             out == c.call.out
             p == c.pipeline
             k == Len(p)
             ws == WritesOf(new)
  <1>1. /\ in \in Seq(0 .. MaxWrites) /\ out \in Seq(0 .. MaxWrites) /\ p \in Seq(BatchType)
        /\ Len(in) \in Nat /\ Len(out) \in Nat /\ k \in Nat /\ Len(new) \in Nat
    <2>1. in \in Seq(0 .. MaxWrites) /\ out \in Seq(0 .. MaxWrites) /\ p \in Seq(BatchType)
      BY DEF ClientType, CallType
    <2> QED
      BY <2>1, SeqFacts
  <1>2. CASE ~ c.ready
    <2>1. c.call.ended = "no" /\ r.call.ended = "no" /\ r.call.out = c.call.out
      BY <1>2
    <2> QED
      BY <1>2, <2>1 DEF CallFits, IsOpen
  <1>3. CASE c.ready /\ c.call.ended # "no"
    <2>1. /\ r.call.ended # "no" /\ r.ready /\ r.call.out = out /\ out = <<>>
          /\ Len(in) < k /\ p[Len(in) + 1].write \in D
          /\ \A i \in 1 .. Len(in) : in[i] = p[i].write
      BY <1>3 DEF CallFits
    <2>2. Len(in) + 1 \in 1 .. k /\ Len(out) = 0 /\ 1 .. Len(in) \subseteq 1 .. k
      BY <1>1, <2>1
    <2>3. r.pipeline[Len(in) + 1] = p[Len(in) + 1] /\ \A i \in 1 .. Len(in) : r.pipeline[i] = p[i]
      BY <2>2
    <2>4. Len(in) < Len(r.pipeline) /\ Len(in) + Len(out) <= Len(r.pipeline)
      BY <1>1, <2>1, <2>2
    <2>5. r.pipeline[Len(in) + 1].write \in D /\ \A i \in 1 .. Len(in) : in[i] = r.pipeline[i].write
      BY <2>1, <2>3
    <2>6. \A i \in 1 .. Len(out) : FALSE
      BY <2>2
    <2> QED
      BY ZenonT(60), <2>1, <2>4, <2>5, <2>6 DEF CallFits
  <1>4. CASE c.ready /\ c.call.ended = "no"
    <2> DEFINE o == out \o ws
               a == Len(in)
               b == Len(out)
               n == Len(new)
    <2>1. /\ r.call.ended = "no" /\ r.ready /\ r.call.out = o /\ r.call.in = in
          /\ a + b = k
          /\ \A i \in 1 .. a : in[i] = p[i].write
          /\ \A i \in 1 .. b : out[i] = p[a + i].write
      BY <1>4 DEF CallFits
    <2>2. /\ ws \in Seq(0 .. MaxWrites) /\ Len(ws) = n
          /\ \A i \in 1 .. n : ws[i] = new[i].write
      BY WritesOfIs
    <2> HIDE DEF ws
    <2>3. /\ Len(o) = b + n
          /\ \A i \in 1 .. b : o[i] = out[i]
          /\ \A i \in 1 .. n : o[b + i] = ws[i]
      <3>0. out \in Seq(0 .. MaxWrites) /\ Len(out) = b /\ b \in Nat /\ n \in Nat
        BY <1>1
      <3> HIDE DEF out, b, n
      <3>1. /\ Len(o) = b + n
            /\ \A i \in 1 .. b + n : o[i] = IF i <= b THEN out[i] ELSE ws[i - b]
        <4> DEFINE S == 0 .. MaxWrites
        <4>0. out \in Seq(S) /\ ws \in Seq(S)
          BY <2>2, <3>0
        <4> HIDE DEF S
        <4>1. /\ Len(o) = Len(out) + Len(ws)
              /\ \A i \in 1 .. Len(out) + Len(ws) :
                   o[i] = IF i <= Len(out) THEN out[i] ELSE ws[i - Len(out)]
          BY <4>0, ConcatProperties
        <4> HIDE DEF o
        <4> QED
          BY <2>2, <3>0, <4>1
      <3> HIDE DEF o
      <3>2. ASSUME NEW i \in 1 .. b PROVE o[i] = out[i]
        <4>1. i \in 1 .. b + n /\ i <= b
          BY <3>0
        <4> QED
          BY <3>1, <4>1
      <3>3. ASSUME NEW i \in 1 .. n PROVE o[b + i] = ws[i]
        <4>1. b + i \in 1 .. b + n /\ ~ (b + i <= b) /\ (b + i) - b = i
          BY <3>0
        <4> QED
          BY <3>1, <4>1
      <3> QED
        BY <3>1, <3>2, <3>3
    <2>4. /\ a \in Nat /\ b \in Nat /\ n \in Nat /\ k \in Nat /\ a + b = k
          /\ Len(r.pipeline) = k + n /\ Len(r.call.in) = a /\ Len(r.call.out) = b + n
      BY <1>1, <2>1, <2>3
    <2>5. /\ \A i \in 1 .. k : r.pipeline[i] = p[i]
          /\ \A i \in 1 .. n : r.pipeline[k + i] = new[i]
      OBVIOUS
    <2> HIDE DEF in, out, p, o, a, b, n, k
    <2>6. ASSUME NEW i \in 1 .. a PROVE in[i] = r.pipeline[i].write
      <3>1. i \in 1 .. k
        BY <2>4
      <3> QED
        BY <2>1, <2>5, <3>1
    <2>7. ASSUME NEW i \in 1 .. b + n PROVE o[i] = r.pipeline[a + i].write
      <3>1. CASE i <= b
        <4>1. i \in 1 .. b /\ a + i \in 1 .. k
          BY <2>4, <3>1
        <4> QED
          BY <2>1, <2>3, <2>5, <4>1
      <3>2. CASE i > b
        <4> DEFINE j == i - b
        <4>1. j \in 1 .. n /\ b + j = i /\ k + j = a + i
          BY <2>4, <3>2
        <4> HIDE DEF j
        <4>2. o[i] = new[j].write
          BY <2>2, <2>3, <4>1
        <4>3. r.pipeline[a + i] = new[j]
          BY <2>5, <4>1
        <4> QED
          BY <4>2, <4>3
      <3> QED
        BY <2>4, <3>1, <3>2
    <2>8. a + (b + n) = k + n /\ a + (b + n) <= k + n
      BY <2>4
    <2> QED
      BY <2>1, <2>4, <2>6, <2>7, <2>8 DEF CallFits
  <1> QED
    BY <1>2, <1>3, <1>4

(* Filling the pipeline brings the client to where it stands.              *)
LEMMA FilledIs ==
  ASSUME NEW c \in ClientType, NEW q \in Seq(BatchType), Ascending(q), NEW D,
         Fillable(c, q, D)
  PROVE  LET r == FillWritePipeline(c, q)
         IN  /\ r \in ClientType /\ ClientStands(r, q, D)
             /\ r.enabled = c.enabled /\ r.ready = c.ready /\ r.call.in = c.call.in
             /\ \A cur, auth \in Users : UserFollows(c, cur, auth) => UserFollows(r, cur, auth)
             /\ \A cur \in Users : TokenIsTheirs(c, cur) => TokenIsTheirs(r, cur)
  <1> DEFINE p == c.pipeline
             new == NextBatches(c, q)
             all == p \o new
             idle == c.idle \/ (c.enabled /\ IsOpen(c) /\ all = <<>>)
             filled == [c EXCEPT !.pipeline = all, !.idle = idle]
             ws == WritesOf(new)
             sent == IF IsOpen(c) /\ c.ready THEN Send(filled, ws) ELSE filled
             r == FillWritePipeline(c, q)
  <1>1. /\ StreamStands(c) /\ TokensPlaced(c) /\ CallFits(c, D) /\ Begins(p, q)
        /\ Len(p) <= MaxPendingWrites /\ (c.enabled \/ p = <<>>)
    BY DEF Fillable
  <1>2. /\ p \in Seq(BatchType) /\ c.idle \in BOOLEAN /\ Len(p) \in Nat
        /\ c.call.ended \in {"no", "ended", "cut", "failing"}
    BY SeqFacts DEF ClientType, CallType
  <1>3. /\ new \in Seq(BatchType) /\ all \in Seq(BatchType)
        /\ Len(all) = Len(p) + Len(new)
        /\ \A i \in 1 .. Len(p) : all[i] = p[i]
        /\ \A i \in 1 .. Len(new) : all[Len(p) + i] = new[i]
        /\ Begins(all, q) /\ Len(all) <= MaxPendingWrites
        /\ c.enabled => Len(all) = Room(q)
        /\ ~ c.enabled => new = <<>>
    BY <1>1, NextIs
  <1>4. r = StartWriteStream(sent)
    <2>1. c.pipeline = p /\ filled = [c EXCEPT !.pipeline = @ \o new,
                          !.idle = @ \/ (c.enabled /\ IsOpen(c) /\ c.pipeline \o new = <<>>)]
      BY DEF ClientType
    <2> QED
      BY <2>1 DEF FillWritePipeline
  <1>5. ws \in Seq(0 .. MaxWrites) /\ (ws = <<>> <=> new = <<>>)
    <2>1. ws \in Seq(0 .. MaxWrites) /\ Len(ws) = Len(new)
      BY <1>3, WritesOfIs
    <2> QED
      BY <1>3, <2>1, EmptySeq
  <1>6. (all = <<>> <=> p = <<>> /\ new = <<>>) /\ (new = <<>> => all = p)
    <2>1. /\ (all = <<>> <=> Len(all) = 0) /\ (p = <<>> <=> Len(p) = 0)
          /\ (new = <<>> <=> Len(new) = 0) /\ Len(new) \in Nat
      BY <1>2, <1>3, EmptySeq
    <2>2. new = <<>> => all = p
      BY <1>2, ConcatEmptySeq
    <2>3. Len(all) = 0 <=> Len(p) = 0 /\ Len(new) = 0
      BY <1>2, <1>3, <2>1
    <2> QED
      BY <2>1, <2>2, <2>3
  <1> HIDE DEF new, all, idle, ws, r
  <1>7. filled \in ClientType
    <2>1. idle \in BOOLEAN
      BY <1>2 DEF idle
    <2> QED
      BY <1>3, <2>1 DEF ClientType
  <1>8. /\ filled.enabled = c.enabled /\ filled.pipeline = all /\ filled.state = c.state
        /\ filled.ready = c.ready /\ filled.idle = idle /\ filled.call = c.call
        /\ filled.ask = c.ask /\ filled.main = c.main /\ filled.worker = c.worker
    BY DEF ClientType
  <1> HIDE DEF filled
  <1>9. /\ sent \in ClientType
        /\ sent.enabled = c.enabled /\ sent.pipeline = all /\ sent.state = c.state
        /\ sent.ready = c.ready /\ sent.ask = c.ask /\ sent.main = c.main
        /\ sent.worker = c.worker /\ sent.call.user = c.call.user /\ sent.call.in = c.call.in
        /\ (c.call.ended = "no" <=> sent.call.ended = "no")
        /\ sent.call.out = (IF c.ready /\ c.call.ended = "no" THEN c.call.out \o ws ELSE c.call.out)
        /\ (~ (IsOpen(c) /\ c.ready) => sent.call = c.call /\ sent.idle = idle)
        /\ (IsOpen(c) /\ c.ready => sent.idle = (idle /\ ws = <<>>))
    <2>1. CASE IsOpen(c) /\ c.ready
      <3>1. sent = Send(filled, ws)
        BY <2>1
      <3> HIDE DEF sent
      <3> QED
        <4>1. /\ sent \in ClientType
              /\ sent.enabled = filled.enabled /\ sent.pipeline = filled.pipeline
              /\ sent.state = filled.state /\ sent.ready = filled.ready
              /\ sent.ask = filled.ask /\ sent.main = filled.main
              /\ sent.worker = filled.worker
              /\ sent.call.user = filled.call.user /\ sent.call.in = filled.call.in
              /\ sent.idle = (filled.idle /\ ws = <<>>)
              /\ (filled.call.ended = "no" <=> sent.call.ended = "no")
              /\ sent.call.out = IF filled.call.ended = "no" THEN filled.call.out \o ws
                                 ELSE filled.call.out
          BY <1>5, <1>7, <3>1, SendIs
        <4> QED
          BY <1>8, <2>1, <4>1
    <2>2. CASE ~ (IsOpen(c) /\ c.ready)
      <3>1. sent = filled /\ ~ c.ready
        BY <1>1, <2>2 DEF StreamStands
      <3> HIDE DEF sent
      <3> QED
        BY <1>7, <1>8, <2>2, <3>1
    <2> QED
      BY <2>1, <2>2
  <1> HIDE DEF sent
  <1>10. (IsOpen(sent) <=> IsOpen(c)) /\ (IsStarted(sent) <=> IsStarted(c))
    BY <1>9 DEF IsOpen, IsStarted
  <1>11. StreamStands(sent)
    <2>1. sent.idle => IsOpen(c) /\ all = <<>>
      <3>1. CASE IsOpen(c) /\ c.ready
        BY <1>1, <1>5, <1>6, <1>9, <3>1 DEF idle, StreamStands
      <3>2. CASE ~ (IsOpen(c) /\ c.ready)
        <4>1. sent.idle => c.idle \/ (IsOpen(c) /\ all = <<>>)
          BY <1>9, <3>2 DEF idle
        <4>2. IsOpen(c) => IsStarted(c) /\ ~ c.ready
          BY <3>2 DEF IsOpen, IsStarted
        <4>3. c.idle => IsOpen(c) /\ p = <<>>
          BY <1>1 DEF StreamStands
        <4>4. IsOpen(c) => p # <<>>
          BY <1>1, <4>2 DEF StreamStands
        <4> QED
          BY <1>6, <4>1, <4>3, <4>4
      <3> QED
        BY <3>1, <3>2
    <2>2. ~ IsOpen(c) => sent.call = NoCall
      BY <1>1, <1>9 DEF StreamStands
    <2> QED
      BY <1>1, <1>6, <1>9, <1>10, <2>1, <2>2 DEF StreamStands
  <1>12. TokensPlaced(sent)
    BY <1>1, <1>9 DEF TokensPlaced
  <1>13. CallFits(sent, D)
    BY <1>1, <1>3, <1>9, FitsMore DEF StreamStands, ws
  <1>14. sent.enabled \/ sent.pipeline = <<>>
    BY <1>1, <1>3, <1>6, <1>9
  <1>15. /\ r \in ClientType
         /\ r.enabled = sent.enabled /\ r.pipeline = sent.pipeline /\ r.ready = sent.ready
         /\ r.call = sent.call /\ r.main = sent.main /\ r.worker = sent.worker
         /\ StreamStands(r) /\ TokensPlaced(r) /\ (r.pipeline # <<>> => IsStarted(r))
         /\ (IsOpen(r) <=> IsOpen(sent))
         /\ \A cur \in Users : TokenIsTheirs(sent, cur) => TokenIsTheirs(r, cur)
    BY <1>4, <1>9, <1>11, <1>12, <1>14, StartIs
  <1>16. CallFits(r, D)
    BY ZenonT(60), <1>13, <1>15 DEF CallFits
  <1>17. ClientStands(r, q, D)
    BY <1>3, <1>9, <1>14, <1>15, <1>16 DEF ClientStands, Fillable
  <1>18. ASSUME NEW cur \in Users, NEW auth \in Users, UserFollows(c, cur, auth)
         PROVE  UserFollows(r, cur, auth)
    BY <1>9, <1>15, <1>18 DEF UserFollows
  <1>19. ASSUME NEW cur \in Users, TokenIsTheirs(c, cur) PROVE TokenIsTheirs(r, cur)
    <2>1. TokenIsTheirs(sent, cur)
      BY <1>9, <1>10, <1>19 DEF TokenIsTheirs
    <2> QED
      BY <1>15, <2>1
  <1> QED
    BY <1>9, <1>15, <1>17, <1>18, <1>19 DEF r

-----------------------------------------------------------------------------
(* The network is enabled and disabled, and streams fail.                  *)

LEMMA EnableIs ==
  ASSUME NEW c \in ClientType, AtRest(c), c.pipeline = <<>>,
         NEW q \in Seq(BatchType), Ascending(q), NEW D
  PROVE  LET r == EnableNetwork(c, q)
         IN  /\ r \in ClientType /\ ClientStands(r, q, D) /\ ~ r.ready
             /\ \A cur, auth \in Users : UserFollows(c, cur, auth) => UserFollows(r, cur, auth)
             /\ \A cur \in Users : TokenIsTheirs(r, cur)
  <1> DEFINE e == [c EXCEPT !.enabled = TRUE]
             r == FillWritePipeline(e, q)
  <1>1. /\ e \in ClientType /\ e.enabled /\ e.pipeline = <<>> /\ e.state = c.state
        /\ e.ready = c.ready /\ e.idle = c.idle /\ e.call = c.call /\ e.ask = c.ask
        /\ e.main = c.main /\ e.worker = c.worker
    BY DEF ClientType
  <1> HIDE DEF e
  <1>2. AtRest(e) /\ ~ e.ready
    BY <1>1 DEF AtRest, IsStarted
  <1>3. /\ StreamStands(e) /\ TokensPlaced(e) /\ CallFits(e, D)
        /\ \A cur \in Users : TokenIsTheirs(e, cur)
    BY <1>1, <1>2, RestStands
  <1>4. Fillable(e, q, D)
    <2>1. Len(e.pipeline) = 0 /\ Len(q) \in Nat
      BY <1>1, SeqFacts
    <2>2. Begins(e.pipeline, q) /\ Len(e.pipeline) <= MaxPendingWrites
      BY <2>1, Constants DEF Begins
    <2> QED
      BY <1>1, <1>3, <2>2 DEF Fillable
  <1>5. /\ r \in ClientType /\ ClientStands(r, q, D) /\ r.ready = e.ready
        /\ \A cur, auth \in Users : UserFollows(e, cur, auth) => UserFollows(r, cur, auth)
        /\ \A cur \in Users : TokenIsTheirs(e, cur) => TokenIsTheirs(r, cur)
    BY <1>1, <1>4, FilledIs
  <1>6. EnableNetwork(c, q) = r
    BY DEF EnableNetwork, e
  <1> HIDE DEF r
  <1>7. \A cur, auth \in Users : UserFollows(c, cur, auth) => UserFollows(e, cur, auth)
    BY <1>1 DEF UserFollows
  <1> QED
    BY <1>2, <1>3, <1>5, <1>6, <1>7

(* A client at rest that wants nothing stands.                             *)
LEMMA RestIsStanding ==
  ASSUME NEW c \in ClientType, AtRest(c), ~ c.enabled, c.pipeline = <<>>,
         NEW q \in Seq(BatchType), NEW D
  PROVE  ClientStands(c, q, D) /\ \A cur \in Users : TokenIsTheirs(c, cur)
  <1>1. /\ StreamStands(c) /\ TokensPlaced(c) /\ CallFits(c, D)
        /\ \A cur \in Users : TokenIsTheirs(c, cur)
    BY RestStands
  <1>2. Len(c.pipeline) = 0 /\ Len(q) \in Nat
    BY SeqFacts
  <1>3. Begins(c.pipeline, q) /\ Len(c.pipeline) <= MaxPendingWrites
    BY <1>2, Constants DEF Begins
  <1> QED
    BY <1>1, <1>3 DEF ClientStands, Fillable

LEMMA DisableIs ==
  ASSUME NEW c \in ClientType, OneToken(c.main), OneToken(c.worker), IsStarted(c) \/ AtRest(c)
  PROVE  LET r == DisableNetwork(c)
         IN  /\ r \in ClientType /\ AtRest(r) /\ ~ r.enabled /\ r.pipeline = <<>>
             /\ \A cur, auth \in Users : UserFollows(c, cur, auth) => UserFollows(r, cur, auth)
  <1> DEFINE d == [c EXCEPT !.enabled = FALSE]
             s == Stop(d)
             r == [s EXCEPT !.pipeline = <<>>]
  <1>1. /\ d \in ClientType /\ ~ d.enabled /\ d.state = c.state
        /\ d.ready = c.ready /\ d.idle = c.idle /\ d.call = c.call /\ d.ask = c.ask
        /\ d.main = c.main /\ d.worker = c.worker
    BY DEF ClientType
  <1> HIDE DEF d
  <1>2. /\ OneToken(d.main) /\ OneToken(d.worker) /\ (IsStarted(d) \/ AtRest(d))
        /\ \A cur, auth \in Users : UserFollows(c, cur, auth) => UserFollows(d, cur, auth)
    BY <1>1 DEF AtRest, IsStarted, UserFollows
  <1>3. /\ s \in ClientType /\ AtRest(s) /\ s.enabled = d.enabled
        /\ \A cur, auth \in Users : UserFollows(d, cur, auth) => UserFollows(s, cur, auth)
    BY <1>1, <1>2, StopIs
  <1> HIDE DEF s
  <1>4. /\ r \in ClientType /\ r.enabled = s.enabled /\ r.pipeline = <<>> /\ r.state = s.state
        /\ r.ready = s.ready /\ r.idle = s.idle /\ r.call = s.call /\ r.ask = s.ask
        /\ r.main = s.main /\ r.worker = s.worker
    <2>1. <<>> \in Seq(BatchType)
      OBVIOUS
    <2> QED
      BY <1>3, <2>1 DEF ClientType
  <1>5. DisableNetwork(c) = r
    BY DEF DisableNetwork, s, d
  <1> HIDE DEF r
  <1>6. /\ AtRest(r)
        /\ \A cur, auth \in Users : UserFollows(s, cur, auth) => UserFollows(r, cur, auth)
    BY <1>3, <1>4 DEF AtRest, IsStarted, UserFollows
  <1> QED
    BY <1>1, <1>2, <1>3, <1>4, <1>5, <1>6

LEMMA ReconnectIs ==
  ASSUME NEW c \in ClientType, OneToken(c.main), OneToken(c.worker), IsStarted(c) \/ AtRest(c),
         ~ c.enabled => AtRest(c) /\ c.pipeline = <<>>,
         NEW q \in Seq(BatchType), Ascending(q), NEW D
  PROVE  LET r == Reconnect(c, q)
         IN  /\ r \in ClientType /\ ClientStands(r, q, D) /\ ~ r.ready
             /\ \A cur, auth \in Users : UserFollows(c, cur, auth) => UserFollows(r, cur, auth)
             /\ \A cur \in Users : TokenIsTheirs(r, cur)
  <1>1. CASE c.enabled
    <2> DEFINE d == DisableNetwork(c)
               r == EnableNetwork(d, q)
    <2>1. /\ d \in ClientType /\ AtRest(d) /\ d.pipeline = <<>>
          /\ \A cur, auth \in Users : UserFollows(c, cur, auth) => UserFollows(d, cur, auth)
      BY DisableIs
    <2> HIDE DEF d
    <2>2. /\ r \in ClientType /\ ClientStands(r, q, D) /\ ~ r.ready
          /\ \A cur, auth \in Users : UserFollows(d, cur, auth) => UserFollows(r, cur, auth)
          /\ \A cur \in Users : TokenIsTheirs(r, cur)
      BY <2>1, EnableIs
    <2>3. Reconnect(c, q) = r
      BY <1>1 DEF Reconnect, d
    <2> HIDE DEF r
    <2> QED
      BY <2>1, <2>2, <2>3
  <1>2. CASE ~ c.enabled
    <2>1. Reconnect(c, q) = c
      BY <1>2 DEF Reconnect
    <2>2. ClientStands(c, q, D) /\ \A cur \in Users : TokenIsTheirs(c, cur)
      BY <1>2, RestIsStanding
    <2>3. ~ c.ready
      BY <1>2 DEF AtRest
    <2> QED
      BY <2>1, <2>2, <2>3
  <1> QED
    BY <1>1, <1>2

LEMMA FailIs ==
  ASSUME NEW c \in ClientType, OneToken(c.main), OneToken(c.worker),
         NEW q \in Seq(BatchType), NEW D,
         Begins(c.pipeline, q), Len(c.pipeline) <= MaxPendingWrites,
         c.enabled => Len(c.pipeline) = Room(q), c.enabled \/ c.pipeline = <<>>
  PROVE  LET r == Fail(c)
         IN  /\ r \in ClientType /\ ClientStands(r, q, D) /\ ~ r.ready
             /\ \A cur, auth \in Users : UserFollows(c, cur, auth) => UserFollows(r, cur, auth)
             /\ \A cur \in Users : TokenIsTheirs(r, cur)
  <1> DEFINE e == Close(c, "Error")
             r == StartWriteStream(e)
  <1>1. /\ e \in ClientType /\ AtRest(e) /\ e.enabled = c.enabled /\ e.pipeline = c.pipeline
        /\ \A cur, auth \in Users : UserFollows(c, cur, auth) => UserFollows(e, cur, auth)
    <2>1. "Error" \in {"Initial", "Error"}
      OBVIOUS
    <2> QED
      BY <2>1, CloseIs
  <1> HIDE DEF e
  <1>2. /\ StreamStands(e) /\ TokensPlaced(e) /\ CallFits(e, D)
        /\ \A cur \in Users : TokenIsTheirs(e, cur)
    BY <1>1, RestStands
  <1>3. ~ e.ready
    BY <1>1 DEF AtRest
  <1>4. /\ r \in ClientType
        /\ r.enabled = e.enabled /\ r.pipeline = e.pipeline /\ r.ready = e.ready
        /\ r.call = e.call /\ r.main = e.main /\ r.worker = e.worker
        /\ StreamStands(r) /\ TokensPlaced(r) /\ (r.pipeline # <<>> => IsStarted(r))
        /\ (IsOpen(r) <=> IsOpen(e))
        /\ \A cur \in Users : TokenIsTheirs(e, cur) => TokenIsTheirs(r, cur)
    BY <1>1, <1>2, StartIs
  <1>5. Fail(c) = r
    BY DEF Fail, e
  <1> HIDE DEF r
  <1>6. CallFits(r, D)
    BY ZenonT(60), <1>2, <1>4 DEF CallFits
  <1>7. ClientStands(r, q, D)
    BY <1>1, <1>4, <1>6 DEF ClientStands, Fillable
  <1>8. \A cur, auth \in Users : UserFollows(e, cur, auth) => UserFollows(r, cur, auth)
    BY <1>4 DEF UserFollows
  <1> QED
    BY <1>1, <1>2, <1>3, <1>4, <1>5, <1>7, <1>8

LEMMA NewClientIs ==
  ASSUME NEW q \in Seq(BatchType), Ascending(q), NEW D
  PROVE  LET r == NewClient(q)
         IN  /\ r \in ClientType /\ ClientStands(r, q, D) /\ ~ r.ready
             /\ \A cur \in Users : UserFollows(r, cur, cur) /\ TokenIsTheirs(r, cur)
  <1> DEFINE c == [enabled |-> FALSE, pipeline |-> <<>>, state |-> "Initial", ready |-> FALSE,
                   idle |-> FALSE, call |-> NoCall, ask |-> NoAsk, main |-> <<>>,
                   worker |-> <<>>]
             r == EnableNetwork(c, q)
  <1>1. c \in ClientType
    <2>1. <<>> \in Seq(BatchType) /\ <<>> \in Seq(BlockType)
      OBVIOUS
    <2> QED
      BY <2>1, NoneTyped DEF ClientType
  <1>2. /\ c.pipeline = <<>> /\ c.main = <<>> /\ c.worker = <<>> /\ c.state = "Initial"
        /\ ~ c.ready /\ ~ c.idle /\ c.call = NoCall /\ c.ask = NoAsk
    OBVIOUS
  <1>3. NewClient(q) = r
    BY DEF NewClient
  <1> HIDE DEF c
  <1>4. AtRest(c)
    BY <1>2 DEF AtRest, IsStarted, NoAsk, NoToken
  <1>5. /\ r \in ClientType /\ ClientStands(r, q, D) /\ ~ r.ready
        /\ \A cur, auth \in Users : UserFollows(c, cur, auth) => UserFollows(r, cur, auth)
        /\ \A cur \in Users : TokenIsTheirs(r, cur)
    BY <1>1, <1>2, <1>4, EnableIs
  <1> HIDE DEF r
  <1>6. \A cur \in Users : UserFollows(c, cur, cur)
    BY <1>2 DEF UserFollows, Ends
  <1> QED
    BY <1>3, <1>5, <1>6

-----------------------------------------------------------------------------
(* The queues of mutations.                                                *)

CallbackType == [user : Users, id : Nat \ {0}, write : Writes]
LogType == [user : Users, write : Writes]

Typed ==
  /\ authUser \in Users /\ current \in Users
  /\ queue \in [Users -> Seq(BatchType)]
  /\ nextId \in Nat \ {0}
  /\ callbacks \subseteq CallbackType
  /\ waits \subseteq WaitType
  /\ log \in Seq(LogType)
  /\ denied \subseteq Writes
  /\ told \in [Writes -> {"nothing", "ok", "failed"}]
  /\ written \in 0 .. MaxWrites

(* Batches are numbered upwards, and a write is in one queue, once.        *)
QueuesStand ==
  /\ \A u \in Users : Ascending(queue[u])
  /\ \A u \in Users : \A i \in 1 .. Len(queue[u]) :
       queue[u][i].id <= written /\ queue[u][i].write <= written
  /\ \A u, v \in Users : \A i \in 1 .. Len(queue[u]) : \A j \in 1 .. Len(queue[v]) :
       queue[u][i].write = queue[v][j].write => u = v /\ i = j
  /\ \A i \in 1 .. Len(queue[current]) : queue[current][i].id < nextId
  /\ nextId <= written + 1

LEMMA QueueFacts ==
  ASSUME queue \in [Users -> Seq(BatchType)], NEW u \in Users
  PROVE  /\ queue[u] \in Seq(BatchType) /\ Len(queue[u]) \in Nat
         /\ \A i \in 1 .. Len(queue[u]) :
              /\ queue[u][i] \in BatchType /\ queue[u][i].id \in Nat /\ queue[u][i].id > 0
              /\ queue[u][i].write \in Writes
  <1>1. queue[u] \in Seq(BatchType)
    OBVIOUS
  <1>2. Len(queue[u]) \in Nat /\ \A i \in 1 .. Len(queue[u]) : queue[u][i] \in BatchType
    BY <1>1, SeqFacts
  <1> QED
    BY <1>1, <1>2 DEF BatchType

(* The next number of a batch is beyond those of all queues.               *)
LEMMA NextIdIs ==
  ASSUME queue \in [Users -> Seq(BatchType)], written \in Nat,
         \A u \in Users : \A i \in 1 .. Len(queue[u]) : queue[u][i].id <= written
  PROVE  LET n == LoadNextBatchId(queue)
         IN  /\ n \in Nat \ {0} /\ n <= written + 1
             /\ \A u \in Users : \A i \in 1 .. Len(queue[u]) : queue[u][i].id < n
  <1> DEFINE T == Ids(queue) \union {0}
             n == LoadNextBatchId(queue)
  <1>1. \A x \in Ids(queue) : \E u \in Users : \E i \in 1 .. Len(queue[u]) : x = queue[u][i].id
    <2>1. \A u \in Users : DOMAIN queue[u] = 1 .. Len(queue[u])
      BY QueueFacts, SeqFacts
    <2> QED
      BY <2>1 DEF Ids
  <1>2. \A u \in Users : \A i \in 1 .. Len(queue[u]) : queue[u][i].id \in Ids(queue)
    <2>1. \A u \in Users : DOMAIN queue[u] = 1 .. Len(queue[u])
      BY QueueFacts, SeqFacts
    <2> QED
      BY <2>1 DEF Ids
  <1>3. T \in SUBSET Nat /\ T # {} /\ \A x \in T : x <= written
    BY <1>1, QueueFacts
  <1>4. Max(T) \in T /\ \A y \in T : y <= Max(T)
    BY <1>3, MaxNat
  <1>5. n = Max(T) + 1
    BY DEF LoadNextBatchId
  <1>6. \A u \in Users : \A i \in 1 .. Len(queue[u]) : queue[u][i].id \in T
    BY <1>2
  <1> HIDE DEF T, n
  <1>7. Max(T) \in Nat /\ Max(T) <= written
    BY <1>3, <1>4
  <1>8. n \in Nat \ {0} /\ n <= written + 1
    BY <1>5, <1>7
  <1>9. ASSUME NEW u \in Users, NEW i \in 1 .. Len(queue[u]) PROVE queue[u][i].id < n
    <2>1. queue[u][i].id <= Max(T) /\ queue[u][i].id \in Nat
      BY <1>4, <1>6, QueueFacts
    <2> QED
      BY <1>5, <1>7, <2>1
  <1> QED
    BY <1>8, <1>9 DEF n

(* The queue without its first batch.                                      *)
LEMMA TailIs ==
  ASSUME NEW q \in Seq(BatchType), q # <<>>, Ascending(q)
  PROVE  /\ Tail(q) \in Seq(BatchType) /\ Len(Tail(q)) = Len(q) - 1 /\ Len(q) >= 1
         /\ Len(q) \in Nat /\ Len(Tail(q)) \in Nat
         /\ \A i \in 1 .. Len(Tail(q)) : i + 1 \in 1 .. Len(q) /\ Tail(q)[i] = q[i + 1]
         /\ Head(q) = q[1] /\ Head(q) \in BatchType
         /\ Ascending(Tail(q))
  <1> DEFINE r == Tail(q)
  <1>1. /\ r \in Seq(BatchType) /\ Len(r) = Len(q) - 1 /\ Len(q) >= 1 /\ Len(q) \in Nat
        /\ Len(r) \in Nat /\ Head(q) = q[1] /\ Head(q) \in BatchType
        /\ \A i \in 1 .. Len(r) : r[i] = q[i + 1]
    BY HeadTailProperties, SeqFacts, EmptySeq
  <1> HIDE DEF r
  <1>2. \A i \in 1 .. Len(r) : i + 1 \in 1 .. Len(q)
    BY <1>1
  <1>3. Ascending(r)
    <2> SUFFICES ASSUME NEW i \in 1 .. Len(r), NEW j \in 1 .. Len(r), i < j
                 PROVE  r[i].id < r[j].id
      BY DEF Ascending
    <2>1. i + 1 < j + 1
      BY <1>1
    <2> QED
      BY <1>1, <1>2, <2>1 DEF Ascending
  <1> QED
    BY <1>1, <1>2, <1>3 DEF r

(* A batch leaves the front of the current user's queue.                   *)
LEMMA QueuesSettle ==
  ASSUME Typed, QueuesStand, queue[current] # <<>>,
         queue' = [queue EXCEPT ![current] = Tail(@)],
         UNCHANGED <<current, nextId, written>>
  PROVE  queue' \in [Users -> Seq(BatchType)] /\ QueuesStand'
  <1> DEFINE old(u, i) == IF u = current THEN i + 1 ELSE i
  <1>1. /\ queue \in [Users -> Seq(BatchType)] /\ current \in Users
        /\ \A u \in Users : Ascending(queue[u])
    BY DEF Typed, QueuesStand
  <1>2. /\ queue[current] \in Seq(BatchType)
        /\ Tail(queue[current]) \in Seq(BatchType) /\ Ascending(Tail(queue[current]))
        /\ Len(Tail(queue[current])) \in Nat
        /\ \A i \in 1 .. Len(Tail(queue[current])) :
              i + 1 \in 1 .. Len(queue[current]) /\ Tail(queue[current])[i] = queue[current][i + 1]
    BY <1>1, QueueFacts, TailIs
  <1>3. /\ queue' \in [Users -> Seq(BatchType)] /\ queue'[current] = Tail(queue[current])
        /\ \A u \in Users : u # current => queue'[u] = queue[u]
    BY <1>1, <1>2
  <1>4. ASSUME NEW u \in Users
        PROVE  /\ Ascending(queue'[u])
               /\ \A i \in 1 .. Len(queue'[u]) :
                     old(u, i) \in 1 .. Len(queue[u]) /\ queue'[u][i] = queue[u][old(u, i)]
    <2>1. CASE u = current
      BY <1>2, <1>3, <2>1
    <2>2. CASE u # current
      BY <1>1, <1>3, <2>2
    <2> QED
      BY <2>1, <2>2
  <1>5. \A u, v \in Users : \A i \in 1 .. Len(queue'[u]) : \A j \in 1 .. Len(queue'[v]) :
          u = v /\ old(u, i) = old(v, j) => i = j
    OBVIOUS
  <1>6. current' = current /\ nextId' = nextId /\ written' = written
    OBVIOUS
  <1> HIDE DEF old
  <1>7. \A u, v \in Users : \A i \in 1 .. Len(queue'[u]) : \A j \in 1 .. Len(queue'[v]) :
          queue'[u][i].write = queue'[v][j].write => u = v /\ i = j
    <2> SUFFICES ASSUME NEW u \in Users, NEW v \in Users,
                        NEW i \in 1 .. Len(queue'[u]), NEW j \in 1 .. Len(queue'[v]),
                        queue'[u][i].write = queue'[v][j].write
                 PROVE  u = v /\ i = j
      OBVIOUS
    <2>1. u = v /\ old(u, i) = old(v, j)
      BY SMTT(30), <1>4 DEF QueuesStand
    <2> QED
      BY <1>5, <2>1
  <1>8. /\ \A u \in Users : \A i \in 1 .. Len(queue'[u]) :
             queue'[u][i].id <= written /\ queue'[u][i].write <= written
        /\ \A i \in 1 .. Len(queue'[current]) : queue'[current][i].id < nextId
    BY <1>1, <1>4 DEF QueuesStand
  <1>9. nextId <= written + 1
    BY DEF QueuesStand
  <1> QED
    BY <1>3, <1>4, <1>6, <1>7, <1>8, <1>9 DEF QueuesStand

(* A batch is added to the end of the current user's queue.                *)
LEMMA QueuesWrite ==
  ASSUME Typed, QueuesStand, written < MaxWrites, written' = written + 1,
         queue' = [queue EXCEPT ![current] = Append(@, Batch(nextId, written'))],
         nextId' = nextId + 1, current' = current
  PROVE  /\ queue' \in [Users -> Seq(BatchType)] /\ QueuesStand'
         /\ written' \in Writes /\ written' \in 0 .. MaxWrites
         /\ queue'[current] = Append(queue[current], Batch(nextId, written'))
         /\ Batch(nextId, written') \in BatchType
         /\ \A u \in Users : u # current => queue'[u] = queue[u]
  <1> DEFINE b == Batch(nextId, written')
             q == queue[current]
             n == Len(q)
  <1>1. /\ queue \in [Users -> Seq(BatchType)] /\ current \in Users
        /\ written \in Nat /\ nextId \in Nat /\ nextId > 0
        /\ written' \in Nat /\ written' \in Writes /\ written' \in 0 .. MaxWrites
    BY Constants DEF Typed, Writes
  <1>2. b \in BatchType /\ b.id = nextId /\ b.write = written'
    BY <1>1 DEF Batch, BatchType
  <1>3. q \in Seq(BatchType) /\ n \in Nat
    BY <1>1, QueueFacts
  <1> HIDE DEF b
  <1>4. /\ Append(q, b) \in Seq(BatchType) /\ Len(Append(q, b)) = n + 1
        /\ Append(q, b)[n + 1] = b /\ \A i \in 1 .. n : Append(q, b)[i] = q[i]
    BY <1>2, <1>3, AppendProperties
  <1>5. queue' = [queue EXCEPT ![current] = Append(q, b)]
    BY DEF b
  <1>6. /\ queue' \in [Users -> Seq(BatchType)] /\ queue'[current] = Append(q, b)
        /\ \A u \in Users : u # current => queue'[u] = queue[u]
    BY <1>1, <1>4, <1>5
  <1>7. \A u \in Users : \A i \in 1 .. Len(queue'[u]) :
          \/ i \in 1 .. Len(queue[u]) /\ queue'[u][i] = queue[u][i]
          \/ u = current /\ i = n + 1 /\ queue'[u][i] = b
    <2> SUFFICES ASSUME NEW u \in Users, NEW i \in 1 .. Len(queue'[u])
                 PROVE  \/ i \in 1 .. Len(queue[u]) /\ queue'[u][i] = queue[u][i]
                        \/ u = current /\ i = n + 1 /\ queue'[u][i] = b
      OBVIOUS
    <2>1. CASE u = current
      <3>1. i \in 1 .. n + 1
        BY <1>4, <1>6, <2>1
      <3>2. i \in 1 .. n \/ i = n + 1
        BY <1>3, <3>1
      <3> QED
        BY <1>4, <1>6, <2>1, <3>2
    <2>2. CASE u # current
      BY <1>6, <2>2
    <2> QED
      BY <2>1, <2>2
  <1>8. \A u \in Users : \A i \in 1 .. Len(queue[u]) :
          /\ queue[u][i].id \in Nat /\ queue[u][i].write \in Nat
          /\ queue[u][i].id < written' /\ queue[u][i].write < written'
    <2> SUFFICES ASSUME NEW u \in Users, NEW i \in 1 .. Len(queue[u])
                 PROVE  /\ queue[u][i].id \in Nat /\ queue[u][i].write \in Nat
                        /\ queue[u][i].id < written' /\ queue[u][i].write < written'
      OBVIOUS
    <2>1. queue[u][i].id \in Nat /\ queue[u][i].write \in Nat
      BY <1>1, QueueFacts, Constants
    <2>2. queue[u][i].id <= written /\ queue[u][i].write <= written
      BY DEF QueuesStand
    <2> QED
      BY <1>1, <2>1, <2>2
  <1>9. nextId <= written' /\ nextId < nextId' /\ nextId' <= written' + 1
    BY <1>1 DEF QueuesStand
  <1>10. \A i \in 1 .. n : q[i].id < nextId
    BY DEF QueuesStand
  <1>11. \A u \in Users : Ascending(queue'[u])
    <2> SUFFICES ASSUME NEW u \in Users, NEW i \in 1 .. Len(queue'[u]),
                        NEW j \in 1 .. Len(queue'[u]), i < j
                 PROVE  queue'[u][i].id < queue'[u][j].id
      BY DEF Ascending
    <2>1. CASE i \in 1 .. Len(queue[u]) /\ j \in 1 .. Len(queue[u])
      <3>1. queue'[u][i] = queue[u][i] /\ queue'[u][j] = queue[u][j]
        <4>1. n + 1 \notin 1 .. n
          BY <1>3
        <4> QED
          BY <1>7, <2>1, <4>1
      <3> QED
        BY <2>1, <3>1 DEF QueuesStand, Ascending
    <2>2. CASE j \notin 1 .. Len(queue[u])
      <3>1. u = current /\ j = n + 1 /\ queue'[u][j] = b
        BY <1>7, <2>2
      <3>2. i \in 1 .. n /\ queue'[u][i] = q[i]
        <4>1. i # n + 1
          BY <1>3, <3>1
        <4> QED
          BY <1>7, <3>1, <4>1
      <3> QED
        BY <1>2, <1>10, <3>1, <3>2
    <2>3. CASE i \notin 1 .. Len(queue[u])
      <3>1. u = current /\ i = n + 1
        BY <1>7, <2>3
      <3>2. j \in 1 .. n + 1
        BY <1>4, <1>6, <3>1
      <3> QED
        BY <1>3, <3>1, <3>2
    <2> QED
      BY <2>1, <2>2, <2>3
  <1>12. ASSUME NEW u \in Users, NEW i \in 1 .. Len(queue'[u])
         PROVE  queue'[u][i].id <= written' /\ queue'[u][i].write <= written'
    <2>1. CASE i \in 1 .. Len(queue[u]) /\ queue'[u][i] = queue[u][i]
      BY <1>1, <1>8, <2>1
    <2>2. CASE queue'[u][i] = b
      BY <1>1, <1>2, <1>9, <2>2
    <2> QED
      BY <1>7, <2>1, <2>2
  <1>13. ASSUME NEW u \in Users, NEW v \in Users,
                NEW i \in 1 .. Len(queue'[u]), NEW j \in 1 .. Len(queue'[v]),
                queue'[u][i].write = queue'[v][j].write
         PROVE  u = v /\ i = j
    <2>1. CASE i \in 1 .. Len(queue[u]) /\ queue'[u][i] = queue[u][i]
      <3>1. queue'[v][j] # b
        <4>1. queue[u][i].write \in Nat /\ queue[u][i].write < written'
          BY <1>8, <2>1
        <4>2. queue[u][i].write # written'
          BY <1>1, <4>1
        <4> QED
          BY <1>2, <1>13, <2>1, <4>2
      <3>2. j \in 1 .. Len(queue[v]) /\ queue'[v][j] = queue[v][j]
        BY <1>7, <3>1
      <3> QED
        BY <1>13, <2>1, <3>2 DEF QueuesStand
    <2>2. CASE u = current /\ i = n + 1 /\ queue'[u][i] = b
      <3>1. ~ (j \in 1 .. Len(queue[v]) /\ queue'[v][j] = queue[v][j])
        BY <1>1, <1>2, <1>8, <1>13, <2>2
      <3> QED
        BY <1>7, <2>2, <3>1
    <2> QED
      BY <1>7, <2>1, <2>2
  <1>14. ASSUME NEW i \in 1 .. Len(queue'[current]) PROVE queue'[current][i].id < nextId'
    <2>1. CASE i \in 1 .. Len(queue[current]) /\ queue'[current][i] = queue[current][i]
      BY <1>1, <1>8, <1>9, <1>10, <2>1
    <2>2. CASE queue'[current][i] = b
      BY <1>2, <1>9, <2>2
    <2> QED
      BY <1>1, <1>7, <2>1, <2>2
  <1>15. QueuesStand'
    BY <1>9, <1>11, <1>12, <1>13, <1>14 DEF QueuesStand
  <1> QED
    BY <1>1, <1>2, <1>6, <1>15 DEF b

(* The queues stay, and the numbering begins anew beyond them.             *)
LEMMA QueuesMove ==
  ASSUME Typed, QueuesStand, UNCHANGED <<queue, written>>, current' \in Users,
         nextId' = LoadNextBatchId(queue) \/ UNCHANGED <<current, nextId>>
  PROVE  QueuesStand' /\ nextId' \in Nat \ {0}
  <1>1. queue \in [Users -> Seq(BatchType)] /\ written \in Nat
    BY Constants DEF Typed
  <1>2. CASE nextId' = LoadNextBatchId(queue)
    <2> DEFINE n == LoadNextBatchId(queue)
    <2>1. /\ n \in Nat \ {0} /\ n <= written + 1
          /\ \A u \in Users : \A i \in 1 .. Len(queue[u]) : queue[u][i].id < n
      BY <1>1, NextIdIs DEF QueuesStand
    <2> HIDE DEF n
    <2>2. nextId' = n
      BY <1>2 DEF n
    <2> QED
      BY <2>1, <2>2 DEF QueuesStand
  <1>3. CASE UNCHANGED <<current, nextId>>
    BY <1>3 DEF QueuesStand, Typed
  <1> QED
    BY <1>2, <1>3

-----------------------------------------------------------------------------
(* The steps of the client.                                                *)

(* The client stands, for the user cur of SyncEngine and the user auth of  *)
(* Auth.                                                                   *)
Stands(c, q, D, cur, auth) ==
  /\ c \in ClientType /\ q \in Seq(BatchType) /\ Ascending(q)
  /\ ClientStands(c, q, D)
  /\ UserFollows(c, cur, auth) /\ TokenIsTheirs(c, cur)

LEMMA StandFacts ==
  ASSUME NEW c, NEW q, NEW D, NEW cur \in Users, NEW auth \in Users,
         Stands(c, q, D, cur, auth)
  PROVE  /\ c \in ClientType /\ c.main \in Seq(BlockType) /\ c.worker \in Seq(BlockType)
         /\ c.call \in CallType /\ c.ask \in AskType /\ c.pipeline \in Seq(BatchType)
         /\ c.call.in \in Seq(0 .. MaxWrites) /\ c.call.out \in Seq(0 .. MaxWrites)
         /\ c.call.ended \in {"no", "ended", "cut", "failing"}
         /\ q \in Seq(BatchType) /\ Ascending(q)
         /\ StreamStands(c) /\ TokensPlaced(c) /\ CallFits(c, D)
         /\ OneToken(c.main) /\ OneToken(c.worker)
         /\ Begins(c.pipeline, q) /\ Len(c.pipeline) <= MaxPendingWrites
         /\ (c.enabled \/ c.pipeline = <<>>)
         /\ (c.enabled => Len(c.pipeline) = Room(q))
         /\ (c.pipeline # <<>> => IsStarted(c))
         /\ UserFollows(c, cur, auth) /\ TokenIsTheirs(c, cur)
         /\ (IsStarted(c) \/ AtRest(c))
         /\ (~ c.enabled => AtRest(c) /\ c.pipeline = <<>>)
         /\ (IsOpen(c) => IsStarted(c))
         /\ (~ IsOpen(c) => c.call.in = <<>> /\ c.call.out = <<>> /\ c.call.ended = "no")
  <1>1. /\ c \in ClientType /\ c.main \in Seq(BlockType) /\ c.worker \in Seq(BlockType)
        /\ c.call \in CallType /\ c.ask \in AskType /\ c.pipeline \in Seq(BatchType)
        /\ q \in Seq(BatchType) /\ Ascending(q)
    BY DEF Stands, ClientType
  <1>2. /\ c.call.in \in Seq(0 .. MaxWrites) /\ c.call.out \in Seq(0 .. MaxWrites)
        /\ c.call.ended \in {"no", "ended", "cut", "failing"}
    BY <1>1 DEF CallType
  <1>3. /\ StreamStands(c) /\ TokensPlaced(c) /\ CallFits(c, D)
        /\ Begins(c.pipeline, q) /\ Len(c.pipeline) <= MaxPendingWrites
        /\ (c.enabled \/ c.pipeline = <<>>)
        /\ (c.enabled => Len(c.pipeline) = Room(q))
        /\ (c.pipeline # <<>> => IsStarted(c))
        /\ UserFollows(c, cur, auth) /\ TokenIsTheirs(c, cur)
    BY DEF Stands, ClientStands, Fillable
  <1>4. OneToken(c.main) /\ OneToken(c.worker)
    BY <1>3 DEF TokensPlaced
  <1>5. IsStarted(c) \/ AtRest(c)
    BY <1>1, <1>3, RestsUnlessStarted
  <1>6. IsOpen(c) => IsStarted(c)
    BY DEF IsOpen, IsStarted
  <1>7. ~ c.enabled => AtRest(c) /\ c.pipeline = <<>>
    BY <1>3, <1>5 DEF StreamStands
  <1>8. ~ IsOpen(c) => c.call.in = <<>> /\ c.call.out = <<>> /\ c.call.ended = "no"
    BY <1>3 DEF StreamStands, NoCall
  <1> QED
    BY <1>1, <1>2, <1>3, <1>4, <1>5, <1>6, <1>7, <1>8

(* What happens to the blocks and the token alone leaves the stream as it  *)
(* is.                                                                     *)
LEMMA SameStands ==
  ASSUME NEW c, NEW r, NEW q, NEW D, ClientStands(c, q, D),
         r.enabled = c.enabled, r.pipeline = c.pipeline, r.state = c.state,
         r.ready = c.ready, r.idle = c.idle, r.call = c.call,
         r.ask.stage = "none" <=> c.ask.stage = "none",
         TokensPlaced(r)
  PROVE  ClientStands(r, q, D) /\ (IsOpen(r) <=> IsOpen(c))
  <1>1. /\ IsOpen(r) <=> IsOpen(c)
        /\ IsStarted(r) <=> IsStarted(c)
    BY DEF IsOpen, IsStarted
  <1>2. StreamStands(c) /\ CallFits(c, D)
    BY DEF ClientStands, Fillable
  <1>3. StreamStands(r)
    BY <1>1, <1>2 DEF StreamStands
  <1>4. CallFits(r, D)
    BY ZenonT(60), <1>1, <1>2 DEF CallFits
  <1> QED
    BY <1>1, <1>3, <1>4 DEF ClientStands, Fillable

(* A batch is added to the queue; the backend may refuse it.               *)
LEMMA WriteStands ==
  ASSUME NEW c, NEW q, NEW D, NEW cur \in Users, NEW auth \in Users,
         Stands(c, q, D, cur, auth), NEW b \in BatchType, NEW E, D \subseteq E,
         Ascending(Append(q, b))
  PROVE  /\ Stands(FillWritePipeline(c, Append(q, b)), Append(q, b), E, cur, auth)
         /\ FillWritePipeline(c, Append(q, b)).ready = c.ready
         /\ FillWritePipeline(c, Append(q, b)).call.in = c.call.in
  <1> DEFINE r == Append(q, b)
             f == FillWritePipeline(c, r)
             p == c.pipeline
  <1>1. /\ c \in ClientType /\ p \in Seq(BatchType) /\ q \in Seq(BatchType)
        /\ StreamStands(c) /\ TokensPlaced(c) /\ CallFits(c, D) /\ Begins(p, q)
        /\ Len(p) <= MaxPendingWrites /\ (c.enabled \/ p = <<>>)
        /\ UserFollows(c, cur, auth) /\ TokenIsTheirs(c, cur)
    BY StandFacts
  <1>2. /\ r \in Seq(BatchType) /\ Len(r) = Len(q) + 1 /\ Len(q) \in Nat /\ Len(p) \in Nat
        /\ \A i \in 1 .. Len(q) : r[i] = q[i]
    BY <1>1, AppendProperties, SeqFacts
  <1> HIDE DEF r, p
  <1>3. Begins(p, r)
    <2>1. Len(p) <= Len(q) /\ \A i \in 1 .. Len(p) : p[i] = q[i]
      BY <1>1 DEF Begins
    <2>2. Len(p) <= Len(r) /\ 1 .. Len(p) \subseteq 1 .. Len(q)
      BY <1>2, <2>1
    <2> QED
      BY <1>2, <2>1, <2>2 DEF Begins
  <1>4. CallFits(c, E)
    BY <1>1 DEF CallFits
  <1>5. Fillable(c, r, E) /\ Ascending(r)
    BY <1>1, <1>3, <1>4 DEF Fillable, p, r
  <1>6. /\ f \in ClientType /\ ClientStands(f, r, E)
        /\ f.enabled = c.enabled /\ f.ready = c.ready /\ f.call.in = c.call.in
        /\ UserFollows(f, cur, auth) /\ TokenIsTheirs(f, cur)
    BY <1>1, <1>2, <1>5, FilledIs
  <1> QED
    BY <1>2, <1>5, <1>6 DEF Stands, r

(* Auth announces u.                                                       *)
LEMMA AnnounceStands ==
  ASSUME NEW c, NEW q, NEW D, NEW cur \in Users, NEW auth \in Users,
         Stands(c, q, D, cur, auth), NEW u \in Users
  PROVE  Stands([c EXCEPT !.main = Append(@, Change(u))], q, D, cur, u)
  <1> DEFINE main == Append(c.main, Change(u))
             r == [c EXCEPT !.main = main]
  <1>1. /\ c \in ClientType /\ c.main \in Seq(BlockType) /\ OneToken(c.main)
        /\ StreamStands(c) /\ TokensPlaced(c) /\ TokenIsTheirs(c, cur)
    BY StandFacts
  <1>2. Change(u) \in BlockType /\ IsChange(Change(u)) /\ Change(u).user = u
    BY Blocks
  <1>3. /\ main \in Seq(BlockType) /\ ~ Quiet(main) /\ Ends(main, u) /\ OneToken(main)
        /\ (NoToken(c.main) => NoToken(main)) /\ (TokenFirst(main) => TokenFirst(c.main))
    BY <1>1, <1>2, BlockAppended
  <1> HIDE DEF main
  <1>4. /\ r \in ClientType /\ r.main = main
        /\ r.enabled = c.enabled /\ r.pipeline = c.pipeline /\ r.state = c.state
        /\ r.ready = c.ready /\ r.idle = c.idle /\ r.call = c.call /\ r.ask = c.ask
        /\ r.worker = c.worker
    BY <1>1, <1>3 DEF ClientType
  <1>5. [c EXCEPT !.main = Append(@, Change(u))] = r
    BY <1>1 DEF ClientType, main
  <1> HIDE DEF r
  <1>6. TokensPlaced(r)
    BY <1>1, <1>3, <1>4 DEF TokensPlaced
  <1>7. ClientStands(r, q, D) /\ (IsOpen(r) <=> IsOpen(c))
    BY <1>4, <1>6, SameStands DEF Stands
  <1>8. UserFollows(r, cur, u)
    BY <1>3, <1>4 DEF UserFollows
  <1>9. TokenIsTheirs(r, cur)
    BY <1>1, <1>3, <1>4, <1>7 DEF TokenIsTheirs
  <1> QED
    BY <1>4, <1>5, <1>7, <1>8, <1>9 DEF Stands

(* The token is fetched, for the user of the moment, or is not.            *)
LEMMA FetchStands ==
  ASSUME NEW c, NEW q, NEW D, NEW cur \in Users, NEW auth \in Users,
         Stands(c, q, D, cur, auth), c.ask.stage = "asked",
         NEW ask \in AskType, ask.stage = "fetched", ask.ok => ask.user = auth
  PROVE  Stands([c EXCEPT !.ask = ask], q, D, cur, auth)
  <1> DEFINE r == [c EXCEPT !.ask = ask]
  <1>1. /\ c \in ClientType /\ StreamStands(c) /\ TokensPlaced(c)
        /\ UserFollows(c, cur, auth) /\ TokenIsTheirs(c, cur)
    BY StandFacts
  <1>2. /\ r \in ClientType /\ r.ask = ask
        /\ r.enabled = c.enabled /\ r.pipeline = c.pipeline /\ r.state = c.state
        /\ r.ready = c.ready /\ r.idle = c.idle /\ r.call = c.call
        /\ r.main = c.main /\ r.worker = c.worker
    BY <1>1 DEF ClientType
  <1> HIDE DEF r
  <1>3. TokensPlaced(r)
    BY <1>1, <1>2 DEF TokensPlaced
  <1>4. ClientStands(r, q, D) /\ (IsOpen(r) <=> IsOpen(c))
    BY <1>2, <1>3, SameStands DEF Stands
  <1>5. UserFollows(r, cur, auth)
    BY <1>1, <1>2 DEF UserFollows
  <1>6. TokenIsTheirs(r, cur)
    BY <1>1, <1>2, <1>4 DEF TokenIsTheirs, UserFollows
  <1> QED
    BY <1>2, <1>4, <1>5, <1>6 DEF Stands, r

(* The token is on its way to the main queue.                              *)
LEMMA DispatchStands ==
  ASSUME NEW c, NEW q, NEW D, NEW cur \in Users, NEW auth \in Users,
         Stands(c, q, D, cur, auth), c.ask.stage = "fetched"
  PROVE  Stands([c EXCEPT !.ask.stage = "main", !.main = Append(@, Token)], q, D, cur, auth)
  <1> DEFINE main == Append(c.main, Token)
             ask == [c.ask EXCEPT !.stage = "main"]
             r == [c EXCEPT !.ask = ask, !.main = main]
  <1>1. /\ c \in ClientType /\ c.main \in Seq(BlockType) /\ c.ask \in AskType
        /\ StreamStands(c) /\ TokensPlaced(c)
        /\ UserFollows(c, cur, auth) /\ TokenIsTheirs(c, cur)
    BY StandFacts
  <1>2. NoToken(c.main) /\ NoToken(c.worker) /\ OneToken(c.worker)
    BY <1>1 DEF TokensPlaced
  <1>3. /\ main \in Seq(BlockType) /\ (Quiet(main) <=> Quiet(c.main))
        /\ (\A v \in Users : Ends(c.main, v) => Ends(main, v))
        /\ OneToken(main) /\ (TokenFirst(main) => Quiet(c.main))
    BY <1>1, <1>2, Blocks, BlockAppended
  <1>4. /\ ask \in AskType /\ ask.stage = "main" /\ ask.user = c.ask.user
        /\ ask.ok = c.ask.ok /\ ask.fresh = c.ask.fresh
    BY <1>1 DEF AskType
  <1>5. [c EXCEPT !.ask.stage = "main", !.main = Append(@, Token)] = r
    BY <1>1 DEF ClientType, main, ask
  <1> HIDE DEF main, ask
  <1>6. /\ r \in ClientType /\ r.main = main /\ r.ask = ask
        /\ r.enabled = c.enabled /\ r.pipeline = c.pipeline /\ r.state = c.state
        /\ r.ready = c.ready /\ r.idle = c.idle /\ r.call = c.call
        /\ r.worker = c.worker
    BY <1>1, <1>3, <1>4 DEF ClientType
  <1> HIDE DEF r
  <1>7. TokensPlaced(r)
    BY <1>2, <1>3, <1>4, <1>6 DEF TokensPlaced
  <1>8. ClientStands(r, q, D) /\ (IsOpen(r) <=> IsOpen(c))
    BY <1>4, <1>6, <1>7, SameStands DEF Stands
  <1>9. UserFollows(r, cur, auth)
    BY <1>1, <1>3, <1>6 DEF UserFollows
  <1>10. TokenIsTheirs(r, cur)
    BY <1>1, <1>3, <1>4, <1>6, <1>8 DEF TokenIsTheirs
  <1> QED
    BY <1>5, <1>6, <1>8, <1>9, <1>10 DEF Stands

(* The credentials provider passes an announcement on.                     *)
LEMMA PassedStands ==
  ASSUME NEW c, NEW q, NEW D, NEW cur \in Users, NEW auth \in Users,
         Stands(c, q, D, cur, auth), c.main # <<>>, IsChange(Head(c.main))
  PROVE  Stands([c EXCEPT !.main = Tail(@), !.ask.fresh = FALSE,
                          !.worker = Append(@, Head(c.main))], q, D, cur, auth)
  <1> DEFINE main == Tail(c.main)
             worker == Append(c.worker, Head(c.main))
             ask == [c.ask EXCEPT !.fresh = FALSE]
             r == [c EXCEPT !.main = main, !.ask = ask, !.worker = worker]
  <1>1. /\ c \in ClientType /\ c.main \in Seq(BlockType) /\ c.worker \in Seq(BlockType)
        /\ c.ask \in AskType /\ TokensPlaced(c) /\ OneToken(c.main) /\ OneToken(c.worker)
        /\ UserFollows(c, cur, auth) /\ TokenIsTheirs(c, cur)
    BY StandFacts
  <1>2. /\ main \in Seq(BlockType) /\ Head(c.main) \in BlockType /\ OneToken(main)
        /\ (NoToken(c.main) => NoToken(main))
        /\ (\A v \in Users : Ends(c.main, v) => Ends(main, v))
        /\ \A v \in Users : Ends(c.main, v) /\ Quiet(main) => Head(c.main).user = v
    BY <1>1, BlockTaken
  <1>3. /\ worker \in Seq(BlockType) /\ ~ Quiet(worker) /\ Ends(worker, Head(c.main).user)
        /\ OneToken(worker) /\ (NoToken(c.worker) => NoToken(worker))
        /\ (TokenFirst(worker) => TokenFirst(c.worker))
    BY <1>1, <1>2, BlockAppended
  <1>4. /\ ask \in AskType /\ ask.stage = c.ask.stage /\ ask.user = c.ask.user
        /\ ask.ok = c.ask.ok /\ ~ ask.fresh
    BY <1>1 DEF AskType
  <1>5. [c EXCEPT !.main = Tail(@), !.ask.fresh = FALSE, !.worker = Append(@, Head(c.main))] = r
    BY <1>1 DEF ClientType, main, ask, worker
  <1> HIDE DEF main, ask, worker
  <1>6. /\ r \in ClientType /\ r.main = main /\ r.ask = ask /\ r.worker = worker
        /\ r.enabled = c.enabled /\ r.pipeline = c.pipeline /\ r.state = c.state
        /\ r.ready = c.ready /\ r.idle = c.idle /\ r.call = c.call
    BY <1>1, <1>2, <1>3, <1>4 DEF ClientType
  <1> HIDE DEF r
  <1>7. TokensPlaced(r)
    BY <1>1, <1>2, <1>3, <1>4, <1>6 DEF TokensPlaced
  <1>8. ClientStands(r, q, D) /\ (IsOpen(r) <=> IsOpen(c))
    BY <1>4, <1>6, <1>7, SameStands DEF Stands
  <1>9. UserFollows(r, cur, auth)
    BY <1>1, <1>2, <1>3, <1>6 DEF UserFollows
  <1>10. TokenIsTheirs(r, cur)
    BY <1>1, <1>3, <1>4, <1>6, <1>8 DEF TokenIsTheirs
  <1> QED
    BY <1>5, <1>6, <1>8, <1>9, <1>10 DEF Stands

(* The credentials provider passes the token on.                           *)
LEMMA AnsweredStands ==
  ASSUME NEW c, NEW q, NEW D, NEW cur \in Users, NEW auth \in Users,
         Stands(c, q, D, cur, auth), c.main # <<>>, ~ IsChange(Head(c.main))
  PROVE  Stands([c EXCEPT !.main = Tail(@), !.ask.stage = "worker",
                          !.ask.ok = @ /\ c.ask.fresh,
                          !.worker = Append(@, Token)], q, D, cur, auth)
  <1> DEFINE main == Tail(c.main)
             worker == Append(c.worker, Token)
             ok == c.ask.ok /\ c.ask.fresh
             ask == [c.ask EXCEPT !.stage = "worker", !.ok = ok]
             r == [c EXCEPT !.main = main, !.ask = ask, !.worker = worker]
  <1>1. /\ c \in ClientType /\ c.main \in Seq(BlockType) /\ c.worker \in Seq(BlockType)
        /\ c.ask \in AskType /\ TokensPlaced(c) /\ OneToken(c.main) /\ OneToken(c.worker)
        /\ UserFollows(c, cur, auth) /\ TokenIsTheirs(c, cur)
    BY StandFacts
  <1>2. /\ main \in Seq(BlockType) /\ NoToken(main) /\ (Quiet(main) <=> Quiet(c.main))
        /\ TokenFirst(c.main) /\ ~ NoToken(c.main)
        /\ (\A v \in Users : Ends(c.main, v) => Ends(main, v))
    BY <1>1, BlockTaken
  <1>3. c.ask.stage = "main" /\ NoToken(c.worker)
    BY <1>1, <1>2 DEF TokensPlaced
  <1>4. /\ worker \in Seq(BlockType) /\ (Quiet(worker) <=> Quiet(c.worker)) /\ OneToken(worker)
        /\ (\A v \in Users : Ends(c.worker, v) => Ends(worker, v))
        /\ (TokenFirst(worker) => Quiet(c.worker))
    BY <1>1, <1>3, Blocks, BlockAppended
  <1>5. /\ ask \in AskType /\ ask.stage = "worker" /\ ask.user = c.ask.user
        /\ (ask.ok => c.ask.ok /\ c.ask.fresh)
    BY <1>1 DEF AskType
  <1>6. [c EXCEPT !.main = Tail(@), !.ask.stage = "worker", !.ask.ok = @ /\ c.ask.fresh,
                  !.worker = Append(@, Token)] = r
    BY <1>1 DEF ClientType, AskType, main, ask, worker
  <1> HIDE DEF main, ask, worker
  <1>7. /\ r \in ClientType /\ r.main = main /\ r.ask = ask /\ r.worker = worker
        /\ r.enabled = c.enabled /\ r.pipeline = c.pipeline /\ r.state = c.state
        /\ r.ready = c.ready /\ r.idle = c.idle /\ r.call = c.call
    BY <1>1, <1>2, <1>4, <1>5 DEF ClientType
  <1> HIDE DEF r
  <1>8. TokensPlaced(r)
    BY <1>2, <1>4, <1>5, <1>7 DEF TokensPlaced, OneToken, NoToken
  <1>9. ClientStands(r, q, D) /\ (IsOpen(r) <=> IsOpen(c))
    BY <1>3, <1>5, <1>7, <1>8, SameStands DEF Stands
  <1>10. UserFollows(r, cur, auth)
    BY <1>1, <1>2, <1>4, <1>7 DEF UserFollows
  <1>11. TokenIsTheirs(r, cur)
    BY <1>1, <1>2, <1>3, <1>4, <1>5, <1>7, <1>9 DEF TokenIsTheirs
  <1> QED
    BY <1>6, <1>7, <1>9, <1>10, <1>11 DEF Stands

(* SyncEngine learns of a user, with the queue next.                       *)
LEMMA ChangeStands ==
  ASSUME NEW c, NEW q, NEW D, NEW cur \in Users, NEW auth \in Users,
         Stands(c, q, D, cur, auth), c.worker # <<>>, IsChange(Head(c.worker)),
         NEW next \in Seq(BatchType), Ascending(next)
  PROVE  /\ Head(c.worker).user \in Users
         /\ Stands(Reconnect([c EXCEPT !.worker = Tail(@)], next), next, D,
                   Head(c.worker).user, auth)
         /\ ~ Reconnect([c EXCEPT !.worker = Tail(@)], next).ready
  <1> DEFINE worker == Tail(c.worker)
             user == Head(c.worker).user
             d == [c EXCEPT !.worker = worker]
             r == Reconnect(d, next)
  <1>1. /\ c \in ClientType /\ c.worker \in Seq(BlockType)
        /\ OneToken(c.main) /\ OneToken(c.worker) /\ UserFollows(c, cur, auth)
        /\ (IsStarted(c) \/ AtRest(c)) /\ (~ c.enabled => AtRest(c) /\ c.pipeline = <<>>)
    BY StandFacts
  <1>2. /\ worker \in Seq(BlockType) /\ Head(c.worker) \in BlockType /\ OneToken(worker)
        /\ (NoToken(c.worker) => NoToken(worker)) /\ ~ Quiet(c.worker)
        /\ (\A v \in Users : Ends(c.worker, v) => Ends(worker, v))
        /\ \A v \in Users : Ends(c.worker, v) /\ Quiet(worker) => user = v
    BY <1>1, BlockTaken
  <1>3. user \in Users
    BY <1>2, Blocks
  <1> HIDE DEF worker, user
  <1>4. /\ d \in ClientType /\ d.worker = worker /\ d.main = c.main
        /\ d.enabled = c.enabled /\ d.pipeline = c.pipeline /\ d.state = c.state
        /\ d.ready = c.ready /\ d.idle = c.idle /\ d.call = c.call /\ d.ask = c.ask
    BY <1>1, <1>2 DEF ClientType
  <1>5. [c EXCEPT !.worker = Tail(@)] = d
    BY <1>1 DEF ClientType, worker
  <1> HIDE DEF d
  <1>6. UserFollows(d, user, auth)
    BY <1>1, <1>2, <1>4 DEF UserFollows
  <1>7. /\ (IsStarted(d) \/ AtRest(d)) /\ (~ d.enabled => AtRest(d) /\ d.pipeline = <<>>)
        /\ OneToken(d.main) /\ OneToken(d.worker)
    BY <1>1, <1>2, <1>4 DEF AtRest, IsStarted
  <1>8. /\ r \in ClientType /\ ClientStands(r, next, D) /\ ~ r.ready
        /\ UserFollows(r, user, auth) /\ TokenIsTheirs(r, user)
    BY <1>3, <1>4, <1>6, <1>7, ReconnectIs
  <1> QED
    BY <1>3, <1>5, <1>8 DEF Stands, user

(* The client after the steps in which it answers the backend and Auth.    *)
Resumed(c) ==
  LET d == [c EXCEPT !.worker = Tail(@), !.ask = NoAsk]
  IN  IF c.ask.ok
      THEN [d EXCEPT !.state = "Open",
                     !.call = [NoCall EXCEPT !.user = c.ask.user, !.out = <<0>>]]
      ELSE Fail(d)
Greeted(c) ==
  Send([c EXCEPT !.ready = TRUE, !.call.in = Tail(@)], WritesOf(c.pipeline))
Advanced(c, q) ==
  FillWritePipeline([c EXCEPT !.pipeline = Tail(@), !.call.in = Tail(@),
                              !.call.ended = IF @ = "cut" THEN "failing" ELSE @], q)
GivenUp(c, q) == FillWritePipeline([Close(c, "Initial") EXCEPT !.pipeline = Tail(@)], q)
Served(c) == [c EXCEPT !.call.out = Tail(@), !.call.in = Append(@, Head(c.call.out))]
Ended(c, ended) == [c EXCEPT !.call.out = <<>>, !.call.ended = ended]

(* The token comes to the stream, which opens or fails.                    *)
LEMMA ResumeStands ==
  ASSUME NEW c, NEW q, NEW D, NEW cur \in Users, NEW auth \in Users,
         Stands(c, q, D, cur, auth), c.worker # <<>>, ~ IsChange(Head(c.worker)),
         NEW r, r = Resumed(c)
  PROVE  Stands(r, q, D, cur, auth) /\ ~ r.ready
  <1> DEFINE d == [c EXCEPT !.worker = Tail(@), !.ask = NoAsk]
             worker == Tail(c.worker)
             call == [NoCall EXCEPT !.user = c.ask.user, !.out = <<0>>]
             o == [d EXCEPT !.state = "Open", !.call = call]
  <1>0. r = IF c.ask.ok THEN o ELSE Fail(d)
    BY DEF Resumed
  <1>1. /\ c \in ClientType /\ c.worker \in Seq(BlockType) /\ c.ask \in AskType
        /\ TokensPlaced(c) /\ OneToken(c.main) /\ OneToken(c.worker) /\ StreamStands(c)
        /\ UserFollows(c, cur, auth) /\ TokenIsTheirs(c, cur)
        /\ Begins(c.pipeline, q) /\ Len(c.pipeline) <= MaxPendingWrites
        /\ (c.enabled => Len(c.pipeline) = Room(q)) /\ (c.enabled \/ c.pipeline = <<>>)
        /\ q \in Seq(BatchType)
    BY StandFacts
  <1>2. /\ worker \in Seq(BlockType) /\ OneToken(worker) /\ NoToken(worker) /\ TokenFirst(c.worker)
        /\ (Quiet(worker) <=> Quiet(c.worker)) /\ ~ NoToken(c.worker)
        /\ (\A v \in Users : Ends(c.worker, v) => Ends(worker, v))
    BY <1>1, BlockTaken
  <1>3. c.ask.stage = "worker" /\ NoToken(c.main)
    BY <1>1, <1>2 DEF TokensPlaced
  <1>4. /\ c.state = "Starting" /\ ~ IsOpen(c) /\ IsStarted(c) /\ ~ c.ready /\ ~ c.idle
        /\ c.enabled /\ c.pipeline # <<>> /\ c.call = NoCall
    <2>1. c.state = "Starting"
      BY <1>1, <1>3 DEF StreamStands
    <2>2. ~ IsOpen(c) /\ IsStarted(c)
      BY <2>1 DEF IsOpen, IsStarted
    <2> QED
      BY <1>1, <2>1, <2>2 DEF StreamStands
  <1> HIDE DEF worker, call
  <1>5. /\ d \in ClientType /\ d.worker = worker /\ d.ask = NoAsk /\ d.main = c.main
        /\ d.enabled = c.enabled /\ d.pipeline = c.pipeline /\ d.state = c.state
        /\ d.ready = c.ready /\ d.idle = c.idle /\ d.call = c.call
    <2>1. d = [c EXCEPT !.worker = worker, !.ask = NoAsk]
      BY <1>1 DEF ClientType, worker
    <2> HIDE DEF d
    <2> QED
      BY <1>1, <1>2, <2>1, NoneTyped DEF ClientType
  <1> HIDE DEF d
  <1>6. UserFollows(d, cur, auth)
    BY <1>1, <1>2, <1>5 DEF UserFollows
  <1>7. CASE ~ c.ask.ok
    <2>1. r = Fail(d) /\ OneToken(d.main) /\ OneToken(d.worker)
      BY <1>0, <1>1, <1>2, <1>5, <1>7
    <2>2. /\ r \in ClientType /\ ClientStands(r, q, D) /\ ~ r.ready
          /\ UserFollows(r, cur, auth) /\ TokenIsTheirs(r, cur)
      BY <1>1, <1>5, <1>6, <2>1, FailIs
    <2> QED
      BY <2>2 DEF Stands
  <1>8. CASE c.ask.ok
    <2>1. r = o
      BY <1>0, <1>8
    <2>2. c.ask.user = cur
      BY <1>1, <1>2, <1>3, <1>8 DEF TokenIsTheirs
    <2>3. /\ call \in CallType /\ call.user = cur /\ call.out = <<0>> /\ call.in = <<>>
          /\ call.ended = "no"
      <3>1. 0 \in 0 .. MaxWrites
        BY Constants
      <3>2. <<>> \in Seq(0 .. MaxWrites) /\ <<0>> \in Seq(0 .. MaxWrites)
        BY <3>1
      <3>3. NoCall \in CallType /\ NoCall.in = <<>> /\ NoCall.ended = "no"
        BY NoneTyped DEF NoCall
      <3> DEFINE out == <<0>>
      <3> HIDE DEF out
      <3>4. call = [NoCall EXCEPT !.user = cur, !.out = out]
        BY <2>2 DEF call, out
      <3>5. /\ call \in CallType /\ call.user = cur /\ call.out = out /\ call.in = NoCall.in
            /\ call.ended = NoCall.ended
        BY <3>2, <3>3, <3>4 DEF CallType, out
      <3> QED
        BY <3>3, <3>5 DEF out
    <2>4. /\ r \in ClientType /\ r.state = "Open" /\ r.call = call
          /\ r.worker = worker /\ r.ask = NoAsk /\ r.main = c.main
          /\ r.enabled = c.enabled /\ r.pipeline = c.pipeline
          /\ r.ready = c.ready /\ r.idle = c.idle
      BY <1>5, <2>1, <2>3 DEF ClientType
    <2>5. IsOpen(r) /\ IsStarted(r) /\ r.ask.stage = "none"
      BY <2>4 DEF IsOpen, IsStarted, NoAsk
    <2>6. StreamStands(r)
      BY <1>4, <2>3, <2>4, <2>5 DEF StreamStands
    <2>7. TokensPlaced(r)
      BY <1>1, <1>2, <1>3, <2>4 DEF TokensPlaced
    <2>8. CallFits(r, D)
      <3>1. r.call.in \o r.call.out = <<0>>
        <4>1. <<0>> \in Seq({0})
          OBVIOUS
        <4> DEFINE out == <<0>>
        <4>2. out \in Seq({0}) /\ call.out = out
          BY <2>3, <4>1
        <4> HIDE DEF out
        <4>3. r.call.in = <<>> /\ r.call.out = out
          BY <2>3, <2>4, <4>2
        <4>4. <<>> \o out = out
          BY <4>2, ConcatEmptySeq
        <4> QED
          BY <4>3, <4>4 DEF out
      <3>2. ~ r.ready /\ r.call.ended = "no"
        BY <1>4, <2>3, <2>4
      <3> QED
        BY <3>1, <3>2 DEF CallFits
    <2>9. ClientStands(r, q, D)
      BY <1>1, <2>4, <2>5, <2>6, <2>7, <2>8 DEF ClientStands, Fillable
    <2>10. UserFollows(r, cur, auth)
      BY <1>5, <1>6, <2>4 DEF UserFollows
    <2>11. TokenIsTheirs(r, cur)
      BY <2>3, <2>4, <2>5 DEF TokenIsTheirs
    <2> QED
      BY <1>4, <2>4, <2>9, <2>10, <2>11, StandFacts DEF Stands
  <1> QED
    BY <1>7, <1>8

LEMMA BackoffStands ==
  ASSUME NEW c, NEW q, NEW D, NEW cur \in Users, NEW auth \in Users,
         Stands(c, q, D, cur, auth), c.state = "Backoff"
  PROVE  Stands(RequestCredentials(c), q, D, cur, auth) /\ ~ RequestCredentials(c).ready
  <1> DEFINE ask == [NoAsk EXCEPT !.stage = "asked"]
             r == RequestCredentials(c)
  <1>1. /\ c \in ClientType /\ TokensPlaced(c) /\ StreamStands(c)
        /\ UserFollows(c, cur, auth) /\ TokenIsTheirs(c, cur)
        /\ Begins(c.pipeline, q) /\ Len(c.pipeline) <= MaxPendingWrites
        /\ (c.enabled => Len(c.pipeline) = Room(q)) /\ (c.enabled \/ c.pipeline = <<>>)
    BY StandFacts
  <1>2. /\ ~ IsOpen(c) /\ IsStarted(c) /\ ~ c.ready /\ ~ c.idle /\ c.ask.stage = "none"
        /\ c.enabled /\ c.pipeline # <<>> /\ c.call = NoCall
    <2>1. ~ IsOpen(c) /\ IsStarted(c)
      BY DEF IsOpen, IsStarted
    <2> QED
      BY <1>1, <2>1 DEF StreamStands
  <1>3. r = [c EXCEPT !.state = "Starting", !.ask = ask]
    BY DEF RequestCredentials
  <1>4. ask \in AskType /\ ask.stage = "asked"
    BY DEF NoAsk, AskType
  <1> HIDE DEF r, ask
  <1>5. /\ r \in ClientType /\ r.state = "Starting" /\ r.ask = ask
        /\ r.enabled = c.enabled /\ r.pipeline = c.pipeline /\ r.ready = c.ready
        /\ r.idle = c.idle /\ r.call = c.call /\ r.main = c.main /\ r.worker = c.worker
    BY <1>1, <1>3, <1>4 DEF ClientType
  <1>6. ~ IsOpen(r) /\ IsStarted(r)
    BY <1>5 DEF IsOpen, IsStarted
  <1>7. StreamStands(r)
    BY <1>2, <1>4, <1>5, <1>6 DEF StreamStands, NoCall
  <1>8. TokensPlaced(r)
    BY <1>1, <1>2, <1>4, <1>5 DEF TokensPlaced
  <1>9. CallFits(r, D)
    BY <1>2, <1>5, <1>6 DEF CallFits, NoCall
  <1>10. ClientStands(r, q, D)
    BY <1>1, <1>5, <1>6, <1>7, <1>8, <1>9 DEF ClientStands, Fillable
  <1>11. UserFollows(r, cur, auth)
    BY <1>1, <1>5 DEF UserFollows
  <1>12. TokenIsTheirs(r, cur)
    BY <1>4, <1>5, <1>6 DEF TokenIsTheirs
  <1> QED
    BY <1>2, <1>5, <1>10, <1>11, <1>12 DEF Stands, r

LEMMA IdleStands ==
  ASSUME NEW c, NEW q, NEW D, NEW cur \in Users, NEW auth \in Users,
         Stands(c, q, D, cur, auth), c.idle
  PROVE  Stands(Stop(c), q, D, cur, auth) /\ ~ Stop(c).ready
  <1> DEFINE r == Stop(c)
  <1>1. /\ c \in ClientType /\ OneToken(c.main) /\ OneToken(c.worker) /\ StreamStands(c)
        /\ (IsStarted(c) \/ AtRest(c)) /\ UserFollows(c, cur, auth)
        /\ Begins(c.pipeline, q) /\ Len(c.pipeline) <= MaxPendingWrites
        /\ (c.enabled => Len(c.pipeline) = Room(q))
    BY StandFacts
  <1>2. c.pipeline = <<>>
    BY <1>1 DEF StreamStands
  <1>3. /\ r \in ClientType /\ AtRest(r) /\ r.enabled = c.enabled /\ r.pipeline = c.pipeline
        /\ UserFollows(r, cur, auth)
    BY <1>1, StopIs
  <1> HIDE DEF r
  <1>4. StreamStands(r) /\ TokensPlaced(r) /\ CallFits(r, D) /\ TokenIsTheirs(r, cur)
    BY <1>3, RestStands
  <1>5. ClientStands(r, q, D) /\ ~ r.ready
    BY <1>1, <1>2, <1>3, <1>4 DEF ClientStands, Fillable, AtRest
  <1> QED
    BY <1>3, <1>4, <1>5 DEF Stands, r

LEMMA DisabledStands ==
  ASSUME NEW c, NEW q, NEW D, NEW cur \in Users, NEW auth \in Users,
         Stands(c, q, D, cur, auth)
  PROVE  Stands(DisableNetwork(c), q, D, cur, auth) /\ ~ DisableNetwork(c).ready
  <1> DEFINE r == DisableNetwork(c)
  <1>1. /\ r \in ClientType /\ AtRest(r) /\ ~ r.enabled /\ r.pipeline = <<>>
        /\ UserFollows(r, cur, auth)
    BY StandFacts, DisableIs
  <1> HIDE DEF r
  <1>2. q \in Seq(BatchType) /\ Ascending(q)
    BY DEF Stands
  <1>3. ClientStands(r, q, D) /\ TokenIsTheirs(r, cur)
    BY <1>1, <1>2, RestIsStanding
  <1> QED
    BY <1>1, <1>2, <1>3 DEF Stands, AtRest, r

LEMMA EnabledStands ==
  ASSUME NEW c, NEW q, NEW D, NEW cur \in Users, NEW auth \in Users,
         Stands(c, q, D, cur, auth), ~ c.enabled
  PROVE  Stands(EnableNetwork(c, q), q, D, cur, auth) /\ ~ EnableNetwork(c, q).ready
  <1>1. /\ c \in ClientType /\ AtRest(c) /\ c.pipeline = <<>> /\ q \in Seq(BatchType)
        /\ Ascending(q) /\ UserFollows(c, cur, auth)
    BY StandFacts
  <1> DEFINE r == EnableNetwork(c, q)
  <1>2. /\ r \in ClientType /\ ClientStands(r, q, D) /\ ~ r.ready
        /\ UserFollows(r, cur, auth) /\ TokenIsTheirs(r, cur)
    BY <1>1, EnableIs
  <1> HIDE DEF r
  <1> QED
    BY <1>1, <1>2 DEF Stands, r

LEMMA FailStands ==
  ASSUME NEW c, NEW q, NEW D, NEW cur \in Users, NEW auth \in Users,
         Stands(c, q, D, cur, auth)
  PROVE  Stands(Fail(c), q, D, cur, auth) /\ ~ Fail(c).ready
  <1>1. /\ c \in ClientType /\ OneToken(c.main) /\ OneToken(c.worker)
        /\ q \in Seq(BatchType) /\ Ascending(q) /\ UserFollows(c, cur, auth)
        /\ Begins(c.pipeline, q) /\ Len(c.pipeline) <= MaxPendingWrites
        /\ (c.enabled => Len(c.pipeline) = Room(q)) /\ (c.enabled \/ c.pipeline = <<>>)
    BY StandFacts
  <1> DEFINE r == Fail(c)
  <1>2. /\ r \in ClientType /\ ClientStands(r, q, D) /\ ~ r.ready
        /\ UserFollows(r, cur, auth) /\ TokenIsTheirs(r, cur)
    BY <1>1, FailIs
  <1> HIDE DEF r
  <1> QED
    BY <1>1, <1>2 DEF Stands, r

(* The first answer is that to the handshake, and the writes follow.       *)
LEMMA HandshakeStands ==
  ASSUME NEW c, NEW q, NEW D, NEW cur \in Users, NEW auth \in Users,
         Stands(c, q, D, cur, auth), c.call.in # <<>>, ~ c.ready,
         NEW r, r = Greeted(c)
  PROVE  Stands(r, q, D, cur, auth) /\ r.ready /\ r.call.in = <<>>
  <1> DEFINE in == c.call.in
             out == c.call.out
             call == [c.call EXCEPT !.in = Tail(in)]
             d == [c EXCEPT !.ready = TRUE, !.call = call]
             p == c.pipeline
             m == WritesOf(p)
  <1>1. /\ c \in ClientType /\ TokensPlaced(c) /\ StreamStands(c) /\ CallFits(c, D)
        /\ UserFollows(c, cur, auth) /\ TokenIsTheirs(c, cur) /\ c.call \in CallType
        /\ in \in Seq(0 .. MaxWrites) /\ out \in Seq(0 .. MaxWrites) /\ p \in Seq(BatchType)
        /\ IsOpen(c) /\ Begins(p, q) /\ Len(p) <= MaxPendingWrites
        /\ (c.enabled => Len(p) = Room(q)) /\ q \in Seq(BatchType) /\ Ascending(q)
    BY StandFacts
  <1>2. /\ IsStarted(c) /\ c.call.ended = "no" /\ p # <<>> /\ ~ c.idle /\ c.enabled
        /\ in \o out = <<0>>
    <2>1. IsStarted(c)
      BY <1>1 DEF IsOpen, IsStarted
    <2> QED
      BY <1>1, <2>1 DEF StreamStands, CallFits
  <1>3. Tail(in) = <<>> /\ out = <<>>
    <2> DEFINE S == 0 .. MaxWrites
               a == Len(in)
               b == Len(out)
    <2>1. in \in Seq(S) /\ out \in Seq(S) /\ in # <<>> /\ in \o out = <<0>>
      BY <1>1, <1>2
    <2> HIDE DEF in, out, S
    <2>2. Len(in \o out) = a + b
      BY <2>1, ConcatProperties
    <2>3. a + b = 1
      <3>1. Len(<<0>>) = 1
        OBVIOUS
      <3> QED
        BY <2>1, <2>2, <3>1
    <2>4. /\ a \in Nat /\ b \in Nat /\ a >= 1 /\ Tail(in) \in Seq(S) /\ Len(Tail(in)) = a - 1
      BY <2>1, SeqFacts, TailFacts
    <2> HIDE DEF a, b
    <2>5. a = 1 /\ b = 0 /\ a - 1 = 0
      BY <2>3, <2>4
    <2>6. Len(Tail(in)) = 0 /\ Len(out) = 0
      BY <2>4, <2>5 DEF b
    <2> QED
      BY <2>1, <2>4, <2>6, EmptySeq DEF in, out
  <1>4. /\ m \in Seq(0 .. MaxWrites) /\ Len(m) = Len(p)
        /\ \A i \in 1 .. Len(p) : m[i] = p[i].write
    BY <1>1, WritesOfIs
  <1> HIDE DEF in, m
  <1>5. /\ call \in CallType /\ call.in = <<>> /\ call.out = <<>> /\ call.ended = "no"
        /\ call.user = c.call.user
    <2>1. <<>> \in Seq(0 .. MaxWrites)
      OBVIOUS
    <2>2. call = [c.call EXCEPT !.in = <<>>]
      BY <1>3
    <2> QED
      BY <1>1, <1>2, <1>3, <2>1, <2>2 DEF CallType
  <1>6. r = Send(d, m)
    BY <1>1 DEF Greeted, ClientType, in, m
  <1> HIDE DEF call
  <1>7. /\ d \in ClientType /\ d.ready = TRUE /\ d.call = call /\ d.idle = c.idle
        /\ d.enabled = c.enabled /\ d.pipeline = p /\ d.state = c.state
        /\ d.ask = c.ask /\ d.main = c.main /\ d.worker = c.worker
    BY <1>1, <1>5 DEF ClientType
  <1> HIDE DEF d, p
  <1>8. /\ r \in ClientType
        /\ r.enabled = d.enabled /\ r.pipeline = d.pipeline /\ r.state = d.state
        /\ r.ready = d.ready /\ r.ask = d.ask /\ r.main = d.main /\ r.worker = d.worker
        /\ r.call.user = d.call.user /\ r.call.in = d.call.in
        /\ r.idle = (d.idle /\ m = <<>>)
        /\ (d.call.ended = "no" <=> r.call.ended = "no")
        /\ r.call.out = IF d.call.ended = "no" THEN d.call.out \o m ELSE d.call.out
    BY <1>4, <1>6, <1>7, SendIs
  <1>9. r.call.out = m /\ r.call.in = <<>> /\ r.call.ended = "no" /\ r.ready /\ ~ r.idle
    <2>1. <<>> \o m = m
      BY <1>4, ConcatEmptySeq
    <2> QED
      BY <1>2, <1>5, <1>7, <1>8, <2>1
  <1>10. IsOpen(r) /\ IsStarted(r)
    BY <1>1, <1>2, <1>7, <1>8 DEF IsOpen, IsStarted
  <1>11. StreamStands(r)
    BY <1>1, <1>2, <1>7, <1>8, <1>9, <1>10 DEF StreamStands
  <1>12. TokensPlaced(r)
    BY <1>1, <1>7, <1>8 DEF TokensPlaced
  <1>13. CallFits(r, D)
    <2>1. Len(r.call.in) = 0 /\ Len(r.call.out) = Len(p) /\ Len(p) \in Nat
      BY <1>1, <1>4, <1>9, SeqFacts
    <2>2. \A i \in 1 .. 0 : FALSE
      OBVIOUS
    <2>3. \A i \in 1 .. Len(p) : 0 + i = i
      BY <2>1
    <2>4. 0 + Len(p) = Len(p) /\ Len(p) <= Len(p)
      BY <2>1
    <2>5. r.pipeline = p
      BY <1>7, <1>8
    <2> QED
      BY <1>4, <1>9, <2>1, <2>2, <2>3, <2>4, <2>5 DEF CallFits
  <1>14. ClientStands(r, q, D)
    BY <1>1, <1>2, <1>7, <1>8, <1>10, <1>11, <1>12, <1>13 DEF ClientStands, Fillable
  <1>15. UserFollows(r, cur, auth)
    BY <1>1, <1>7, <1>8 DEF UserFollows
  <1>16. TokenIsTheirs(r, cur)
    BY <1>1, <1>5, <1>7, <1>8, <1>10 DEF TokenIsTheirs
  <1> QED
    BY <1>1, <1>8, <1>9, <1>14, <1>15, <1>16 DEF Stands

(* The pipeline and the queue without their first batch.                   *)
LEMMA BeginsTail ==
  ASSUME NEW p \in Seq(BatchType), NEW q \in Seq(BatchType), Begins(p, q), p # <<>>, Ascending(q)
  PROVE  /\ q # <<>> /\ Head(p) = Head(q) /\ RemoveFirst(q, Head(p)) = Tail(q)
         /\ Tail(p) \in Seq(BatchType) /\ Tail(q) \in Seq(BatchType) /\ Ascending(Tail(q))
         /\ Begins(Tail(p), Tail(q)) /\ Len(Tail(p)) = Len(p) - 1
         /\ Head(p) = p[1] /\ Head(p) \in BatchType
         /\ \A i \in 1 .. Len(Tail(p)) : Tail(p)[i] = p[i + 1]
  <1>1. /\ Tail(p) \in Seq(BatchType) /\ Len(Tail(p)) = Len(p) - 1 /\ Len(p) >= 1
        /\ Len(p) \in Nat /\ Len(Tail(p)) \in Nat
        /\ \A i \in 1 .. Len(Tail(p)) : Tail(p)[i] = p[i + 1]
        /\ Head(p) = p[1] /\ Head(p) \in BatchType
    BY HeadTailProperties, SeqFacts, EmptySeq
  <1>2. Len(p) <= Len(q) /\ \A i \in 1 .. Len(p) : p[i] = q[i]
    BY DEF Begins
  <1>3. q # <<>>
    <2>1. Len(q) \in Nat /\ Len(q) # 0
      BY <1>1, <1>2, SeqFacts
    <2> QED
      BY <2>1, EmptySeq
  <1>4. /\ Tail(q) \in Seq(BatchType) /\ Len(Tail(q)) = Len(q) - 1 /\ Len(q) >= 1
        /\ Len(q) \in Nat /\ Head(q) = q[1] /\ Ascending(Tail(q))
        /\ \A i \in 1 .. Len(Tail(q)) : Tail(q)[i] = q[i + 1]
    BY <1>3, TailIs
  <1>5. Head(p) = Head(q)
    <2>1. 1 \in 1 .. Len(p)
      BY <1>1
    <2> QED
      BY <1>1, <1>2, <1>4, <2>1
  <1>6. RemoveFirst(q, Head(p)) = Tail(q)
    BY <1>3, <1>5, RemoveHead
  <1>7. Begins(Tail(p), Tail(q))
    <2> DEFINE a == Len(p)
               b == Len(q)
               s == Tail(p)
               t == Tail(q)
    <2>1. /\ a \in Nat /\ b \in Nat /\ a <= b /\ Len(s) = a - 1 /\ Len(t) = b - 1 /\ a >= 1
          /\ \A i \in 1 .. Len(s) : s[i] = p[i + 1]
          /\ \A i \in 1 .. Len(t) : t[i] = q[i + 1]
          /\ \A i \in 1 .. a : p[i] = q[i]
      BY <1>1, <1>2, <1>4
    <2> HIDE DEF a, b, s, t
    <2>2. Len(s) <= Len(t)
      BY <2>1
    <2>3. ASSUME NEW i \in 1 .. Len(s) PROVE s[i] = t[i]
      <3>1. i + 1 \in 1 .. a /\ i \in 1 .. Len(t)
        BY <2>1
      <3> QED
        BY <2>1, <3>1
    <2>4. Begins(s, t)
      BY <2>2, <2>3 DEF Begins
    <2> QED
      BY <2>4 DEF s, t
  <1> QED
    BY <1>1, <1>3, <1>4, <1>5, <1>6, <1>7

(* The answer is that to the first write, which is settled.                *)
LEMMA ResultStands ==
  ASSUME NEW c, NEW q, NEW D, NEW cur \in Users, NEW auth \in Users,
         Stands(c, q, D, cur, auth), c.call.in # <<>>, c.ready
  PROVE  /\ Stands(Advanced(c, Tail(q)), Tail(q), D, cur, auth)
         /\ Advanced(c, Tail(q)).ready /\ Advanced(c, Tail(q)).call.in = Tail(c.call.in)
         /\ q # <<>> /\ c.pipeline # <<>> /\ Head(c.pipeline) = Head(q)
         /\ RemoveFirst(q, Head(c.pipeline)) = Tail(q)
         /\ Head(c.call.in) = Head(q).write
  <1> DEFINE r == Advanced(c, Tail(q))
             in == c.call.in
             out == c.call.out
             ended == IF c.call.ended = "cut" THEN "failing" ELSE c.call.ended
             call == [c.call EXCEPT !.in = Tail(in), !.ended = ended]
             p == c.pipeline
             d == [c EXCEPT !.pipeline = Tail(p), !.call = call]
  <1>1. /\ c \in ClientType /\ TokensPlaced(c) /\ StreamStands(c) /\ CallFits(c, D)
        /\ UserFollows(c, cur, auth) /\ TokenIsTheirs(c, cur) /\ c.call \in CallType
        /\ in \in Seq(0 .. MaxWrites) /\ out \in Seq(0 .. MaxWrites) /\ p \in Seq(BatchType)
        /\ c.call.ended \in {"no", "ended", "cut", "failing"}
        /\ q \in Seq(BatchType) /\ Ascending(q) /\ Begins(p, q)
        /\ Len(p) <= MaxPendingWrites /\ (c.enabled \/ p = <<>>)
    BY StandFacts
  <1>2. IsOpen(c) /\ IsStarted(c) /\ c.enabled
    <2>1. IsOpen(c)
      BY <1>1 DEF StreamStands
    <2>2. IsStarted(c)
      BY <2>1 DEF IsOpen, IsStarted
    <2> QED
      BY <1>1, <2>1, <2>2 DEF StreamStands
  <1>3. /\ Len(in) + Len(out) <= Len(p)
        /\ \A i \in 1 .. Len(in) : in[i] = p[i].write
        /\ \A i \in 1 .. Len(out) : out[i] = p[Len(in) + i].write
        /\ (c.call.ended = "no" => Len(in) + Len(out) = Len(p))
        /\ (c.call.ended # "no" => /\ out = <<>> /\ Len(in) < Len(p)
                                   /\ p[Len(in) + 1].write \in D)
    BY <1>1 DEF CallFits
  <1>4. /\ Len(in) \in Nat /\ Len(out) \in Nat /\ Len(p) \in Nat /\ Len(in) >= 1
        /\ Tail(in) \in Seq(0 .. MaxWrites) /\ Len(Tail(in)) = Len(in) - 1 /\ Head(in) = in[1]
        /\ \A i \in 1 .. Len(Tail(in)) : Tail(in)[i] = in[i + 1]
    <2> DEFINE S == 0 .. MaxWrites
    <2>1. in \in Seq(S) /\ out \in Seq(S) /\ in # <<>> /\ p \in Seq(BatchType)
      BY <1>1
    <2> HIDE DEF in, out, p, S
    <2>2. Len(out) \in Nat /\ Len(p) \in Nat
      BY <2>1, SeqFacts
    <2>3. /\ Len(in) \in Nat /\ Len(in) >= 1
          /\ Tail(in) \in Seq(S) /\ Len(Tail(in)) = Len(in) - 1 /\ Head(in) = in[1]
          /\ \A i \in 1 .. Len(Tail(in)) : Tail(in)[i] = in[i + 1]
      BY <2>1, TailFacts
    <2> QED
      BY <2>2, <2>3 DEF S
  <1>5. p # <<>> /\ Len(p) >= 1
    <2> DEFINE a == Len(in)
               b == Len(out)
               k == Len(p)
    <2>1. a \in Nat /\ b \in Nat /\ k \in Nat /\ a >= 1 /\ a + b <= k
      BY <1>3, <1>4
    <2> HIDE DEF a, b, k
    <2>2. k >= 1 /\ k # 0
      BY <2>1
    <2> QED
      BY <1>1, <2>2, EmptySeq DEF k
  <1>6. /\ q # <<>> /\ Head(p) = Head(q) /\ RemoveFirst(q, Head(p)) = Tail(q)
        /\ Tail(p) \in Seq(BatchType) /\ Tail(q) \in Seq(BatchType) /\ Ascending(Tail(q))
        /\ Begins(Tail(p), Tail(q)) /\ Len(Tail(p)) = Len(p) - 1
        /\ Head(p) = p[1]
        /\ \A i \in 1 .. Len(Tail(p)) : Tail(p)[i] = p[i + 1]
    BY <1>1, <1>5, BeginsTail
  <1>7. Head(in) = Head(q).write
    <2>1. 1 \in 1 .. Len(in)
      BY <1>4
    <2> QED
      BY <1>3, <1>4, <1>6, <2>1
  <1>8. ended \in {"no", "ended", "cut", "failing"} /\ (ended = "no" <=> c.call.ended = "no")
    BY <1>1
  <1>9. [c EXCEPT !.pipeline = Tail(@), !.call.in = Tail(@),
                  !.call.ended = IF @ = "cut" THEN "failing" ELSE @] = d
    BY <1>1 DEF ClientType, CallType
  <1> HIDE DEF ended
  <1>10. /\ call \in CallType /\ call.in = Tail(in) /\ call.out = out /\ call.ended = ended
         /\ call.user = c.call.user
    BY <1>1, <1>4, <1>8 DEF CallType
  <1> HIDE DEF call
  <1>11. /\ d \in ClientType /\ d.ready = c.ready /\ d.call = call /\ d.idle = c.idle
         /\ d.enabled = c.enabled /\ d.pipeline = Tail(p) /\ d.state = c.state
         /\ d.ask = c.ask /\ d.main = c.main /\ d.worker = c.worker
    BY <1>1, <1>6, <1>10 DEF ClientType
  <1> HIDE DEF d
  <1>12. IsOpen(d) /\ IsStarted(d)
    BY <1>2, <1>11 DEF IsOpen, IsStarted
  <1>13. StreamStands(d)
    BY <1>1, <1>2, <1>5, <1>8, <1>10, <1>11, <1>12 DEF StreamStands
  <1>14. TokensPlaced(d)
    BY <1>1, <1>11 DEF TokensPlaced
  <1>15. CallFits(d, D)
    <2> DEFINE a == Len(in)
               b == Len(out)
               k == Len(p)
               tin == Tail(in)
               tp == Tail(p)
    <2>1. /\ a \in Nat /\ b \in Nat /\ k \in Nat /\ a >= 1 /\ k >= 1 /\ a + b <= k
          /\ Len(tin) = a - 1 /\ Len(tp) = k - 1
          /\ (ended = "no" => a + b = k)
          /\ (ended # "no" => out = <<>> /\ a < k /\ p[a + 1].write \in D)
          /\ \A i \in 1 .. a : in[i] = p[i].write
          /\ \A i \in 1 .. b : out[i] = p[a + i].write
          /\ \A i \in 1 .. k - 1 : tp[i] = p[i + 1]
          /\ \A i \in 1 .. a - 1 : tin[i] = in[i + 1]
      BY <1>3, <1>4, <1>5, <1>6, <1>8
    <2>2. /\ d.call.in = tin /\ d.call.out = out /\ d.pipeline = tp /\ d.call.ended = ended
          /\ d.ready /\ Len(out) = b
      BY <1>10, <1>11
    <2> HIDE DEF a, b, k, tin, tp, in, out, p
    <2>3. (a - 1) + b <= k - 1 /\ (a + b = k => (a - 1) + b = k - 1) /\ (a < k => a - 1 < k - 1)
      <3>1. a \in Nat /\ b \in Nat /\ k \in Nat /\ a >= 1 /\ k >= 1 /\ a + b <= k
        BY <2>1
      <3> QED
        BY <3>1
    <2>4. ASSUME NEW i \in 1 .. a - 1 PROVE tin[i] = tp[i].write
      <3>1. i + 1 \in 1 .. a /\ i \in 1 .. k - 1
        BY <2>1
      <3> QED
        BY <2>1, <3>1
    <2>5. ASSUME NEW i \in 1 .. b PROVE out[i] = tp[(a - 1) + i].write
      <3>1. (a - 1) + i \in 1 .. k - 1 /\ ((a - 1) + i) + 1 = a + i
        BY <2>1
      <3> QED
        BY <2>1, <3>1
    <2>6. ASSUME ended # "no" PROVE tp[(a - 1) + 1].write \in D
      <3>1. (a - 1) + 1 \in 1 .. k - 1 /\ ((a - 1) + 1) + 1 = a + 1
        BY <2>1, <2>6
      <3> QED
        BY <2>1, <2>6, <3>1
    <2> QED
      BY <2>1, <2>2, <2>3, <2>4, <2>5, <2>6 DEF CallFits
  <1>16. Fillable(d, Tail(q), D)
    <2>1. Len(Tail(p)) <= MaxPendingWrites
      BY <1>1, <1>4, <1>6, Constants
    <2> QED
      BY <1>2, <1>6, <1>11, <1>13, <1>14, <1>15, <2>1 DEF Fillable
  <1>17. UserFollows(d, cur, auth)
    BY <1>1, <1>11 DEF UserFollows
  <1>18. TokenIsTheirs(d, cur)
    BY <1>1, <1>2, <1>10, <1>11 DEF TokenIsTheirs
  <1>19. r = FillWritePipeline(d, Tail(q))
    BY <1>9 DEF Advanced
  <1>20. /\ r \in ClientType /\ ClientStands(r, Tail(q), D)
         /\ r.ready = d.ready /\ r.call.in = d.call.in
         /\ UserFollows(r, cur, auth) /\ TokenIsTheirs(r, cur)
    <2> DEFINE f == FillWritePipeline(d, Tail(q))
    <2>1. /\ f \in ClientType /\ ClientStands(f, Tail(q), D)
          /\ f.ready = d.ready /\ f.call.in = d.call.in
          /\ \A x, y \in Users : UserFollows(d, x, y) => UserFollows(f, x, y)
          /\ \A x \in Users : TokenIsTheirs(d, x) => TokenIsTheirs(f, x)
      BY <1>6, <1>11, <1>16, FilledIs
    <2> QED
      BY <1>17, <1>18, <1>19, <2>1
  <1> QED
    BY <1>5, <1>6, <1>7, <1>10, <1>11, <1>20 DEF Stands

(* The call has ended, and the first write is given up: the backend has    *)
(* applied it already, or refuses it.                                      *)
LEMMA RefusedStands ==
  ASSUME NEW c, NEW q, NEW D, NEW cur \in Users, NEW auth \in Users,
         Stands(c, q, D, cur, auth), c.call.ended # "no",
         NEW r, r = GivenUp(c, Tail(q))
  PROVE  /\ Stands(r, Tail(q), D, cur, auth) /\ ~ r.ready
         /\ q # <<>> /\ c.pipeline # <<>> /\ Head(c.pipeline) = Head(q)
         /\ RemoveFirst(q, Head(c.pipeline)) = Tail(q)
         /\ c.ready
         /\ IF c.call.in = <<>> THEN Head(q).write \in D ELSE Head(c.call.in) = Head(q).write
  <1> DEFINE in == c.call.in
             p == c.pipeline
             e == Close(c, "Initial")
             d == [e EXCEPT !.pipeline = Tail(p)]
             f == FillWritePipeline(d, Tail(q))
  <1>1. /\ c \in ClientType /\ StreamStands(c) /\ CallFits(c, D) /\ UserFollows(c, cur, auth)
        /\ OneToken(c.main) /\ OneToken(c.worker)
        /\ in \in Seq(0 .. MaxWrites) /\ p \in Seq(BatchType)
        /\ q \in Seq(BatchType) /\ Ascending(q) /\ Begins(p, q)
        /\ Len(p) <= MaxPendingWrites /\ (c.enabled \/ p = <<>>)
    BY StandFacts
  <1>2. /\ c.ready /\ Len(in) < Len(p) /\ p[Len(in) + 1].write \in D
        /\ \A i \in 1 .. Len(in) : in[i] = p[i].write
    BY <1>1 DEF StreamStands, CallFits
  <1>3. Len(in) \in Nat /\ Len(p) \in Nat /\ (in = <<>> <=> Len(in) = 0)
        /\ (in # <<>> => Head(in) = in[1])
    BY <1>1, SeqFacts, EmptySeq
  <1>4. p # <<>> /\ c.enabled /\ Len(p) - 1 <= MaxPendingWrites
    <2>1. Len(p) # 0 /\ Len(p) - 1 <= MaxPendingWrites
      BY <1>1, <1>2, <1>3, Constants
    <2> QED
      BY <1>1, <2>1, EmptySeq
  <1>5. /\ q # <<>> /\ Head(p) = Head(q) /\ RemoveFirst(q, Head(p)) = Tail(q)
        /\ Tail(p) \in Seq(BatchType) /\ Tail(q) \in Seq(BatchType) /\ Ascending(Tail(q))
        /\ Begins(Tail(p), Tail(q)) /\ Len(Tail(p)) = Len(p) - 1
        /\ Head(p) = p[1]
    BY <1>1, <1>4, BeginsTail
  <1>6. IF in = <<>> THEN Head(q).write \in D ELSE Head(in) = Head(q).write
    <2>1. CASE in = <<>>
      <3>1. Len(in) + 1 = 1
        BY <1>3, <2>1
      <3> QED
        BY <1>2, <1>5, <2>1, <3>1
    <2>2. CASE in # <<>>
      <3>1. 1 \in 1 .. Len(in)
        BY <1>3, <2>2
      <3> QED
        BY <1>2, <1>3, <1>5, <2>2, <3>1
    <2> QED
      BY <2>1, <2>2
  <1>7. /\ e \in ClientType /\ AtRest(e) /\ e.enabled = c.enabled /\ e.pipeline = p
        /\ UserFollows(e, cur, auth)
    <2>1. "Initial" \in {"Initial", "Error"}
      OBVIOUS
    <2> QED
      BY <1>1, <2>1, CloseIs
  <1> HIDE DEF e, in
  <1>8. /\ d \in ClientType /\ d.enabled /\ d.pipeline = Tail(p) /\ d.state = e.state
        /\ d.ready = e.ready /\ d.idle = e.idle /\ d.call = e.call /\ d.ask = e.ask
        /\ d.main = e.main /\ d.worker = e.worker
    BY <1>4, <1>5, <1>7 DEF ClientType
  <1>9. r = f
    <2>1. [e EXCEPT !.pipeline = Tail(@)] = d
      BY <1>7 DEF ClientType
    <2> QED
      BY <2>1 DEF GivenUp, e
  <1> HIDE DEF d
  <1>10. AtRest(d) /\ ~ d.ready
    BY <1>7, <1>8 DEF AtRest, IsStarted
  <1>11. StreamStands(d) /\ TokensPlaced(d) /\ CallFits(d, D) /\ TokenIsTheirs(d, cur)
    BY <1>8, <1>10, RestStands
  <1>12. Fillable(d, Tail(q), D)
    <2>1. Len(d.pipeline) <= MaxPendingWrites
      BY <1>4, <1>5, <1>8
    <2> QED
      BY <1>5, <1>8, <1>11, <2>1 DEF Fillable
  <1>13. UserFollows(d, cur, auth)
    BY <1>7, <1>8 DEF UserFollows
  <1>14. /\ f \in ClientType /\ ClientStands(f, Tail(q), D)
         /\ f.ready = d.ready
         /\ \A x, y \in Users : UserFollows(d, x, y) => UserFollows(f, x, y)
         /\ \A x \in Users : TokenIsTheirs(d, x) => TokenIsTheirs(f, x)
    BY <1>5, <1>8, <1>12, FilledIs
  <1> HIDE DEF f
  <1> QED
    BY <1>2, <1>4, <1>5, <1>6, <1>9, <1>10, <1>11, <1>13, <1>14 DEF Stands, in

(* What the backend reads next: the handshake, or the first write of the   *)
(* pipeline that it has not answered.                                      *)
LEMMA MessageIs ==
  ASSUME NEW c, NEW q, NEW D, NEW cur \in Users, NEW auth \in Users,
         Stands(c, q, D, cur, auth), c.call.out # <<>>
  PROVE  LET message == Head(c.call.out)
             a == Len(c.call.in)
         IN  /\ IsOpen(c) /\ c.enabled /\ c.call.ended = "no" /\ c.call.user = cur
             /\ a \in Nat /\ message \in 0 .. MaxWrites
             /\ message = 0 => ~ c.ready /\ c.call.in = <<>> /\ Tail(c.call.out) = <<>>
             /\ message # 0 => /\ c.ready /\ message \in Writes /\ a + 1 \in 1 .. Len(c.pipeline)
                               /\ message = c.pipeline[a + 1].write
                               /\ a + 1 \in 1 .. Len(q) /\ message = q[a + 1].write
  <1> DEFINE in == c.call.in
             out == c.call.out
             a == Len(in)
             b == Len(out)
             p == c.pipeline
             message == Head(out)
             S == 0 .. MaxWrites
  <1>1. /\ c \in ClientType /\ StreamStands(c) /\ CallFits(c, D) /\ TokenIsTheirs(c, cur)
        /\ in \in Seq(S) /\ out \in Seq(S) /\ p \in Seq(BatchType) /\ Begins(p, q)
        /\ IsOpen(c) /\ out # <<>>
    BY StandFacts
  <1>2. c.call.ended = "no" /\ c.enabled /\ c.call.user = cur
    <2>1. IsStarted(c)
      BY <1>1 DEF IsOpen, IsStarted
    <2>2. c.call.ended = "no"
      BY <1>1 DEF CallFits
    <2> QED
      BY <1>1, <2>1, <2>2 DEF StreamStands, TokenIsTheirs
  <1> HIDE DEF S, in, out
  <1>3. /\ a \in Nat /\ b \in Nat /\ b >= 1 /\ message = out[1] /\ message \in S
        /\ Tail(out) \in Seq(S) /\ Len(Tail(out)) = b - 1 /\ Len(p) \in Nat
    BY <1>1, SeqFacts, TailFacts
  <1>4. CASE ~ c.ready
    <2>1. in \o out = <<0>>
      BY <1>1, <1>4 DEF CallFits, in, out
    <2>2. Len(in \o out) = a + b /\ \A i \in 1 .. a + b :
                                       (in \o out)[i] = IF i <= a THEN in[i] ELSE out[i - a]
      BY <1>1, ConcatProperties
    <2>3. a + b = 1
      <3>1. Len(<<0>>) = 1
        OBVIOUS
      <3> QED
        BY <2>1, <2>2, <3>1
    <2> HIDE DEF a, b
    <2>4. a = 0 /\ b = 1
      BY <1>3, <2>3
    <2>5. in = <<>>
      BY <1>1, <2>4, EmptySeq DEF a
    <2>6. Tail(out) = <<>>
      <3>1. Len(Tail(out)) = 0
        BY <1>3, <2>4
      <3> QED
        BY <1>3, <3>1, EmptySeq
    <2>7. out[1] = 0
      <3>1. out = <<0>>
        BY <1>1, <2>1, <2>5, ConcatEmptySeq
      <3> QED
        BY <3>1
    <2> QED
      BY <1>1, <1>2, <1>3, <1>4, <2>5, <2>6, <2>7 DEF in, out, a, S
  <1>5. CASE c.ready
    <2>1. /\ a + b = Len(p) /\ \A i \in 1 .. b : out[i] = p[a + i].write
      BY <1>1, <1>2, <1>5 DEF CallFits, in, out
    <2>2. 1 \in 1 .. b /\ a + 1 \in 1 .. Len(p)
      BY <1>3, <2>1
    <2>3. message = p[a + 1].write
      BY <1>3, <2>1, <2>2
    <2>4. p[a + 1] \in BatchType
      BY <1>1, <2>2, SeqFacts
    <2>5. message \in Writes /\ message # 0
      BY <2>3, <2>4, Constants DEF BatchType
    <2>6. a + 1 \in 1 .. Len(q) /\ q[a + 1] = p[a + 1]
      <3>1. Len(p) <= Len(q) /\ \A i \in 1 .. Len(p) : p[i] = q[i]
        BY <1>1 DEF Begins
      <3>2. Len(q) \in Nat
        BY StandFacts, SeqFacts
      <3> QED
        BY <1>3, <2>2, <3>1, <3>2
    <2> QED
      BY <1>1, <1>2, <1>3, <1>5, <2>2, <2>3, <2>5, <2>6 DEF in, out, S
  <1> QED
    BY <1>4, <1>5

(* The backend answers a message.                                          *)
LEMMA ServedStands ==
  ASSUME NEW c, NEW q, NEW D, NEW cur \in Users, NEW auth \in Users,
         Stands(c, q, D, cur, auth), c.call.out # <<>>,
         NEW r, r = Served(c)
  PROVE  /\ Stands(r, q, D, cur, auth) /\ r.ready = c.ready
         /\ r.call.in = Append(c.call.in, Head(c.call.out))
  <1> DEFINE in == c.call.in
             out == c.call.out
             a == Len(in)
             b == Len(out)
             p == c.pipeline
             message == Head(out)
             S == 0 .. MaxWrites
             newin == Append(in, message)
             call == [c.call EXCEPT !.out = Tail(out), !.in = newin]
  <1>1. /\ c \in ClientType /\ TokensPlaced(c) /\ StreamStands(c) /\ CallFits(c, D)
        /\ UserFollows(c, cur, auth) /\ TokenIsTheirs(c, cur) /\ c.call \in CallType
        /\ in \in Seq(S) /\ out \in Seq(S) /\ p \in Seq(BatchType) /\ out # <<>>
    BY StandFacts
  <1>2. /\ IsOpen(c) /\ c.enabled /\ c.call.ended = "no" /\ c.call.user = cur
        /\ a \in Nat /\ message \in S
        /\ (message = 0 => ~ c.ready /\ in = <<>> /\ Tail(out) = <<>>)
        /\ (message # 0 => c.ready /\ message = p[a + 1].write)
    BY MessageIs
  <1>3. r = [c EXCEPT !.call = call]
    BY <1>1 DEF Served, ClientType, CallType
  <1> HIDE DEF S, in, out, message
  <1>4. /\ b \in Nat /\ b >= 1 /\ message = out[1] /\ Len(p) \in Nat
        /\ Tail(out) \in Seq(S) /\ Len(Tail(out)) = b - 1
        /\ \A i \in 1 .. b - 1 : i + 1 \in 1 .. b /\ Tail(out)[i] = out[i + 1]
    BY <1>1, SeqFacts, TailFacts DEF message
  <1>5. /\ newin \in Seq(S) /\ Len(newin) = a + 1 /\ newin[a + 1] = message
        /\ \A i \in 1 .. a : newin[i] = in[i]
    BY <1>1, <1>2, AppendProperties
  <1> HIDE DEF newin
  <1>6. /\ call \in CallType /\ call.out = Tail(out) /\ call.in = newin
        /\ call.user = c.call.user /\ call.ended = c.call.ended
    BY <1>1, <1>4, <1>5 DEF CallType, S
  <1> HIDE DEF call
  <1>7. /\ r \in ClientType /\ r.call = call /\ r.ready = c.ready /\ r.idle = c.idle
        /\ r.enabled = c.enabled /\ r.pipeline = p /\ r.state = c.state
        /\ r.ask = c.ask /\ r.main = c.main /\ r.worker = c.worker
    BY <1>1, <1>3, <1>6 DEF ClientType
  <1>8. /\ IsOpen(r) /\ IsStarted(r) /\ IsStarted(c)
    BY <1>2, <1>7 DEF IsOpen, IsStarted
  <1>9. StreamStands(r)
    BY <1>1, <1>2, <1>6, <1>7, <1>8 DEF StreamStands
  <1>10. TokensPlaced(r)
    BY <1>1, <1>7 DEF TokensPlaced
  <1>11. CallFits(r, D)
    <2>1. CASE message = 0
      <3>1. ~ r.ready /\ r.call.ended = "no"
        BY <1>2, <1>6, <1>7, <2>1
      <3>2. newin = <<0>>
        <4>1. in = <<>>
          BY <1>2, <2>1
        <4> QED
          BY <2>1, <4>1 DEF newin
      <3>3. r.call.in = newin /\ r.call.out = <<>>
        BY <1>2, <1>6, <1>7, <2>1
      <3>4. newin \o <<>> = newin
        BY <1>5, ConcatEmptySeq
      <3> QED
        BY <3>1, <3>2, <3>3, <3>4 DEF CallFits
    <2>2. CASE message # 0
      <3> DEFINE k == Len(p)
                 tout == Tail(out)
      <3>1. /\ c.ready /\ a + b = k
            /\ \A i \in 1 .. a : in[i] = p[i].write
            /\ \A i \in 1 .. b : out[i] = p[a + i].write
        BY <1>1, <1>2, <2>2 DEF CallFits, in, out
      <3>2. /\ r.ready /\ r.call.in = newin /\ r.call.out = tout /\ r.pipeline = p
            /\ r.call.ended = "no" /\ Len(tout) = b - 1
            /\ \A i \in 1 .. b - 1 : i + 1 \in 1 .. b /\ tout[i] = out[i + 1]
            /\ message = p[a + 1].write
        BY <1>2, <1>4, <1>6, <1>7, <2>2, <3>1
      <3> HIDE DEF a, b, k, tout, p
      <3>3. (a + 1) + (b - 1) = k /\ (a + 1) + (b - 1) <= k
        BY <1>2, <1>4, <3>1
      <3>4. ASSUME NEW i \in 1 .. a + 1 PROVE newin[i] = p[i].write
        <4>1. i \in 1 .. a \/ i = a + 1
          BY <1>2
        <4> QED
          BY <1>5, <3>1, <3>2, <4>1
      <3>5. ASSUME NEW i \in 1 .. b - 1 PROVE tout[i] = p[(a + 1) + i].write
        <4>1. i + 1 \in 1 .. b /\ a + (i + 1) = (a + 1) + i
          BY <1>2, <1>4
        <4>2. tout[i] = out[i + 1]
          BY <3>2
        <4> QED
          BY <3>1, <4>1, <4>2
      <3> QED
        BY ZenonT(60), <1>5, <3>2, <3>3, <3>4, <3>5 DEF CallFits, k
    <2> QED
      BY <2>1, <2>2
  <1>12. ClientStands(r, q, D)
    <2>1. /\ Begins(p, q) /\ Len(p) <= MaxPendingWrites /\ (c.enabled => Len(p) = Room(q))
      BY StandFacts
    <2> QED
      BY <1>2, <1>7, <1>8, <1>9, <1>10, <1>11, <2>1 DEF ClientStands, Fillable
  <1>13. UserFollows(r, cur, auth)
    BY <1>1, <1>7 DEF UserFollows
  <1>14. TokenIsTheirs(r, cur)
    BY <1>1, <1>2, <1>6, <1>7 DEF TokenIsTheirs
  <1> QED
    BY <1>6, <1>7, <1>12, <1>13, <1>14, StandFacts DEF Stands, newin, in, out, message

(* The backend refuses a write, and ends the call.                         *)
LEMMA EndedStands ==
  ASSUME NEW c, NEW q, NEW D, NEW cur \in Users, NEW auth \in Users,
         Stands(c, q, D, cur, auth), c.call.out # <<>>,
         Head(c.call.out) # 0, Head(c.call.out) \in D,
         NEW ended \in {"cut", "ended"}
  PROVE  /\ Stands(Ended(c, ended), q, D, cur, auth)
         /\ Ended(c, ended).ready = c.ready /\ Ended(c, ended).call.in = c.call.in
  <1> DEFINE r == Ended(c, ended)
             in == c.call.in
             a == Len(in)
             p == c.pipeline
             call == [c.call EXCEPT !.out = <<>>, !.ended = ended]
  <1>1. /\ c \in ClientType /\ TokensPlaced(c) /\ StreamStands(c) /\ CallFits(c, D)
        /\ UserFollows(c, cur, auth) /\ TokenIsTheirs(c, cur) /\ c.call \in CallType
        /\ in \in Seq(0 .. MaxWrites) /\ p \in Seq(BatchType)
    BY StandFacts
  <1>2. /\ IsOpen(c) /\ c.enabled /\ c.call.user = cur /\ c.ready
        /\ a \in Nat /\ a + 1 \in 1 .. Len(p) /\ p[a + 1].write \in D
    BY MessageIs
  <1>3. r = [c EXCEPT !.call = call]
    BY <1>1 DEF Ended, ClientType, CallType
  <1> HIDE DEF r
  <1>4. /\ call \in CallType /\ call.out = <<>> /\ call.in = in
        /\ call.user = c.call.user /\ call.ended = ended
    <2>1. <<>> \in Seq(0 .. MaxWrites)
      OBVIOUS
    <2> QED
      BY <1>1, <2>1 DEF CallType
  <1> HIDE DEF call
  <1>5. /\ r \in ClientType /\ r.call = call /\ r.ready = c.ready /\ r.idle = c.idle
        /\ r.enabled = c.enabled /\ r.pipeline = p /\ r.state = c.state
        /\ r.ask = c.ask /\ r.main = c.main /\ r.worker = c.worker
    BY <1>1, <1>3, <1>4 DEF ClientType
  <1>6. IsOpen(r) /\ IsStarted(r) /\ IsStarted(c)
    BY <1>2, <1>5 DEF IsOpen, IsStarted
  <1>7. StreamStands(r)
    BY <1>1, <1>2, <1>4, <1>5, <1>6 DEF StreamStands
  <1>8. TokensPlaced(r)
    BY <1>1, <1>5 DEF TokensPlaced
  <1>9. CallFits(r, D)
    <2>1. /\ r.call.in = in /\ r.call.out = <<>> /\ r.call.ended # "no" /\ r.ready
          /\ r.pipeline = p
      BY <1>2, <1>4, <1>5
    <2>2. /\ \A i \in 1 .. a : in[i] = p[i].write
          /\ Len(p) \in Nat
      BY <1>1, <1>2, SeqFacts DEF CallFits
    <2>3. Len(<<>>) = 0 /\ \A i \in 1 .. 0 : FALSE
      OBVIOUS
    <2>4. a < Len(p) /\ a + 0 <= Len(p)
      BY <1>2, <2>2
    <2> QED
      BY <1>2, <2>1, <2>2, <2>3, <2>4 DEF CallFits
  <1>10. ClientStands(r, q, D)
    <2>1. /\ Begins(p, q) /\ Len(p) <= MaxPendingWrites /\ (c.enabled => Len(p) = Room(q))
      BY StandFacts
    <2> QED
      BY <1>2, <1>5, <1>6, <1>7, <1>8, <1>9, <2>1 DEF ClientStands, Fillable
  <1>11. UserFollows(r, cur, auth)
    BY <1>1, <1>5 DEF UserFollows
  <1>12. TokenIsTheirs(r, cur)
    BY <1>1, <1>2, <1>4, <1>5 DEF TokenIsTheirs
  <1> QED
    BY <1>4, <1>5, <1>10, <1>11, <1>12, StandFacts DEF Stands, r

-----------------------------------------------------------------------------
(* The steps of the specification.                                         *)

Standing ==
  Typed /\ QueuesStand /\ Stands(client, queue[current], denied, current, authUser)

LEMMA StandingFacts ==
  ASSUME Standing
  PROVE  /\ Typed /\ QueuesStand
         /\ Stands(client, queue[current], denied, current, authUser)
         /\ authUser \in Users /\ current \in Users /\ queue \in [Users -> Seq(BatchType)]
         /\ queue[current] \in Seq(BatchType)
         /\ \A u \in Users : queue[u] \in Seq(BatchType) /\ Ascending(queue[u])
  BY DEF Standing, Typed, QueuesStand

LEMMA WaitsTyped ==
  ASSUME waits \subseteq WaitType
  PROVE  /\ \A wt \in WaitType : \A a \in {"ok", "cancelled"} :
              /\ Answered(wt, a) \in WaitType
              /\ Answered(wt, a).id = wt.id /\ Answered(wt, a).writes = wt.writes
              /\ Answered(wt, a).answer = IF wt.answer = "none" THEN a ELSE wt.answer
         /\ \A id : TriggerPendingWriteCallbacks(id) \subseteq WaitType
         /\ FailOutstandingPendingWriteCallbacks \subseteq WaitType
  <1>1. ASSUME NEW wt \in WaitType, NEW a \in {"ok", "cancelled"}
        PROVE  /\ Answered(wt, a) \in WaitType
               /\ Answered(wt, a).id = wt.id /\ Answered(wt, a).writes = wt.writes
               /\ Answered(wt, a).answer = IF wt.answer = "none" THEN a ELSE wt.answer
    BY DEF Answered, WaitType
  <1>2. ASSUME NEW id PROVE TriggerPendingWriteCallbacks(id) \subseteq WaitType
    BY <1>1 DEF TriggerPendingWriteCallbacks
  <1>3. FailOutstandingPendingWriteCallbacks \subseteq WaitType
    BY <1>1 DEF FailOutstandingPendingWriteCallbacks
  <1> QED
    BY <1>1, <1>2, <1>3

LEMMA NotifiedTyped ==
  ASSUME Typed, NEW answer \in {"ok", "failed"}, NEW id
  PROVE  Notified(id, answer) \in [Writes -> {"nothing", "ok", "failed"}]
  BY DEF Typed, Notified

(* The client and the log alone change.                                    *)
LEMMA ClientStep ==
  ASSUME Standing, UNCHANGED <<queue, engine, denied, written>>,
         log' \in Seq(LogType), authUser' \in Users,
         Stands(client', queue[current], denied, current, authUser')
  PROVE  Standing'
  <1>1. Typed'
    BY DEF Standing, Typed, engine
  <1>2. QueuesStand'
    BY DEF Standing, QueuesStand, engine
  <1> QED
    BY <1>1, <1>2 DEF Standing, engine

(* A batch is settled.                                                     *)
LEMMA SettleStep ==
  ASSUME Standing, NEW answer \in {"ok", "failed"}, NEW batch, Settle(batch, answer),
         RemoveFirst(queue[current], batch) = Tail(queue[current]), queue[current] # <<>>,
         UNCHANGED <<authUser, current, nextId, backend, written>>,
         Stands(client', Tail(queue[current]), denied, current, authUser)
  PROVE  /\ Standing' /\ queue'[current] = Tail(queue[current])
         /\ queue' = [queue EXCEPT ![current] = Tail(@)]
  <1>1. Typed /\ QueuesStand
    BY DEF Standing
  <1>2. queue' = [queue EXCEPT ![current] = Tail(@)]
    BY <1>1 DEF Settle, Typed
  <1>3. queue' \in [Users -> Seq(BatchType)] /\ QueuesStand'
    BY <1>1, <1>2, QueuesSettle
  <1>4. queue'[current] = Tail(queue[current])
    BY <1>1, <1>2 DEF Typed
  <1>5. told' \in [Writes -> {"nothing", "ok", "failed"}]
    BY <1>1, NotifiedTyped DEF Settle
  <1>6. waits' \subseteq WaitType
    BY <1>1, WaitsTyped DEF Settle, Typed
  <1>7. callbacks' \subseteq CallbackType
    BY <1>1 DEF Settle, Typed
  <1>8. Typed'
    BY <1>1, <1>3, <1>5, <1>6, <1>7 DEF Typed, backend
  <1> QED
    BY <1>2, <1>3, <1>4, <1>8 DEF Standing, backend

LEMMA StandingInit == Init => Standing
  <1> SUFFICES ASSUME Init PROVE Standing
    OBVIOUS
  <1>1. <<>> \in Seq(BatchType) /\ <<>> \in Seq(LogType) /\ Len(<<>>) = 0
    OBVIOUS
  <1>2. queue \in [Users -> Seq(BatchType)] /\ \A u \in Users : queue[u] = <<>>
    BY <1>1 DEF Init
  <1>3. authUser \in Users /\ current = authUser
    BY Constants DEF Init
  <1>4. Typed
    <2>1. nextId \in Nat \ {0} /\ written \in 0 .. MaxWrites
      BY Constants DEF Init
    <2> QED
      BY <1>1, <1>2, <1>3, <2>1 DEF Init, Typed
  <1>5. \A i \in 1 .. 0 : FALSE
    OBVIOUS
  <1>6. \A u \in Users : Len(queue[u]) = 0
    BY <1>1, <1>2
  <1>7. QueuesStand
    BY <1>3, <1>5, <1>6 DEF Init, QueuesStand, Ascending
  <1>8. Ascending(<<>>)
    BY <1>1, <1>5 DEF Ascending
  <1>9. Stands(client, queue[current], denied, current, authUser)
    <2>1. client = NewClient(<<>>) /\ queue[current] = <<>>
      BY <1>2, <1>3 DEF Init
    <2>2. /\ client \in ClientType /\ ClientStands(client, <<>>, denied)
          /\ \A cur \in Users : UserFollows(client, cur, cur) /\ TokenIsTheirs(client, cur)
      BY <1>1, <1>8, <2>1, NewClientIs
    <2> QED
      BY <1>1, <1>3, <1>8, <2>1, <2>2 DEF Stands
  <1> QED
    BY <1>4, <1>7, <1>9 DEF Standing

(* Writing.                                                                *)
LEMMA WriteStep ==
  ASSUME Standing, WriteMutations
  PROVE  /\ Standing'
         /\ client'.ready = client.ready /\ client'.call.in = client.call.in
  <1> DEFINE b == Batch(nextId, written')
             q == queue[current]
  <1>1. /\ Typed /\ QueuesStand /\ Stands(client, q, denied, current, authUser)
        /\ authUser \in Users /\ current \in Users /\ queue \in [Users -> Seq(BatchType)]
    BY StandingFacts
  <1>2. /\ written < MaxWrites /\ written' = written + 1 /\ nextId' = nextId + 1
        /\ queue' = [queue EXCEPT ![current] = Append(@, b)]
        /\ denied' \in {denied, denied \union {written'}}
        /\ callbacks' = callbacks \union {[user |-> current, id |-> nextId, write |-> written']}
        /\ client' = FillWritePipeline(client, queue'[current])
        /\ UNCHANGED <<authUser, current, waits, told, log>>
    BY DEF WriteMutations
  <1>3. /\ queue' \in [Users -> Seq(BatchType)] /\ QueuesStand'
        /\ written' \in Writes /\ written' \in 0 .. MaxWrites
        /\ queue'[current] = Append(q, b) /\ b \in BatchType
    BY <1>1, <1>2, QueuesWrite
  <1> HIDE DEF b
  <1>4. Ascending(Append(q, b))
    <2>1. Ascending(queue'[current])
      BY <1>1, <1>2, <1>3 DEF QueuesStand
    <2> QED
      BY <1>3, <2>1
  <1>5. denied \subseteq denied'
    BY <1>2
  <1> HIDE DEF q
  <1>6. /\ Stands(client', queue'[current], denied', current, authUser)
        /\ client'.ready = client.ready /\ client'.call.in = client.call.in
    <2> DEFINE next == Append(q, b)
               f == FillWritePipeline(client, next)
    <2>1. /\ Stands(f, next, denied', current, authUser)
          /\ f.ready = client.ready /\ f.call.in = client.call.in
      <3>1. /\ current \in Users /\ authUser \in Users /\ b \in BatchType
            /\ Stands(client, q, denied, current, authUser)
            /\ denied \subseteq denied' /\ Ascending(Append(q, b))
        BY <1>1, <1>3, <1>4, <1>5
      <3> QED
        BY <3>1, WriteStands
    <2>2. client' = f /\ queue'[current] = next
      BY <1>2, <1>3
    <2> HIDE DEF f, next
    <2> QED
      BY <2>1, <2>2
  <1>7. Typed'
    <2>1. nextId \in Nat \ {0} /\ nextId' \in Nat \ {0}
      BY <1>1, <1>2 DEF Typed
    <2>2. callbacks' \subseteq CallbackType
      BY <1>1, <1>2, <1>3, <2>1 DEF Typed, CallbackType
    <2>3. denied' \subseteq Writes
      BY <1>1, <1>2, <1>3 DEF Typed
    <2> QED
      BY <1>1, <1>2, <1>3, <2>1, <2>2, <2>3 DEF Typed
  <1> QED
    BY <1>2, <1>3, <1>6, <1>7 DEF Standing

(* A step of the client alone.                                             *)
LEMMA WorkStep ==
  ASSUME Standing,
         \/ WaitForPendingWrites \/ NetworkDisabled \/ NetworkEnabled
         \/ \E u \in Users : Announce(u)
         \/ FetchToken \/ DispatchToken \/ UserAnnounced \/ TokenAnswered
         \/ ResumeStartWithCredentials \/ BackoffElapsed \/ IdleTimeout \/ StreamFails
  PROVE  /\ Standing' /\ UNCHANGED <<queue, current, log, denied, told, callbacks, written>>
         /\ \/ client'.ready = client.ready /\ client'.call = client.call
            \/ ~ client'.ready
         /\ waits' = waits \/ WaitForPendingWrites
  <1> DEFINE c == client
             q == queue[current]
  <1>0. /\ Typed /\ QueuesStand /\ Stands(c, q, denied, current, authUser)
        /\ authUser \in Users /\ current \in Users /\ queue \in [Users -> Seq(BatchType)]
        /\ log \in Seq(LogType) /\ c \in ClientType /\ c.ask \in AskType /\ c.call \in CallType
    BY StandingFacts, StandFacts DEF Typed
  <1>1. CASE WaitForPendingWrites
    <2> DEFINE w == [id |-> Last(q).id, writes |-> Range(WritesOf(q)), answer |-> "none"]
    <2>1. /\ waits' = waits \union {w} /\ q # <<>>
          /\ UNCHANGED <<authUser, queue, client, current, nextId, callbacks, told, backend,
                         written, faults>>
      BY <1>1 DEF WaitForPendingWrites
    <2>2. w \in WaitType
      <3>1. Len(q) \in 1 .. Len(q)
        BY <1>0, SeqFacts, EmptySeq, <2>1
      <3>2. Last(q).id \in Nat
        BY <1>0, <3>1, QueueFacts DEF Last
      <3>3. Range(WritesOf(q)) \subseteq Writes
        <4>1. WritesOf(q) \in Seq(Writes)
          BY <1>0, WritesOfIs
        <4>2. DOMAIN WritesOf(q) = 1 .. Len(WritesOf(q)) /\
              \A i \in 1 .. Len(WritesOf(q)) : WritesOf(q)[i] \in Writes
          BY <4>1, SeqFacts
        <4> QED
          BY <4>2 DEF Range
      <3> QED
        BY <3>2, <3>3 DEF WaitType
    <2> HIDE DEF w
    <2>3. Typed'
      BY <1>0, <2>1, <2>2 DEF Typed, backend
    <2>4. QueuesStand'
      BY <1>0, <2>1 DEF QueuesStand
    <2>5. Stands(client', queue'[current'], denied', current', authUser')
      BY <1>0, <2>1 DEF backend
    <2> QED
      BY <1>1, <2>1, <2>3, <2>4, <2>5 DEF Standing, backend
  <1>2. ASSUME UNCHANGED <<queue, engine, backend, written>>, authUser' \in Users,
               Stands(client', q, denied, current, authUser'),
               \/ client'.ready = client.ready /\ client'.call = client.call
               \/ ~ client'.ready
        PROVE  /\ Standing' /\ UNCHANGED <<queue, current, log, denied, told, callbacks, written>>
               /\ \/ client'.ready = client.ready /\ client'.call = client.call
                  \/ ~ client'.ready
               /\ waits' = waits
    <2>1. log' \in Seq(LogType) /\ UNCHANGED <<denied, log>>
      BY <1>0, <1>2 DEF backend
    <2>2. Standing'
      BY <1>0, <1>2, <2>1, ClientStep
    <2> QED
      BY <1>2, <2>1, <2>2 DEF engine
  <1>3. CASE NetworkDisabled
    <2>1. /\ client' = DisableNetwork(client)
          /\ UNCHANGED <<authUser, queue, engine, backend, written, faults>>
      BY <1>3 DEF NetworkDisabled
    <2>2. Stands(client', q, denied, current, authUser) /\ ~ client'.ready
      BY <1>0, <2>1, DisabledStands
    <2> QED
      BY <1>0, <1>2, <2>1, <2>2
  <1>4. CASE NetworkEnabled
    <2>1. /\ client' = EnableNetwork(client, q) /\ ~ client.enabled
          /\ UNCHANGED <<authUser, queue, engine, backend, written>>
      BY <1>4 DEF NetworkEnabled, counts
    <2>2. Stands(client', q, denied, current, authUser) /\ ~ client'.ready
      BY <1>0, <2>1, EnabledStands
    <2> QED
      BY <1>0, <1>2, <2>1, <2>2
  <1>5. ASSUME NEW u \in Users, Announce(u)
        PROVE  /\ Stands(client', q, denied, current, authUser')
               /\ client'.ready = client.ready /\ client'.call = client.call
               /\ authUser' \in Users /\ UNCHANGED <<queue, engine, backend, written>>
    <2>1. /\ client' = [client EXCEPT !.main = Append(@, Change(u))] /\ authUser' = u
          /\ UNCHANGED <<queue, engine, backend, written, faults>>
      BY <1>5 DEF Announce
    <2>2. Stands(client', q, denied, current, u)
      BY <1>0, <2>1, AnnounceStands
    <2>3. client'.ready = client.ready /\ client'.call = client.call
      BY <1>0, <2>1 DEF ClientType
    <2> QED
      BY <2>1, <2>2, <2>3
  <1>6. CASE FetchToken
    <2>1. /\ client.ask.stage = "asked"
          /\ UNCHANGED <<authUser, queue, engine, backend, written>>
      BY <1>6 DEF FetchToken
    <2>2. PICK ask \in AskType : /\ client' = [client EXCEPT !.ask = ask]
                                 /\ ask.stage = "fetched" /\ (ask.ok => ask.user = authUser)
      <3>1. CASE client' = [client EXCEPT !.ask.stage = "fetched", !.ask.user = authUser]
        <4> DEFINE ask == [client.ask EXCEPT !.stage = "fetched", !.user = authUser]
        <4>1. client' = [client EXCEPT !.ask = ask]
          BY <1>0, <3>1 DEF ClientType
        <4>2. ask \in AskType /\ ask.stage = "fetched" /\ ask.user = authUser
          BY <1>0 DEF AskType
        <4> HIDE DEF ask
        <4> QED
          BY <4>1, <4>2
      <3>2. CASE client' = [client EXCEPT !.ask.stage = "fetched", !.ask.ok = FALSE]
        <4> DEFINE ask == [client.ask EXCEPT !.stage = "fetched", !.ok = FALSE]
        <4>1. client' = [client EXCEPT !.ask = ask]
          BY <1>0, <3>2 DEF ClientType
        <4>2. ask \in AskType /\ ask.stage = "fetched" /\ ~ ask.ok
          BY <1>0 DEF AskType
        <4> HIDE DEF ask
        <4> QED
          BY <4>1, <4>2
      <3> QED
        BY <1>6, <3>1, <3>2 DEF FetchToken
    <2>3. Stands(client', q, denied, current, authUser)
      BY <1>0, <2>1, <2>2, FetchStands
    <2>4. client'.ready = client.ready /\ client'.call = client.call
      BY <1>0, <2>2 DEF ClientType
    <2> QED
      BY <1>0, <1>2, <2>1, <2>3, <2>4
  <1>7. CASE DispatchToken
    <2>1. /\ client.ask.stage = "fetched"
          /\ client' = [client EXCEPT !.ask.stage = "main", !.main = Append(@, Token)]
          /\ UNCHANGED <<authUser, queue, engine, backend, written>>
      BY <1>7 DEF DispatchToken, counts
    <2>2. Stands(client', q, denied, current, authUser)
      BY <1>0, <2>1, DispatchStands
    <2>3. client'.ready = client.ready /\ client'.call = client.call
      BY <1>0, <2>1 DEF ClientType
    <2> QED
      BY <1>0, <1>2, <2>1, <2>2, <2>3
  <1>8. CASE UserAnnounced
    <2>1. /\ client.main # <<>> /\ IsChange(Head(client.main))
          /\ client' = [client EXCEPT !.main = Tail(@), !.ask.fresh = FALSE,
                                      !.worker = Append(@, Head(client.main))]
          /\ UNCHANGED <<authUser, queue, engine, backend, written>>
      BY <1>8 DEF UserAnnounced, counts
    <2>2. Stands(client', q, denied, current, authUser)
      BY <1>0, <2>1, PassedStands
    <2>3. client'.ready = client.ready /\ client'.call = client.call
      BY <1>0, <2>1 DEF ClientType
    <2> QED
      BY <1>0, <1>2, <2>1, <2>2, <2>3
  <1>9. CASE TokenAnswered
    <2>1. /\ client.main # <<>> /\ ~ IsChange(Head(client.main))
          /\ client' = [client EXCEPT !.main = Tail(@), !.ask.stage = "worker",
                                      !.ask.ok = @ /\ client.ask.fresh,
                                      !.worker = Append(@, Token)]
          /\ UNCHANGED <<authUser, queue, engine, backend, written>>
      BY <1>9 DEF TokenAnswered, counts
    <2>2. Stands(client', q, denied, current, authUser)
      BY <1>0, <2>1, AnsweredStands
    <2>3. client'.ready = client.ready /\ client'.call = client.call
      BY <1>0, <2>1 DEF ClientType
    <2> QED
      BY <1>0, <1>2, <2>1, <2>2, <2>3
  <1>10. CASE ResumeStartWithCredentials
    <2>1. /\ client.worker # <<>> /\ ~ IsChange(Head(client.worker))
          /\ client' = Resumed(client)
          /\ UNCHANGED <<authUser, queue, engine, backend, written>>
      BY <1>10 DEF ResumeStartWithCredentials, Resumed, counts
    <2>2. Stands(client', q, denied, current, authUser) /\ ~ client'.ready
      BY <1>0, <2>1, ResumeStands
    <2> QED
      BY <1>0, <1>2, <2>1, <2>2
  <1>11. CASE BackoffElapsed
    <2>1. /\ client.state = "Backoff" /\ client' = RequestCredentials(client)
          /\ UNCHANGED <<authUser, queue, engine, backend, written>>
      BY <1>11 DEF BackoffElapsed, counts
    <2>2. Stands(client', q, denied, current, authUser) /\ ~ client'.ready
      BY <1>0, <2>1, BackoffStands
    <2> QED
      BY <1>0, <1>2, <2>1, <2>2
  <1>12. CASE IdleTimeout
    <2>1. /\ client.idle /\ client' = Stop(client)
          /\ UNCHANGED <<authUser, queue, engine, backend, written>>
      BY <1>12 DEF IdleTimeout, counts
    <2>2. Stands(client', q, denied, current, authUser) /\ ~ client'.ready
      BY <1>0, <2>1, IdleStands
    <2> QED
      BY <1>0, <1>2, <2>1, <2>2
  <1>13. CASE StreamFails
    <2>1. /\ client' = Fail(client)
          /\ UNCHANGED <<authUser, queue, engine, backend, written>>
      BY <1>13 DEF StreamFails
    <2>2. Stands(client', q, denied, current, authUser) /\ ~ client'.ready
      BY <1>0, <2>1, FailStands
    <2> QED
      BY <1>0, <1>2, <2>1, <2>2
  <1>14. CASE \E u \in Users : Announce(u)
    BY <1>2, <1>5, <1>14
  <1> QED
    BY <1>1, <1>3, <1>4, <1>6, <1>7, <1>8, <1>9, <1>10, <1>11, <1>12, <1>13, <1>14

(* SyncEngine learns of a user.                                            *)
LEMMA ChangeStep ==
  ASSUME Standing, HandleCredentialChange
  PROVE  Standing' /\ ~ client'.ready /\ current' \in Users
  <1> DEFINE c == client
             user == Head(c.worker).user
  <1>1. /\ c.worker # <<>> /\ IsChange(Head(c.worker)) /\ current' = user
        /\ nextId' = (IF user = current THEN nextId ELSE LoadNextBatchId(queue))
        /\ waits' = (IF user = current THEN waits ELSE FailOutstandingPendingWriteCallbacks)
        /\ client' = Reconnect([c EXCEPT !.worker = Tail(@)], queue[user])
        /\ UNCHANGED <<authUser, queue, callbacks, told, backend, written>>
    BY DEF HandleCredentialChange, counts
  <1>2. /\ Typed /\ QueuesStand /\ Stands(c, queue[current], denied, current, authUser)
        /\ authUser \in Users /\ current \in Users
        /\ \A u \in Users : queue[u] \in Seq(BatchType) /\ Ascending(queue[u])
    BY StandingFacts
  <1>3. user \in Users
    BY <1>1, <1>2, ChangeStands
  <1>4. Stands(client', queue[user], denied, user, authUser) /\ ~ client'.ready
    <2> DEFINE d == [c EXCEPT !.worker = Tail(@)]
               r == Reconnect(d, queue[user])
    <2>1. queue[user] \in Seq(BatchType) /\ Ascending(queue[user])
      BY <1>2, <1>3
    <2>2. Stands(r, queue[user], denied, user, authUser) /\ ~ r.ready
      BY <1>1, <1>2, <2>1, ChangeStands
    <2> QED
      BY <1>1, <2>2
  <1> HIDE DEF user
  <1>5. QueuesStand' /\ nextId' \in Nat \ {0}
    BY <1>1, <1>2, <1>3, QueuesMove
  <1>6. Typed'
    BY <1>1, <1>2, <1>3, <1>5, WaitsTyped DEF Typed, backend
  <1>7. Stands(client', queue'[current'], denied', current', authUser')
    BY <1>1, <1>4 DEF backend
  <1> QED
    BY <1>1, <1>3, <1>4, <1>5, <1>6, <1>7 DEF Standing

(* The answer to the handshake.                                            *)
LEMMA HandshakeStep ==
  ASSUME Standing, HandshakeComplete
  PROVE  /\ Standing' /\ client'.ready /\ client'.call.in = <<>> /\ ~ client.ready
         /\ UNCHANGED <<queue, engine, backend, written>>
  <1>1. /\ client.call.in # <<>> /\ ~ client.ready /\ client' = Greeted(client)
        /\ UNCHANGED <<authUser, queue, engine, backend, written>>
    BY DEF HandshakeComplete, Greeted, counts
  <1>2. /\ Stands(client, queue[current], denied, current, authUser)
        /\ authUser \in Users /\ current \in Users
    BY StandingFacts
  <1>3. Stands(client', queue[current], denied, current, authUser) /\ client'.ready
        /\ client'.call.in = <<>>
    BY <1>1, <1>2, HandshakeStands
  <1>4. log' \in Seq(LogType) /\ UNCHANGED denied
    BY <1>1 DEF Standing, Typed, backend
  <1>5. Standing'
    BY <1>1, <1>2, <1>3, <1>4, ClientStep
  <1> QED
    BY <1>1, <1>3, <1>5

(* The first write of the pipeline is settled, or given up.                *)
LEMMA ResultStep ==
  ASSUME Standing, MutationResult
  PROVE  LET batch == Head(queue[current])
         IN  /\ Standing' /\ queue[current] # <<>> /\ Head(client.pipeline) = batch
             /\ Settle(batch, "ok") /\ queue' = [queue EXCEPT ![current] = Tail(@)]
             /\ client.ready /\ client.call.in # <<>> /\ Head(client.call.in) = batch.write
             /\ client'.ready /\ client'.call.in = Tail(client.call.in)
             /\ UNCHANGED <<authUser, current, nextId, backend, written>>
  <1> DEFINE c == client
             q == queue[current]
             batch == Head(c.pipeline)
  <1>1. /\ c.call.in # <<>> /\ c.ready /\ Settle(batch, "ok")
        /\ client' = Advanced(c, queue'[current])
        /\ UNCHANGED <<authUser, current, nextId, backend, written>>
    BY DEF MutationResult, Advanced, counts
  <1>2. /\ Typed /\ Stands(c, q, denied, current, authUser)
        /\ authUser \in Users /\ current \in Users /\ queue \in [Users -> Seq(BatchType)]
    BY StandingFacts
  <1> DEFINE r == Advanced(c, Tail(q))
  <1>3. /\ Stands(r, Tail(q), denied, current, authUser) /\ r.ready
        /\ r.call.in = Tail(c.call.in) /\ q # <<>> /\ batch = Head(q)
        /\ RemoveFirst(q, batch) = Tail(q) /\ Head(c.call.in) = Head(q).write
    BY <1>1, <1>2, ResultStands
  <1>4. client' = r
    <2>1. queue'[current] = Tail(q)
      BY <1>1, <1>2, <1>3 DEF Settle
    <2> QED
      BY <1>1, <2>1
  <1> HIDE DEF r
  <1>5. Standing' /\ queue' = [queue EXCEPT ![current] = Tail(@)]
    BY <1>1, <1>2, <1>3, <1>4, SettleStep
  <1> QED
    BY <1>1, <1>3, <1>4, <1>5

LEMMA RefusedStep ==
  ASSUME Standing, WriteRefused
  PROVE  LET batch == Head(queue[current])
         IN  /\ Standing' /\ queue[current] # <<>> /\ Head(client.pipeline) = batch
             /\ Settle(batch, "failed") /\ queue' = [queue EXCEPT ![current] = Tail(@)]
             /\ client.ready /\ ~ client'.ready
             /\ \/ client.call.in = <<>> /\ batch.write \in denied
                \/ client.call.in # <<>> /\ Head(client.call.in) = batch.write
             /\ UNCHANGED <<authUser, current, nextId, backend, written>>
  <1> DEFINE c == client
             q == queue[current]
             batch == Head(c.pipeline)
  <1>1. /\ c.call.ended # "no" /\ Settle(batch, "failed")
        /\ client' = GivenUp(c, queue'[current])
        /\ UNCHANGED <<authUser, current, nextId, backend, written>>
    BY DEF WriteRefused, GivenUp, counts
  <1>2. /\ Typed /\ Stands(c, q, denied, current, authUser)
        /\ authUser \in Users /\ current \in Users /\ queue \in [Users -> Seq(BatchType)]
    BY StandingFacts
  <1> DEFINE r == GivenUp(c, Tail(q))
  <1>3. /\ Stands(r, Tail(q), denied, current, authUser) /\ ~ r.ready
        /\ q # <<>> /\ batch = Head(q) /\ RemoveFirst(q, batch) = Tail(q) /\ c.ready
        /\ IF c.call.in = <<>> THEN Head(q).write \in denied
                               ELSE Head(c.call.in) = Head(q).write
    BY <1>1, <1>2, RefusedStands
  <1>4. client' = r
    <2>1. queue'[current] = Tail(q)
      BY <1>1, <1>2, <1>3 DEF Settle
    <2> QED
      BY <1>1, <2>1
  <1> HIDE DEF r
  <1>5. Standing' /\ queue' = [queue EXCEPT ![current] = Tail(@)]
    BY <1>1, <1>2, <1>3, <1>4, SettleStep
  <1> QED
    BY <1>1, <1>3, <1>4, <1>5

(* The backend reads a message.                                            *)
LEMMA ServeStep ==
  ASSUME Standing, Serve
  PROVE  LET message == Head(client.call.out)
             in == client.call.in
         IN  /\ Standing' /\ client'.ready = client.ready
             /\ UNCHANGED <<authUser, queue, engine, denied, written>>
             /\ \/ ~ client.ready /\ UNCHANGED log
                \/ UNCHANGED log /\ client'.call.in = in
                \/ /\ client.ready /\ message \in Writes /\ Len(in) + 1 \in 1 .. Len(queue[current])
                   /\ message = queue[current][Len(in) + 1].write
                   /\ log' = Append(log, [user |-> current, write |-> message])
                   /\ client'.call.in = Append(in, message)
  <1> DEFINE c == client
             q == queue[current]
             message == Head(c.call.out)
             a == Len(c.call.in)
  <1>1. /\ c.call.out # <<>> /\ UNCHANGED <<authUser, queue, engine, denied, written>>
    BY DEF Serve, counts
  <1>2. /\ Typed /\ Stands(c, q, denied, current, authUser)
        /\ authUser \in Users /\ current \in Users /\ log \in Seq(LogType) /\ denied \subseteq Writes
    BY StandingFacts DEF Typed
  <1>3. /\ c.call.user = current /\ a \in Nat
        /\ message = 0 => ~ c.ready /\ c.call.in = <<>> /\ Tail(c.call.out) = <<>>
        /\ message # 0 => /\ c.ready /\ message \in Writes /\ a + 1 \in 1 .. Len(q)
                          /\ message = q[a + 1].write
    BY <1>1, <1>2, MessageIs
  <1>4. 0 \notin Writes
    BY DEF Writes
  <1>5. CASE message = 0
    <2>1. client' = Served(c) /\ UNCHANGED log
      BY <1>2, <1>4, <1>5 DEF Serve, Served
    <2>2. Stands(client', q, denied, current, authUser) /\ client'.ready = c.ready
      BY <1>1, <1>2, <2>1, ServedStands
    <2>3. log' \in Seq(LogType) /\ authUser' \in Users /\ authUser' = authUser
      BY <1>1, <1>2, <2>1
    <2>4. Standing'
      BY <1>1, <2>2, <2>3, ClientStep
    <2> QED
      BY <1>1, <1>3, <1>5, <2>1, <2>2, <2>4
  <1>6. CASE message # 0 /\ message \in denied
    <2> DEFINE ended == IF Len(c.call.out) > 1 THEN "cut" ELSE "ended"
    <2>1. client' = Ended(c, ended) /\ UNCHANGED log
      BY <1>6 DEF Serve, Ended
    <2>2. ended \in {"cut", "ended"}
      OBVIOUS
    <2> HIDE DEF ended
    <2>3. /\ Stands(client', q, denied, current, authUser) /\ client'.ready = c.ready
          /\ client'.call.in = c.call.in
      BY <1>1, <1>2, <1>6, <2>1, <2>2, EndedStands
    <2>4. log' \in Seq(LogType) /\ authUser' \in Users /\ authUser' = authUser
      BY <1>1, <1>2, <2>1
    <2>5. Standing'
      BY <1>1, <2>3, <2>4, ClientStep
    <2> QED
      BY <1>1, <2>1, <2>3, <2>5
  <1>7. CASE message # 0 /\ message \notin denied
    <2>1. client' = Served(c) /\ log' = Append(log, [user |-> current, write |-> message])
      BY <1>3, <1>7 DEF Serve, Served
    <2>2. /\ Stands(client', q, denied, current, authUser) /\ client'.ready = c.ready
          /\ client'.call.in = Append(c.call.in, message)
      BY <1>1, <1>2, <2>1, ServedStands
    <2>3. [user |-> current, write |-> message] \in LogType
      BY <1>2, <1>3, <1>7 DEF LogType
    <2>4. log' \in Seq(LogType) /\ authUser' \in Users /\ authUser' = authUser
      BY <1>1, <1>2, <2>1, <2>3, AppendProperties
    <2>5. Standing'
      BY <1>1, <2>2, <2>4, ClientStep
    <2> QED
      BY <1>1, <1>3, <1>7, <2>1, <2>2, <2>5
  <1> QED
    BY <1>5, <1>6, <1>7

(* The app is killed and started again.                                    *)
LEMMA KilledStep ==
  ASSUME Standing, KilledAtRest \/ KilledAtResult
  PROVE  /\ Standing' /\ ~ client'.ready /\ callbacks' = {} /\ current' \in Users
         /\ UNCHANGED <<queue, backend, written>>
         /\ \A wt \in waits' : wt.answer # "none"
         /\ \/ UNCHANGED told /\ waits' \subseteq waits
            \/ LET batch == Head(queue[current])
               IN  /\ client.ready /\ client.call.in # <<>> /\ queue[current] # <<>>
                   /\ Head(client.call.in) = batch.write
                   /\ told' = Notified(batch.id, "ok")
                   /\ waits' \subseteq TriggerPendingWriteCallbacks(batch.id)
  <1> DEFINE c == client
             q == queue[current]
             batch == Head(c.pipeline)
  <1>1. Kill
    BY DEF KilledAtRest, KilledAtResult
  <1>2. /\ client' = NewClient(queue[authUser]) /\ current' = authUser
        /\ nextId' = LoadNextBatchId(queue) /\ callbacks' = {}
        /\ UNCHANGED <<authUser, queue, backend, written>>
    BY <1>1 DEF Kill
  <1>3. /\ Typed /\ QueuesStand /\ Stands(c, q, denied, current, authUser)
        /\ authUser \in Users /\ current \in Users
        /\ \A u \in Users : queue[u] \in Seq(BatchType) /\ Ascending(queue[u])
    BY StandingFacts
  <1>4. /\ \A wt \in waits' : wt.answer # "none"
        /\ \/ UNCHANGED told /\ waits' \subseteq waits
           \/ /\ c.ready /\ c.call.in # <<>> /\ q # <<>> /\ batch = Head(q)
              /\ Head(c.call.in) = Head(q).write
              /\ told' = Notified(batch.id, "ok")
              /\ waits' \subseteq TriggerPendingWriteCallbacks(batch.id)
    <2>1. CASE KilledAtRest
      BY <2>1 DEF KilledAtRest
    <2>2. CASE KilledAtResult
      <3>1. /\ c.ready /\ c.call.in # <<>> /\ told' = Notified(batch.id, "ok")
            /\ waits' = {wt \in TriggerPendingWriteCallbacks(batch.id) : wt.answer # "none"}
        BY <2>2 DEF KilledAtResult
      <3>2. q # <<>> /\ batch = Head(q) /\ Head(c.call.in) = Head(q).write
        BY <1>3, <3>1, ResultStands
      <3> QED
        BY <3>1, <3>2
    <2> QED
      BY <2>1, <2>2
  <1>5. QueuesStand' /\ nextId' \in Nat \ {0}
    BY <1>2, <1>3, QueuesMove
  <1>6. Stands(client', queue'[current'], denied', current', authUser') /\ ~ client'.ready
    <2>1. /\ client' \in ClientType /\ ClientStands(client', queue[authUser], denied)
          /\ ~ client'.ready
          /\ \A cur \in Users : UserFollows(client', cur, cur) /\ TokenIsTheirs(client', cur)
      BY <1>2, <1>3, NewClientIs
    <2> QED
      BY <1>2, <1>3, <2>1 DEF Stands, backend
  <1>7. Typed'
    <2>1. waits' \subseteq WaitType
      BY <1>3, <1>4, WaitsTyped DEF Typed
    <2>2. told' \in [Writes -> {"nothing", "ok", "failed"}]
      BY <1>3, <1>4, NotifiedTyped DEF Typed
    <2> QED
      BY <1>2, <1>3, <1>5, <2>1, <2>2 DEF Typed, backend
  <1> QED
    BY <1>2, <1>3, <1>4, <1>5, <1>6, <1>7 DEF Standing

LEMMA StandingNext == Standing /\ [Next]_vars => Standing'
  <1> SUFFICES ASSUME Standing, [Next]_vars PROVE Standing'
    OBVIOUS
  <1>1. CASE WriteMutations
    BY <1>1, WriteStep
  <1>2. CASE \/ WaitForPendingWrites \/ NetworkDisabled \/ NetworkEnabled
             \/ \E u \in Users : Announce(u)
             \/ FetchToken \/ DispatchToken \/ UserAnnounced \/ TokenAnswered
             \/ ResumeStartWithCredentials \/ BackoffElapsed \/ IdleTimeout \/ StreamFails
    BY <1>2, WorkStep
  <1>3. CASE HandleCredentialChange
    BY <1>3, ChangeStep
  <1>4. CASE HandshakeComplete
    BY <1>4, HandshakeStep
  <1>5. CASE MutationResult
    BY <1>5, ResultStep
  <1>6. CASE WriteRefused
    BY <1>6, RefusedStep
  <1>7. CASE Serve
    BY <1>7, ServeStep
  <1>8. CASE KilledAtRest \/ KilledAtResult
    BY <1>8, KilledStep
  <1>9. CASE UNCHANGED vars
    <2>1. UNCHANGED <<authUser, queue, client, current, nextId, callbacks, waits, told, log,
                      denied, written>>
      BY <1>9 DEF vars, engine, backend, counts
    <2>2. Typed' /\ QueuesStand'
      BY <2>1 DEF Standing, Typed, QueuesStand
    <2> QED
      BY <2>1, <2>2 DEF Standing
  <1> QED
    BY <1>1, <1>2, <1>3, <1>4, <1>5, <1>6, <1>7, <1>8, <1>9 DEF Next, Work

(* Everything that the invariant says holds at all times: the queues are   *)
(* numbered upwards, a stream is started only when it is needed, one token *)
(* at most is on its way to it and is the user's, and the messages of the  *)
(* call are those of the pipeline.                                         *)
THEOREM StandingTheorem == Spec => []Standing
  <1>1. Init => Standing
    BY StandingInit
  <1>2. Standing /\ [Next]_vars => Standing'
    BY StandingNext
  <1> QED
    BY <1>1, <1>2, PTL DEF Spec

-----------------------------------------------------------------------------
(* The properties of the runs.                                             *)

LEMMA StandingIsSound == Standing => Sound
  <1> SUFFICES ASSUME Standing PROVE Sound
    OBVIOUS
  <1>1. /\ Typed /\ client \in ClientType /\ StreamStands(client)
        /\ client.call \in CallType /\ client.ask \in AskType
        /\ client.call.in \in Seq(0 .. MaxWrites) /\ client.call.out \in Seq(0 .. MaxWrites)
        /\ client.pipeline # <<>> => IsStarted(client)
    BY StandingFacts, StandFacts
  <1>2. AssertionsHold
    BY <1>1 DEF AssertionsHold, StreamStands
  <1>3. Range(client.call.in) \subseteq 0 .. MaxWrites /\ Range(client.call.out) \subseteq 0 .. MaxWrites
    <2> DEFINE S == 0 .. MaxWrites
    <2>1. ASSUME NEW s \in Seq(S) PROVE Range(s) \subseteq S
      <3> HIDE DEF S
      <3>1. DOMAIN s = 1 .. Len(s) /\ \A i \in 1 .. Len(s) : s[i] \in S
        BY SeqFacts
      <3> QED
        BY <3>1 DEF Range
    <2> QED
      BY <1>1, <2>1
  <1>4. client.ask.stage \in {"none", "asked", "fetched", "main", "worker"}
    BY <1>1 DEF AskType
  <1>5. /\ client.call.user \in Users \union {None}
        /\ client.call.ended \in {"no", "ended", "cut", "failing"}
    BY <1>1 DEF CallType
  <1>6. client.state \in {"Initial", "Starting", "Backoff", "Open", "Error"}
    BY <1>1 DEF ClientType
  <1>7. TypeOK
    BY <1>1, <1>3, <1>4, <1>5, <1>6 DEF TypeOK, Typed, BatchType, CallbackType, LogType
  <1> QED
    BY <1>2, <1>7 DEF Sound

(* The messages under way, one by one.                                     *)
LEMMA MessagesAre ==
  ASSUME NEW in \in Seq(0 .. MaxWrites), NEW out \in Seq(0 .. MaxWrites),
         NEW p \in Seq(BatchType), Len(in) + Len(out) = Len(p),
         \A i \in 1 .. Len(in) : in[i] = p[i].write,
         \A i \in 1 .. Len(out) : out[i] = p[Len(in) + i].write
  PROVE  in \o out = WritesOf(p)
  <1> DEFINE S == 0 .. MaxWrites
             a == Len(in)
             b == Len(out)
             w == WritesOf(p)
             io == in \o out
  <1>1. /\ w \in Seq(S) /\ Len(w) = Len(p) /\ \A i \in 1 .. Len(p) : w[i] = p[i].write
    BY WritesOfIs
  <1>2. in \in Seq(S) /\ out \in Seq(S)
    OBVIOUS
  <1> HIDE DEF S
  <1>3. a \in Nat /\ b \in Nat
    BY <1>2, SeqFacts
  <1>4. /\ io \in Seq(S) /\ Len(io) = a + b
        /\ \A i \in 1 .. a + b : io[i] = IF i <= a THEN in[i] ELSE out[i - a]
    BY <1>2, ConcatProperties
  <1>5. Len(p) = a + b /\ (\A i \in 1 .. a : in[i] = p[i].write)
        /\ \A i \in 1 .. b : out[i] = p[a + i].write
    OBVIOUS
  <1> HIDE DEF a, b, w, io
  <1>6. \A i \in 1 .. a + b : io[i] = w[i]
    <2> SUFFICES ASSUME NEW i \in 1 .. a + b PROVE io[i] = w[i]
      OBVIOUS
    <2>1. CASE i <= a
      <3>1. i \in 1 .. a
        BY <1>3, <2>1
      <3> QED
        BY <1>1, <1>4, <1>5, <2>1, <3>1
    <2>2. CASE ~ (i <= a)
      <3>1. i - a \in 1 .. b /\ a + (i - a) = i
        BY <1>3, <2>2
      <3> QED
        BY <1>1, <1>4, <1>5, <2>2, <3>1
    <2> QED
      BY <2>1, <2>2
  <1> QED
    BY <1>1, <1>4, <1>5, <1>6, SeqEqual DEF io, w

LEMMA StandingIsCorrelated == Standing => Correlated
  <1> SUFFICES ASSUME Standing PROVE Correlated
    OBVIOUS
  <1> DEFINE c == client
             q == queue[current]
             p == c.pipeline
             in == c.call.in
             out == c.call.out
             w == WritesOf(p)
             S == 0 .. MaxWrites
  <1>1. /\ StreamStands(c) /\ CallFits(c, denied)
        /\ in \in Seq(S) /\ out \in Seq(S) /\ p \in Seq(BatchType) /\ q \in Seq(BatchType)
        /\ Begins(p, q) /\ Len(p) <= MaxPendingWrites
        /\ (c.enabled \/ p = <<>>)
        /\ (c.enabled => Len(p) = Room(q))
    BY StandingFacts, StandFacts
  <1>2. p = IF c.enabled THEN SubSeq(q, 1, Min({MaxPendingWrites, Len(q)})) ELSE <<>>
    <2> SUFFICES ASSUME c.enabled PROVE p = SubSeq(q, 1, Min({MaxPendingWrites, Len(q)}))
      BY <1>1
    <2> DEFINE m == Min({MaxPendingWrites, Len(q)})
               n == Len(q)
               s == SubSeq(q, 1, m)
    <2> HIDE DEF c, q
    <2>1. n \in Nat /\ MaxPendingWrites \in Nat
      BY <1>1, SeqFacts, Constants
    <2>2. m = Room(q) /\ m \in Nat /\ m <= n
      <3>1. m \in {MaxPendingWrites, n} /\ m <= MaxPendingWrites /\ m <= n
        <4> DEFINE T == {MaxPendingWrites, n}
        <4>1. T \in SUBSET Nat /\ T # {} /\ MaxPendingWrites \in T /\ n \in T
          BY <2>1
        <4> HIDE DEF T
        <4>2. Min(T) \in T /\ \A y \in T : Min(T) <= y
          BY <4>1, MinNat
        <4> QED
          BY <4>1, <4>2 DEF T
      <3> HIDE DEF m
      <3> QED
        BY <2>1, <3>1 DEF Room
    <2> HIDE DEF m
    <2>3. s \in Seq(BatchType) /\ Len(s) = m /\ \A i \in 1 .. m : s[i] = q[i]
      <3>1. \A i \in 1 .. m : i \in 1 .. n
        BY <2>1, <2>2
      <3>2. \A i \in 1 .. m : q[i] \in BatchType
        BY <1>1, <3>1, SeqFacts
      <3>3. s = [i \in 1 .. m |-> q[i]]
        BY <2>2, <1>1
      <3> QED
        BY <2>2, <3>2, <3>3
    <2>4. Len(p) = m /\ \A i \in 1 .. m : p[i] = q[i]
      BY <1>1, <2>2 DEF Begins
    <2> HIDE DEF s
    <2>5. p = s
      <3>1. Len(p) = Len(s) /\ \A i \in 1 .. Len(p) : p[i] = s[i]
        BY <2>3, <2>4
      <3> HIDE DEF p
      <3> QED
        BY <1>1, <2>3, <3>1, SeqEqual
    <2> QED
      BY <2>5 DEF s, m
  <1>3. c.ready => IsOpen(c)
    BY <1>1 DEF StreamStands
  <1>4. IsOpen(c) /\ ~ c.ready => in \o out = <<0>>
    BY <1>1 DEF CallFits
  <1>5. ASSUME c.ready, c.call.ended = "no" PROVE in \o out = w
    <2>1. /\ Len(in) + Len(out) = Len(p)
          /\ \A i \in 1 .. Len(in) : in[i] = p[i].write
          /\ \A i \in 1 .. Len(out) : out[i] = p[Len(in) + i].write
      BY <1>1, <1>5 DEF CallFits
    <2> QED
      BY <1>1, <2>1, MessagesAre
  <1>6. ASSUME c.ready, c.call.ended # "no"
        PROVE  out = <<>> /\ IsStrictPrefix(in, w) /\ w[Len(in) + 1] \in denied
    <2>1. /\ out = <<>> /\ Len(in) < Len(p) /\ p[Len(in) + 1].write \in denied
          /\ \A i \in 1 .. Len(in) : in[i] = p[i].write
      BY <1>1, <1>6 DEF CallFits
    <2>2. w \in Seq(S) /\ Len(w) = Len(p) /\ \A i \in 1 .. Len(p) : w[i] = p[i].write
      BY <1>1, WritesOfIs
    <2>3. Len(in) \in Nat /\ Len(p) \in Nat
      BY <1>1, SeqFacts
    <2> DEFINE a == Len(in)
               b == Len(p)
    <2> HIDE DEF a, b
    <2>4. a < b /\ a <= b /\ a + 1 \in 1 .. b /\ \A i \in 1 .. a : i \in 1 .. b
      BY <2>1, <2>3 DEF a, b
    <2>5. w[a + 1] \in denied
      BY <2>1, <2>2, <2>4 DEF a, b
    <2>6. IsPrefix(in, w)
      <3>1. Len(in) <= Len(w) /\ \A i \in 1 .. Len(in) : in[i] = w[i]
        BY <2>1, <2>2, <2>4 DEF a, b
      <3> HIDE DEF S, in, w
      <3> QED
        BY <1>1, <2>2, <3>1, PrefixIs
    <2>7. in # w
      BY <2>2, <2>3, <2>4 DEF a, b
    <2> QED
      BY <2>1, <2>5, <2>6, <2>7 DEF IsStrictPrefix, a
  <1> HIDE DEF c
  <1> QED
    BY <1>2, <1>4, <1>5, <1>6 DEF Correlated, c

(* The client passes its assertions at every step of every run: a stream   *)
(* is stopped for idleness only when nothing is to be written, a token     *)
(* comes to a stream that awaits one, and writes never wait for a stream   *)
(* that nobody has started.                                                *)
THEOREM SoundTheorem == Spec => []Sound
  BY StandingTheorem, StandingIsSound, PTL

(* An answer is always that to the write it is taken for: the requests and *)
(* answers under way are those of the pipeline, in its order, and the      *)
(* pipeline is the beginning of the current user's queue.                  *)
THEOREM CorrelatedTheorem == Spec => []Correlated
  BY StandingTheorem, StandingIsCorrelated, PTL


-----------------------------------------------------------------------------
(* What callbacks and those who wait are told.                             *)

Applied(w) == \E i \in 1 .. Len(log) : log[i].write = w
Settled(w) == Applied(w) \/ w \in denied
Queued(u, b) == \E i \in 1 .. Len(queue[u]) : queue[u][i] = b
Pending(w) == \E u \in Users : \E i \in 1 .. Len(queue[u]) : queue[u][i].write = w
Awaited(w, id) ==
  \E i \in 1 .. Len(queue[current]) :
    queue[current][i].write = w /\ queue[current][i].id <= id

(* The answers under way are those to writes that have been applied.       *)
AnswersApplied ==
  client.ready => \A i \in 1 .. Len(client.call.in) : Applied(client.call.in[i])

(* A write that has failed has been made, and is not sent again.           *)
ToldStands ==
  /\ \A w \in Writes : told[w] = "ok" => Applied(w)
  /\ \A w \in Writes : told[w] = "failed" => w <= written /\ ~ Pending(w)

CallbacksStand == \A cb \in callbacks : Queued(cb.user, Batch(cb.id, cb.write))

(* The writes that somebody waits for are settled, or those of the user's  *)
(* queue up to the batch he waits for.                                     *)
WaitsStand ==
  \A wt \in waits : \A w \in wt.writes :
    /\ wt.answer = "ok" => Settled(w)
    /\ wt.answer = "none" => Settled(w) \/ Awaited(w, wt.id)

AnswersStand == AnswersApplied /\ ToldStands /\ CallbacksStand /\ WaitsStand

LEMMA LogGrows ==
  ASSUME log \in Seq(LogType), NEW e, log' = log \/ log' = Append(log, e)
  PROVE  \A w : Applied(w) => Applied(w)'
  <1>1. CASE log' = log
    BY <1>1 DEF Applied
  <1>2. CASE log' = Append(log, e)
    <2>1. /\ Len(log) \in Nat /\ Len(Append(log, e)) = Len(log) + 1
          /\ \A i \in 1 .. Len(log) : Append(log, e)[i] = log[i]
      OBVIOUS
    <2>2. \A i \in 1 .. Len(log) : i \in 1 .. Len(log')
      BY <1>2, <2>1
    <2> QED
      BY <1>2, <2>1, <2>2 DEF Applied
  <1> QED
    BY <1>1, <1>2

(* The step leaves the queues, the backend and those who are told alone.   *)
LEMMA SameAnswers ==
  ASSUME ToldStands, CallbacksStand, WaitsStand,
         UNCHANGED <<queue, current, denied, told, callbacks, waits, written>>,
         \A w : Applied(w) => Applied(w)'
  PROVE  ToldStands' /\ CallbacksStand' /\ WaitsStand'
  <1>1. \A w : Settled(w) => Settled(w)'
    BY DEF Settled
  <1>2. \A w : Pending(w)' => Pending(w)
    BY DEF Pending
  <1>3. \A w, id : Awaited(w, id) => Awaited(w, id)'
    BY DEF Awaited
  <1>4. \A u, b : Queued(u, b) => Queued(u, b)'
    BY DEF Queued
  <1>5. ToldStands'
    BY <1>2 DEF ToldStands
  <1>6. CallbacksStand'
    BY <1>4 DEF CallbacksStand
  <1>7. WaitsStand'
    BY <1>1, <1>3 DEF WaitsStand
  <1> QED
    BY <1>5, <1>6, <1>7

LEMMA AnswersInit == Init => AnswersStand
  <1> SUFFICES ASSUME Init PROVE AnswersStand
    OBVIOUS
  <1>1. ~ client.ready
    <2>1. client = NewClient(<<>>)
      BY DEF Init
    <2>2. <<>> \in Seq(BatchType) /\ Ascending(<<>>)
      <3>1. <<>> \in Seq(BatchType) /\ Len(<<>>) = 0 /\ \A i \in 1 .. 0 : FALSE
        OBVIOUS
      <3> QED
        BY <3>1 DEF Ascending
    <2> QED
      BY <2>1, <2>2, NewClientIs
  <1> QED
    BY <1>1 DEF Init, AnswersStand, AnswersApplied, ToldStands, CallbacksStand, WaitsStand

(* The batches of a queue are numbered upwards.                            *)
LEMMA HeadOnly ==
  ASSUME NEW q \in Seq(BatchType), Ascending(q), q # <<>>, NEW i \in 1 .. Len(q),
         q[i].id <= Head(q).id
  PROVE  i = 1 /\ Head(q) = q[1]
  <1>1. Len(q) \in Nat /\ Len(q) >= 1 /\ Head(q) = q[1]
    BY TailIs
  <1>2. 1 \in 1 .. Len(q) /\ q[1] \in BatchType /\ q[i] \in BatchType
    BY <1>1, SeqFacts
  <1>3. q[1].id \in Nat /\ q[i].id \in Nat
    BY <1>2 DEF BatchType
  <1>4. 1 < i => q[1].id < q[i].id
    BY <1>2 DEF Ascending
  <1> QED
    BY <1>1, <1>3, <1>4

LEMMA LastIsLargest ==
  ASSUME NEW q \in Seq(BatchType), Ascending(q), q # <<>>, NEW i \in 1 .. Len(q)
  PROVE  q[i].id <= Last(q).id
  <1>1. Len(q) \in Nat /\ Len(q) >= 1
    BY TailIs
  <1>2. Len(q) \in 1 .. Len(q)
    BY <1>1
  <1>3. q[Len(q)] \in BatchType /\ q[i] \in BatchType
    BY <1>2, SeqFacts
  <1>4. q[Len(q)].id \in Nat /\ q[i].id \in Nat
    BY <1>3 DEF BatchType
  <1>5. i < Len(q) => q[i].id < q[Len(q)].id
    BY <1>2 DEF Ascending
  <1> QED
    BY <1>1, <1>4, <1>5 DEF Last

(* The callbacks that are called for the first batch are those of its      *)
(* write.                                                                  *)
LEMMA NotifiedIs ==
  ASSUME Standing, CallbacksStand, queue[current] # <<>>, NEW answer, NEW w \in Writes
  PROVE  LET batch == Head(queue[current])
         IN  \/ Notified(batch.id, answer)[w] = told[w]
             \/ Notified(batch.id, answer)[w] = answer /\ w = batch.write
  <1> DEFINE q == queue[current]
             batch == Head(q)
  <1>1. /\ q \in Seq(BatchType) /\ Ascending(q) /\ current \in Users
    BY StandingFacts
  <1>2. ASSUME NEW cb \in Asked(batch.id), cb.write = w PROVE w = batch.write
    <2>1. cb \in callbacks /\ cb.user = current /\ cb.id = batch.id
      BY <1>2 DEF Asked
    <2>2. PICK i \in 1 .. Len(q) : q[i] = Batch(cb.id, cb.write)
      BY <2>1 DEF CallbacksStand, Queued
    <2>3. q[i].id = batch.id /\ q[i].write = w
      BY <1>2, <2>1, <2>2 DEF Batch
    <2>4. batch.id \in Nat
      BY <1>1, TailIs DEF BatchType
    <2>5. i = 1 /\ batch = q[1]
      BY <1>1, <2>3, <2>4, HeadOnly
    <2> QED
      BY <2>3, <2>5
  <1>3. Notified(batch.id, answer)[w] =
          IF \E cb \in Asked(batch.id) : cb.write = w THEN answer ELSE told[w]
    BY DEF Notified
  <1> QED
    BY <1>2, <1>3

(* The callbacks of those who wait for the first batch tell the truth when *)
(* it is settled; the others wait for the rest of the queue.               *)
LEMMA TriggeredIs ==
  ASSUME Standing, WaitsStand, queue[current] # <<>>, Settled(Head(queue[current]).write),
         NEW t \in TriggerPendingWriteCallbacks(Head(queue[current]).id), NEW w \in t.writes
  PROVE  /\ t.answer = "ok" => Settled(w)
         /\ t.answer = "none" =>
              \/ Settled(w)
              \/ \E i \in 1 .. Len(queue[current]) :
                   /\ i # 1 /\ queue[current][i].write = w /\ queue[current][i].id <= t.id
  <1> DEFINE q == queue[current]
             batch == Head(q)
  <1>1. q \in Seq(BatchType) /\ Ascending(q) /\ waits \subseteq WaitType
    BY StandingFacts DEF Typed
  <1>2. Head(q) = q[1]
    BY <1>1, TailIs
  <1>3. PICK wt \in waits : t = IF wt.id = batch.id THEN Answered(wt, "ok") ELSE wt
    BY DEF TriggerPendingWriteCallbacks
  <1>4. CASE wt.id = batch.id
    <2>1. /\ t.id = wt.id /\ t.writes = wt.writes
          /\ t.answer = IF wt.answer = "none" THEN "ok" ELSE wt.answer
      BY <1>1, <1>3, <1>4, WaitsTyped
    <2>2. ASSUME wt.answer = "none" PROVE Settled(w)
      <3>1. Settled(w) \/ Awaited(w, batch.id)
        BY <1>4, <2>1, <2>2 DEF WaitsStand
      <3>2. ASSUME NEW i \in 1 .. Len(q), q[i].write = w, q[i].id <= batch.id PROVE Settled(w)
        <4>1. i = 1
          BY <1>1, <3>2, HeadOnly
        <4> QED
          BY <1>2, <3>2, <4>1
      <3> QED
        BY <3>1, <3>2 DEF Awaited
    <2>3. wt.answer = "ok" => Settled(w)
      BY <2>1 DEF WaitsStand
    <2> QED
      BY <2>1, <2>2, <2>3
  <1>5. CASE wt.id # batch.id
    <2>1. t = wt
      BY <1>3, <1>5
    <2>2. /\ t.answer = "ok" => Settled(w)
          /\ t.answer = "none" => Settled(w) \/ Awaited(w, t.id)
      BY <2>1 DEF WaitsStand
    <2>3. ASSUME NEW i \in 1 .. Len(q), q[i].write = w, q[i].id <= t.id
          PROVE  Settled(w) \/ i # 1
      BY <1>2, <2>3
    <2> QED
      BY <2>2, <2>3 DEF Awaited
  <1> QED
    BY <1>4, <1>5

(* A batch is written.                                                     *)
LEMMA WriteAnswers ==
  ASSUME Standing, AnswersStand, WriteMutations
  PROVE  AnswersStand'
  <1> DEFINE b == Batch(nextId, written')
             q == queue[current]
  <1>1. /\ Typed /\ QueuesStand /\ current \in Users /\ q \in Seq(BatchType)
        /\ \A u \in Users : queue[u] \in Seq(BatchType)
    BY StandingFacts
  <1>2. /\ written < MaxWrites /\ written' = written + 1 /\ nextId' = nextId + 1
        /\ queue' = [queue EXCEPT ![current] = Append(@, b)]
        /\ denied' \in {denied, denied \union {written'}}
        /\ callbacks' = callbacks \union {[user |-> current, id |-> nextId, write |-> written']}
        /\ UNCHANGED <<current, waits, told, log>>
    BY DEF WriteMutations
  <1>3. /\ queue'[current] = Append(q, b) /\ b \in BatchType
        /\ \A u \in Users : u # current => queue'[u] = queue[u]
    BY <1>1, <1>2, QueuesWrite
  <1>4. b.write = written' /\ b.id = nextId
    BY DEF Batch
  <1> HIDE DEF b
  <1>5. /\ Len(q) \in Nat /\ Len(Append(q, b)) = Len(q) + 1 /\ Append(q, b)[Len(q) + 1] = b
        /\ \A i \in 1 .. Len(q) : Append(q, b)[i] = q[i]
    BY <1>1, <1>3, SeqFacts, AppendProperties
  <1>6. ASSUME NEW u \in Users
        PROVE  /\ \A i \in 1 .. Len(queue[u]) :
                    i \in 1 .. Len(queue'[u]) /\ queue'[u][i] = queue[u][i]
               /\ \A i \in 1 .. Len(queue'[u]) :
                    \/ i \in 1 .. Len(queue[u]) /\ queue'[u][i] = queue[u][i]
                    \/ u = current /\ i = Len(q) + 1 /\ queue'[u][i] = b
    <2>1. CASE u = current
      <3> DEFINE n == Len(q)
      <3> HIDE DEF n
      <3>1. /\ \A i \in 1 .. n : i \in 1 .. n + 1
            /\ \A i \in 1 .. n + 1 : i \in 1 .. n \/ i = n + 1
        BY <1>5 DEF n
      <3> QED
        BY <1>3, <1>5, <2>1, <3>1 DEF n
    <2>2. CASE u # current
      BY <1>3, <2>2
    <2> QED
      BY <2>1, <2>2
  <1>7. \A w : Applied(w) => Applied(w)'
    BY <1>2 DEF Applied
  <1>8. \A w : Settled(w) => Settled(w)'
    BY <1>2, <1>7 DEF Settled
  <1>9. AnswersApplied'
    <2>1. client'.ready = client.ready /\ client'.call.in = client.call.in
      BY WriteStep
    <2> QED
      BY <1>7, <2>1 DEF AnswersStand, AnswersApplied
  <1>10. ToldStands'
    <2>1. written \in Nat /\ \A w \in Writes : w \in Nat
      BY <1>1, Constants DEF Typed
    <2>2. ASSUME NEW w \in Writes, told[w] = "failed" PROVE w <= written' /\ ~ Pending(w)'
      <3>1. w <= written /\ ~ Pending(w)
        BY <2>2 DEF AnswersStand, ToldStands
      <3>2. w # written' /\ w <= written'
        BY <1>2, <2>1, <3>1
      <3>3. ASSUME NEW u \in Users, NEW i \in 1 .. Len(queue'[u]) PROVE queue'[u][i].write # w
        BY <1>4, <1>6, <3>1, <3>2 DEF Pending
      <3> QED
        BY <3>2, <3>3 DEF Pending
    <2> QED
      BY <1>2, <1>7, <2>2 DEF AnswersStand, ToldStands
  <1>11. CallbacksStand'
    <2> SUFFICES ASSUME NEW cb \in callbacks' PROVE Queued(cb.user, Batch(cb.id, cb.write))'
      BY DEF CallbacksStand
    <2>1. CASE cb \in callbacks
      <3>1. cb.user \in Users
        BY <1>1, <2>1 DEF Typed, CallbackType
      <3>2. Queued(cb.user, Batch(cb.id, cb.write))
        BY <2>1 DEF AnswersStand, CallbacksStand
      <3>3. PICK i \in 1 .. Len(queue[cb.user]) : queue[cb.user][i] = Batch(cb.id, cb.write)
        BY <3>2 DEF Queued
      <3> QED
        BY <1>6, <3>1, <3>3 DEF Queued
    <2>2. CASE cb \notin callbacks
      <3>1. cb.user = current /\ cb.id = nextId /\ cb.write = written'
        BY <1>2, <2>2
      <3>2. Len(q) + 1 \in 1 .. Len(queue'[current])
        BY <1>3, <1>5
      <3>3. queue'[current][Len(q) + 1] = Batch(cb.id, cb.write)
        BY <1>3, <1>5, <3>1 DEF b
      <3> QED
        BY <3>1, <3>2, <3>3 DEF Queued
    <2> QED
      BY <2>1, <2>2
  <1>12. WaitsStand'
    <2>1. ASSUME NEW w, NEW id, Awaited(w, id) PROVE Awaited(w, id)'
      BY <1>1, <1>2, <1>6, <2>1 DEF Awaited
    <2> QED
      BY <1>2, <1>8, <2>1 DEF AnswersStand, WaitsStand
  <1> QED
    BY <1>9, <1>10, <1>11, <1>12 DEF AnswersStand

(* Steps that leave the queues and the backend as they are.                *)
LEMMA WorkAnswers ==
  ASSUME Standing, AnswersStand,
         \/ WaitForPendingWrites \/ NetworkDisabled \/ NetworkEnabled
         \/ \E u \in Users : Announce(u)
         \/ FetchToken \/ DispatchToken \/ UserAnnounced \/ TokenAnswered
         \/ ResumeStartWithCredentials \/ BackoffElapsed \/ IdleTimeout \/ StreamFails
  PROVE  AnswersStand'
  <1> DEFINE q == queue[current]
  <1>1. /\ UNCHANGED <<queue, current, log, denied, told, callbacks, written>>
        /\ \/ client'.ready = client.ready /\ client'.call = client.call
           \/ ~ client'.ready
        /\ waits' = waits \/ WaitForPendingWrites
    BY WorkStep
  <1>2. \A w : Applied(w) => Applied(w)'
    BY <1>1 DEF Applied
  <1>3. AnswersApplied'
    BY <1>1, <1>2 DEF AnswersStand, AnswersApplied
  <1>4. CASE waits' = waits
    BY <1>1, <1>2, <1>3, <1>4, SameAnswers DEF AnswersStand
  <1>5. CASE WaitForPendingWrites
    <2> DEFINE wt == [id |-> Last(q).id, writes |-> Range(WritesOf(q)), answer |-> "none"]
    <2>1. waits' = waits \union {wt} /\ q # <<>>
      BY <1>5 DEF WaitForPendingWrites
    <2>2. q \in Seq(BatchType) /\ Ascending(q)
      BY StandingFacts
    <2>3. \A w \in Range(WritesOf(q)) : \E i \in 1 .. Len(q) : q[i].write = w
      <3>1. DOMAIN q = 1 .. Len(q)
        BY <2>2, SeqFacts
      <3> QED
        BY <3>1 DEF Range, WritesOf
    <2>4. \A w : Settled(w) => Settled(w)'
      BY <1>1, <1>2 DEF Settled
    <2>5. \A w, id : Awaited(w, id) => Awaited(w, id)'
      BY <1>1 DEF Awaited
    <2>6. ASSUME NEW w \in wt.writes PROVE Awaited(w, wt.id)
      <3>1. PICK i \in 1 .. Len(q) : q[i].write = w
        BY <2>3, <2>6
      <3>2. q[i].id <= wt.id
        BY <2>1, <2>2, LastIsLargest
      <3> QED
        BY <3>1, <3>2 DEF Awaited
    <2>7. wt.answer = "none"
      OBVIOUS
    <2> HIDE DEF wt
    <2>8. WaitsStand'
      BY <2>1, <2>4, <2>5, <2>6, <2>7 DEF AnswersStand, WaitsStand
    <2>9. ToldStands'
      BY <1>1, <1>2 DEF AnswersStand, ToldStands, Pending
    <2>10. CallbacksStand'
      BY <1>1 DEF AnswersStand, CallbacksStand, Queued
    <2> QED
      BY <1>3, <2>8, <2>9, <2>10 DEF AnswersStand
  <1> QED
    BY <1>1, <1>4, <1>5

(* The first batch of the queue is settled.                                *)
LEMMA SettleAnswers ==
  ASSUME Standing, AnswersStand, queue[current] # <<>>, NEW answer \in {"ok", "failed"},
         Settle(Head(queue[current]), answer), queue' = [queue EXCEPT ![current] = Tail(@)],
         UNCHANGED <<current, backend, written>>,
         Settled(Head(queue[current]).write),
         answer = "ok" => Applied(Head(queue[current]).write)
  PROVE  ToldStands' /\ CallbacksStand' /\ WaitsStand'
  <1> DEFINE q == queue[current]
             batch == Head(q)
             r == Tail(q)
  <1>1. /\ Typed /\ QueuesStand /\ current \in Users /\ q \in Seq(BatchType) /\ Ascending(q)
        /\ queue \in [Users -> Seq(BatchType)]
    BY StandingFacts
  <1>2. /\ r \in Seq(BatchType) /\ Len(r) = Len(q) - 1 /\ Len(q) >= 1 /\ Len(q) \in Nat
        /\ Len(r) \in Nat
        /\ (\A i \in 1 .. Len(r) : i + 1 \in 1 .. Len(q) /\ r[i] = q[i + 1])
        /\ Head(q) = q[1] /\ batch \in BatchType
    BY <1>1, TailIs
  <1>3. /\ told' = Notified(batch.id, answer)
        /\ callbacks' = callbacks \ Asked(batch.id)
        /\ waits' = TriggerPendingWriteCallbacks(batch.id)
    BY DEF Settle
  <1>4. UNCHANGED <<log, denied>>
    BY DEF backend
  <1> HIDE DEF batch, r
  <1>5. queue'[current] = r /\ \A u \in Users : u # current => queue'[u] = queue[u]
    BY <1>1 DEF r
  <1>6. \A i \in 1 .. Len(q) : i # 1 => i - 1 \in 1 .. Len(r) /\ r[i - 1] = q[i]
    <2> DEFINE m == Len(r)
               n == Len(q)
    <2>1. /\ m = n - 1 /\ n \in Nat /\ \A i \in 1 .. m : r[i] = q[i + 1]
      BY <1>2
    <2> HIDE DEF m, n
    <2>2. \A i \in 1 .. n : i # 1 => i - 1 \in 1 .. m /\ (i - 1) + 1 = i
      BY <2>1
    <2> QED
      BY <2>1, <2>2 DEF m, n
  <1>7. /\ \A w : Applied(w) <=> Applied(w)'
        /\ \A w : Settled(w) <=> Settled(w)'
    BY <1>4 DEF Applied, Settled
  <1>8. ASSUME NEW w, Pending(w)' PROVE Pending(w)
    <2>1. PICK u \in Users : \E i \in 1 .. Len(queue'[u]) : queue'[u][i].write = w
      BY <1>8 DEF Pending
    <2>2. PICK i \in 1 .. Len(queue'[u]) : queue'[u][i].write = w
      BY <2>1
    <2>3. CASE u = current
      BY <1>2, <1>5, <2>2, <2>3 DEF Pending
    <2>4. CASE u # current
      BY <1>5, <2>2, <2>4 DEF Pending
    <2> QED
      BY <2>3, <2>4
  <1>9. ASSUME NEW w, w = batch.write PROVE ~ Pending(w)'
    <2>1. /\ queue' \in [Users -> Seq(BatchType)]
          /\ \A u \in Users : \A i \in 1 .. Len(queue[u]) : \A j \in 1 .. Len(q) :
               queue[u][i].write = q[j].write => u = current /\ i = j
      BY <1>1, <1>2 DEF QueuesStand, r
    <2>2. 1 \in 1 .. Len(q) /\ batch = q[1]
      BY <1>2 DEF batch
    <2>3. ASSUME NEW u \in Users, NEW i \in 1 .. Len(queue'[u]) PROVE queue'[u][i].write # w
      <3>1. CASE u = current
        <4>1. i \in 1 .. Len(r) /\ queue'[u][i] = q[i + 1] /\ i + 1 \in 1 .. Len(q)
          BY <1>2, <1>5, <2>3, <3>1
        <4>2. i + 1 # 1
          BY <1>2, <4>1
        <4> QED
          BY <1>1, <1>9, <2>1, <2>2, <4>1, <4>2
      <3>2. CASE u # current
        BY <1>5, <1>9, <2>1, <2>2, <2>3, <3>2
      <3> QED
        BY <3>1, <3>2
    <2> QED
      BY <2>3 DEF Pending
  <1>10. ToldStands'
    <2>1. ASSUME NEW w \in Writes
          PROVE  \/ told'[w] = told[w]
                 \/ told'[w] = answer /\ w = batch.write
      <3>1. CallbacksStand
        BY DEF AnswersStand
      <3>2. \/ Notified(batch.id, answer)[w] = told[w]
            \/ Notified(batch.id, answer)[w] = answer /\ w = batch.write
        BY <3>1, NotifiedIs DEF batch
      <3> QED
        BY <1>3, <3>2
    <2>2. batch.write <= written
      BY <1>1, <1>2 DEF QueuesStand, batch
    <2>3. ASSUME NEW w \in Writes, told'[w] = "ok" PROVE Applied(w)'
      BY <1>7, <2>1, <2>3 DEF AnswersStand, ToldStands, batch
    <2>4. ASSUME NEW w \in Writes, told'[w] = "failed" PROVE w <= written' /\ ~ Pending(w)'
      BY <1>8, <1>9, <2>1, <2>2, <2>4 DEF AnswersStand, ToldStands
    <2> QED
      BY <2>3, <2>4 DEF ToldStands
  <1>11. CallbacksStand'
    <2> SUFFICES ASSUME NEW cb \in callbacks' PROVE Queued(cb.user, Batch(cb.id, cb.write))'
      BY DEF CallbacksStand
    <2>1. cb \in callbacks /\ cb \notin Asked(batch.id) /\ cb.user \in Users
      BY <1>1, <1>3 DEF Typed, CallbackType
    <2>2. PICK i \in 1 .. Len(queue[cb.user]) : queue[cb.user][i] = Batch(cb.id, cb.write)
      BY <2>1 DEF AnswersStand, CallbacksStand, Queued
    <2>3. CASE cb.user = current
      <3>1. cb.id # batch.id
        BY <2>1, <2>3 DEF Asked
      <3>2. q[i].id = cb.id
        BY <2>2, <2>3 DEF Batch
      <3>3. i # 1
        BY <1>2, <3>1, <3>2 DEF batch
      <3>4. i - 1 \in 1 .. Len(r) /\ r[i - 1] = q[i]
        BY <1>6, <2>2, <2>3, <3>3
      <3> QED
        BY <1>5, <2>2, <2>3, <3>4 DEF Queued
    <2>4. CASE cb.user # current
      BY <1>5, <2>1, <2>2, <2>4 DEF Queued
    <2> QED
      BY <2>3, <2>4
  <1>12. WaitsStand'
    <2> SUFFICES ASSUME NEW t \in waits', NEW w \in t.writes
                 PROVE  /\ t.answer = "ok" => Settled(w)'
                        /\ t.answer = "none" => Settled(w)' \/ Awaited(w, t.id)'
      BY DEF WaitsStand
    <2>1. /\ t.answer = "ok" => Settled(w)
          /\ t.answer = "none" =>
               \/ Settled(w)
               \/ \E i \in 1 .. Len(q) : i # 1 /\ q[i].write = w /\ q[i].id <= t.id
      BY <1>3, TriggeredIs DEF AnswersStand, batch
    <2>2. ASSUME NEW i \in 1 .. Len(q), i # 1, q[i].write = w, q[i].id <= t.id
          PROVE  Awaited(w, t.id)'
      <3>1. i - 1 \in 1 .. Len(r) /\ r[i - 1] = q[i]
        BY <1>6, <2>2
      <3> QED
        BY <1>5, <2>2, <3>1 DEF Awaited
    <2> QED
      BY <1>7, <2>1, <2>2
  <1> QED
    BY <1>10, <1>11, <1>12

(* The first write of the pipeline is settled: its answer has been read,   *)
(* or the backend refuses it, or its answer was lost.                      *)
LEMMA ResultAnswers ==
  ASSUME Standing, AnswersStand, MutationResult
  PROVE  AnswersStand'
  <1> DEFINE q == queue[current]
             in == client.call.in
  <1>1. /\ q # <<>> /\ Settle(Head(q), "ok") /\ queue' = [queue EXCEPT ![current] = Tail(@)]
        /\ client.ready /\ client'.ready /\ in # <<>> /\ Head(in) = Head(q).write
        /\ client'.call.in = Tail(in)
        /\ UNCHANGED <<authUser, current, nextId, backend, written>>
    BY ResultStep
  <1>2. /\ Head(in) = in[1] /\ 1 \in 1 .. Len(in)
        /\ \A i \in 1 .. Len(Tail(in)) : i + 1 \in 1 .. Len(in) /\ Tail(in)[i] = in[i + 1]
    <2> DEFINE S == 0 .. MaxWrites
    <2>1. in \in Seq(S)
      BY StandingFacts, StandFacts
    <2> HIDE DEF S, in
    <2>2. /\ Len(in) \in Nat /\ Len(in) >= 1 /\ Head(in) = in[1]
          /\ \A i \in 1 .. Len(Tail(in)) : i + 1 \in 1 .. Len(in) /\ Tail(in)[i] = in[i + 1]
      BY <1>1, <2>1, TailFacts DEF in
    <2> QED
      BY <2>2
  <1>3. Applied(Head(q).write) /\ Settled(Head(q).write)
    BY <1>1, <1>2 DEF AnswersStand, AnswersApplied, Settled
  <1>4. ToldStands' /\ CallbacksStand' /\ WaitsStand'
    BY <1>1, <1>3, SettleAnswers
  <1>5. \A w : Applied(w) => Applied(w)'
    BY <1>1 DEF Applied, backend
  <1>6. AnswersApplied'
    BY <1>1, <1>2, <1>5 DEF AnswersStand, AnswersApplied
  <1> QED
    BY <1>4, <1>6 DEF AnswersStand

LEMMA RefusedAnswers ==
  ASSUME Standing, AnswersStand, WriteRefused
  PROVE  AnswersStand'
  <1> DEFINE q == queue[current]
             in == client.call.in
  <1>1. /\ q # <<>> /\ Settle(Head(q), "failed") /\ queue' = [queue EXCEPT ![current] = Tail(@)]
        /\ client.ready /\ ~ client'.ready
        /\ \/ in = <<>> /\ Head(q).write \in denied
           \/ in # <<>> /\ Head(in) = Head(q).write
        /\ UNCHANGED <<authUser, current, nextId, backend, written>>
    BY RefusedStep
  <1>2. in # <<>> => Head(in) = in[1] /\ 1 \in 1 .. Len(in)
    <2> DEFINE S == 0 .. MaxWrites
    <2>1. in \in Seq(S)
      BY StandingFacts, StandFacts
    <2> HIDE DEF S, in
    <2>2. in # <<>> => Len(in) \in Nat /\ Len(in) >= 1 /\ Head(in) = in[1]
      BY <2>1, TailFacts
    <2> QED
      BY <2>2
  <1>3. Settled(Head(q).write)
    BY <1>1, <1>2 DEF AnswersStand, AnswersApplied, Settled
  <1>4. ToldStands' /\ CallbacksStand' /\ WaitsStand'
    BY <1>1, <1>3, SettleAnswers
  <1>5. AnswersApplied'
    BY <1>1 DEF AnswersApplied
  <1> QED
    BY <1>4, <1>5 DEF AnswersStand

(* The backend applies a write.                                            *)
LEMMA ServeAnswers ==
  ASSUME Standing, AnswersStand, Serve
  PROVE  AnswersStand'
  <1> DEFINE message == Head(client.call.out)
             in == client.call.in
             e == [user |-> current, write |-> message]
             S == 0 .. MaxWrites
  <1>1. /\ client'.ready = client.ready
        /\ UNCHANGED <<authUser, queue, engine, denied, written>>
        /\ \/ ~ client.ready /\ UNCHANGED log
           \/ UNCHANGED log /\ client'.call.in = in
           \/ /\ client.ready /\ message \in Writes
              /\ log' = Append(log, e) /\ client'.call.in = Append(in, message)
    BY ServeStep
  <1>2. log \in Seq(LogType) /\ in \in Seq(S)
    BY StandingFacts, StandFacts DEF Typed
  <1>3. message \in Writes => message \in S
    BY Constants
  <1>4. e.write = message
    OBVIOUS
  <1> HIDE DEF message, in, e, S
  <1>5. log' = log \/ log' = Append(log, e)
    BY <1>1
  <1>6. \A w : Applied(w) => Applied(w)'
    BY <1>2, <1>5, LogGrows
  <1>7. UNCHANGED <<queue, current, denied, told, callbacks, waits, written>>
    BY <1>1 DEF engine
  <1>8. ToldStands' /\ CallbacksStand' /\ WaitsStand'
    BY <1>6, <1>7, SameAnswers DEF AnswersStand
  <1>9. CASE ~ client.ready
    BY <1>1, <1>8, <1>9 DEF AnswersStand, AnswersApplied
  <1>10. CASE client'.call.in = in
    BY <1>1, <1>6, <1>8, <1>10 DEF AnswersStand, AnswersApplied, in
  <1>11. CASE /\ client.ready /\ message \in Writes
              /\ log' = Append(log, e) /\ client'.call.in = Append(in, message)
    <2>1. /\ Len(log) \in Nat /\ Len(log') = Len(log) + 1 /\ log'[Len(log) + 1] = e
      BY <1>2, <1>11
    <2>2. Len(log) + 1 \in 1 .. Len(log')
      BY <2>1
    <2>3. ASSUME NEW w, w = message PROVE Applied(w)'
      BY <1>4, <2>1, <2>2, <2>3 DEF Applied
    <2>4. /\ Len(in) \in Nat /\ Len(Append(in, message)) = Len(in) + 1
          /\ Append(in, message)[Len(in) + 1] = message
          /\ \A i \in 1 .. Len(in) : Append(in, message)[i] = in[i]
      BY <1>2, <1>3, <1>11, SeqFacts, AppendProperties
    <2>5. \A i \in 1 .. Len(in) : Applied(in[i])
      BY <1>11 DEF AnswersStand, AnswersApplied, in
    <2>6. ASSUME NEW i \in 1 .. Len(Append(in, message)), NEW w, w = Append(in, message)[i]
          PROVE  Applied(w)'
      <3>1. i \in 1 .. Len(in) \/ i = Len(in) + 1
        BY <2>4
      <3>2. CASE i \in 1 .. Len(in)
        <4>1. Applied(w)
          BY <2>4, <2>5, <2>6, <3>2
        <4> QED
          BY <1>6, <4>1
      <3>3. CASE i = Len(in) + 1
        BY <2>3, <2>4, <2>6, <3>3
      <3> QED
        BY <3>1, <3>2, <3>3
    <2>7. AnswersApplied'
      BY <1>11, <2>6 DEF AnswersApplied
    <2> QED
      BY <1>8, <2>7 DEF AnswersStand
  <1> QED
    BY <1>1, <1>9, <1>10, <1>11

(* SyncEngine learns of a user: who waits for the other's writes is told.  *)
LEMMA ChangeAnswers ==
  ASSUME Standing, AnswersStand, HandleCredentialChange
  PROVE  AnswersStand'
  <1>1. /\ waits' = (IF current' = current THEN waits ELSE FailOutstandingPendingWriteCallbacks)
        /\ UNCHANGED <<queue, callbacks, told, log, denied, written>>
    BY DEF HandleCredentialChange, backend, counts
  <1>2. ~ client'.ready
    BY ChangeStep
  <1>3. \A w : (Applied(w) => Applied(w)') /\ (Settled(w) => Settled(w)')
    BY <1>1 DEF Applied, Settled
  <1>4. CASE current' = current
    BY <1>1, <1>2, <1>3, <1>4, SameAnswers DEF AnswersStand, AnswersApplied
  <1>5. CASE current' # current
    <2>1. waits \subseteq WaitType
      BY DEF Standing, Typed
    <2>2. ASSUME NEW t \in waits', NEW w \in t.writes
          PROVE  (t.answer = "ok" => Settled(w)) /\ t.answer # "none"
      <3>1. PICK wt \in waits : t = Answered(wt, "cancelled")
        BY <1>1, <1>5 DEF FailOutstandingPendingWriteCallbacks
      <3>2. /\ t.writes = wt.writes
            /\ t.answer = IF wt.answer = "none" THEN "cancelled" ELSE wt.answer
        BY <2>1, <3>1, WaitsTyped
      <3> QED
        BY <2>2, <3>2 DEF AnswersStand, WaitsStand
    <2>3. WaitsStand'
      BY <1>3, <2>2 DEF WaitsStand
    <2>4. ToldStands' /\ CallbacksStand'
      BY <1>1, <1>3 DEF AnswersStand, ToldStands, CallbacksStand, Pending, Queued
    <2> QED
      BY <1>2, <2>3, <2>4 DEF AnswersStand, AnswersApplied
  <1> QED
    BY <1>4, <1>5

(* A new process knows of no callbacks.                                    *)
LEMMA KilledAnswers ==
  ASSUME Standing, AnswersStand, KilledAtRest \/ KilledAtResult
  PROVE  AnswersStand'
  <1> DEFINE q == queue[current]
             in == client.call.in
             batch == Head(q)
  <1>1. /\ ~ client'.ready /\ callbacks' = {}
        /\ UNCHANGED <<queue, backend, written>>
        /\ \A wt \in waits' : wt.answer # "none"
        /\ \/ UNCHANGED told /\ waits' \subseteq waits
           \/ /\ client.ready /\ in # <<>> /\ q # <<>> /\ Head(in) = batch.write
              /\ told' = Notified(batch.id, "ok")
              /\ waits' \subseteq TriggerPendingWriteCallbacks(batch.id)
    BY KilledStep
  <1>2. \A w : (Applied(w) => Applied(w)') /\ (Settled(w) => Settled(w)') /\ (Pending(w)' => Pending(w))
    BY <1>1 DEF Applied, Settled, Pending, backend
  <1>3. AnswersApplied' /\ CallbacksStand'
    BY <1>1 DEF AnswersApplied, CallbacksStand
  <1>4. CASE UNCHANGED told /\ waits' \subseteq waits
    BY <1>1, <1>2, <1>3, <1>4 DEF AnswersStand, ToldStands, WaitsStand
  <1>5. CASE /\ client.ready /\ in # <<>> /\ q # <<>> /\ Head(in) = batch.write
             /\ told' = Notified(batch.id, "ok")
             /\ waits' \subseteq TriggerPendingWriteCallbacks(batch.id)
    <2>1. Head(in) = in[1] /\ 1 \in 1 .. Len(in)
      <3> DEFINE S == 0 .. MaxWrites
      <3>1. in \in Seq(S)
        BY StandingFacts, StandFacts
      <3>2. in # <<>>
        BY <1>5
      <3> HIDE DEF S, in
      <3>3. Len(in) \in Nat /\ Len(in) >= 1 /\ Head(in) = in[1]
        BY <3>1, <3>2, TailFacts
      <3> QED
        BY <3>3
    <2>2. Applied(batch.write) /\ Settled(batch.write)
      BY <1>5, <2>1 DEF AnswersStand, AnswersApplied, Settled
    <2>3. ASSUME NEW w \in Writes
          PROVE  /\ told'[w] = "ok" => Applied(w)
                 /\ told'[w] = "failed" => told[w] = "failed"
      <3>1. CallbacksStand
        BY DEF AnswersStand
      <3>2. \/ Notified(batch.id, "ok")[w] = told[w]
            \/ Notified(batch.id, "ok")[w] = "ok" /\ w = batch.write
        BY <1>5, <3>1, NotifiedIs
      <3> QED
        BY <1>5, <2>2, <3>2 DEF AnswersStand, ToldStands
    <2>4. ToldStands'
      BY <1>1, <1>2, <2>3 DEF AnswersStand, ToldStands
    <2>5. ASSUME NEW t \in waits', NEW w \in t.writes, t.answer = "ok" PROVE Settled(w)
      BY <1>5, <2>2, <2>5, TriggeredIs DEF AnswersStand
    <2>6. WaitsStand'
      BY <1>1, <1>2, <2>5 DEF WaitsStand
    <2> QED
      BY <1>3, <2>4, <2>6 DEF AnswersStand
  <1> QED
    BY <1>1, <1>4, <1>5

LEMMA AnswersNext == Standing /\ AnswersStand /\ [Next]_vars => AnswersStand'
  <1> SUFFICES ASSUME Standing, AnswersStand, [Next]_vars PROVE AnswersStand'
    OBVIOUS
  <1>1. CASE WriteMutations
    BY <1>1, WriteAnswers
  <1>2. CASE \/ WaitForPendingWrites \/ NetworkDisabled \/ NetworkEnabled
             \/ \E u \in Users : Announce(u)
             \/ FetchToken \/ DispatchToken \/ UserAnnounced \/ TokenAnswered
             \/ ResumeStartWithCredentials \/ BackoffElapsed \/ IdleTimeout \/ StreamFails
    BY <1>2, WorkAnswers
  <1>3. CASE HandleCredentialChange
    BY <1>3, ChangeAnswers
  <1>4. CASE HandshakeComplete
    <2>1. /\ client'.call.in = <<>>
          /\ UNCHANGED <<queue, current, log, denied, told, callbacks, waits, written>>
      BY <1>4, HandshakeStep DEF engine, backend
    <2>2. \A w : Applied(w) => Applied(w)'
      BY <2>1 DEF Applied
    <2>3. ToldStands' /\ CallbacksStand' /\ WaitsStand'
      BY <2>1, <2>2, SameAnswers DEF AnswersStand
    <2>4. Len(<<>>) = 0 /\ \A i \in 1 .. 0 : FALSE
      OBVIOUS
    <2> QED
      BY <2>1, <2>3, <2>4 DEF AnswersStand, AnswersApplied
  <1>5. CASE MutationResult
    BY <1>5, ResultAnswers
  <1>6. CASE WriteRefused
    BY <1>6, RefusedAnswers
  <1>7. CASE Serve
    BY <1>7, ServeAnswers
  <1>8. CASE KilledAtRest \/ KilledAtResult
    BY <1>8, KilledAnswers
  <1>9. CASE UNCHANGED vars
    <2>1. UNCHANGED <<queue, client, current, callbacks, waits, told, log, denied, written>>
      BY <1>9 DEF vars, engine, backend, counts
    <2>2. \A w : Applied(w) => Applied(w)'
      BY <2>1 DEF Applied
    <2> QED
      BY <2>1, <2>2, SameAnswers DEF AnswersStand, AnswersApplied
  <1> QED
    BY <1>1, <1>2, <1>3, <1>4, <1>5, <1>6, <1>7, <1>8, <1>9 DEF Next, Work

LEMMA AnswersTrue == Standing /\ AnswersStand => AnswersAreTrue
  <1> SUFFICES ASSUME Standing, AnswersStand PROVE AnswersAreTrue
    OBVIOUS
  <1> DEFINE applied(w) == \E i \in DOMAIN log : log[i].write = w
             pending(w) == \E u \in Users : w \in Range(WritesOf(queue[u]))
  <1>1. \A w : Applied(w) <=> applied(w)
    <2>1. DOMAIN log = 1 .. Len(log)
      BY SeqFacts DEF Standing, Typed
    <2> QED
      BY <2>1 DEF Applied
  <1>2. ASSUME NEW u \in Users
        PROVE  /\ DOMAIN queue[u] = 1 .. Len(queue[u])
               /\ Range(WritesOf(queue[u])) = {queue[u][i].write : i \in 1 .. Len(queue[u])}
    <2>1. DOMAIN queue[u] = 1 .. Len(queue[u])
      BY StandingFacts, SeqFacts
    <2> QED
      BY <2>1 DEF Range, WritesOf
  <1>3. \A w : pending(w) => Pending(w)
    BY <1>2 DEF Pending
  <1>4. \A w \in Writes : told[w] = "ok" => applied(w)
    BY <1>1 DEF AnswersStand, ToldStands
  <1>5. \A w \in Writes : told[w] = "failed" => ~ pending(w)
    BY <1>3 DEF AnswersStand, ToldStands
  <1>6. \A wt \in waits : wt.answer = "ok" => \A w \in wt.writes : applied(w) \/ w \in denied
    BY <1>1 DEF AnswersStand, WaitsStand, Settled
  <1>7. ASSUME NEW cb \in callbacks PROVE Batch(cb.id, cb.write) \in Range(queue[cb.user])
    <2>1. cb.user \in Users
      BY DEF Standing, Typed, CallbackType
    <2>2. Queued(cb.user, Batch(cb.id, cb.write))
      BY DEF AnswersStand, CallbacksStand
    <2> QED
      BY <1>2, <2>1, <2>2 DEF Queued, Range
  <1> QED
    BY <1>4, <1>5, <1>6, <1>7 DEF AnswersAreTrue

(* Callbacks and those who wait are told the truth: what succeeded has     *)
(* been applied, what failed is not sent again, and who is told that the   *)
(* pending writes are through had each of them applied or refused.         *)
THEOREM AnswersAreTrueTheorem == Spec => []AnswersAreTrue
  <1>1. Init => AnswersStand
    BY AnswersInit
  <1>2. Standing /\ AnswersStand /\ [Next]_vars => AnswersStand'
    BY AnswersNext
  <1>3. Standing /\ AnswersStand => AnswersAreTrue
    BY AnswersTrue
  <1> QED
    BY <1>1, <1>2, <1>3, StandingTheorem, PTL DEF Spec

-----------------------------------------------------------------------------
(* The outboxes of Outbox.                                                 *)

Pend == [u \in Users |-> WritesOf(queue[u])]

LEMMA WritesTail ==
  ASSUME NEW q \in Seq(BatchType), q # <<>>
  PROVE  /\ WritesOf(q) # <<>> /\ Head(WritesOf(q)) = Head(q).write
         /\ WritesOf(Tail(q)) = Tail(WritesOf(q))
  <1> DEFINE w == WritesOf(q)
             t == Tail(q)
             v == WritesOf(t)
             n == Len(q)
             S == Writes
  <1>1. /\ n \in Nat /\ n >= 1 /\ Head(q) = q[1] /\ t \in Seq(BatchType) /\ Len(t) = n - 1
        /\ Len(t) \in Nat /\ \A i \in 1 .. Len(t) : i + 1 \in 1 .. n /\ t[i] = q[i + 1]
    BY TailFacts
  <1>2. /\ w \in Seq(S) /\ Len(w) = n /\ \A i \in 1 .. n : w[i] = q[i].write
    BY WritesOfIs
  <1>3. /\ v \in Seq(S) /\ Len(v) = Len(t) /\ \A i \in 1 .. Len(t) : v[i] = t[i].write
    BY <1>1, WritesOfIs
  <1>4. w # <<>>
    BY <1>1, <1>2, EmptySeq
  <1> HIDE DEF w, v, t, n, S
  <1>5. /\ Head(w) = w[1] /\ Tail(w) \in Seq(S) /\ Len(Tail(w)) = n - 1
        /\ \A i \in 1 .. Len(Tail(w)) : Tail(w)[i] = w[i + 1]
    BY <1>2, <1>4, TailFacts
  <1>6. 1 \in 1 .. n
    BY <1>1
  <1>7. v = Tail(w)
    <2>1. Len(v) = Len(Tail(w)) /\ \A i \in 1 .. Len(v) : v[i] = Tail(w)[i]
      BY <1>1, <1>2, <1>3, <1>5
    <2> QED
      BY <1>3, <1>5, <2>1, SeqEqual
  <1> QED
    BY <1>1, <1>2, <1>4, <1>5, <1>6, <1>7 DEF w, v, t

LEMMA WritesAppend ==
  ASSUME NEW q \in Seq(BatchType), NEW b \in BatchType
  PROVE  WritesOf(Append(q, b)) = Append(WritesOf(q), b.write)
  <1> DEFINE w == WritesOf(q)
             r == Append(q, b)
             v == WritesOf(r)
             n == Len(q)
             S == Writes
             e == b.write
  <1>1. /\ n \in Nat /\ r \in Seq(BatchType) /\ Len(r) = n + 1 /\ r[n + 1] = b
        /\ \A i \in 1 .. n : r[i] = q[i]
    BY SeqFacts, AppendProperties
  <1>2. /\ w \in Seq(S) /\ Len(w) = n /\ \A i \in 1 .. n : w[i] = q[i].write
    BY WritesOfIs
  <1>3. /\ v \in Seq(S) /\ Len(v) = n + 1 /\ \A i \in 1 .. n + 1 : v[i] = r[i].write
    BY <1>1, WritesOfIs
  <1>4. e \in S
    BY DEF BatchType
  <1> HIDE DEF w, v, r, n, S
  <1>5. /\ Append(w, e) \in Seq(S) /\ Len(Append(w, e)) = n + 1 /\ Append(w, e)[n + 1] = e
        /\ \A i \in 1 .. n : Append(w, e)[i] = w[i]
    BY <1>2, <1>4, AppendProperties
  <1>6. ASSUME NEW i \in 1 .. n + 1 PROVE v[i] = Append(w, e)[i]
    <2>1. i \in 1 .. n \/ i = n + 1
      BY <1>1
    <2> QED
      BY <1>1, <1>2, <1>3, <1>5, <2>1
  <1>7. v = Append(w, e)
    BY <1>3, <1>5, <1>6, SeqEqual
  <1> QED
    BY <1>7 DEF w, v, r

LEMMA RunIs ==
  /\ \A u \in Users : Run[u] = IF u = current /\ client.ready THEN Len(client.call.in) ELSE 0
  /\ ~ client.ready => Run = [u \in Users |-> 0]
  BY DEF Run

(* Nothing happens to the outboxes, or a connection is lost.               *)
LEMMA PromiseKept ==
  ASSUME current \in Users, UNCHANGED <<queue, log, denied, written>>,
         \/ current' = current /\ client'.ready = client.ready /\ client'.call.in = client.call.in
         \/ ~ client'.ready
  PROVE  [Promise!Next]_(Promise!vars)
  <1>1. Pend' = Pend
    BY DEF Pend
  <1>2. CASE current' = current /\ client'.ready = client.ready /\ client'.call.in = client.call.in
    <2>1. Run' = Run
      BY <1>2 DEF Run
    <2> QED
      BY <1>1, <2>1 DEF Promise!vars, Pend
  <1>3. CASE ~ client'.ready
    <2>1. Run' = [u \in Users |-> 0]
      BY <1>3 DEF Run
    <2>2. Run' = [Run EXCEPT ![current] = 0]
      BY <2>1 DEF Run
    <2>3. Promise!Lose(current)
      BY <1>1, <2>2 DEF Promise!Lose, Pend
    <2> QED
      BY <2>3 DEF Promise!Next
  <1> QED
    BY <1>2, <1>3

LEMMA PromiseInit == Init => Promise!Init
  <1> SUFFICES ASSUME Init PROVE Promise!Init
    OBVIOUS
  <1>1. <<>> \in Seq(BatchType) /\ Len(<<>>) = 0 /\ \A i \in 1 .. 0 : FALSE
    OBVIOUS
  <1>2. ~ client.ready
    <2>1. client = NewClient(<<>>)
      BY DEF Init
    <2>2. Ascending(<<>>)
      BY <1>1 DEF Ascending
    <2> QED
      BY <1>1, <2>1, <2>2, NewClientIs
  <1>3. WritesOf(<<>>) = <<>>
    <2>1. WritesOf(<<>>) \in Seq(Writes) /\ Len(WritesOf(<<>>)) = 0
      BY <1>1, WritesOfIs
    <2> QED
      BY <2>1, EmptySeq
  <1>4. Pend = [u \in Users |-> <<>>]
    BY <1>3 DEF Init, Pend
  <1> QED
    BY <1>2, <1>4, RunIs DEF Init, Promise!Init, Pend

LEMMA PromiseWrite ==
  ASSUME Standing, WriteMutations
  PROVE  Promise!Write(current)
  <1> DEFINE b == Batch(nextId, written')
             q == queue[current]
  <1>1. /\ Typed /\ QueuesStand /\ current \in Users /\ q \in Seq(BatchType)
    BY StandingFacts
  <1>2. /\ written < MaxWrites /\ written' = written + 1 /\ nextId' = nextId + 1
        /\ queue' = [queue EXCEPT ![current] = Append(@, b)]
        /\ denied' \in {denied, denied \union {written'}}
        /\ UNCHANGED <<current, log>>
    BY DEF WriteMutations
  <1>3. /\ queue'[current] = Append(q, b) /\ b \in BatchType
        /\ \A u \in Users : u # current => queue'[u] = queue[u]
    BY <1>1, <1>2, QueuesWrite
  <1>4. b.write = written'
    BY DEF Batch
  <1> HIDE DEF b
  <1>5. WritesOf(queue'[current]) = Append(WritesOf(q), written')
    BY <1>1, <1>3, <1>4, WritesAppend
  <1>6. Pend' = [Pend EXCEPT ![current] = Append(@, written')]
    BY <1>3, <1>5 DEF Pend
  <1>7. Run' = Run
    BY <1>2, WriteStep DEF Run
  <1> QED
    BY <1>2, <1>6, <1>7 DEF Promise!Write, Pend

LEMMA PromiseSettled ==
  ASSUME Standing, queue[current] # <<>>, queue' = [queue EXCEPT ![current] = Tail(@)]
  PROVE  /\ Pend' = [Pend EXCEPT ![current] = Tail(@)] /\ Pend[current] # <<>>
         /\ Head(Pend[current]) = Head(queue[current]).write
  <1>1. /\ current \in Users /\ queue[current] \in Seq(BatchType)
        /\ queue \in [Users -> Seq(BatchType)]
    BY StandingFacts
  <1>2. /\ queue'[current] = Tail(queue[current])
        /\ \A u \in Users : u # current => queue'[u] = queue[u]
    BY <1>1
  <1>3. /\ WritesOf(queue[current]) # <<>>
        /\ Head(WritesOf(queue[current])) = Head(queue[current]).write
        /\ WritesOf(Tail(queue[current])) = Tail(WritesOf(queue[current]))
    BY <1>1, WritesTail
  <1> QED
    BY <1>1, <1>2, <1>3 DEF Pend

LEMMA PromiseResult ==
  ASSUME Standing, MutationResult
  PROVE  Promise!Acknowledge(current)
  <1> DEFINE q == queue[current]
             in == client.call.in
  <1>1. /\ q # <<>> /\ queue' = [queue EXCEPT ![current] = Tail(@)]
        /\ client.ready /\ client'.ready /\ in # <<>> /\ client'.call.in = Tail(in)
        /\ UNCHANGED <<authUser, current, nextId, backend, written>>
    BY ResultStep
  <1>2. Len(in) \in Nat /\ Len(in) >= 1 /\ Len(Tail(in)) = Len(in) - 1
    <2> DEFINE S == 0 .. MaxWrites
    <2>1. in \in Seq(S)
      BY StandingFacts, StandFacts
    <2>2. in # <<>>
      BY <1>1
    <2> HIDE DEF S, in
    <2> QED
      BY <2>1, <2>2, TailFacts
  <1>3. current \in Users
    BY StandingFacts
  <1>4. Run[current] = Len(in) /\ Run[current] > 0
    BY <1>1, <1>2, <1>3, RunIs
  <1>5. Run' = [Run EXCEPT ![current] = @ - 1]
    BY <1>1, <1>2, <1>3 DEF Run
  <1>6. Pend' = [Pend EXCEPT ![current] = Tail(@)]
    BY <1>1, PromiseSettled
  <1> QED
    BY <1>1, <1>4, <1>5, <1>6 DEF Promise!Acknowledge, Pend, backend

LEMMA PromiseRefused ==
  ASSUME Standing, AnswersStand, WriteRefused
  PROVE  Promise!GiveUp(current)
  <1> DEFINE q == queue[current]
             in == client.call.in
  <1>1. /\ q # <<>> /\ queue' = [queue EXCEPT ![current] = Tail(@)]
        /\ client.ready /\ ~ client'.ready
        /\ \/ in = <<>> /\ Head(q).write \in denied
           \/ in # <<>> /\ Head(in) = Head(q).write
        /\ UNCHANGED <<authUser, current, nextId, backend, written>>
    BY RefusedStep
  <1>2. in # <<>> => Head(in) = in[1] /\ 1 \in 1 .. Len(in)
    <2> DEFINE S == 0 .. MaxWrites
    <2>1. in \in Seq(S)
      BY StandingFacts, StandFacts
    <2> HIDE DEF S, in
    <2>2. in # <<>> => Len(in) \in Nat /\ Len(in) >= 1 /\ Head(in) = in[1]
      BY <2>1, TailFacts
    <2> QED
      BY <2>2
  <1>3. Head(q).write \in denied \/ Applied(Head(q).write)
    BY <1>1, <1>2 DEF AnswersStand, AnswersApplied
  <1>4. DOMAIN log = 1 .. Len(log)
    BY SeqFacts DEF Standing, Typed
  <1>5. current \in Users
    BY StandingFacts
  <1>6. Run' = [Run EXCEPT ![current] = 0]
    BY <1>1, <1>5 DEF Run
  <1>7. /\ Pend' = [Pend EXCEPT ![current] = Tail(@)] /\ Pend[current] # <<>>
        /\ Head(Pend[current]) = Head(q).write
    BY <1>1, PromiseSettled
  <1>8. Head(Pend[current]) \in denied \/ Promise!Applied(Head(Pend[current]))
    BY <1>3, <1>4, <1>7 DEF Applied, Promise!Applied
  <1> QED
    BY <1>1, <1>6, <1>7, <1>8 DEF Promise!GiveUp, Pend, backend

LEMMA PromiseServed ==
  ASSUME Standing, Serve
  PROVE  [Promise!Next]_(Promise!vars)
  <1> DEFINE message == Head(client.call.out)
             in == client.call.in
             q == queue[current]
  <1>1. /\ client'.ready = client.ready
        /\ UNCHANGED <<authUser, queue, engine, denied, written>>
        /\ \/ ~ client.ready /\ UNCHANGED log
           \/ UNCHANGED log /\ client'.call.in = in
           \/ /\ client.ready /\ message \in Writes /\ Len(in) + 1 \in 1 .. Len(q)
              /\ message = q[Len(in) + 1].write
              /\ log' = Append(log, [user |-> current, write |-> message])
              /\ client'.call.in = Append(in, message)
    BY ServeStep
  <1>2. current \in Users /\ q \in Seq(BatchType) /\ in \in Seq(0 .. MaxWrites)
    BY StandingFacts, StandFacts
  <1>3. CASE UNCHANGED log /\ (~ client.ready \/ client'.call.in = in)
    BY <1>1, <1>2, <1>3, PromiseKept DEF engine
  <1>4. CASE /\ client.ready /\ message \in Writes /\ Len(in) + 1 \in 1 .. Len(q)
             /\ message = q[Len(in) + 1].write
             /\ log' = Append(log, [user |-> current, write |-> message])
             /\ client'.call.in = Append(in, message)
    <2>1. Len(in) \in Nat /\ Len(Append(in, message)) = Len(in) + 1
      <3> DEFINE S == 0 .. MaxWrites
      <3>1. message \in S /\ in \in Seq(S)
        BY <1>2, <1>4, Constants
      <3> HIDE DEF S, in, message
      <3> QED
        BY <3>1, SeqFacts, AppendProperties
    <2>2. /\ Len(WritesOf(q)) = Len(q) /\ WritesOf(q)[Len(in) + 1] = message
          /\ Len(q) \in Nat
      BY <1>2, <1>4, WritesOfIs, SeqFacts
    <2>3. Pend' = Pend /\ Pend[current] = WritesOf(q)
      BY <1>1, <1>2 DEF Pend
    <2>4. Run[current] = Len(in) /\ Run' = [Run EXCEPT ![current] = @ + 1]
      BY <1>1, <1>2, <1>4, <2>1 DEF Run, engine
    <2>5. Run'[current] = Len(in) + 1
      BY <1>2, <2>4 DEF Run
    <2>6. Run[current] < Len(Pend[current])
      <3> DEFINE n == Len(q)
                 a == Len(in)
      <3>1. a + 1 \in 1 .. n /\ a \in Nat /\ n \in Nat
        BY <1>4, <2>1, <2>2
      <3> HIDE DEF n, a
      <3>2. a < n
        BY <3>1
      <3> QED
        BY <2>2, <2>3, <2>4, <3>2 DEF n, a
    <2>7. log' = Append(log, Promise!Entry(current, Pend[current][Run'[current]]))
      BY <1>4, <2>2, <2>3, <2>5 DEF Promise!Entry
    <2>8. Promise!Apply(current)
      BY <1>1, <2>3, <2>4, <2>6, <2>7 DEF Promise!Apply, Pend
    <2> QED
      BY <1>2, <2>8 DEF Promise!Next
  <1> QED
    BY <1>1, <1>3, <1>4

LEMMA PromiseNext ==
  Standing /\ AnswersStand /\ [Next]_vars => [Promise!Next]_(Promise!vars)
  <1> SUFFICES ASSUME Standing, AnswersStand, [Next]_vars
               PROVE  [Promise!Next]_(Promise!vars)
    OBVIOUS
  <1>0. current \in Users
    BY StandingFacts
  <1>1. CASE WriteMutations
    BY <1>0, <1>1, PromiseWrite DEF Promise!Next
  <1>2. CASE \/ WaitForPendingWrites \/ NetworkDisabled \/ NetworkEnabled
             \/ \E u \in Users : Announce(u)
             \/ FetchToken \/ DispatchToken \/ UserAnnounced \/ TokenAnswered
             \/ ResumeStartWithCredentials \/ BackoffElapsed \/ IdleTimeout \/ StreamFails
    BY <1>0, <1>2, WorkStep, PromiseKept
  <1>3. CASE HandleCredentialChange
    <2>1. UNCHANGED <<queue, log, denied, written>>
      BY <1>3 DEF HandleCredentialChange, backend, counts
    <2> QED
      BY <1>0, <1>3, <2>1, ChangeStep, PromiseKept
  <1>4. CASE HandshakeComplete
    <2>1. /\ ~ client.ready /\ client'.call.in = <<>>
          /\ UNCHANGED <<queue, current, log, denied, written>>
      BY <1>4, HandshakeStep DEF engine, backend
    <2>2. Pend' = Pend
      BY <2>1 DEF Pend
    <2>3. Len(<<>>) = 0
      OBVIOUS
    <2>4. Run' = Run
      BY <2>1, <2>3 DEF Run
    <2> QED
      BY <2>1, <2>2, <2>4 DEF Promise!vars, Pend
  <1>5. CASE MutationResult
    BY <1>0, <1>5, PromiseResult DEF Promise!Next
  <1>6. CASE WriteRefused
    BY <1>0, <1>6, PromiseRefused DEF Promise!Next
  <1>7. CASE Serve
    BY <1>7, PromiseServed
  <1>8. CASE KilledAtRest \/ KilledAtResult
    BY <1>0, <1>8, KilledStep, PromiseKept DEF backend
  <1>9. CASE UNCHANGED vars
    BY <1>0, <1>9, PromiseKept DEF vars, engine, backend, counts
  <1> QED
    BY <1>1, <1>2, <1>3, <1>4, <1>5, <1>6, <1>7, <1>8, <1>9 DEF Next, Work

(* The client keeps the promise of Outbox: each user's writes leave the    *)
(* queue at the front, after the backend has applied or refused them, and  *)
(* are applied in their order, with their user's token, whatever breaks.   *)
THEOREM ImplementsTheorem == Spec => Implements
  <1>1. Init => Standing /\ AnswersStand /\ Promise!Init
    BY StandingInit, AnswersInit, PromiseInit
  <1>2. Standing /\ AnswersStand /\ [Next]_vars => Standing' /\ AnswersStand'
    BY StandingNext, AnswersNext
  <1>3. Standing /\ AnswersStand /\ [Next]_vars => [Promise!Next]_(Promise!vars)
    BY PromiseNext
  <1> QED
    BY <1>1, <1>2, <1>3, PTL DEF Spec, Implements, Promise!Spec
=============================================================================
