--------------------------- MODULE WritePipeline ----------------------------
(***************************************************************************)
(* How the Firestore client of PostPigeon brings writes to the backend:    *)
(* the mutation queues on disk, SyncEngine's callbacks, RemoteStore's      *)
(* write pipeline, the write stream with its tokens, backoff and idleness, *)
(* and the changes of the user that Auth announces.                        *)
(*                                                                         *)
(* The client works on one queue of blocks, `worker'; Auth announces users *)
(* and answers requests for tokens on the main queue, `main'.              *)
(***************************************************************************)
EXTENDS Naturals, FiniteSets, SequencesExt

CONSTANTS
  Users,             \* accounts; nobody signed in counts as one
  First,             \* the user when the app is installed
  None,              \* no user
  MaxPendingWrites,  \* kMaxPendingWrites
  MaxWrites,         \* bound: writes of the app
  MaxMoves,          \* bound: announcements of Auth, calls of disableNetwork and
                     \* of waitForPendingWrites together
  MaxFaults          \* bound: broken streams, failed tokens and killed apps

ASSUME WritePipelineAssumption ==
  /\ First \in Users /\ None \notin Users
  /\ MaxPendingWrites \in Nat \ {0}
  /\ MaxWrites \in Nat /\ MaxMoves \in Nat /\ MaxFaults \in Nat

VARIABLES
  authUser,   \* the user of Auth, who outlives the process
  queue,      \* the mutation queues, which do too
  client,     \* RemoteStore, its write stream, and the two queues of blocks
  current,    \* SyncEngine.current_user_
  nextId,     \* next_batch_id_ of the current user's queue
  callbacks,  \* mutation_callbacks_
  waits,      \* pending_writes_callbacks_, and the answers they had
  log,        \* what the backend has applied, and with whose token
  denied,     \* the writes that the backend refuses
  told,       \* what the callback of each write has said
  written,    \* writes so far
  moves,      \* announcements, disablings and waits so far
  faults      \* broken streams, failed tokens and killed apps so far

engine == <<current, nextId, callbacks, waits, told>>
backend == <<log, denied>>
counts == <<written, moves, faults>>
vars == <<authUser, queue, client, engine, backend, counts>>

-----------------------------------------------------------------------------
(* Data.  Writes are numbered in the order in which they are made, batches *)
(* as their mutation queue numbers them; 0 is the handshake.               *)

Writes == 1..MaxWrites
Batch(id, w) == [id |-> id, write |-> w]
WritesOf(batches) == [i \in DOMAIN batches |-> batches[i].write]

NoCall == [user |-> None, out |-> <<>>, in |-> <<>>, ended |-> "no"]
NoAsk == [stage |-> "none", user |-> None, fresh |-> TRUE, ok |-> TRUE]

(* Auth announces a user; a token has come.                                *)
Change(u) == [kind |-> "user", user |-> u]
Token == [kind |-> "token", user |-> None]
IsChange(block) == block.kind = "user"

(* LoadNextBatchIdFromDb: beyond the batches of all users.                 *)
Ids(queues) == UNION {{queues[u][i].id : i \in DOMAIN queues[u]} : u \in Users}

LoadNextBatchId(queues) == Max(Ids(queues) \union {0}) + 1

-----------------------------------------------------------------------------
(* The stream.                                                             *)

IsOpen(c) == c.state = "Open"
IsStarted(c) == c.state \in {"Starting", "Backoff", "Open"}

RequestCredentials(c) ==
  [c EXCEPT !.state = "Starting", !.ask = [NoAsk EXCEPT !.stage = "asked"]]

Start(c) ==
  IF c.state = "Error" THEN [c EXCEPT !.state = "Backoff"] ELSE RequestCredentials(c)

(* Write: what is sent on a call that the backend has ended is cut off.    *)
Send(c, messages) ==
  IF messages = <<>> THEN c
  ELSE CASE c.call.ended = "no" -> [c EXCEPT !.idle = FALSE, !.call.out = @ \o messages]
         [] c.call.ended = "ended" -> [c EXCEPT !.idle = FALSE, !.call.ended = "cut"]
         [] OTHER -> [c EXCEPT !.idle = FALSE]

(* Mutant: the token that has been asked for is used when it comes.        *)
CloseHalf(c, state) ==
  [c EXCEPT !.state = state, !.ready = FALSE, !.idle = FALSE, !.call = NoCall]

(* The close count drops the token, of which there is one at most, on its  *)
(* way to a stream that was closed.                                        *)
Close(c, state) ==
  [c EXCEPT !.state = state, !.ready = FALSE, !.idle = FALSE, !.call = NoCall,
            !.ask = NoAsk, !.main = RemoveFirst(@, Token),
            !.worker = RemoveFirst(@, Token)]

Stop(c) == IF IsStarted(c) THEN Close(c, "Initial") ELSE c

-----------------------------------------------------------------------------
(* RemoteStore.                                                            *)

ShouldStartWriteStream(c) == c.enabled /\ ~ IsStarted(c) /\ c.pipeline # <<>>
StartWriteStream(c) == IF ShouldStartWriteStream(c) THEN Start(c) ELSE c

(* The batches beyond the last one of the pipeline that                    *)
(* CanAddToWritePipeline lets in.                                          *)
NextBatches(c, q) ==
  LET last == IF c.pipeline = <<>> THEN 0 ELSE Last(c.pipeline).id
      first == Min({i \in DOMAIN q : q[i].id > last} \union {Len(q) + 1})
      room == IF c.enabled THEN MaxPendingWrites - Len(c.pipeline) ELSE 0
  IN  SubSeq(q, first, Min({first + room - 1, Len(q)}))

FillWritePipeline(c, q) ==
  LET new == NextBatches(c, q)
      filled == [c EXCEPT !.pipeline = @ \o new,
                          !.idle = @ \/ (c.enabled /\ IsOpen(c) /\ c.pipeline \o new = <<>>)]
  IN  StartWriteStream(IF IsOpen(c) /\ c.ready THEN Send(filled, WritesOf(new)) ELSE filled)

EnableNetwork(c, q) == FillWritePipeline([c EXCEPT !.enabled = TRUE], q)

(* Mutant: the pipeline is kept.                                           *)
DisableNetworkOnly(c) == Stop([c EXCEPT !.enabled = FALSE])

DisableNetwork(c) == [Stop([c EXCEPT !.enabled = FALSE]) EXCEPT !.pipeline = <<>>]

(* Mutant: the stream that is open is good for the new user.               *)
Refill(c, q) == IF c.enabled THEN EnableNetwork([c EXCEPT !.pipeline = <<>>], q) ELSE c

(* HandleCredentialChange.                                                 *)
Reconnect(c, q) == IF c.enabled THEN EnableNetwork(DisableNetwork(c), q) ELSE c

(* OnWriteStreamClose when the call or its token failed, other than by a   *)
(* write the backend refuses.                                              *)
Fail(c) == StartWriteStream(Close(c, "Error"))

(* What a new process begins with.                                         *)
NewClient(q) ==
  EnableNetwork([enabled |-> FALSE, pipeline |-> <<>>, state |-> "Initial", ready |-> FALSE,
                 idle |-> FALSE, call |-> NoCall, ask |-> NoAsk,
                 main |-> <<>>, worker |-> <<>>], q)

-----------------------------------------------------------------------------
(* SyncEngine's answers.                                                   *)

(* NotifyUser.                                                             *)
Asked(id) == {cb \in callbacks : cb.user = current /\ cb.id = id}
Notified(id, answer) ==
  [w \in Writes |-> IF \E cb \in Asked(id) : cb.write = w THEN answer ELSE told[w]]

Answered(wt, answer) == [wt EXCEPT !.answer = IF @ = "none" THEN answer ELSE @]

(* Mutant: whoever waits is told at the first write that is settled.       *)
TriggerAnyPendingWriteCallback(id) == {Answered(wt, "ok") : wt \in waits}

TriggerPendingWriteCallbacks(id) ==
  {IF wt.id = id THEN Answered(wt, "ok") ELSE wt : wt \in waits}

(* Mutant: those who wait go on waiting.                                   *)
KeepOutstandingPendingWriteCallbacks == waits

FailOutstandingPendingWriteCallbacks == {Answered(wt, "cancelled") : wt \in waits}

-----------------------------------------------------------------------------
Init ==
  /\ authUser = First
  /\ queue = [u \in Users |-> <<>>]
  /\ client = NewClient(<<>>)
  /\ current = authUser
  /\ nextId = 1
  /\ callbacks = {}
  /\ waits = {}
  /\ log = <<>>
  /\ denied = {}
  /\ told = [w \in Writes |-> "nothing"]
  /\ written = 0 /\ moves = 0 /\ faults = 0

(* What the app asks of the client.                                        *)

(* WriteMutations; the backend refuses some writes whenever it sees them.  *)
WriteMutations ==
  /\ written < MaxWrites
  /\ written' = written + 1
  /\ denied' \in {denied, denied \union {written'}}
  /\ queue' = [queue EXCEPT ![current] = Append(@, Batch(nextId, written'))]
  /\ nextId' = nextId + 1
  /\ callbacks' = callbacks \union {[user |-> current, id |-> nextId, write |-> written']}
  /\ client' = FillWritePipeline(client, queue'[current])
  /\ UNCHANGED <<authUser, current, waits, told, log, moves, faults>>

(* RegisterPendingWritesCallback.                                          *)
WaitForPendingWrites ==
  LET pending == queue[current]
  IN  /\ moves < MaxMoves
      /\ moves' = moves + 1
      /\ pending # <<>>
      /\ waits' = waits \union
           {[id |-> Last(pending).id, writes |-> Range(WritesOf(pending)), answer |-> "none"]}
      /\ UNCHANGED <<authUser, queue, client, current, nextId, callbacks, told, backend, written, faults>>

NetworkDisabled ==
  /\ moves < MaxMoves
  /\ client.enabled
  /\ moves' = moves + 1
  /\ client' = DisableNetwork(client)
  /\ UNCHANGED <<authUser, queue, engine, backend, written, faults>>

NetworkEnabled ==
  /\ ~ client.enabled
  /\ client' = EnableNetwork(client, queue[current])
  /\ UNCHANGED <<authUser, queue, engine, backend, counts>>

(* Auth.                                                                   *)

(* A user signs in or out, or has a new token.                             *)
Announce(u) ==
  /\ moves < MaxMoves
  /\ moves' = moves + 1
  /\ authUser' = u
  /\ client' = [client EXCEPT !.main = Append(@, Change(u))]
  /\ UNCHANGED <<queue, engine, backend, written, faults>>

(* getTokenForcingRefresh: the token is that of the user of the moment.    *)
FetchToken ==
  /\ client.ask.stage = "asked"
  /\ \/ client' = [client EXCEPT !.ask.stage = "fetched", !.ask.user = authUser] /\ UNCHANGED faults
     \/ /\ faults < MaxFaults
        /\ faults' = faults + 1
        /\ client' = [client EXCEPT !.ask.stage = "fetched", !.ask.ok = FALSE]
  /\ UNCHANGED <<authUser, queue, engine, backend, written, moves>>

DispatchToken ==
  /\ client.ask.stage = "fetched"
  /\ client' = [client EXCEPT !.ask.stage = "main", !.main = Append(@, Token)]
  /\ UNCHANGED <<authUser, queue, engine, backend, counts>>

(* The main queue.                                                         *)

(* The credentials provider: tokens that have been asked for before are    *)
(* of an unknown user.                                                     *)
UserAnnounced ==
  /\ client.main # <<>> /\ IsChange(Head(client.main))
  /\ client' = [client EXCEPT !.main = Tail(@), !.ask.fresh = FALSE,
                              !.worker = Append(@, Head(client.main))]
  /\ UNCHANGED <<authUser, queue, engine, backend, counts>>

(* A token that is no longer fresh is an error to the stream.              *)
TokenAnswered ==
  /\ client.main # <<>> /\ ~ IsChange(Head(client.main))
  /\ client' = [client EXCEPT !.main = Tail(@), !.ask.stage = "worker",
                              !.ask.ok = @ /\ client.ask.fresh,
                              !.worker = Append(@, Token)]
  /\ UNCHANGED <<authUser, queue, engine, backend, counts>>

(* The worker queue.                                                       *)

HandleCredentialChange ==
  LET user == Head(client.worker).user
  IN  /\ client.worker # <<>> /\ IsChange(Head(client.worker))
      /\ current' = user
      /\ nextId' = IF user = current THEN nextId ELSE LoadNextBatchId(queue)
      /\ waits' = IF user = current THEN waits ELSE FailOutstandingPendingWriteCallbacks
      /\ client' = Reconnect([client EXCEPT !.worker = Tail(@)], queue[user])
      /\ UNCHANGED <<authUser, queue, callbacks, told, backend, counts>>

(* The stream is open, and its first message is the handshake.             *)
ResumeStartWithCredentials ==
  /\ client.worker # <<>> /\ ~ IsChange(Head(client.worker))
  /\ LET c == [client EXCEPT !.worker = Tail(@), !.ask = NoAsk]
     IN  client' = IF client.ask.ok
                   THEN [c EXCEPT !.state = "Open",
                                  !.call = [NoCall EXCEPT !.user = client.ask.user, !.out = <<0>>]]
                   ELSE Fail(c)
  /\ UNCHANGED <<authUser, queue, engine, backend, counts>>

BackoffElapsed ==
  /\ client.state = "Backoff"
  /\ client' = RequestCredentials(client)
  /\ UNCHANGED <<authUser, queue, engine, backend, counts>>

IdleTimeout ==
  /\ client.idle
  /\ client' = Stop(client)
  /\ UNCHANGED <<authUser, queue, engine, backend, counts>>

(* OnWriteStreamHandshakeComplete.                                         *)
HandshakeComplete ==
  /\ client.call.in # <<>> /\ ~ client.ready
  /\ client' = Send([client EXCEPT !.ready = TRUE, !.call.in = Tail(@)],
                    WritesOf(client.pipeline))
  /\ UNCHANGED <<authUser, queue, engine, backend, counts>>

(* A batch is settled: its callbacks are called, and it leaves its queue.  *)
Settle(batch, answer) ==
  /\ told' = Notified(batch.id, answer)
  /\ callbacks' = callbacks \ Asked(batch.id)
  /\ waits' = TriggerPendingWriteCallbacks(batch.id)
  /\ queue' = [queue EXCEPT ![current] = RemoveFirst(@, batch)]

(* OnWriteStreamMutationResult: the result is that of the first write.     *)
MutationResult ==
  LET batch == Head(client.pipeline)
  IN  /\ client.call.in # <<>> /\ client.ready
      /\ Settle(batch, "ok")
      /\ client' = FillWritePipeline([client EXCEPT !.pipeline = Tail(@), !.call.in = Tail(@),
                                       !.call.ended = IF @ = "cut" THEN "failing" ELSE @],
                                     queue'[current])
      /\ UNCHANGED <<authUser, current, nextId, backend, counts>>

(* The call ends with a permanent error, for which HandleWriteError gives  *)
(* up the first write.  A message that was cut off ends the reading: the   *)
(* answer that was being read when it failed still comes, others do not.   *)
WriteRefused ==
  LET batch == Head(client.pipeline)
      c == Close(client, "Initial")
  IN  /\ client.call.ended # "no"
      /\ client.call.in = <<>> \/ client.call.ended = "failing"
      /\ Settle(batch, "failed")
      /\ client' = FillWritePipeline([c EXCEPT !.pipeline = Tail(@)], queue'[current])
      /\ UNCHANGED <<authUser, current, nextId, backend, counts>>

(* Any other end of the call; answers on their way are lost.               *)
StreamFails ==
  /\ faults < MaxFaults
  /\ faults' = faults + 1
  /\ IsOpen(client)
  /\ client' = Fail(client)
  /\ UNCHANGED <<authUser, queue, engine, backend, written, moves>>

(* The backend reads the messages of a call in their order; at a write     *)
(* that it refuses it ends the call.                                       *)
Serve ==
  LET message == Head(client.call.out)
      answered == [client EXCEPT !.call.out = Tail(@), !.call.in = Append(@, message)]
  IN  /\ client.call.out # <<>>
      /\ CASE message = 0 -> client' = answered /\ UNCHANGED log
           [] message \in denied ->
                /\ client' = [client EXCEPT !.call.out = <<>>,
                     !.call.ended = IF Len(client.call.out) > 1 THEN "cut" ELSE "ended"]
                /\ UNCHANGED log
           [] OTHER ->
                /\ client' = answered
                /\ log' = Append(log, [user |-> client.call.user, write |-> message])
      /\ UNCHANGED <<authUser, queue, engine, denied, counts>>

(* The process.                                                            *)

(* The app is killed and started again: Auth's user and the queues remain. *)
Kill ==
  /\ faults < MaxFaults
  /\ faults' = faults + 1
  /\ client' = NewClient(queue[authUser])
  /\ current' = authUser
  /\ nextId' = LoadNextBatchId(queue)
  /\ callbacks' = {}
  /\ UNCHANGED <<authUser, queue, backend, written, moves>>

KilledAtRest ==
  /\ Kill
  /\ waits' = {wt \in waits : wt.answer # "none"}
  /\ UNCHANGED told

(* Killed after the callbacks have been called and before the batch has    *)
(* been removed.                                                           *)
KilledAtResult ==
  LET batch == Head(client.pipeline)
  IN  /\ client.call.in # <<>> /\ client.ready
      /\ Kill
      /\ told' = Notified(batch.id, "ok")
      /\ waits' = {wt \in TriggerPendingWriteCallbacks(batch.id) : wt.answer # "none"}

(* Auth, the queues of blocks, the timers and the backend go on by         *)
(* themselves.                                                             *)
Work ==
  \/ FetchToken \/ DispatchToken \/ UserAnnounced \/ TokenAnswered
  \/ HandleCredentialChange \/ ResumeStartWithCredentials \/ BackoffElapsed
  \/ HandshakeComplete \/ MutationResult \/ WriteRefused \/ Serve

Next ==
  \/ WriteMutations \/ WaitForPendingWrites \/ NetworkDisabled \/ NetworkEnabled
  \/ \E u \in Users : Announce(u)
  \/ Work \/ IdleTimeout
  \/ StreamFails \/ KilledAtRest \/ KilledAtResult

Spec == Init /\ [][Next]_vars

FairSpec == Spec /\ WF_vars(Work)

-----------------------------------------------------------------------------
(* Properties.                                                             *)

TypeOK ==
  /\ authUser \in Users /\ current \in Users
  /\ queue \in [Users -> Seq([id : Nat \ {0}, write : Writes])]
  /\ client.state \in {"Initial", "Starting", "Backoff", "Open", "Error"}
  /\ client.call.user \in Users \union {None}
  /\ client.call.ended \in {"no", "ended", "cut", "failing"}
  /\ Range(client.call.out) \union Range(client.call.in) \subseteq 0..MaxWrites
  /\ client.ask.stage \in {"none", "asked", "fetched", "main", "worker"}
  /\ nextId \in Nat \ {0}
  /\ callbacks \subseteq [user : Users, id : Nat \ {0}, write : Writes]
  /\ log \in Seq([user : Users, write : Writes])
  /\ denied \subseteq Writes
  /\ told \in [Writes -> {"nothing", "ok", "failed"}]

(* RemoteStore knows an answer only by its place: "linked to their         *)
(* originating request purely based on order".  The answers and requests   *)
(* under way are those of the pipeline, and the pipeline is the beginning  *)
(* of the current user's queue.                                            *)
Correlated ==
  LET call == client.call
      writes == WritesOf(client.pipeline)
  IN  /\ client.pipeline = IF client.enabled
                           THEN SubSeq(queue[current], 1, Min({MaxPendingWrites, Len(queue[current])}))
                           ELSE <<>>
      /\ IsOpen(client) /\ ~ client.ready => call.in \o call.out = <<0>>
      /\ client.ready /\ call.ended = "no" => call.in \o call.out = writes
      /\ client.ready /\ call.ended # "no" =>
           /\ call.out = <<>>
           /\ IsStrictPrefix(call.in, writes)
           /\ writes[Len(call.in) + 1] \in denied

(* What the code asserts: a stream is stopped for idleness only if nothing *)
(* is to be written, a token comes to a stream that is starting, and while *)
(* there are writes the stream is on its way.                              *)
AssertionsHold ==
  /\ client.idle => IsOpen(client) /\ client.pipeline = <<>>
  /\ client.ask.stage # "none" <=> client.state = "Starting"
  /\ client.pipeline # <<>> => IsStarted(client)
  /\ client.ready => IsOpen(client)

(* The client's state has its types and passes its HARD_ASSERTs.           *)
Sound == TypeOK /\ AssertionsHold

(* Callbacks and those who wait are told the truth: a write that is        *)
(* reported to have succeeded has been applied, one that is reported to    *)
(* have failed is not sent again, and who waited for the pending writes    *)
(* learns of it when each of them has been applied or refused.             *)
AnswersAreTrue ==
  LET applied(w) == \E i \in DOMAIN log : log[i].write = w
      pending(w) == \E u \in Users : w \in Range(WritesOf(queue[u]))
  IN  /\ \A w \in Writes : told[w] = "ok" => applied(w)
      /\ \A w \in Writes : told[w] = "failed" => ~ pending(w)
      /\ \A wt \in waits : wt.answer = "ok" =>
            \A w \in wt.writes : applied(w) \/ w \in denied
      /\ \A cb \in callbacks : Batch(cb.id, cb.write) \in Range(queue[cb.user])

(* What the promise of Outbox is about: the writes, and as many of them    *)
(* applied in a row as there are answers under way.                        *)
Run ==
  [u \in Users |-> IF u = current /\ client.ready THEN Len(client.call.in) ELSE 0]
Promise == INSTANCE Outbox WITH
  pending <- [u \in Users |-> WritesOf(queue[u])], run <- Run

(* Each user's writes leave the queue at the front, applied or refused,    *)
(* are applied in their order, with their user's token, and never again    *)
(* after they have left.                                                   *)
Implements == Promise!Spec

(* While the network is enabled and the user stays, everything is written  *)
(* in the end, and whoever waited for it is told.                          *)
Drains ==
  \A u \in Users :
    <>[](client.enabled /\ authUser = u) =>
      <>[](queue[u] = <<>> /\ \A wt \in waits : wt.answer # "none")

=============================================================================
