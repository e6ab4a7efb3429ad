---------------------------- MODULE WatchedQuery ----------------------------
(***************************************************************************)
(* How the Firestore client of PostPigeon keeps a listener up to date: the *)
(* documents and the target on disk (LocalStore), the view of the query    *)
(* and the resolution of documents in limbo (View, SyncEngine), the watch  *)
(* stream with its aggregator of changes (RemoteStore,                     *)
(* WatchChangeAggregator), and what the backend sends.                     *)
(*                                                                         *)
(* The query is a whole collection, as those of PostPigeon are: every      *)
(* document that exists is a result.  Its target has the number Query; the *)
(* targets that resolve documents in limbo are numbered from 1.            *)
(***************************************************************************)
EXTENDS Integers, FiniteSets, SequencesExt

CONSTANTS
  Keys,        \* the keys of the documents, numbers for their order
  MaxLimbo,    \* max_concurrent_limbo_resolutions_
  MaxChanges,  \* bound: changes of documents, by others and by the app
  MaxWrites,   \* bound: writes of the app that are not acknowledged
  Disturbances \* bound: how often the app stops listening, streams break, the app is
               \* killed, targets are rejected, and deletions forgotten; one of these

ASSUME WatchedQueryAssumption ==
  /\ Keys \subseteq Nat /\ IsFiniteSet(Keys)
  /\ MaxLimbo \in Nat \ {0}
  /\ MaxChanges \in Nat /\ MaxWrites \in Nat
  /\ Disturbances \subseteq
       [stops : Nat, breaks : Nat, kills : Nat, rejections : Nat, lapses : Nat]

VARIABLES
  history,  \* what has become of the documents; a version is a place in it
  served,   \* the targets of the stream, as the backend knows them
  applied,  \* the version of the app's first write, 0 when it is not applied
  client,   \* the client, what it has on disk, and the messages of its stream
  made,     \* changes so far
  left      \* disturbances to come

backend == <<history, served, applied>>
counts == <<made, left>>
vars == <<backend, client, counts>>

-----------------------------------------------------------------------------
(* Data.  A change has a number of its own for the content it gives the    *)
(* document; a document that the client does not know has version 0.       *)

Query == 0
Versions == 0..Len(history)
Unknown == [version |-> 0, id |-> 0, exists |-> FALSE, local |-> FALSE, committed |-> FALSE]

(* A document as of a version.                                             *)
At(k, v) ==
  LET versions == {i \in 1..v : history[i].key = k}
      change == history[Max(versions)]
  IN  IF versions = {} THEN Unknown
      ELSE [Unknown EXCEPT !.version = Max(versions), !.id = change.id, !.exists = change.exists]

Sorted(S) ==
  CHOOSE order \in SetToSeqs(S) : \A i, j \in DOMAIN order : i < j => order[i] < order[j]

(* A table with some of its entries replaced, or with one fewer.           *)
Over(new, old) ==
  [x \in DOMAIN new \union DOMAIN old |-> IF x \in DOMAIN new THEN new[x] ELSE old[x]]
With(f, x, y) == Over([z \in {x} |-> y], f)
Without(f, x) == Restrict(f, DOMAIN f \ {x})

NoView ==
  [on |-> FALSE, docs |-> [k \in Keys |-> Unknown], synced |-> {}, mutated |-> {},
   limbo |-> {}, current |-> FALSE, insync |-> FALSE]

NewTarget ==
  [outstanding |-> 0, current |-> FALSE, pending |-> TRUE, changes |-> <<>>, token |-> 0]

KeysOf(target, type) == {k \in DOMAIN target.changes : target.changes[k] = type}

-----------------------------------------------------------------------------
(* WatchChangeAggregator.                                                  *)

TargetState(c, t) == IF t \in DOMAIN c.agg THEN c.agg[t] ELSE NewTarget
IsActiveTarget(c, t) == t \in DOMAIN c.listen /\ TargetState(c, t).outstanding = 0

(* SyncEngine::GetRemoteKeys.                                              *)
RemoteKeys(c, t) ==
  IF t = Query THEN c.view.synced
  ELSE IF t \in DOMAIN c.active /\ c.active[t].received THEN {c.active[t].key} ELSE {}

AddDocument(c, t, k) ==
  [TargetState(c, t) EXCEPT !.pending = TRUE,
     !.changes = With(@, k, IF k \in RemoteKeys(c, t) THEN "modified" ELSE "added")]

RemoveDocument(c, t, k) ==
  [TargetState(c, t) EXCEPT !.pending = TRUE,
     !.changes = IF k \in RemoteKeys(c, t) THEN With(@, k, "removed") ELSE Without(@, k)]

HandleDocumentChange(c, m) ==
  LET active == {t \in m.updated \union m.removed : IsActiveTarget(c, t)}
      state(t) == IF t \in m.updated THEN AddDocument(c, t, m.key) ELSE RemoveDocument(c, t, m.key)
  IN  IF active = {} THEN c
      ELSE [c EXCEPT !.agg = Over([t \in active |-> state(t)], @),
                     !.updates = With(@, m.key, m.doc)]

(* A response to a request for the target.                                 *)
Responded(c, t) == [TargetState(c, t) EXCEPT !.outstanding = @ - 1]

HandleTargetAdded(c, t) ==
  LET state == Responded(c, t)
  IN  [c EXCEPT !.agg = With(@, t, IF state.outstanding # 0 THEN state
                                   ELSE [state EXCEPT !.pending = FALSE, !.changes = <<>>])]

HandleTargetRemoved(c, t) ==
  LET state == Responded(c, t)
  IN  [c EXCEPT !.agg = IF state.outstanding # 0 THEN With(@, t, state) ELSE Without(@, t)]

HandleTargetCurrent(c, t) ==
  IF IsActiveTarget(c, t)
  THEN [c EXCEPT !.agg = With(@, t, [TargetState(c, t) EXCEPT !.current = TRUE, !.pending = TRUE])]
  ELSE c

(* A message that names no target is about all that are active.            *)
UpdateResumeTokens(c, v) ==
  [c EXCEPT !.agg = [t \in DOMAIN @ |->
     IF IsActiveTarget(c, t) THEN [@[t] EXCEPT !.token = v, !.pending = TRUE] ELSE @[t]]]

(* Mutant: the documents of the target are kept.                           *)
ResetTargetOnly(c, t) ==
  [c EXCEPT !.agg = With(@, t, NewTarget), !.ok = @ /\ t \in DOMAIN c.agg]

ResetTarget(c, t) ==
  [c EXCEPT !.agg = With(@, t, [NewTarget EXCEPT
                              !.changes = [k \in RemoteKeys(c, t) |-> "removed"]]),
            !.ok = @ /\ t \in DOMAIN c.agg]

GetCurrentDocumentCount(c, t) ==
  LET state == TargetState(c, t)
  IN  Cardinality(RemoteKeys(c, t)) + Cardinality(KeysOf(state, "added"))
        - Cardinality(KeysOf(state, "removed"))

HandleExistenceFilter(c, t, count) ==
  IF IsActiveTarget(c, t) /\ GetCurrentDocumentCount(c, t) # count
  THEN [ResetTarget(c, t) EXCEPT !.resets = @ \union {t}]
  ELSE c

(* Mutant: a document of which nothing came is left alone.                 *)
SynthesizeNothing(c, v) == c

(* A document in limbo of which nothing came has been deleted.             *)
SynthesizeDeletes(c, v) ==
  LET missing == {t \in DOMAIN c.agg \ {Query} :
                    /\ IsActiveTarget(c, t) /\ c.agg[t].current
                    /\ c.listen[t].key \notin DOMAIN c.updates \union RemoteKeys(c, t)}
  IN  [c EXCEPT
        !.agg = Over([t \in missing |-> RemoveDocument(c, t, c.listen[t].key)], @),
        !.updates = Over([k \in {c.listen[t].key : t \in missing} |->
                            [Unknown EXCEPT !.version = v]], @)]

(* CreateRemoteEvent, and what it leaves in the aggregator.                *)
RemoteEvent(c, v) ==
  [version |-> v, mismatches |-> c.resets, updates |-> c.updates,
   targets |-> Restrict(c.agg, {t \in DOMAIN c.agg : IsActiveTarget(c, t) /\ c.agg[t].pending})]

ClearPendingChanges(c) ==
  [c EXCEPT !.updates = <<>>, !.resets = {},
     !.agg = [t \in DOMAIN @ |-> IF IsActiveTarget(c, t)
                                 THEN [@[t] EXCEPT !.pending = FALSE, !.changes = <<>>] ELSE @[t]]]

-----------------------------------------------------------------------------
(* RemoteStore.                                                            *)

RecordPendingTargetRequest(c, t) ==
  [c EXCEPT !.agg = With(@, t, [TargetState(c, t) EXCEPT !.outstanding = @ + 1])]

(* Mutant: the stream stays idle.                                          *)
SendIdleWatchRequest(c, t) ==
  [RecordPendingTargetRequest(c, t) EXCEPT
     !.out = Append(@, [kind |-> "watch", target |-> t, key |-> c.listen[t].key,
                        token |-> c.listen[t].token])]

SendWatchRequest(c, t) ==
  [RecordPendingTargetRequest(c, t) EXCEPT
     !.idle = FALSE,
     !.out = Append(@, [kind |-> "watch", target |-> t, key |-> c.listen[t].key,
                        token |-> c.listen[t].token])]

SendUnwatchRequest(c, t) ==
  [RecordPendingTargetRequest(c, t) EXCEPT
     !.idle = FALSE,
     !.out = Append(@, [kind |-> "unwatch", target |-> t, key |-> 0, token |-> 0])]

StartWatchStream(c) ==
  [c EXCEPT !.stream = "starting",
            !.ok = @ /\ c.online # "waiting",
            !.online = IF @ = "offline" THEN @ ELSE "waiting"]

Listen(c, t, k, token) ==
  LET listening == [c EXCEPT !.listen = With(@, t, [key |-> k, token |-> token])]
  IN  IF t \in DOMAIN c.listen THEN c
      ELSE CASE c.stream = "off" -> StartWatchStream(listening)
             [] c.stream = "open" -> SendWatchRequest(listening, t)
             [] OTHER -> listening

StopListening(c, t) ==
  LET stopped == [c EXCEPT !.ok = @ /\ t \in DOMAIN c.listen, !.listen = Without(@, t)]
      last == DOMAIN stopped.listen = {}
  IN  IF c.stream = "open"
      THEN [SendUnwatchRequest(stopped, t) EXCEPT !.idle = last]
      ELSE [stopped EXCEPT !.online = IF last THEN "unknown" ELSE @]

(* OnWatchStreamClose, from CleanUpWatchStreamState on.                    *)
CleanUpWatchStreamState(c) ==
  [c EXCEPT !.stream = "off", !.idle = FALSE, !.agg = <<>>, !.updates = <<>>, !.resets = {},
            !.out = <<>>, !.in = <<>>]

-----------------------------------------------------------------------------
(* SyncEngine's bookkeeping of documents in limbo.                         *)

(* One round of the loop of PumpEnqueuedLimboResolutions.                  *)
ResolveFirst(c) ==
  LET k == Head(c.queue)
  IN  IF c.queue = <<>> \/ Cardinality({x \in Keys : c.byKey[x] # 0}) >= MaxLimbo THEN c
      ELSE Listen([c EXCEPT
             !.queue = Tail(@), !.nextId = @ + 1,
             !.active = With(@, c.nextId, [key |-> k, received |-> FALSE]),
             !.byKey[k] = IF @ = 0 THEN c.nextId ELSE @], c.nextId, k, 0)

PumpEnqueuedLimboResolutions(c) ==
  FoldLeft(LAMBDA c2, k : ResolveFirst(c2), c, c.queue)

(* Mutant: a document that cannot be resolved at once is forgotten.        *)
TrackLimboChangeNow(c, k) ==
  IF c.byKey[k] # 0 \/ Cardinality({x \in Keys : c.byKey[x] # 0}) >= MaxLimbo THEN c
  ELSE PumpEnqueuedLimboResolutions([c EXCEPT !.queue = Append(@, k)])

TrackLimboChange(c, k) ==
  IF c.byKey[k] # 0 THEN c
  ELSE PumpEnqueuedLimboResolutions([c EXCEPT !.queue = Append(@, k)])

RemoveLimboTarget(c, k) ==
  LET t == c.byKey[k]
  IN  IF t = 0 THEN c
      ELSE LET stopped == StopListening(c, t)
           IN  PumpEnqueuedLimboResolutions(
                 [stopped EXCEPT !.byKey[k] = 0, !.active = Without(@, t)])

RemoveAndCleanupTarget(c) ==
  FoldLeft(RemoveLimboTarget, [c EXCEPT !.view = NoView], Sorted(c.view.limbo))

-----------------------------------------------------------------------------
(* LocalStore and View.                                                    *)

(* LocalDocumentsView: the app's own writes over the documents.            *)
GetDocument(d, k) ==
  LET own == {i \in DOMAIN d.writes : d.writes[i].key = k}
      last == d.writes[Max(own)]
  IN  IF own = {} THEN d.docs[k]
      ELSE [Unknown EXCEPT !.id = last.id, !.exists = last.exists, !.local = TRUE]

ShouldWaitForSyncedDocument(new, old) == old.local /\ new.committed /\ ~ new.local

(* Whether a view takes a document over.                                   *)
IsChange(old, new, mutated) ==
  IF ~ old.exists \/ ~ new.exists THEN old.exists # new.exists
  ELSE IF old.id # new.id THEN ~ ShouldWaitForSyncedDocument(new, old)
  ELSE mutated # (new.local \/ (mutated /\ new.committed))

ComputeDocumentChanges(v, d, keys) ==
  LET new(k) == IF GetDocument(d, k).exists THEN GetDocument(d, k) ELSE Unknown
      changed == {k \in keys : IsChange(v.docs[k], new(k), k \in v.mutated)}
  IN  [v EXCEPT !.docs = [k \in Keys |-> IF k \in changed THEN new(k) ELSE @[k]],
                !.mutated = (@ \ changed) \union {k \in changed : new(k).local}]

ApplyTargetChange(v, targets) ==
  IF Query \notin DOMAIN targets THEN v
  ELSE [v EXCEPT !.synced = (@ \union KeysOf(targets[Query], "added"))
                              \ KeysOf(targets[Query], "removed"),
                 !.current = targets[Query].current]

ShouldBeInLimbo(v, k) == k \notin v.synced /\ v.docs[k].exists /\ ~ v.docs[k].local

UpdateLimboDocuments(v) ==
  LET limbo == IF v.current THEN {k \in Keys : ShouldBeInLimbo(v, k)} ELSE v.limbo
  IN  [v EXCEPT !.limbo = limbo, !.insync = v.current /\ limbo = {}]

(* EmitNewSnapshotsAndNotifyLocalStore, UpdateTrackedLimboDocuments.       *)
EmitNewSnapshots(c, keys, targets) ==
  LET view == UpdateLimboDocuments(
                ApplyTargetChange(ComputeDocumentChanges(c.view, c.disk, keys), targets))
      modified == IF Query \in DOMAIN targets THEN KeysOf(targets[Query], "modified") ELSE {}
      shown == [c EXCEPT !.view = view, !.ok = @ /\ modified \subseteq c.view.synced]
      resolved == FoldLeft(RemoveLimboTarget, shown, Sorted(c.view.limbo \ view.limbo))
  IN  IF c.view.on THEN FoldLeft(TrackLimboChange, resolved, Sorted(view.limbo \ c.view.limbo)) ELSE c

(* What the limbo targets have received.                                   *)
UpdateLimboResolutions(c, targets) ==
  LET resolved == DOMAIN c.active \intersect DOMAIN targets
      added(t) == KeysOf(targets[t], "added") # {}
      removed(t) == KeysOf(targets[t], "removed") # {}
  IN  [c EXCEPT
        !.ok = @ /\ \A t \in resolved :
                 /\ Cardinality(DOMAIN targets[t].changes) <= 1
                 /\ ~ added(t) /\ DOMAIN targets[t].changes # {} => c.active[t].received,
        !.active = [t \in DOMAIN @ |->
           IF t \in resolved
           THEN [@[t] EXCEPT !.received = added(t) \/ (c.active[t].received /\ ~ removed(t))]
           ELSE @[t]]]

(* Mutant: whatever comes is newer.                                        *)
IsAnyNews(old, new) == TRUE

(* LocalStore::ApplyRemoteEvent: which documents are taken over.           *)
IsNews(old, new) ==
  \/ old.version = 0 \/ new.version = 0
  \/ new.version > old.version
  \/ new.version = old.version /\ old.committed

StoreTarget(d, memo, target) ==
  [d EXCEPT !.keys = (@ \ KeysOf(target, "removed")) \union KeysOf(target, "added"),
            !.token = IF target.token # 0 /\ (memo = 0 \/ DOMAIN target.changes # {})
                      THEN target.token ELSE @]

StoreDocuments(d, updates, v) ==
  [d EXCEPT !.docs = [k \in Keys |->
               IF k \in DOMAIN updates /\ IsNews(@[k], updates[k]) THEN updates[k] ELSE @[k]],
            !.last = IF v = 0 THEN @ ELSE v]

ApplyRemoteEvent(c, event) ==
  LET known == Query \in DOMAIN event.targets /\ c.view.on
      target == event.targets[Query]
      stored == IF known THEN StoreTarget(c.disk, c.memo, target) ELSE c.disk
      news == {k \in DOMAIN event.updates : IsNews(c.disk.docs[k], event.updates[k])}
  IN  EmitNewSnapshots(
        [UpdateLimboResolutions(c, event.targets) EXCEPT
           !.disk = StoreDocuments(stored, event.updates, event.version),
           !.memo = IF known /\ target.token # 0 THEN target.token ELSE @,
           !.ok = @ /\ (event.version = 0 \/ event.version >= c.disk.last)],
        news, event.targets)

ReleaseTarget(c) == [c EXCEPT !.disk.token = c.memo]

HandleRejectedListen(c, t) ==
  IF t \notin DOMAIN c.active THEN RemoveAndCleanupTarget(ReleaseTarget(c))
  ELSE LET key == c.active[t].key
       IN  ApplyRemoteEvent(
             PumpEnqueuedLimboResolutions([c EXCEPT !.byKey[key] = 0, !.active = Without(@, t)]),
             [version |-> 0, targets |-> <<>>, mismatches |-> {}, updates |-> [k \in {key} |-> Unknown]])

ProcessTargetError(c, t) ==
  IF t \notin DOMAIN c.listen THEN c
  ELSE HandleRejectedListen([c EXCEPT !.listen = Without(@, t), !.agg = Without(@, t)], t)

(* A target whose count of documents is wrong is watched from the start.   *)
Rewatch(c) ==
  SendWatchRequest(SendUnwatchRequest([c EXCEPT !.listen[Query].token = 0], Query), Query)

RaiseWatchSnapshot(c, v) ==
  LET complete == SynthesizeDeletes(c, v)
      event == RemoteEvent(complete, v)
      token(t) == IF t \in DOMAIN event.targets THEN event.targets[t].token ELSE 0
      raised == [ClearPendingChanges(complete) EXCEPT
                   !.listen = [t \in DOMAIN @ |-> IF token(t) = 0 THEN @[t]
                                                  ELSE [@[t] EXCEPT !.token = token(t)]]]
  IN  ApplyRemoteEvent(
        IF event.mismatches \intersect DOMAIN c.listen = {} THEN raised ELSE Rewatch(raised), event)

HandleSnapshot(c, v) ==
  LET updated == UpdateResumeTokens(c, v)
  IN  IF v >= c.disk.last THEN RaiseWatchSnapshot(updated, v) ELSE updated

OnWatchStreamChange(c, m) ==
  CASE m.kind = "doc" -> HandleDocumentChange(c, m)
    [] m.kind = "added" -> HandleTargetAdded(c, m.target)
    [] m.kind = "removed" -> HandleTargetRemoved(c, m.target)
    [] m.kind = "rejected" -> ProcessTargetError(c, m.target)
    [] m.kind = "current" -> HandleTargetCurrent(c, m.target)
    [] m.kind = "filter" -> HandleExistenceFilter(c, m.target, m.count)
    [] m.kind = "snapshot" -> HandleSnapshot(c, m.version)

-----------------------------------------------------------------------------
(* What a process begins with.                                             *)
NewClient(d) ==
  [disk |-> d, memo |-> 0, view |-> NoView, ok |-> TRUE,
   queue |-> <<>>, byKey |-> [k \in Keys |-> 0], active |-> <<>>, nextId |-> 1,
   listen |-> <<>>, stream |-> "off", idle |-> FALSE, online |-> "unknown",
   agg |-> <<>>, updates |-> <<>>, resets |-> {}, out |-> <<>>, in |-> <<>>]

Installed ==
  [docs |-> [k \in Keys |-> Unknown], keys |-> {}, token |-> 0, last |-> 0, writes |-> <<>>]

(* All documents exist; the app has been installed, or has seen them.      *)
Init ==
  /\ history = [i \in 1..Cardinality(Keys) |->
                  [key |-> Sorted(Keys)[i], id |-> i, exists |-> TRUE]]
  /\ served = <<>>
  /\ applied = 0
  /\ client \in {NewClient(Installed),
                 NewClient([Installed EXCEPT !.docs = [k \in Keys |-> At(k, Len(history))],
                                             !.keys = Keys, !.token = Len(history),
                                             !.last = Len(history)])}
  /\ made = Len(history)
  /\ left \in Disturbances

Disturb(what) ==
  /\ left[what] > 0
  /\ left' = [left EXCEPT ![what] = @ - 1]

(* Others.                                                                 *)

Exists(k) == At(k, Len(history)).exists
Changed(k, id, exists) == Append(history, [key |-> k, id |-> id, exists |-> exists])

OthersChange(k, exists) ==
  /\ made < Cardinality(Keys) + MaxChanges
  /\ exists \/ Exists(k)
  /\ made' = made + 1
  /\ history' = Changed(k, made', exists)
  /\ UNCHANGED <<served, applied, client, left>>

(* The app.                                                                *)

StartListening ==
  /\ ~ client.view.on
  /\ LET c == [client EXCEPT !.memo = client.disk.token,
                             !.view = [NoView EXCEPT !.on = TRUE, !.synced = client.disk.keys]]
     IN  client' = Listen(EmitNewSnapshots(c, Keys, <<>>), Query, 0, c.memo)
  /\ UNCHANGED <<backend, counts>>

StopListeningToQuery ==
  /\ client.view.on
  /\ Disturb("stops")
  /\ client' = RemoveAndCleanupTarget(StopListening(ReleaseTarget(client), Query))
  /\ UNCHANGED <<backend, made>>

Write(k, exists) ==
  /\ made < Cardinality(Keys) + MaxChanges
  /\ Len(client.disk.writes) < MaxWrites
  /\ made' = made + 1
  /\ client' = EmitNewSnapshots(
       [client EXCEPT !.disk.writes = Append(@, [key |-> k, id |-> made', exists |-> exists])],
       {k}, <<>>)
  /\ UNCHANGED <<backend, left>>

(* The app's writes, which WritePipeline brings to the backend.            *)

ApplyWrite ==
  LET write == Head(client.disk.writes)
  IN  /\ client.disk.writes # <<>> /\ applied = 0
      /\ history' = Changed(write.key, write.id, write.exists)
      /\ applied' = Len(history')
      /\ UNCHANGED <<served, client, counts>>

AcknowledgeBatch ==
  LET key == Head(client.disk.writes).key
      old == client.disk.docs[key]
      new == [At(key, applied) EXCEPT !.committed = TRUE]
  IN  /\ applied # 0
      /\ applied' = 0
      /\ client' = EmitNewSnapshots(
           [client EXCEPT !.disk.writes = Tail(@),
                          !.disk.docs[key] = IF old.version < applied THEN new ELSE old],
           {key}, <<>>)
      /\ UNCHANGED <<history, served, counts>>

RejectBatch ==
  /\ client.disk.writes # <<>> /\ applied = 0
  /\ client' = EmitNewSnapshots([client EXCEPT !.disk.writes = Tail(@)],
                                {Head(client.disk.writes).key}, <<>>)
  /\ UNCHANGED <<backend, counts>>

(* The watch stream.                                                       *)

OnWatchStreamOpen ==
  /\ client.stream = "starting"
  /\ client' = FoldLeft(SendWatchRequest, [client EXCEPT !.stream = "open"],
                        Sorted(DOMAIN client.listen))
  /\ UNCHANGED <<backend, counts>>

Receive ==
  /\ client.in # <<>>
  /\ client' = OnWatchStreamChange([client EXCEPT !.in = Tail(@), !.online = "online"],
                                   Head(client.in))
  /\ UNCHANGED <<backend, counts>>

IdleTimeout ==
  /\ client.idle
  /\ client' = [CleanUpWatchStreamState(client) EXCEPT
                  !.online = "unknown", !.ok = @ /\ DOMAIN client.listen = {}]
  /\ served' = <<>>
  /\ UNCHANGED <<history, applied, counts>>

(* HandleOnlineStateChange: the view is no longer current.                 *)
Offline(c) ==
  [c EXCEPT !.online = "offline", !.view.current = FALSE,
            !.view.insync = @ /\ ~ c.view.current]

OnlineStateTimeout ==
  /\ client.online = "waiting"
  /\ client' = Offline(client)
  /\ UNCHANGED <<backend, counts>>

(* HandleWatchStreamFailure.                                               *)
WatchStreamFails ==
  /\ Disturb("breaks")
  /\ client.stream # "off"
  /\ LET closed == CleanUpWatchStreamState(client)
         failed == IF client.online = "online" THEN [closed EXCEPT !.online = "unknown"]
                   ELSE Offline(closed)
     IN  client' = IF DOMAIN client.listen = {} THEN [closed EXCEPT !.online = "unknown"]
                   ELSE StartWatchStream(failed)
  /\ served' = <<>>
  /\ UNCHANGED <<history, applied, made>>

Kill ==
  /\ Disturb("kills")
  /\ client' = NewClient(client.disk)
  /\ served' = <<>>
  /\ applied' = 0
  /\ UNCHANGED <<history, made>>

(* The backend.                                                            *)

Message(kind, t) == [kind |-> kind, target |-> t]

ServeRequest ==
  LET request == Head(client.out)
      t == request.target
      respond(kind) == client' = [client EXCEPT !.out = Tail(@), !.in = Append(@, Message(kind, t))]
  IN  /\ client.out # <<>>
      /\ \/ /\ request.kind = "watch"
            /\ respond("added")
            /\ served' = With(served, t, [key |-> request.key, since |-> request.token,
                                          resumed |-> request.token > 0, current |-> FALSE])
            /\ UNCHANGED left
         \/ /\ request.kind = "watch"
            /\ Disturb("rejections")
            /\ respond("rejected")
            /\ UNCHANGED served
         \/ /\ request.kind = "unwatch"
            /\ respond("removed")
            /\ served' = Without(served, t)
            /\ UNCHANGED left
      /\ UNCHANGED <<history, applied, made>>

(* The changes of a document since a target has been told, of a query that *)
(* is resumed without the deletions if the backend forgets them.           *)
Covers(t, k) == t = Query \/ served[t].key = k
NewsOf(t, k) == Covers(t, k) /\ At(k, Len(history)) # At(k, served[t].since)
Updated(k) == {t \in DOMAIN served : NewsOf(t, k) /\ Exists(k)}
Removed(k, forgets) ==
  {t \in DOMAIN served : /\ NewsOf(t, k) /\ ~ Exists(k) /\ At(k, served[t].since).exists
                         /\ ~ (forgets /\ t = Query)}

DocumentMessages(forgets) ==
  LET keys == {k \in Keys : Updated(k) \union Removed(k, forgets) # {}}
      message(k) == [kind |-> "doc", key |-> k, doc |-> At(k, Len(history)),
                     updated |-> Updated(k), removed |-> Removed(k, forgets)]
  IN  [i \in 1..Cardinality(keys) |-> message(Sorted(keys)[i])]

CurrentMessages ==
  LET targets == {t \in DOMAIN served : ~ served[t].current}
  IN  [i \in 1..Cardinality(targets) |-> Message("current", Sorted(targets)[i])]

FilterMessage ==
  [kind |-> "filter", target |-> Query, count |-> Cardinality({k \in Keys : Exists(k)})]

(* There is something to tell.                                             *)
Unpublished ==
  \E t \in DOMAIN served : ~ served[t].current \/ \E k \in Keys : NewsOf(t, k)

(* All targets are told what is new up to the same version.                *)
Publish(forgets) ==
  /\ Unpublished
  /\ IF forgets
     THEN /\ Query \in DOMAIN served /\ served[Query].resumed /\ ~ served[Query].current
          /\ Disturb("lapses")
     ELSE UNCHANGED left
  /\ client' = [client EXCEPT
       !.in = @ \o DocumentMessages(forgets) \o CurrentMessages
                \o (IF forgets THEN <<FilterMessage>> ELSE <<>>)
                \o <<[kind |-> "snapshot", version |-> Len(history)]>>]
  /\ served' = [t \in DOMAIN served |-> [served[t] EXCEPT !.since = Len(history), !.current = TRUE]]
  /\ UNCHANGED <<history, applied, made>>

Work ==
  \/ OnWatchStreamOpen \/ Receive \/ ServeRequest \/ Publish(FALSE) \/ Publish(TRUE)
  \/ ApplyWrite \/ AcknowledgeBatch \/ RejectBatch

Next ==
  \/ \E k \in Keys, exists \in BOOLEAN : OthersChange(k, exists) \/ Write(k, exists)
  \/ StartListening \/ StopListeningToQuery
  \/ Work
  \/ IdleTimeout \/ OnlineStateTimeout \/ WatchStreamFails \/ Kill

Spec == Init /\ [][Next]_vars

-----------------------------------------------------------------------------
(* Properties.                                                             *)

TypeOK ==
  /\ history \in Seq([key : Keys, id : Nat, exists : BOOLEAN])
  /\ applied \in Versions
  /\ client.disk.keys \subseteq Keys
  /\ client.disk.token \in Versions /\ client.disk.last \in Versions /\ client.memo \in Versions
  /\ client.stream \in {"off", "starting", "open"}
  /\ client.online \in {"unknown", "waiting", "online", "offline"}
  /\ client.view.synced \union client.view.mutated \union client.view.limbo \subseteq Keys
  /\ DOMAIN client.active \subseteq 1..client.nextId
  /\ Range(client.queue) \subseteq Keys

(* What the code asserts: a target that is reset or no longer wanted was   *)
(* listened to, a stream without targets is the only one that is idle, a   *)
(* target in limbo receives and loses its own document only, a document    *)
(* that was modified was there, and no snapshot is older than the last.    *)
AssertionsHold == client.ok

(* The client's state has its types and passes its HARD_ASSERTs.           *)
Sound == TypeOK /\ AssertionsHold

(* SyncEngine and RemoteStore agree on the targets: those that RemoteStore *)
(* listens to are the query, when it has a view, and the resolutions of    *)
(* SyncEngine, among which is the one it has for each key.                 *)
TargetsAgree ==
  /\ DOMAIN client.listen \ {Query} = DOMAIN client.active
  /\ \A k \in Keys : LET t == client.byKey[k]
                     IN  t # 0 => t \in DOMAIN client.active /\ client.active[t].key = k
  /\ Query \in DOMAIN client.listen <=> client.view.on

(* Each document in limbo is being resolved or waits for it, by a target   *)
(* of its own on which all agree.                                          *)
LimboIsTracked ==
  /\ {k \in client.view.limbo : ShouldBeInLimbo(client.view, k)}
       \subseteq {k \in Keys : client.byKey[k] # 0} \union Range(client.queue)
  /\ DOMAIN client.active = {client.byKey[k] : k \in Keys} \ {0}
  /\ TargetsAgree

(* FIRSnapshotMetadata promises "guaranteed up-to-date server data" where  *)
(* isFromCache is false: a view in sync shows the documents as the backend *)
(* had them at the last snapshot, or at the acknowledgement of a write     *)
(* that came before the snapshot with it, except where the app has written *)
(* itself.                                                                 *)
SyncedIsTrue ==
  LET d == client.disk
      truth(k) == At(k, Max({d.last, d.docs[k].version}))
      own(k) == client.view.docs[k].local \/ \E i \in DOMAIN d.writes : d.writes[i].key = k
  IN  client.view.on /\ client.view.insync =>
        \A k \in Keys : own(k) \/
          /\ client.view.docs[k].exists = truth(k).exists
          /\ truth(k).exists => client.view.docs[k].id = truth(k).id

(* What the client has on disk of a document never gets older, whichever   *)
(* of an acknowledgement and the watch stream is first; it may become      *)
(* unknown, when the resolution of a document in limbo is refused.         *)
NeverOlder ==
  [][\A k \in Keys : LET old == client.disk.docs[k].version
                         new == client'.disk.docs[k].version
                     IN  new >= old \/ new = 0]_vars

(* When the app listens and there is nothing left to do for the stream and *)
(* the backend, the view is in sync and shows what there is.               *)
Quiet ==
  /\ client.view.on /\ client.stream = "open"
  /\ client.in = <<>> /\ client.out = <<>> /\ client.disk.writes = <<>>
  /\ ~ Unpublished

QuietIsSettled ==
  Quiet =>
    /\ client.view.insync
    /\ \A k \in Keys : client.view.docs[k].exists = Exists(k) \/ client.view.docs[k].local
=============================================================================
