---------------------------- MODULE EventedSpace ----------------------------
(***************************************************************************)
(* How a change of a file reaches the object index: the evented space of   *)
(* client/spaces/evented_space_primitives.ts, which compares what passes   *)
(* through it with a snapshot, the listeners of its file:changed and       *)
(* file:deleted events (client/client.ts, client/data/object_index.ts),    *)
(* and the index worker of plugs/index/queue.ts, which handles messages in *)
(* batches that fail as a whole.                                           *)
(*                                                                         *)
(* An operation is a call of the evented space.  Two of its steps are      *)
(* separated wherever the code awaits: the wrapped space answers (Serve)   *)
(* and the answer arrives (Return); the datastore runs its transactions,   *)
(* which are all on one IndexedDB store, in the order they were issued     *)
(* (kv), and the continuation of one issues the next.                      *)
(*                                                                         *)
(* A version of a file stands for its content and its modification time.   *)
(* The objects of a page have keys; version v has an object under a key    *)
(* that every version has (the page itself) and one under a key of its own.*)
(***************************************************************************)
EXTENDS Naturals, Sequences, FiniteSets

CONSTANTS
  Path,         \* the pages
  Caller,       \* reads, writes and deletions that can be in flight for the client
  Lister,       \* the listing, of which there is one at most
  Indexer,      \* the operation of the index worker
  None,         \* no path
  BatchSize,    \* of a poll of the index queue
  MaxRetries,   \* mqTimeoutRetry
  MaxVersions,  \* bound: versions that are ever written
  MaxEvents,    \* bound: calls of the client, changes by others, and troubles
  Troubles      \* what may go wrong, see Suffer

ASSUME EventedConstants ==
  /\ None \notin Path /\ {Lister, Indexer} \cap Caller = {} /\ Lister # Indexer /\ IsFiniteSet(Caller)
  /\ BatchSize \in Nat \ {0} /\ MaxRetries \in Nat \ {0}
  /\ MaxVersions \in Nat /\ MaxEvents \in Nat
  /\ Troubles \subseteq {"fault", "reopen", "tear"}

VARIABLES
  disk,                   \* what the wrapped space holds: path |-> version, 0 is no file
  versions,               \* versions 1..versions have been written
  spaceSnapshot,          \* path |-> the version last compared, 0 is none
  snapshotChanged,
  stored,                 \* the snapshot in the datastore
  operationCount,
  op,                     \* per operation: where it is
  kv,                     \* the operations that wait for the datastore, in order
  index,                  \* path |-> the objects in the index, as <<key, version>>
  indexQueue,             \* the messages that are queued
  batch,                  \* those that the index worker has polled and not acked
  left,                   \* of these, those it has not begun with
  givenUp,                \* history: pages whose last message had no retries left
  events                  \* calls, changes and troubles left

space == <<disk, versions>>
snapshot == <<spaceSnapshot, snapshotChanged>>
queue == <<indexQueue, batch, left, givenUp>>
vars == <<space, snapshot, stored, operationCount, op, kv, index, queue, events>>

Op == Caller \cup {Lister, Indexer}
Version == 0..MaxVersions
Files == [Path -> Version]
NoFiles == [p \in Path |-> 0]

\* A page that is to be indexed, and how often that was tried again.
Message == Path \X (0..MaxRetries)
Pages(msgs) == {m[1] : m \in msgs}

-----------------------------------------------------------------------------
(* Operations. *)

Idle == [kind |-> "none", pc |-> "idle", path |-> None, event |-> "none",
         got |-> NoFiles, todo |-> {}, gone |-> {}, keys |-> {}, save |-> NoFiles]

Event == events > 0 /\ events' = events - 1
Suffer(kind) == kind \in Troubles /\ Event

At(o, pc) == op[o].pc = pc
Go(o, pc) == op' = [op EXCEPT ![o].pc = pc]

\* o's transaction is the next one, and its continuation issues another or not.
Transaction(o, pc) == At(o, pc) /\ kv # << >> /\ Head(kv) = o
Then(o, r) ==
  /\ op' = [op EXCEPT ![o] = r]
  /\ kv' = IF r.pc \in {"collect", "erase", "send", "saving", "write"}
           THEN Append(Tail(kv), o) ELSE Tail(kv)
Issue(o, r) == op' = [op EXCEPT ![o] = r] /\ kv' = Append(kv, o)

Init ==
  /\ disk = NoFiles /\ versions = 0
  /\ spaceSnapshot = NoFiles /\ snapshotChanged = FALSE /\ stored = NoFiles
  /\ operationCount = 0
  /\ op = [o \in Op |-> Idle] /\ kv = << >>
  /\ index = [p \in Path |-> {}]
  /\ indexQueue = {} /\ batch = {} /\ left = {} /\ givenUp = {}
  /\ events = MaxEvents

-----------------------------------------------------------------------------
(* Calls. *)

\* Mutant: a listing is not counted.
StartListUncounted ==
  /\ At(Lister, "idle") /\ operationCount = 0
  /\ op' = [op EXCEPT ![Lister] = [Idle EXCEPT !.kind = "list", !.pc = "asked"]]
  /\ UNCHANGED <<space, snapshot, stored, operationCount, kv, index, queue, events>>
\* fetchFileList, by the interval, fetchFileListWhenIdle or any other caller.
\* With something in flight it compares nothing, and leaves a flag for whatever
\* ends next to set a timer, which is one more caller.
StartList ==
  /\ At(Lister, "idle") /\ operationCount = 0
  /\ operationCount' = 1
  /\ op' = [op EXCEPT ![Lister] = [Idle EXCEPT !.kind = "list", !.pc = "asked"]]
  /\ UNCHANGED <<space, snapshot, stored, kv, index, queue, events>>

\* The client reads a page or asks for its meta data (getFileMeta is the same
\* to the snapshot), writes it or deletes it.  A write brings its version.
StartCall(o, kind, p) ==
  LET v == versions + 1
  IN
  /\ At(o, "idle") /\ Event
  /\ operationCount' = operationCount + 1
  /\ IF kind = "write"
     THEN v <= MaxVersions /\ versions' = v
     ELSE UNCHANGED versions
  /\ op' = [op EXCEPT ![o] = [Idle EXCEPT !.kind = kind, !.pc = "asked", !.path = p,
                               !.got[p] = IF kind = "write" THEN v ELSE 0]]
  /\ UNCHANGED <<disk, snapshot, stored, kv, index, queue>>

\* The index worker reads the page of a message,
Read(m) ==
  /\ At(Indexer, "idle")
  /\ operationCount' = operationCount + 1
  /\ op' = [op EXCEPT ![Indexer] = [Idle EXCEPT !.kind = "read", !.pc = "asked", !.path = m[1]]]
  /\ UNCHANGED <<space, snapshot, stored, kv, index, givenUp, events>>

\* the first of a batch as soon as it has polled it,
Poll(m) ==
  /\ batch = {} /\ Read(m)
  /\ \E b \in SUBSET indexQueue :
       /\ m \in b /\ Cardinality(b) <= BatchSize
       /\ batch' = b /\ left' = b \ {m} /\ indexQueue' = indexQueue \ b

\* and then one after the other.
TakeMessage(m) ==
  /\ m \in left /\ left' = left \ {m} /\ Read(m)
  /\ UNCHANGED <<indexQueue, batch>>

\* A batch that is not acked comes back to the queue, except for messages that
\* had their retries.  What was not indexed and does not come back is given up.
Requeue ==
  LET unhandled == {p \in Path : p \in Pages(left) \/ p = op[Indexer].path}
  IN
  /\ indexQueue' = indexQueue \cup {<<m[1], m[2] + 1>> : m \in {b \in batch : b[2] < MaxRetries}}
  /\ batch' = {} /\ left' = {}
  /\ givenUp' = givenUp \cup (unhandled \ Pages(indexQueue'))

-----------------------------------------------------------------------------
(* The wrapped space, and what else changes it. *)

Serve(o) ==
  LET r == op[o]
  IN
  /\ r.pc = "asked"
  /\ r.kind \in {"read", "delete"} => disk[r.path] # 0
  /\ disk' = CASE r.kind = "write"  -> [disk EXCEPT ![r.path] = r.got[r.path]]
               [] r.kind = "delete" -> [disk EXCEPT ![r.path] = 0]
               [] OTHER             -> disk
  /\ op' = [op EXCEPT ![o].pc = "answered",
              ![o].got = CASE r.kind = "list" -> disk
                           [] r.kind = "read" -> [NoFiles EXCEPT ![r.path] = disk[r.path]]
                           [] OTHER           -> r.got]
  /\ UNCHANGED <<versions, snapshot, stored, operationCount, kv, index, queue, events>>

\* Another client, or a program on the server, changes a file.
OthersWrite(p) ==
  /\ versions < MaxVersions /\ Event
  /\ versions' = versions + 1
  /\ disk' = [disk EXCEPT ![p] = versions + 1]
  /\ UNCHANGED <<snapshot, stored, operationCount, op, kv, index, queue>>

OthersDelete(p) ==
  /\ disk[p] # 0 /\ Event
  /\ disk' = [disk EXCEPT ![p] = 0]
  /\ UNCHANGED <<versions, snapshot, stored, operationCount, op, kv, index, queue>>

\* The wrapped call throws: the file is not there, or the request fails, on its
\* way or on its way back.  A read or a write ends; a listing or a deletion
\* still saves the snapshot.
Fail(o) ==
  LET r == op[o]
      missing == r.pc = "asked" /\ r.kind \in {"read", "delete"} /\ disk[r.path] = 0
  IN
  /\ r.pc \in {"asked", "answered"}
  /\ (missing /\ UNCHANGED events) \/ Suffer("fault")
  /\ op' = [op EXCEPT ![o].pc = IF r.kind \in {"list", "delete"} THEN "save" ELSE "finally",
                      ![o].got = NoFiles]
  /\ UNCHANGED <<space, snapshot, stored, operationCount, kv, index, queue>>

-----------------------------------------------------------------------------
(* The answer arrives. *)

Dispatch(r, event, p) == [r EXCEPT !.pc = "collect", !.event = event, !.path = p]

\* Mutant: off by one.
AloneOrTwo == operationCount <= 2
\* Operations that were in flight together with others leave the snapshot alone.
Alone == operationCount = 1

\* saveSnapshot, which the datastore clones at once.
Saving(r, snap, changed) ==
  IF changed THEN [r EXCEPT !.pc = "saving", !.save = snap] ELSE [r EXCEPT !.pc = "saved"]
Save(o, r, snap, changed) ==
  LET next == Saving(r, snap, changed)
  IN IF changed THEN Issue(o, next) ELSE op' = [op EXCEPT ![o] = next] /\ UNCHANGED kv

\* updateInSnapshot.
Update(p, v) ==
  /\ spaceSnapshot' = [spaceSnapshot EXCEPT ![p] = v]
  /\ snapshotChanged' = (snapshotChanged \/ spaceSnapshot[p] # v)

\* The second half of triggerEventsAndCache.
Cache(o) ==
  LET r == op[o]
  IN
  /\ Update(r.path, r.got[r.path])
  /\ Save(o, r, spaceSnapshot', snapshotChanged')

ReturnList(o) ==
  LET r == op[o]
  IN
  /\ At(o, "answered") /\ r.kind = "list"
  /\ op' = [op EXCEPT ![o].pc = "compare", ![o].todo = {p \in Path : r.got[p] # 0},
                      ![o].gone = {p \in Path : spaceSnapshot[p] # 0 /\ r.got[p] = 0}]
  /\ UNCHANGED <<space, snapshot, stored, operationCount, kv, index, queue, events>>

\* Mutant: the snapshot is updated although nothing is announced.
ReturnFileQuietly(o) ==
  LET r == op[o]
  IN
  /\ At(o, "answered") /\ r.kind \in {"read", "write"}
  /\ CASE ~Alone -> Cache(o)
       [] Alone /\ spaceSnapshot[r.path] # r.got[r.path] ->
            Issue(o, Dispatch(r, "changed", r.path)) /\ UNCHANGED snapshot
       [] OTHER -> Cache(o)
  /\ UNCHANGED <<space, stored, operationCount, index, queue, events>>
\* A read or write returns; the events go out before the snapshot is updated.
ReturnFile(o) ==
  LET r == op[o]
  IN
  /\ At(o, "answered") /\ r.kind \in {"read", "write"}
  /\ CASE ~Alone -> Go(o, "saved") /\ UNCHANGED <<snapshot, kv>>
       [] Alone /\ spaceSnapshot[r.path] # r.got[r.path] ->
            Issue(o, Dispatch(r, "changed", r.path)) /\ UNCHANGED snapshot
       [] OTHER -> Cache(o)
  /\ UNCHANGED <<space, stored, operationCount, index, queue, events>>

\* A deletion returns, alone or not: deleteFromSnapshot, and file:deleted.
ReturnDelete(o) ==
  LET r == op[o]
  IN
  /\ At(o, "answered") /\ r.kind = "delete"
  /\ spaceSnapshot' = [spaceSnapshot EXCEPT ![r.path] = 0] /\ snapshotChanged' = TRUE
  /\ Issue(o, Dispatch(r, "deleted", r.path))
  /\ UNCHANGED <<space, stored, operationCount, index, queue, events>>

-----------------------------------------------------------------------------
(* A listing goes through the files it has listed... *)

\* ... the snapshot is updated before the event goes out.
CompareListed(o, p) ==
  LET r == op[o]
      rest == [r EXCEPT !.todo = @ \ {p}]
  IN
  /\ At(o, "compare") /\ p \in r.todo
  /\ Update(p, r.got[p])
  /\ IF spaceSnapshot[p] # r.got[p]
     THEN Issue(o, Dispatch(rest, "changed", p))
     ELSE op' = [op EXCEPT ![o] = rest] /\ UNCHANGED kv
  /\ UNCHANGED <<space, stored, operationCount, index, queue, events>>

\* ... then through those the snapshot had and the list has not...
CompareGone(o, p) ==
  LET r == op[o]
  IN
  /\ At(o, "compare") /\ r.todo = {} /\ p \in r.gone
  /\ spaceSnapshot' = [spaceSnapshot EXCEPT ![p] = 0] /\ snapshotChanged' = TRUE
  /\ Issue(o, Dispatch([r EXCEPT !.gone = @ \ {p}], "deleted", p))
  /\ UNCHANGED <<space, stored, operationCount, index, queue, events>>

\* ... and, file:listed sent, saves the snapshot, as a deletion does in the end.
Listed(o) ==
  LET r == op[o]
  IN
  /\ \/ At(o, "compare") /\ r.todo = {} /\ r.gone = {}
     \/ At(o, "save")
  /\ Save(o, [r EXCEPT !.got = NoFiles], spaceSnapshot, snapshotChanged)
  /\ UNCHANGED <<space, snapshot, stored, operationCount, index, queue, events>>

-----------------------------------------------------------------------------
(* The listeners, and the datastore. *)

Keys(p) == {e[1] : e \in index[p]}
Entries(v) == IF v = 0 THEN {} ELSE {<<0, v>>, <<v, v>>}

\* After the listeners are done.
Handled(r) ==
  [r EXCEPT !.event = "none", !.keys = {},
            !.pc = CASE r.kind = "list"   -> "compare"
                     [] r.kind = "delete" -> "save"
                     [] OTHER             -> "cache"]
Cleared(r) == IF r.event = "changed" THEN [r EXCEPT !.pc = "send", !.keys = {}] ELSE Handled(r)

\* clearFileIndex reads the keys of the page's objects, and if there are any...
Collect(o) ==
  LET r == op[o]
      keys == Keys(r.path)
  IN
  /\ Transaction(o, "collect")
  /\ Then(o, IF keys = {} THEN Cleared(r) ELSE [r EXCEPT !.pc = "erase", !.keys = keys])
  /\ UNCHANGED <<space, snapshot, stored, operationCount, index, queue, events>>

\* ... deletes what is under them by then.
Erase(o) ==
  LET r == op[o]
  IN
  /\ Transaction(o, "erase")
  /\ index' = [index EXCEPT ![r.path] = {e \in @ : e[1] \notin r.keys}]
  /\ Then(o, Cleared(r))
  /\ UNCHANGED <<space, snapshot, stored, operationCount, queue, events>>

\* A changed file is queued for the indexer.
SendToIndexer(o) ==
  LET r == op[o]
  IN
  /\ Transaction(o, "send")
  /\ indexQueue' = indexQueue \cup {<<r.path, 0>>}
  /\ givenUp' = givenUp \ {r.path}
  /\ Then(o, Handled(r))
  /\ UNCHANGED <<space, snapshot, stored, operationCount, index, batch, left, events>>

\* The listeners of the event a read or a write has sent are done.
AfterEvent(o) ==
  /\ At(o, "cache")
  /\ Cache(o)
  /\ UNCHANGED <<space, stored, operationCount, index, queue, events>>

\* saveSnapshot's transaction is done.
SnapshotSaved(o) ==
  /\ Transaction(o, "saving")
  /\ stored' = op[o].save
  /\ snapshotChanged' = FALSE
  /\ Then(o, [op[o] EXCEPT !.pc = "saved", !.save = NoFiles])
  /\ UNCHANGED <<space, spaceSnapshot, operationCount, index, queue, events>>

\* Mutant: a batch is acked although one of its reads has failed.
FinallyAcked(o) ==
  LET r == op[o]
      failed == o = Indexer /\ r.got[r.path] = 0
  IN
  /\ r.pc \in {"saved", "finally"}
  /\ operationCount' = operationCount - 1
  /\ op' = [op EXCEPT ![o] = IF o = Indexer /\ ~failed THEN [r EXCEPT !.pc = "parse"] ELSE Idle]
  /\ IF failed THEN batch' = {} /\ left' = {} ELSE UNCHANGED <<batch, left>>
  /\ UNCHANGED <<space, snapshot, stored, kv, index, indexQueue, givenUp, events>>
\* The finally block.  (A write's page:saved goes out before.)  The index worker
\* goes on with what it has read; when the read has failed, processIndexQueue
\* throws and nothing of the batch is acked.
Finally(o) ==
  LET r == op[o]
      failed == o = Indexer /\ r.got[r.path] = 0
  IN
  /\ r.pc \in {"saved", "finally"}
  /\ operationCount' = operationCount - 1
  /\ op' = [op EXCEPT ![o] = IF o = Indexer /\ ~failed THEN [r EXCEPT !.pc = "parse"] ELSE Idle]
  /\ IF failed THEN Requeue ELSE UNCHANGED queue
  /\ UNCHANGED <<space, snapshot, stored, kv, index, events>>

-----------------------------------------------------------------------------
(* The index worker. *)

\* The page is parsed, and its objects go to the datastore...
Parsed ==
  /\ At(Indexer, "parse")
  /\ Issue(Indexer, [op[Indexer] EXCEPT !.pc = "write"])
  /\ UNCHANGED <<space, snapshot, stored, operationCount, index, queue, events>>

\* ... next to those under other keys, and over those under the same.
IndexObjects ==
  LET r == op[Indexer]
      new == Entries(r.got[r.path])
  IN
  /\ Transaction(Indexer, "write")
  /\ index' = [index EXCEPT ![r.path] = {e \in @ : \A f \in new : e[1] # f[1]} \cup new]
  /\ Then(Indexer, Idle)
  /\ UNCHANGED <<space, snapshot, stored, operationCount, queue, events>>

\* autoAck, once all pages of the batch are indexed.
Ack ==
  /\ At(Indexer, "idle") /\ batch # {} /\ left = {} /\ batch' = {}
  /\ UNCHANGED <<space, snapshot, stored, operationCount, op, kv, index, indexQueue, left, givenUp,
                 events>>

Work == (\E m \in Message : Poll(m) \/ TakeMessage(m)) \/ Parsed \/ IndexObjects \/ Ack

-----------------------------------------------------------------------------
Announcing(o, p) == op[o].event = "changed" /\ op[o].path = p

\* The stored snapshot already has the version of p on disk while an event about
\* p is being handled or, after a deletion, has not been saved.  It takes a
\* deletion that saves the snapshot of a listing under way, or an answer that is
\* late: p was written again, and listed, before a write or a deletion returns.
Ahead(p) ==
  /\ stored[p] # 0 /\ stored[p] = disk[p]
  /\ spaceSnapshot[p] = 0 \/ \E o \in Op : op[o].event # "none" /\ op[o].path = p

\* The window is closed, or killed, and opened again; enable loads the
\* snapshot.  The batch of the index worker times out.
\* "tear": also when the stored snapshot is ahead.
Reopen ==
  /\ Suffer("reopen")
  /\ "tear" \in Troubles \/ \A q \in Path : ~Ahead(q)
  /\ spaceSnapshot' = stored /\ snapshotChanged' = FALSE
  /\ operationCount' = 0
  /\ op' = [o \in Op |-> Idle] /\ kv' = << >>
  /\ Requeue
  /\ UNCHANGED <<space, stored, index>>

Step(o) ==
  \/ Serve(o) \/ Fail(o)
  \/ ReturnList(o) \/ ReturnFile(o) \/ ReturnDelete(o)
  \/ \E p \in Path : CompareListed(o, p) \/ CompareGone(o, p)
  \/ Listed(o) \/ AfterEvent(o) \/ Finally(o)
Store(o) == Collect(o) \/ Erase(o) \/ SendToIndexer(o) \/ SnapshotSaved(o)

Next ==
  \/ StartList
  \/ \E o \in Caller, p \in Path : \E kind \in {"read", "write", "delete"} : StartCall(o, kind, p)
  \/ \E p \in Path : OthersWrite(p) \/ OthersDelete(p)
  \/ \E o \in Op : Step(o) \/ Store(o)
  \/ Work
  \/ Reopen

Spec == Init /\ [][Next]_vars

\* Awaits are answered, the interval lists files, and the worker polls its queue
\* and goes through its batch.  Nobody has to call.
Fairness ==
  /\ \A o \in Caller \cup {Lister} : WF_vars(Step(o) \/ Store(o))
  /\ WF_vars(StartList)
  /\ WF_vars(Step(Indexer) \/ Store(Indexer) \/ Work)

FairSpec == Spec /\ Fairness

-----------------------------------------------------------------------------
(* Properties. *)

OpState ==
  [kind : {"none", "list", "read", "write", "delete"},
   pc : {"idle", "asked", "answered", "compare", "collect", "erase", "send", "cache", "save",
         "saving", "saved", "finally", "parse", "write"},
   path : Path \cup {None}, event : {"none", "changed", "deleted"},
   got : Files, todo : SUBSET Path, gone : SUBSET Path,
   keys : SUBSET Version, save : Files]

\* Every variable has its type.
TypeOK ==
  /\ disk \in Files /\ versions \in Version
  /\ spaceSnapshot \in Files /\ snapshotChanged \in BOOLEAN /\ stored \in Files
  /\ operationCount \in Nat
  /\ op \in [Op -> OpState] /\ kv \in Seq(Op)
  /\ index \in [Path -> SUBSET (Version \X Version)]
  /\ indexQueue \subseteq Message /\ batch \subseteq Message /\ left \subseteq batch
  /\ givenUp \subseteq Path /\ events \in 0..MaxEvents

\* A listing from its start to its end, a read or a write while it triggers.
Comparing(o) ==
  \/ op[o].kind = "list"
  \/ op[o].kind \in {"read", "write"} /\ op[o].pc \in {"collect", "erase", "send", "cache", "saving"}

\* What the count of operations in flight is for: no two operations compare
\* files with the snapshot, and announce what differs, at the same time.
OneComparison == \A o1, o2 \in Op : Comparing(o1) /\ Comparing(o2) => o1 = o2

Indexed(p) == Entries(disk[p]) \subseteq index[p]
Due(p) == p \in Pages(indexQueue \cup left)
Indexing(p) == op[Indexer].path = p /\ op[Indexer].got[p] \in {0, disk[p]}

\* A version of a file that is in the snapshot is not looked at again: it is in
\* the index, or on its way there, and no clearing of an older version takes it
\* out again; or all retries were used up before it was indexed.
SeenIsIndexed ==
  \A p \in Path : disk[p] # 0 /\ spaceSnapshot[p] = disk[p] =>
    \/ Indexed(p) \/ Due(p) \/ Indexing(p) \/ p \in givenUp
    \/ \E o \in Op : Announcing(o, p)

\* Whoever changed a file, and whatever was in flight then: once changes stop,
\* the snapshot is what the space holds and every page is in the index in its
\* last version, unless the queue has given it up.
EventuallyIndexed ==
  <>[](spaceSnapshot = disk /\ \A p \in Path : Indexed(p) \/ p \in givenUp)
=============================================================================
