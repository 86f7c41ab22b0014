--------------------------- MODULE IndexLifecycle ---------------------------
(***************************************************************************)
(* When the index of a client counts as complete: the reindexing of a      *)
(* space by the ObjectIndex of one of its tabs (client/data/               *)
(* object_index.ts), against the index worker of each tab, tabs that are   *)
(* closed, and the first index of a fresh install.                         *)
(*                                                                         *)
(* The queue is what MessageQueue shows it to be while requeueTimeouts     *)
(* does not tear a count: a message counts until it is acknowledged or     *)
(* given up. Messages are handled in batches, and a batch fails as a       *)
(* whole; of the messages that are queued for one page, those with equally *)
(* many retries are one here.                                              *)
(***************************************************************************)
EXTENDS Integers, FiniteSets

CONSTANTS
  Path,        \* the pages of the space
  Tab,         \* the tabs that have it open
  Command,     \* those in which users may ask for a reindex
  BatchSize,   \* of a poll of the index queue
  MaxRetries,  \* mqTimeoutRetry
  MaxManual,   \* bound: reindexes that they ask for
  MaxTroubles, \* bound: things that go wrong
  MaxEvents,   \* bound: of both together
  Troubles     \* which of them may

\* What may go wrong at the price of a retry: a tab is closed, and opened
\* again; a page cannot be read.
Ordinary == {"close", "fail"}

\* What the code does not stand:
\*   early     a tab takes the empty queue of a reindex for that of a fresh install
\*   cut       a tab is closed that clears an index which still counts as complete
\*   unlocked  the browser has no locks for the tabs to share
Races == {"early", "cut", "unlocked"}

ASSUME IndexConstants ==
  /\ Path # {} /\ IsFiniteSet(Path) /\ IsFiniteSet(Tab) /\ Command \subseteq Tab
  /\ BatchSize \in Nat \ {0} /\ MaxRetries \in Nat \ {0} /\ MaxManual \in Nat /\ MaxTroubles \in Nat
  /\ MaxEvents \in Nat
  /\ Troubles \subseteq Ordinary \cup Races

\* indexVersionKey: not there, of an earlier version of the client, desired.
None == 0   Earlier == 1   Desired == 2

\* A page that is to be indexed, and how often that was tried again.
Message == Path \X (0..MaxRetries)
Pages(msgs) == {m[1] : m \in msgs}

\* ensureFullIndex and reindexSpace of a tab.
Run == (Tab \X {"ensure"}) \cup (Command \X {"manual"})

VARIABLES
  version,   \* indexVersionKey
  marker,    \* reindexInProgressKey
  old,       \* pages whose objects an earlier version of the client has made
  new,       \* pages whose objects this one has made
  seen,      \* pages that were listed, and so queued when they were new
  queued,    \* the queued part of indexQueue
  taken,     \* per tab: its worker's batch, in the processing part
  done,      \* per tab: what of it has been indexed
  lost,      \* in the processing part, of batches that failed or whose worker is gone
  dropped,   \* history: pages whose message was given up
  listed,    \* per tab: indexStarted
  handler,   \* per tab: the listener for the empty queue of a fresh install
  lock,      \* the runs that hold the lock
  pc,        \* per run: where it is
  keys,      \* per run: the pages whose keys it has collected
  manuals,   \* reindexes that users may still ask for
  troubles   \* troubles that may still happen

flags == <<version, marker>>
index == <<old, new>>
queue == <<seen, queued, taken, done, lost, dropped>>
tabs  == <<listed, handler>>
runs  == <<lock, pc, keys>>
vars  == <<flags, index, queue, tabs, runs, manuals, troubles>>

May(t) == t \in Troubles

\* Room for another reindex that is asked for, or another trouble.
Bounded == (MaxManual - manuals) + (MaxTroubles - troubles) < MaxEvents

\* A fresh install, a client that was upgraded, or one that is up to date.
Init ==
  /\ version \in {None, Earlier, Desired}
  /\ marker = FALSE
  /\ old = IF version = Earlier THEN Path ELSE {}
  /\ new = IF version = Desired THEN Path ELSE {}
  /\ seen = IF version = None THEN {} ELSE Path
  /\ queued = {} /\ taken = [t \in Tab |-> {}] /\ done = [t \in Tab |-> {}]
  /\ lost = {} /\ dropped = {}
  /\ listed = [t \in Tab |-> FALSE] /\ handler = [t \in Tab |-> "unread"]
  /\ lock = {} /\ pc = [r \in Run |-> "idle"] /\ keys = [r \in Run |-> {}]
  /\ manuals = MaxManual /\ troubles = MaxTroubles

-----------------------------------------------------------------------------
(* The queue. *)

Held    == UNION {taken[t] : t \in Tab}
Drained == queued \cup lost \cup Held = {}

\* A message for p that nobody has handled yet.
Due(p) == p \in Pages(queued \cup lost \cup UNION {taken[t] \ done[t] : t \in Tab})

\* A page is new to this client: file:changed queues it.
See(t, p) ==
  /\ p \notin seen /\ seen' = seen \cup {p}
  /\ queued' = queued \cup {<<p, 0>>} /\ dropped' = dropped \ {p}
  /\ UNCHANGED <<flags, index, taken, done, lost, tabs, runs, manuals, troubles>>

\* file:listed, once the listing has gone through all files.
Listed(t) ==
  /\ ~listed[t] /\ seen = Path /\ listed' = [listed EXCEPT ![t] = TRUE]
  /\ UNCHANGED <<flags, index, queue, handler, runs, manuals, troubles>>

\* A batch of messages.
Poll(t) ==
  /\ taken[t] = {}
  /\ \E batch \in SUBSET queued :
       /\ Cardinality(batch) \in 1..BatchSize
       /\ taken' = [taken EXCEPT ![t] = batch] /\ queued' = queued \ batch
  /\ UNCHANGED <<flags, index, seen, done, lost, dropped, tabs, runs, manuals, troubles>>

\* processIndexQueue: one page after the other.
Indexed(t, m) ==
  /\ m \in taken[t] \ done[t]
  /\ new' = new \cup {m[1]} /\ done' = [done EXCEPT ![t] = @ \cup {m}]
  /\ UNCHANGED <<flags, old, seen, queued, taken, lost, dropped, tabs, runs, manuals, troubles>>

\* autoAck
Ack(t) ==
  /\ taken[t] # {} /\ done[t] = taken[t]
  /\ taken' = [taken EXCEPT ![t] = {}] /\ done' = [done EXCEPT ![t] = {}]
  /\ UNCHANGED <<flags, index, seen, queued, lost, dropped, tabs, runs, manuals, troubles>>

\* The worker of t is through with its batch, but nothing of it is acknowledged.
Lose(t) ==
  /\ lost' = lost \cup taken[t]
  /\ taken' = [taken EXCEPT ![t] = {}] /\ done' = [done EXCEPT ![t] = {}]

\* A page cannot be read, and processIndexQueue throws.
Fail(t) ==
  /\ troubles > 0 /\ Bounded /\ troubles' = troubles - 1 /\ May("fail")
  /\ done[t] # taken[t] /\ Lose(t)
  /\ UNCHANGED <<flags, index, seen, queued, dropped, tabs, runs, manuals>>

\* requeueTimeouts, which flushes what has had its retries.
Requeue ==
  /\ lost # {} /\ lost' = {}
  /\ queued' = queued \cup {<<m[1], m[2] + 1>> : m \in {l \in lost : l[2] < MaxRetries}}
  /\ dropped' = dropped \cup Pages({l \in lost : l[2] = MaxRetries})
  /\ UNCHANGED <<flags, index, seen, taken, done, tabs, runs, manuals, troubles>>

-----------------------------------------------------------------------------
(* The first index. *)

\* The constructor has read the version.
ReadVersion(t) ==
  /\ handler[t] = "unread"
  /\ handler' = [handler EXCEPT ![t] = IF version = None THEN "on" ELSE "off"]
  /\ UNCHANGED <<flags, index, queue, listed, runs, manuals, troubles>>

\* The code does not look at the marker, nor for other runs ("early").
Fresh == May("early") \/ (~marker /\ lock = {})

\* Mutant: an empty queue is enough.
EmptyQueueUnlisted(t) ==
  /\ queued = {} /\ taken[t] = {} /\ handler[t] = "on" /\ Fresh
  /\ version' = Desired /\ handler' = [handler EXCEPT ![t] = "marking"]
  /\ UNCHANGED <<marker, index, queue, listed, runs, manuals, troubles>>
\* The worker finds nothing to poll: the listener, and markFullIndexComplete.
EmptyQueue(t) ==
  /\ queued = {} /\ taken[t] = {} /\ handler[t] = "on" /\ listed[t] /\ Fresh
  /\ version' = Desired /\ handler' = [handler EXCEPT ![t] = "marking"]
  /\ UNCHANGED <<marker, index, queue, listed, runs, manuals, troubles>>
Marked(t) ==
  /\ handler[t] = "marking" /\ Fresh
  /\ marker' = FALSE /\ handler' = [handler EXCEPT ![t] = "off"]
  /\ UNCHANGED <<version, index, queue, listed, runs, manuals, troubles>>

-----------------------------------------------------------------------------
(* Reindexing. *)

Go(r, to) == pc' = [pc EXCEPT ![r] = to]

\* A sync was completed, or the server has said that it has the same version.
Ensure(r) ==
  /\ r[2] = "ensure" /\ pc[r] = "idle" /\ version # Desired
  /\ Go(r, IF version = None THEN "check" ELSE "drain")
  /\ UNCHANGED <<flags, index, queue, tabs, lock, keys, manuals, troubles>>

\* Mutant: without a version it is a fresh install.
CheckVersionOnly(r) ==
  /\ pc[r] = "check" /\ Go(r, "idle")
  /\ UNCHANGED <<flags, index, queue, tabs, lock, keys, manuals, troubles>>
\* No version: a reindex that was interrupted, or a fresh install.
Check(r) ==
  /\ pc[r] = "check" /\ Go(r, IF marker THEN "drain" ELSE "idle")
  /\ UNCHANGED <<flags, index, queue, tabs, lock, keys, manuals, troubles>>

Drain(r) ==
  /\ pc[r] = "drain" /\ Drained /\ Go(r, "lock")
  /\ UNCHANGED <<flags, index, queue, tabs, lock, keys, manuals, troubles>>

\* reindexSpace, by a command.
Reindex(r) ==
  /\ r[2] = "manual" /\ pc[r] = "idle" /\ manuals > 0 /\ Bounded
  /\ manuals' = manuals - 1 /\ Go(r, "lock")
  /\ UNCHANGED <<flags, index, queue, tabs, lock, keys, troubles>>

\* withLock
Lock(r) ==
  /\ pc[r] = "lock" /\ (lock = {} \/ May("unlocked"))
  /\ lock' = lock \cup {r} /\ Go(r, IF r[2] = "manual" THEN "mark" ELSE "recheck")
  /\ UNCHANGED <<flags, index, queue, tabs, keys, manuals, troubles>>

\* Mutant: the version was read before.
RecheckNot(r) ==
  /\ pc[r] = "recheck" /\ Go(r, "mark")
  /\ UNCHANGED <<flags, index, queue, tabs, lock, keys, manuals, troubles>>
\* Another tab may have done it in the meantime.
Recheck(r) ==
  /\ pc[r] = "recheck"
  /\ IF version = Desired THEN Go(r, "idle") /\ lock' = lock \ {r}
     ELSE Go(r, "mark") /\ UNCHANGED lock
  /\ UNCHANGED <<flags, index, queue, tabs, keys, manuals, troubles>>

\* reindexSpaceUnlocked: markReindexInProgress,
Mark(r) ==
  /\ pc[r] = "mark" /\ marker' = TRUE /\ Go(r, "collect")
  /\ UNCHANGED <<version, index, queue, tabs, lock, keys, manuals, troubles>>

\* clearIndex: the keys first,
Collect(r) ==
  /\ pc[r] = "collect" /\ keys' = [keys EXCEPT ![r] = old \cup new] /\ Go(r, "clear")
  /\ UNCHANGED <<flags, index, queue, tabs, lock, manuals, troubles>>

\* then in chunks what they stand for;
Clear(r, p) ==
  /\ pc[r] = "clear" /\ p \in keys[r]
  /\ old' = old \ {p} /\ new' = new \ {p} /\ keys' = [keys EXCEPT ![r] = @ \ {p}]
  /\ UNCHANGED <<flags, queue, tabs, lock, pc, manuals, troubles>>

\* markFullIndexInComplete,
Unversion(r) ==
  /\ pc[r] = "clear" /\ keys[r] = {} /\ version' = None /\ Go(r, "send")
  /\ UNCHANGED <<marker, index, queue, tabs, lock, keys, manuals, troubles>>

\* a listing, and all its files are queued;
Send(r) ==
  /\ pc[r] = "send" /\ Go(r, "settle")
  /\ seen' = Path /\ queued' = queued \cup (Path \X {0}) /\ dropped' = {}
  /\ UNCHANGED <<flags, index, taken, done, lost, tabs, lock, keys, manuals, troubles>>

\* awaitEmptyQueue and markFullIndexComplete,
Settle(r) ==
  /\ pc[r] = "settle" /\ Drained /\ version' = Desired /\ Go(r, "unmark")
  /\ UNCHANGED <<marker, index, queue, tabs, lock, keys, manuals, troubles>>

\* Mutant: the lock is kept.
UnmarkHolding(r) ==
  /\ pc[r] = "unmark" /\ marker' = FALSE /\ Go(r, "idle")
  /\ UNCHANGED <<version, index, queue, tabs, lock, keys, manuals, troubles>>
\* which also drops the marker.
Unmark(r) ==
  /\ pc[r] = "unmark" /\ marker' = FALSE /\ lock' = lock \ {r} /\ Go(r, "idle")
  /\ UNCHANGED <<version, index, queue, tabs, keys, manuals, troubles>>

\* A tab is closed, its locks are free; and opened again.
Close(t) ==
  /\ troubles > 0 /\ Bounded /\ troubles' = troubles - 1 /\ May("close")
  /\ May("cut") \/ ~\E r \in Run : r[1] = t /\ pc[r] = "clear" /\ version = Desired
  /\ Lose(t)
  /\ listed' = [listed EXCEPT ![t] = FALSE] /\ handler' = [handler EXCEPT ![t] = "unread"]
  /\ lock' = {r \in lock : r[1] # t}
  /\ pc' = [r \in Run |-> IF r[1] = t THEN "idle" ELSE pc[r]]
  /\ keys' = [r \in Run |-> IF r[1] = t THEN {} ELSE keys[r]]
  /\ UNCHANGED <<flags, index, seen, queued, dropped, manuals>>

-----------------------------------------------------------------------------
\* The steps of a run, once it has begun, but for the wait for the lock.
RunStep(r) ==
  \/ Check(r) \/ Drain(r) \/ Recheck(r) \/ Mark(r) \/ Collect(r) \/ Unversion(r)
  \/ Send(r) \/ Settle(r) \/ Unmark(r) \/ \E p \in Path : Clear(r, p)

WorkerStep(t) == Poll(t) \/ Ack(t) \/ EmptyQueue(t) \/ \E m \in taken[t] : Indexed(t, m)

ListStep(t) == Listed(t) \/ \E p \in Path : See(t, p)

Next ==
  \/ \E t \in Tab : ListStep(t) \/ WorkerStep(t) \/ ReadVersion(t) \/ Marked(t)
                    \/ Fail(t) \/ Close(t)
  \/ \E r \in Run : Ensure(r) \/ Reindex(r) \/ Lock(r) \/ RunStep(r)
  \/ Requeue

Spec == Init /\ [][Next]_vars

\* Each tab goes on with what it can do, listing its space or at its queue; syncs
\* go on being completed, and a run that can go on does. A lock is not fought for:
\* no run takes it again and again.
Fairness ==
  /\ \A t \in Tab : WF_vars(ListStep(t) \/ WorkerStep(t) \/ ReadVersion(t) \/ Marked(t) \/ Requeue)
  /\ \A r \in Run : WF_vars(Ensure(r) \/ Lock(r) \/ RunStep(r))

FairSpec == Spec /\ Fairness

-----------------------------------------------------------------------------
(* Properties. *)

\* The type of every variable; who has the lock has not finished.
TypeOK ==
  /\ version \in {None, Earlier, Desired} /\ marker \in BOOLEAN
  /\ old \subseteq Path /\ new \subseteq Path /\ seen \subseteq Path /\ dropped \subseteq Path
  /\ queued \subseteq Message /\ lost \subseteq Message
  /\ taken \in [Tab -> SUBSET Message] /\ done \in [Tab -> SUBSET Message]
  /\ \A t \in Tab : done[t] \subseteq taken[t]
  /\ listed \in [Tab -> BOOLEAN] /\ handler \in [Tab -> {"unread", "on", "marking", "off"}]
  /\ pc \in [Run -> {"idle", "check", "drain", "lock", "recheck", "mark", "collect", "clear",
                     "send", "settle", "unmark"}]
  /\ keys \in [Run -> SUBSET Path]
  /\ lock \subseteq {r \in Run : pc[r] \notin {"idle", "check", "drain", "lock"}}
  /\ manuals \in 0..MaxManual /\ troubles \in 0..MaxTroubles

\* An index that counts as complete, and that nobody is about to rebuild, has
\* every page as this version of the client makes it, or is about to have it,
\* but for pages whose message was given up; and so has a reindex that is about
\* to finish. Nothing is given up before more has gone wrong than the retries
\* make up for.
CompleteMeansWhole ==
  /\ version = Desired /\ ~marker =>
       old = {} /\ \A p \in Path : p \in new \cup dropped \/ Due(p)
  /\ \A r \in Run : pc[r] = "unmark" => Path = new \cup dropped /\ old = {}
  /\ dropped # {} => MaxTroubles - troubles > MaxRetries

\* Only a user who asks for it makes a tab clear an index that is complete: of
\* two tabs that find an earlier version, the second leaves alone what the
\* first has done.
DoneOnce ==
  [][new \subseteq new' \/ version # Desired \/ \E r \in lock : r[2] = "manual"]_vars

\* Whatever tabs are closed and whatever pages cannot be read, the index counts
\* as complete in the end, and lacks no page but those whose message was given up.
EventuallyWhole == <>[](version = Desired /\ old = {} /\ Path = new \cup dropped)
=============================================================================
