---------------------------- MODULE MessageQueue ----------------------------
(***************************************************************************)
(* One queue of the client's message queue, client/data/mq.datastore.ts,   *)
(* with the workers client/plugos/hooks/mq.ts subscribes to it and the     *)
(* requeue timer of client/client_system.ts.                               *)
(*                                                                         *)
(* The messages live in the IndexedDB database that every open tab of the  *)
(* space shares; waiters and workers belong to one tab.  Each call of the  *)
(* datastore is one transaction, and one action here; everything a method  *)
(* read before it may be stale.                                            *)
(*                                                                         *)
(* Messages are numbered in the order of their ids, which is the order of  *)
(* the keys a poll scans.                                                  *)
(***************************************************************************)
EXTENDS Naturals, Sequences, FiniteSets

CONSTANTS
  Tab,           \* the open windows
  Worker,        \* identities for QueueWorkers
  TabOf,         \* the window a worker runs in
  First,         \* the workers subscribed when the tabs open
  MaxMessages,   \* how many messages are ever sent
  BatchSize,     \* options.batchSize
  MaxRetries,    \* the maxRetries of requeueTimeouts
  DisableDLQ,    \* its disableDLQ
  MaxTimers,     \* bound: sleeps of one worker that are pending at once
  MaxTroubles,   \* bound: calls of awaitEmptyQueue and flushQueue, reloads of tabs and plugs
  Troubles       \* what may happen, see May

Hazards == {"stall", "coincide", "tear"}

ASSUME QueueConstants ==
  /\ Tab # {} /\ Worker # {} /\ TabOf \in [Worker -> Tab]
  /\ First \subseteq Worker /\ \A t \in Tab : \E w \in First : TabOf[w] = t
  /\ MaxMessages \in Nat /\ BatchSize \in Nat \ {0} /\ MaxRetries \in Nat \ {0}
  /\ MaxTimers \in Nat \ {0} /\ MaxTroubles \in Nat
  /\ DisableDLQ \in BOOLEAN
  /\ Troubles \subseteq Hazards \cup {"reload", "reopen", "flush", "await"}

VARIABLES
  queued,      \* ["mq","queued"]: message |-> retries
  processing,  \* ["mq","processing"]: message |-> [retries, old]
  dlq,         \* ["mq","dlq"], the messages only
  sent,        \* messages 1..sent have been sent
  waking,      \* per tab: batchSends that have stored and not yet woken
  waiters,     \* per tab: queueWaiters, a queue of workers
  worker,      \* per worker: where its loop is, and its batch
  sweep,       \* per tab: requeueTimeouts under way
  drain,       \* a call of awaitEmptyQueue
  flush,       \* a call of flushQueue or flushAllQueues
  settled,     \* history: messages acked, given up or flushed
  troubles     \* environment steps left

store   == <<queued, processing, dlq>>
polling == <<waking, waiters, worker>>
vars    == <<store, sent, polling, sweep, drain, flush, settled, troubles>>

Message == 1..MaxMessages
Attempt == 0..MaxRetries

-----------------------------------------------------------------------------
(* Maps, and the states of the processes. *)

Merge(f, g)   == [m \in DOMAIN f \cup DOMAIN g |-> IF m \in DOMAIN g THEN g[m] ELSE f[m]]
Without(f, S) == [m \in DOMAIN f \ S |-> f[m]]
Only(f, S)    == [m \in DOMAIN f \cap S |-> f[m]]

IdleSweep == [pc |-> "idle", found |-> << >>]
IdleDrain == [pc |-> "idle", mark |-> 0, zero |-> FALSE, swept |-> FALSE]
IdleFlush == [pc |-> "idle", q |-> {}, p |-> {}, d |-> {}]
NewWorker == [pc |-> "scan", batch |-> << >>, stopping |-> FALSE, timers |-> 0]
NoWorker  == [NewWorker EXCEPT !.pc = "off"]

Workers(t) == {w \in Worker : TabOf[w] = t}
Waiting(w) == worker[w].pc = "wait"
Running(w) == worker[w].pc # "off"

May(kind) == kind \in Troubles
Suffer(kind) == May(kind) /\ troubles > 0 /\ troubles' = troubles - 1

\* A space opened for the first time, the hook's first reloadQueues done.
Init ==
  /\ queued = << >> /\ processing = << >> /\ dlq = {}
  /\ sent = 0
  /\ waking = [t \in Tab |-> 0]
  /\ waiters = [t \in Tab |-> << >>]
  /\ worker = [w \in Worker |-> IF w \in First THEN NewWorker ELSE NoWorker]
  /\ sweep = [t \in Tab |-> IdleSweep]
  /\ drain = IdleDrain /\ flush = IdleFlush
  /\ settled = {} /\ troubles = MaxTroubles

-----------------------------------------------------------------------------
(* Sending. *)

\* batchSend(queue, n bodies): ids are drawn and the messages stored.
Send(t, n) ==
  LET batch == sent + 1 .. sent + n
  IN
  /\ sent + n <= MaxMessages
  /\ sent' = sent + n
  /\ queued' = Merge(queued, [m \in batch |-> 0])
  /\ waking' = [waking EXCEPT ![t] = @ + 1]
  /\ UNCHANGED <<processing, dlq, waiters, worker, sweep, drain, flush, settled, troubles>>

\* The top of the worker's loop, after a wake-up, a timeout or a callback.
\* A worker that leaves the loop is gone; its timers have nothing to remove.
NextRound(w) ==
  IF worker[w].stopping THEN NoWorker ELSE [worker[w] EXCEPT !.pc = "scan", !.batch = << >>]

\* removeQueuedWorker: the first entry of w is spliced out.
Unqueue(w, seq) ==
  LET at    == {i \in DOMAIN seq : seq[i] = w}
      first == CHOOSE i \in at : \A j \in at : i <= j
  IN IF at = {} THEN seq
     ELSE [i \in 1..Len(seq) - 1 |-> IF i < first THEN seq[i] ELSE seq[i + 1]]

\* Mutant: the waiter is not shifted out.
WakeKeeps(t) ==
  /\ waking[t] > 0
  /\ waking' = [waking EXCEPT ![t] = @ - 1]
  /\ IF waiters[t] = << >> THEN UNCHANGED <<waiters, worker>>
     ELSE LET w == Head(waiters[t])
          IN UNCHANGED waiters /\ worker' = [worker EXCEPT ![w] = NextRound(w)]
  /\ UNCHANGED <<store, sent, sweep, drain, flush, settled, troubles>>
\* wakeupWorker, after the messages are stored: the first waiter is resolved.
Wake(t) ==
  /\ waking[t] > 0
  /\ waking' = [waking EXCEPT ![t] = @ - 1]
  /\ IF waiters[t] = << >> THEN UNCHANGED <<waiters, worker>>
     ELSE LET w == Head(waiters[t])
          IN /\ waiters' = [waiters EXCEPT ![t] = Tail(@)]
             /\ worker' = [worker EXCEPT ![w] = NextRound(w)]
  /\ UNCHANGED <<store, sent, sweep, drain, flush, settled, troubles>>

-----------------------------------------------------------------------------
(* The loop of a QueueWorker: poll, in three transactions, and the callback. *)

\* The scan finds nothing: the worker registers as a waiter and starts a
\* timer, stopped or not.
ScanEmpty(w) ==
  /\ worker[w].pc = "scan" /\ queued = << >>
  /\ worker[w].timers < MaxTimers
  /\ worker' = [worker EXCEPT ![w].pc = "wait", ![w].timers = @ + 1]
  /\ waiters' = [waiters EXCEPT ![TabOf[w]] = Append(@, w)]
  /\ UNCHANGED <<store, sent, waking, sweep, drain, flush, settled, troubles>>

\* The first BatchSize messages in the order of their keys.
FirstBatch == {m \in DOMAIN queued : Cardinality({k \in DOMAIN queued : k < m}) < BatchSize}

\* Mutant: the scan takes the messages off the queue.
ScanTakes(w) ==
  /\ worker[w].pc = "scan" /\ queued # << >>
  /\ queued' = Without(queued, FirstBatch)
  /\ worker' = [worker EXCEPT ![w].pc = "put", ![w].batch = Only(queued, FirstBatch)]
  /\ UNCHANGED <<processing, dlq, sent, waking, waiters, sweep, drain, flush, settled, troubles>>
\* The scan stops at the batch size; the messages stay where they are.
Scan(w) ==
  /\ worker[w].pc = "scan" /\ queued # << >>
  /\ worker' = [worker EXCEPT ![w].pc = "put", ![w].batch = Only(queued, FirstBatch)]
  /\ UNCHANGED <<store, sent, waking, waiters, sweep, drain, flush, settled, troubles>>

InFlight(batch) == [m \in DOMAIN batch |-> [retries |-> batch[m], old |-> FALSE]]

\* "Put them in the processing queue", with the current time.
PutProcessing(w) ==
  /\ worker[w].pc = "put"
  /\ processing' = Merge(processing, InFlight(worker[w].batch))
  /\ worker' = [worker EXCEPT ![w].pc = "delete"]
  /\ UNCHANGED <<queued, dlq, sent, waking, waiters, sweep, drain, flush, settled, troubles>>

\* "Delete them from the queued queue", and hand them to the callback.
DeleteQueued(w) ==
  /\ worker[w].pc = "delete"
  /\ queued' = Without(queued, DOMAIN worker[w].batch)
  /\ worker' = [worker EXCEPT ![w].pc = "call"]
  /\ UNCHANGED <<processing, dlq, sent, waking, waiters, sweep, drain, flush, settled, troubles>>

\* The callback returns and its messages are acked, by autoAck or by itself.
Ack(w) ==
  /\ worker[w].pc = "call"
  /\ processing' = Without(processing, DOMAIN worker[w].batch)
  /\ settled' = settled \cup DOMAIN worker[w].batch
  /\ worker' = [worker EXCEPT ![w] = NextRound(w)]
  /\ UNCHANGED <<queued, dlq, sent, waking, waiters, sweep, drain, flush, troubles>>

\* The callback throws, or returns without an ack.
CallbackFails(w) ==
  /\ worker[w].pc = "call"
  /\ worker' = [worker EXCEPT ![w] = NextRound(w)]
  /\ UNCHANGED <<store, sent, waking, waiters, sweep, drain, flush, settled, troubles>>

\* The oldest sleep of a worker ends.  If it is that of the wait the worker
\* is in, the race is over; an older one still removes the worker, by its
\* current stopReject, from the waiters.
TimerFires(w) ==
  /\ worker[w].timers > 0
  /\ waiters' = [waiters EXCEPT ![TabOf[w]] = Unqueue(w, @)]
  /\ LET rest == worker[w].timers - 1
         next == IF Waiting(w) /\ rest = 0 THEN NextRound(w) ELSE worker[w]
     IN worker' = [worker EXCEPT ![w] = [next EXCEPT !.timers = rest]]
  /\ UNCHANGED <<store, sent, waking, sweep, drain, flush, settled, troubles>>

-----------------------------------------------------------------------------
(* Time, and requeueTimeouts, which each tab runs on an interval. *)

Polls(w, m) == worker[w].pc \in {"put", "delete"} /\ m \in DOMAIN worker[w].batch

\* More than the timeout passes since m was put in the processing queue.  If m
\* is still (or again) queued by then, or being moved, the workers are stalled.
Age(m) ==
  /\ m \in DOMAIN processing /\ ~processing[m].old
  /\ May("stall") \/ (m \notin DOMAIN queued /\ \A w \in Worker : ~Polls(w, m))
  /\ processing' = [processing EXCEPT ![m].old = TRUE]
  /\ UNCHANGED <<queued, dlq, sent, polling, sweep, drain, flush, settled, troubles>>

TimedOut == {m \in DOMAIN processing : processing[m].old}

\* The query for the messages that timed out.  The sweeps of two tabs coincide
\* when their intervals do.
SweepQuery(t) ==
  /\ sweep[t].pc = "idle" /\ TimedOut # {}
  /\ May("coincide") \/ \A u \in Tab : sweep[u].pc = "idle"
  /\ sweep' = [sweep EXCEPT
       ![t] = [pc |-> "delete", found |-> [m \in TimedOut |-> processing[m].retries]]]
  /\ UNCHANGED <<store, sent, polling, drain, flush, settled, troubles>>

\* They are deleted first...
SweepDelete(t) ==
  /\ sweep[t].pc = "delete"
  /\ processing' = Without(processing, DOMAIN sweep[t].found)
  /\ sweep' = [sweep EXCEPT ![t].pc = "put"]
  /\ drain' = [drain EXCEPT !.swept = @ \/ drain.pc = "processing"]
  /\ UNCHANGED <<queued, dlq, sent, polling, flush, settled, troubles>>

\* Mutant: one retry too many.
GivenUpLate(found) == {m \in DOMAIN found : found[m] > MaxRetries}
\* Messages that have no retry left.
GivenUp(found) == {m \in DOMAIN found : found[m] + 1 > MaxRetries}

\* Mutant: the retries are not counted.
RetriedFree(found) == [m \in DOMAIN found \ GivenUp(found) |-> found[m]]
\* Mutant: only messages that were requeued before are put back.
RetriedAgain(found) ==
  [m \in {k \in DOMAIN found \ GivenUp(found) : found[k] > 0} |-> found[m] + 1]
Retried(found) == [m \in DOMAIN found \ GivenUp(found) |-> found[m] + 1]

\* ... and put back, into the dead letter queue, or nowhere, after that.
SweepPut(t) ==
  LET found == sweep[t].found
  IN
  /\ sweep[t].pc = "put"
  /\ queued' = Merge(queued, Retried(found))
  /\ dlq' = IF DisableDLQ THEN dlq ELSE dlq \cup GivenUp(found)
  /\ settled' = settled \cup GivenUp(found)
  /\ sweep' = [sweep EXCEPT ![t] = IdleSweep]
  /\ drain' = [drain EXCEPT !.swept = @ \/ drain.pc = "processing"]
  /\ UNCHANGED <<processing, sent, polling, flush, troubles>>

-----------------------------------------------------------------------------
(* awaitEmptyQueue and flushQueue, read by read. *)

\* awaitEmptyQueue is called.
Await ==
  /\ drain.pc \in {"idle", "done"} /\ Suffer("await")
  /\ drain' = [IdleDrain EXCEPT !.pc = "queued", !.mark = sent]
  /\ UNCHANGED <<store, sent, polling, sweep, flush, settled>>

\* getQueueStats counts the queued messages...
CountQueued ==
  /\ drain.pc = "queued"
  /\ drain' = [drain EXCEPT !.pc = "processing", !.zero = (queued = << >>),
                            !.swept = \E t \in Tab : sweep[t].pc = "put"]
  /\ UNCHANGED <<store, sent, polling, sweep, flush, settled, troubles>>

\* Mutant: only the queued messages count.
CountProcessingNot ==
  /\ drain.pc = "processing"
  /\ drain' = [drain EXCEPT !.pc = IF drain.zero THEN "done" ELSE "queued"]
  /\ UNCHANGED <<store, sent, polling, sweep, flush, settled, troubles>>
\* ... and then those in processing: both none is an empty queue, else the
\* loop sleeps and counts again.
CountProcessing ==
  /\ drain.pc = "processing"
  /\ drain' = [drain EXCEPT
       !.pc = IF drain.zero /\ processing = << >> THEN "done" ELSE "queued"]
  /\ UNCHANGED <<store, sent, polling, sweep, flush, settled, troubles>>

\* flushQueue lists the queued messages, then those in processing, then the
\* dead letters...
FlushQueued ==
  /\ flush.pc = "idle" /\ Suffer("flush")
  /\ flush' = [IdleFlush EXCEPT !.pc = "processing", !.q = DOMAIN queued]
  /\ UNCHANGED <<store, sent, polling, sweep, drain, settled>>

FlushProcessing ==
  /\ flush.pc = "processing"
  /\ flush' = [flush EXCEPT !.pc = "dlq", !.p = DOMAIN processing]
  /\ UNCHANGED <<store, sent, polling, sweep, drain, settled, troubles>>

FlushDead ==
  /\ flush.pc = "dlq"
  /\ flush' = [flush EXCEPT !.pc = "delete", !.d = dlq]
  /\ UNCHANGED <<store, sent, polling, sweep, drain, settled, troubles>>

\* (flushAllQueues lists everything in one transaction.)
FlushAll ==
  /\ flush.pc = "idle" /\ Suffer("flush")
  /\ flush' = [pc |-> "delete", q |-> DOMAIN queued, p |-> DOMAIN processing, d |-> dlq]
  /\ UNCHANGED <<store, sent, polling, sweep, drain, settled>>

\* ... and deletes the keys it has listed.
FlushDelete ==
  /\ flush.pc = "delete"
  /\ queued' = Without(queued, flush.q)
  /\ processing' = Without(processing, flush.p)
  /\ dlq' = dlq \ flush.d
  /\ settled' = settled \cup flush.q \cup flush.p
  /\ flush' = IdleFlush
  /\ UNCHANGED <<sent, polling, sweep, drain, troubles>>

-----------------------------------------------------------------------------
(* The life of the workers. *)

Subscribed(t) == {w \in Workers(t) : Running(w) /\ ~worker[w].stopping}
\* Identities for the workers that take over from n others.
Successors(t, n) == {new \in SUBSET (Workers(t) \ {w \in Worker : Running(w)}) :
                       Cardinality(new) = n}

\* QueueWorker.stop: a waiting worker leaves its loop at once.
Stop(w) == IF Waiting(w) THEN NoWorker ELSE [worker[w] EXCEPT !.stopping = TRUE]

\* A waiter is left at each of these places of seq, in the same order, when
\* the workers of S are removed one by one.
Places(seq, S) ==
  {at \in UNION {[1..n -> DOMAIN seq] : n \in 0..Len(seq)} :
     /\ \A i, j \in DOMAIN at : i < j => at[i] < at[j]
     /\ {at[i] : i \in DOMAIN at} = {k \in DOMAIN seq : seq[k] \notin S}}

\* reloadQueues, when a plug is loaded or unloaded: the subscribed workers are
\* stopped, removing those that wait from the waiters, and others subscribed.
Reload(t) ==
  /\ Suffer("reload")
  /\ \E new \in Successors(t, Cardinality(Subscribed(t))) :
       worker' = [w \in Worker |-> CASE w \in new -> NewWorker
                                     [] w \in Subscribed(t) -> Stop(w)
                                     [] OTHER -> worker[w]]
  /\ \E at \in Places(waiters[t], Subscribed(t)) :
       waiters' = [waiters EXCEPT ![t] = [i \in DOMAIN at |-> waiters[t][at[i]]]]
  /\ UNCHANGED <<store, sent, waking, sweep, drain, flush, settled>>

\* A tab is closed, or killed, and opened again: what it was doing is lost.
\* "tear": also between the two writes of requeueTimeouts.
Reopen(t) ==
  /\ Suffer("reopen")
  /\ May("tear") \/ sweep[t].pc # "put"
  /\ worker' = [w \in Worker |-> CASE TabOf[w] # t -> worker[w]
                                   [] TabOf[w] = t /\ w \in First -> NewWorker
                                   [] TabOf[w] = t /\ w \notin First -> NoWorker]
  /\ waiters' = [waiters EXCEPT ![t] = << >>]
  /\ waking' = [waking EXCEPT ![t] = 0]
  /\ sweep' = [sweep EXCEPT ![t] = IdleSweep]
  /\ drain' \in {drain, IdleDrain} /\ flush' \in {flush, IdleFlush}
  /\ UNCHANGED <<store, sent, settled>>

-----------------------------------------------------------------------------
Poll(w) == ScanEmpty(w) \/ Scan(w) \/ PutProcessing(w) \/ DeleteQueued(w)
Return(w) == Ack(w) \/ CallbackFails(w)
Sweeping(t) == SweepDelete(t) \/ SweepPut(t)
Flushing == FlushProcessing \/ FlushDead \/ FlushDelete

Next ==
  \/ \E t \in Tab : Wake(t) \/ SweepQuery(t) \/ Sweeping(t) \/ Reload(t) \/ Reopen(t)
  \/ \E t \in Tab, n \in 1..MaxMessages : Send(t, n)
  \/ \E w \in Worker : Poll(w) \/ Return(w) \/ TimerFires(w)
  \/ \E m \in Message : Age(m)
  \/ Await \/ CountQueued \/ CountProcessing
  \/ FlushQueued \/ FlushAll \/ Flushing

Spec == Init /\ [][Next]_vars

\* Each await of the code is answered, callbacks return, timers fire, time
\* passes, and some tab gets to run its interval.  Nobody has to send, reload
\* or flush.
Fairness ==
  /\ \A w \in Worker : WF_vars(Poll(w)) /\ WF_vars(Return(w)) /\ WF_vars(TimerFires(w))
  /\ \A t \in Tab : WF_vars(Wake(t)) /\ WF_vars(Sweeping(t))
  /\ WF_vars(\E t \in Tab : SweepQuery(t))
  /\ \A m \in Message : WF_vars(Age(m))
  /\ WF_vars(Flushing)

FairSpec == Spec /\ Fairness

-----------------------------------------------------------------------------
(* Properties. *)

Maps(V)     == UNION {[S -> V] : S \in SUBSET Message}
Entry       == [retries : Attempt, old : BOOLEAN]
WorkerState == [pc : {"off", "scan", "put", "delete", "call", "wait"}, batch : Maps(Attempt),
                stopping : BOOLEAN, timers : 0..MaxTimers]
SweepState  == [pc : {"idle", "delete", "put"}, found : Maps(Attempt)]
DrainState  == [pc : {"idle", "queued", "processing", "done"}, mark : 0..MaxMessages,
                zero : BOOLEAN, swept : BOOLEAN]
FlushState  == [pc : {"idle", "processing", "dlq", "delete"}, q : SUBSET Message,
                p : SUBSET Message, d : SUBSET Message]

StoreTypes ==
  /\ queued \in Maps(Attempt) /\ processing \in Maps(Entry)
  /\ dlq \subseteq Message /\ settled \subseteq Message
  /\ sent \in 0..MaxMessages /\ troubles \in 0..MaxTroubles
ProcessTypes ==
  /\ worker \in [Worker -> WorkerState] /\ sweep \in [Tab -> SweepState]
  /\ drain \in DrainState /\ flush \in FlushState
WaiterTypes ==
  /\ waking \in [Tab -> Nat] /\ waiters \in [Tab -> Seq(Worker)]

\* Every store, process and history variable has its type.
TypeOK == StoreTypes /\ ProcessTypes /\ WaiterTypes

Held == UNION {DOMAIN sweep[t].found : t \in {u \in Tab : sweep[u].pc = "put"}}

\* A message that was sent stays in the queued or the processing queue, or in
\* the hands of a requeue, until it is acked, given up or flushed: whoever
\* holds it may fail or disappear.  (Workers that poll at the same time, stale
\* batches, reloads and closed tabs are all in; the assumption is that none of
\* Hazards happens.)
NoMessageLost ==
  1..sent \subseteq settled \cup DOMAIN queued \cup DOMAIN processing \cup Held

\* What is to be delivered, wherever it is kept.
Pending == (DOMAIN queued \cup DOMAIN processing \cup Held) \ settled

Promise == INSTANCE Delivery WITH pending <- Pending

\* The stores together are a queue as Delivery describes it: a message becomes
\* pending when it is sent, is settled once and for all, and no other step of
\* any tab makes it appear, disappear or return.
KeepsPromise == Promise!Spec

\* The waiters of a tab are workers of that tab that are waiting, each once: a
\* wake-up never goes to a worker that is gone or busy.
WaitersWait ==
  \A t \in Tab : \A i \in DOMAIN waiters[t] :
    /\ TabOf[waiters[t][i]] = t /\ Waiting(waiters[t][i])
    /\ \A j \in DOMAIN waiters[t] : waiters[t][j] = waiters[t][i] => j = i

\* When awaitEmptyQueue returns, what had been sent before it was called has
\* been dealt with, unless a requeue moved messages while it counted.
AwaitMeansHandled ==
  drain.pc = "done" /\ ~drain.swept => 1..drain.mark \subseteq settled

\* The queue drains for good, with callbacks that fail as often as they like:
\* no message is requeued forever, and none of those that two workers poll at
\* the same time stays behind in the processing queue.
EventuallyDrained == <>[](queued = << >> /\ processing = << >>)
=============================================================================
