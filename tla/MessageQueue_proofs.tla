------------------------ MODULE MessageQueue_proofs ------------------------
(* Theorems about MessageQueue, for any number of tabs, workers and         *)
(* messages, batch sizes and retries.                                       *)
EXTENDS MessageQueue, SequenceTheorems, TLAPS

(***************************************************************************)
(* The invariant.  A message that timed out, and one that a requeue has    *)
(* found, is aside: no longer queued, and no worker is moving it.  So a    *)
(* requeue and a poll never handle the same message, a message that a      *)
(* worker deletes from the queue is still in processing, and one that a    *)
(* requeue deletes from processing is not put back behind its back.        *)
(***************************************************************************)
Known ==
  /\ DOMAIN queued \subseteq 1..sent /\ DOMAIN processing \subseteq 1..sent
  /\ \A w \in Worker : DOMAIN worker[w].batch \subseteq 1..sent
  /\ \A t \in Tab : DOMAIN sweep[t].found \subseteq 1..sent
  /\ drain.mark <= sent

Aside(m) == m \notin DOMAIN queued /\ \A w \in Worker : ~Polls(w, m)

OneSweep ==
  \A t, u \in Tab : sweep[t].pc # "idle" /\ sweep[u].pc # "idle" => t = u

OldAside == \A m \in DOMAIN processing : processing[m].old => Aside(m)

FoundAside ==
  \A t \in Tab : \A m \in DOMAIN sweep[t].found :
    /\ sweep[t].pc # "idle" => Aside(m)
    /\ sweep[t].pc = "put" => m \notin DOMAIN processing

Moving ==
  \A w \in Worker : worker[w].pc = "delete"
                      => DOMAIN worker[w].batch \subseteq settled \cup DOMAIN processing

Counted ==
  drain.pc = "processing" /\ drain.zero /\ ~drain.swept
    => 1..drain.mark \subseteq settled \cup DOMAIN processing

Types == StoreTypes /\ ProcessTypes

QueueInv ==
  /\ Types /\ Known /\ OneSweep /\ OldAside /\ FoundAside /\ Moving
  /\ NoMessageLost /\ Counted /\ AwaitMeansHandled

Orderly == Troubles \cap Hazards = {}

-----------------------------------------------------------------------------
(* Maps. *)

LEMMA MapType ==
  ASSUME NEW V, NEW f
  PROVE  f \in Maps(V) <=> /\ f = [m \in DOMAIN f |-> f[m]]
                           /\ DOMAIN f \subseteq Message
                           /\ \A m \in DOMAIN f : f[m] \in V
<1>1. ASSUME f \in Maps(V)
      PROVE  /\ f = [m \in DOMAIN f |-> f[m]]
             /\ DOMAIN f \subseteq Message
             /\ \A m \in DOMAIN f : f[m] \in V
  <2>1. PICK S \in SUBSET Message : f \in [S -> V]
    BY <1>1 DEF Maps
  <2> QED BY <2>1
<1>2. ASSUME f = [m \in DOMAIN f |-> f[m]], DOMAIN f \subseteq Message,
             \A m \in DOMAIN f : f[m] \in V
      PROVE  f \in Maps(V)
  <2>1. f \in [DOMAIN f -> V]
    BY <1>2
  <2> QED BY <2>1, <1>2 DEF Maps
<1> QED BY <1>1, <1>2

LEMMA MapOps ==
  ASSUME NEW V
  PROVE  /\ \A f, g \in Maps(V) : Merge(f, g) \in Maps(V)
         /\ \A f \in Maps(V) : \A S : Without(f, S) \in Maps(V) /\ Only(f, S) \in Maps(V)
         /\ << >> \in Maps(V)
<1>1. ASSUME NEW f \in Maps(V), NEW g \in Maps(V) PROVE Merge(f, g) \in Maps(V)
  <2>1. /\ DOMAIN f \subseteq Message /\ \A m \in DOMAIN f : f[m] \in V
        /\ DOMAIN g \subseteq Message /\ \A m \in DOMAIN g : g[m] \in V
    BY MapType
  <2>2. DOMAIN Merge(f, g) = DOMAIN f \cup DOMAIN g
    BY DEF Merge
  <2>3. \A m \in DOMAIN Merge(f, g) : Merge(f, g)[m] \in V
    BY <2>1 DEF Merge
  <2>4. Merge(f, g) = [m \in DOMAIN Merge(f, g) |-> Merge(f, g)[m]]
    BY DEF Merge
  <2> QED BY <2>1, <2>2, <2>3, <2>4, MapType
<1>2. ASSUME NEW f \in Maps(V), NEW S
      PROVE  Without(f, S) \in Maps(V) /\ Only(f, S) \in Maps(V)
  <2>1. DOMAIN f \subseteq Message /\ \A m \in DOMAIN f : f[m] \in V
    BY MapType
  <2>2. Without(f, S) \in [DOMAIN f \ S -> V] /\ Only(f, S) \in [DOMAIN f \cap S -> V]
    BY <2>1 DEF Without, Only
  <2>3. DOMAIN f \ S \in SUBSET Message /\ DOMAIN f \cap S \in SUBSET Message
    BY <2>1
  <2> QED BY <2>2, <2>3 DEF Maps
<1>3. << >> \in Maps(V)
  <2>1. << >> \in [{} -> V]
    OBVIOUS
  <2> QED BY <2>1 DEF Maps
<1> QED BY <1>1, <1>2, <1>3

-----------------------------------------------------------------------------
(* Types. *)

LEMMA Records ==
  /\ NewWorker \in WorkerState /\ NoWorker \in WorkerState
  /\ IdleSweep \in SweepState /\ IdleDrain \in DrainState /\ IdleFlush \in FlushState
<1>1. << >> \in Maps(Attempt)
  BY MapOps
<1>2. NewWorker \in WorkerState /\ NoWorker \in WorkerState
  <2>1. 0 \in 0..MaxTimers
    BY QueueConstants
  <2>2. NewWorker \in WorkerState
    BY <1>1, <2>1 DEF NewWorker, WorkerState
  <2>3. NoWorker \in WorkerState
    BY <2>2 DEF NoWorker, WorkerState
  <2> QED BY <2>2, <2>3
<1>3. IdleSweep \in SweepState
  BY <1>1 DEF IdleSweep, SweepState
<1>4. IdleDrain \in DrainState /\ IdleFlush \in FlushState
  BY QueueConstants DEF IdleDrain, DrainState, IdleFlush, FlushState
<1> QED BY <1>2, <1>3, <1>4

LEMMA RoundType ==
  ASSUME ProcessTypes, NEW w \in Worker
  PROVE  NextRound(w) \in WorkerState
<1>1. << >> \in Maps(Attempt) /\ worker[w] \in WorkerState
  BY MapOps DEF ProcessTypes
<1> QED BY <1>1, Records DEF NextRound, WorkerState

LEMMA InitTypes == Init => Types
<1> SUFFICES ASSUME Init PROVE Types
  OBVIOUS
<1>1. StoreTypes
  <2>1. << >> \in Maps(Attempt) /\ << >> \in Maps(Entry)
    BY MapOps
  <2> QED BY <2>1, QueueConstants DEF Init, StoreTypes
<1>2. ProcessTypes
  BY Records DEF Init, ProcessTypes
<1> QED BY <1>1, <1>2 DEF Types

\* The batch of a scan, as it is and as it is stored.
LEMMA BatchTypes ==
  ASSUME Types
  PROVE  /\ Only(queued, FirstBatch) \in Maps(Attempt)
         /\ \A w \in Worker : InFlight(worker[w].batch) \in Maps(Entry)
         /\ DOMAIN Only(queued, FirstBatch) \subseteq DOMAIN queued
<1>1. Only(queued, FirstBatch) \in Maps(Attempt)
  BY MapOps DEF Types, StoreTypes
<1>2. ASSUME NEW w \in Worker PROVE InFlight(worker[w].batch) \in Maps(Entry)
  <2>1. worker[w].batch \in Maps(Attempt)
    BY DEF Types, ProcessTypes, WorkerState
  <2>2. /\ DOMAIN worker[w].batch \subseteq Message
        /\ \A m \in DOMAIN worker[w].batch : worker[w].batch[m] \in Attempt
    BY <2>1, MapType
  <2>3. InFlight(worker[w].batch) \in [DOMAIN worker[w].batch -> Entry]
    BY <2>2 DEF InFlight, Entry
  <2> QED BY <2>2, <2>3 DEF Maps
<1> QED BY <1>1, <1>2 DEF Only

LEMMA PollTypes ==
  ASSUME Types, NEW w \in Worker, Poll(w) \/ Return(w) \/ TimerFires(w)
  PROVE  Types'
<1> USE DEF Types, StoreTypes, ProcessTypes, WorkerState
<1>1. CASE ScanEmpty(w)
  <2>1. worker[w].timers + 1 \in 0..MaxTimers
    <3>1. worker[w].timers \in 0..MaxTimers /\ worker[w].timers < MaxTimers
      BY <1>1 DEF ScanEmpty
    <3> QED BY <3>1, QueueConstants
  <2> QED BY <1>1, <2>1 DEF ScanEmpty, store
<1>2. CASE Scan(w)
  <2> DEFINE batch == Only(queued, FirstBatch)
  <2>1. batch \in Maps(Attempt)
    BY BatchTypes
  <2> HIDE DEF batch
  <2>2. [worker[w] EXCEPT !.pc = "put", !.batch = batch] \in WorkerState
    BY <2>1
  <2>3. worker' = [worker EXCEPT ![w] = [worker[w] EXCEPT !.pc = "put", !.batch = batch]]
    BY <1>2 DEF Scan, batch
  <2>4. ProcessTypes'
    BY <1>2, <2>2, <2>3 DEF Scan
  <2> QED BY <1>2, <2>4 DEF Scan, store
<1>3. CASE PutProcessing(w)
  <2>1. Merge(processing, InFlight(worker[w].batch)) \in Maps(Entry)
    BY BatchTypes, MapOps
  <2> QED BY <1>3, <2>1 DEF PutProcessing
<1>4. CASE DeleteQueued(w)
  <2>1. Without(queued, DOMAIN worker[w].batch) \in Maps(Attempt)
    BY MapOps
  <2> QED BY <1>4, <2>1 DEF DeleteQueued
<1>5. CASE Ack(w)
  <2>1. Without(processing, DOMAIN worker[w].batch) \in Maps(Entry)
    BY MapOps
  <2>2. DOMAIN worker[w].batch \subseteq Message
    BY MapType
  <2> QED BY <1>5, <2>1, <2>2, RoundType DEF Ack
<1>6. CASE CallbackFails(w)
  BY <1>6, RoundType DEF CallbackFails, store
<1>7. CASE TimerFires(w)
  <2> DEFINE rest == worker[w].timers - 1
             next == IF Waiting(w) /\ rest = 0 THEN NextRound(w) ELSE worker[w]
  <2>1. rest \in 0..MaxTimers
    BY <1>7, QueueConstants DEF TimerFires
  <2>2. next \in WorkerState
    BY RoundType
  <2>3. [next EXCEPT !.timers = rest] \in WorkerState
    <3> HIDE DEF next, rest
    <3> QED BY <2>1, <2>2
  <2>4. worker' = [worker EXCEPT ![w] = [next EXCEPT !.timers = rest]]
    BY <1>7 DEF TimerFires
  <2> HIDE DEF next, rest
  <2> QED BY <1>7, <2>3, <2>4 DEF TimerFires, store
<1> QED BY <1>1, <1>2, <1>3, <1>4, <1>5, <1>6, <1>7 DEF Poll, Return

LEMMA SweepTypes ==
  ASSUME Types, NEW t \in Tab, SweepQuery(t) \/ Sweeping(t)
  PROVE  Types'
<1> USE DEF Types, StoreTypes, ProcessTypes, SweepState
<1>1. CASE SweepQuery(t)
  <2> DEFINE found == [m \in TimedOut |-> processing[m].retries]
  <2>1. DOMAIN processing \subseteq Message /\ \A m \in DOMAIN processing : processing[m] \in Entry
    BY MapType
  <2>2. found \in [TimedOut -> Attempt] /\ TimedOut \in SUBSET Message
    BY <2>1 DEF TimedOut, Entry
  <2>3. found \in Maps(Attempt)
    BY <2>2 DEF Maps
  <2>4. [pc |-> "delete", found |-> found] \in SweepState
    BY <2>3
  <2> HIDE DEF found
  <2>5. sweep' = [sweep EXCEPT ![t] = [pc |-> "delete", found |-> found]]
    BY <1>1 DEF SweepQuery, found
  <2> QED BY <1>1, <2>4, <2>5 DEF SweepQuery, store, polling
<1>2. CASE SweepDelete(t)
  <2>1. Without(processing, DOMAIN sweep[t].found) \in Maps(Entry)
    BY MapOps
  <2>2. drain' \in DrainState
    BY <1>2 DEF SweepDelete, DrainState
  <2> QED BY <1>2, <2>1, <2>2 DEF SweepDelete, polling
<1>3. CASE SweepPut(t)
  <2> DEFINE found == sweep[t].found
  <2>1. DOMAIN found \subseteq Message /\ \A m \in DOMAIN found : found[m] \in Attempt
    BY MapType
  <2>2. GivenUp(found) \subseteq Message
    BY <2>1 DEF GivenUp
  <2>3. Retried(found) \in [DOMAIN found \ GivenUp(found) -> Attempt]
    BY <2>1, QueueConstants DEF Retried, GivenUp, Attempt
  <2>4. Retried(found) \in Maps(Attempt)
    BY <2>1, <2>3 DEF Maps
  <2>5. Merge(queued, Retried(found)) \in Maps(Attempt)
    BY <2>4, MapOps
  <2>6. drain' \in DrainState
    BY <1>3 DEF SweepPut, DrainState
  <2> QED BY <1>3, <2>2, <2>5, <2>6, Records DEF SweepPut, polling
<1> QED BY <1>1, <1>2, <1>3 DEF Sweeping

LEMMA OtherTypes ==
  ASSUME Types, [Next]_vars,
         \A w \in Worker : ~(Poll(w) \/ Return(w) \/ TimerFires(w)),
         \A t \in Tab : ~(SweepQuery(t) \/ Sweeping(t))
  PROVE  Types'
<1> USE DEF Types
<1>1. ASSUME NEW t \in Tab, Wake(t) PROVE Types'
  <2>1. CASE waiters[t] = << >>
    BY <1>1, <2>1 DEF Wake, StoreTypes, ProcessTypes, store
  <2>2. CASE waiters[t] # << >>
    <3> DEFINE w == Head(waiters[t])
    <3>1. worker' = [worker EXCEPT ![w] = NextRound(w)]
      BY <1>1, <2>2 DEF Wake
    <3>2. w \in Worker => NextRound(w) \in WorkerState
      BY RoundType
    <3> HIDE DEF w
    <3>3. worker' \in [Worker -> WorkerState]
      BY <3>1, <3>2 DEF ProcessTypes
    <3> QED BY <1>1, <3>3 DEF Wake, StoreTypes, ProcessTypes, store
  <2> QED BY <2>1, <2>2
<1>2. ASSUME NEW t \in Tab, Reload(t) PROVE Types'
  <2>1. PICK new : worker' = [w \in Worker |-> CASE w \in new -> NewWorker
                                                 [] w \in Subscribed(t) -> Stop(w)
                                                 [] OTHER -> worker[w]]
    BY <1>2 DEF Reload
  <2>2. \A w \in Worker : worker[w] \in WorkerState /\ Stop(w) \in WorkerState
    BY Records DEF Stop, ProcessTypes, WorkerState
  <2>3. worker' \in [Worker -> WorkerState]
    BY <2>1, <2>2, Records
  <2>4. troubles' \in 0..MaxTroubles
    BY <1>2, QueueConstants DEF Reload, Suffer, StoreTypes
  <2> QED BY <1>2, <2>3, <2>4 DEF Reload, StoreTypes, ProcessTypes, store
<1>3. ASSUME NEW t \in Tab, Reopen(t) PROVE Types'
  <2>1. worker' \in [Worker -> WorkerState]
    BY <1>3, Records DEF Reopen, ProcessTypes
  <2>2. sweep' \in [Tab -> SweepState] /\ drain' \in DrainState /\ flush' \in FlushState
    BY <1>3, Records DEF Reopen, ProcessTypes
  <2>3. troubles' \in 0..MaxTroubles
    BY <1>3, QueueConstants DEF Reopen, Suffer, StoreTypes
  <2> QED BY <1>3, <2>1, <2>2, <2>3 DEF Reopen, StoreTypes, ProcessTypes, store
<1>4. ASSUME NEW t \in Tab, NEW n \in 1..MaxMessages, Send(t, n) PROVE Types'
  <2>1. sent' \in 0..MaxMessages /\ sent + 1 .. sent + n \in SUBSET Message
    BY <1>4, QueueConstants DEF Send, StoreTypes, Message
  <2>2. [m \in sent + 1 .. sent + n |-> 0] \in [sent + 1 .. sent + n -> Attempt]
    BY QueueConstants DEF Attempt
  <2>3. [m \in sent + 1 .. sent + n |-> 0] \in Maps(Attempt)
    BY <2>1, <2>2 DEF Maps
  <2>4. queued' \in Maps(Attempt)
    BY <1>4, <2>3, MapOps DEF Send, StoreTypes
  <2> QED BY <1>4, <2>1, <2>4 DEF Send, StoreTypes, ProcessTypes
<1>5. ASSUME NEW m \in Message, Age(m) PROVE Types'
  <2>1. DOMAIN processing \subseteq Message /\ \A k \in DOMAIN processing : processing[k] \in Entry
    BY MapType DEF StoreTypes
  <2>2. [processing EXCEPT ![m].old = TRUE] \in [DOMAIN processing -> Entry]
    BY <2>1 DEF Entry
  <2>3. processing' \in Maps(Entry)
    BY <1>5, <2>1, <2>2 DEF Age, Maps
  <2> QED BY <1>5, <2>3 DEF Age, StoreTypes, ProcessTypes, polling
<1>6. ASSUME Await \/ CountQueued \/ CountProcessing PROVE Types'
  <2>1. drain' \in DrainState
    <3>1. CASE Await
      BY <3>1, Records DEF Await, StoreTypes, DrainState
    <3>2. CASE CountQueued \/ CountProcessing
      BY <3>2 DEF CountQueued, CountProcessing, ProcessTypes, DrainState
    <3> QED BY <1>6, <3>1, <3>2
  <2>2. troubles' \in 0..MaxTroubles
    BY <1>6, QueueConstants DEF Await, CountQueued, CountProcessing, Suffer, StoreTypes
  <2> QED BY <1>6, <2>1, <2>2
       DEF Await, CountQueued, CountProcessing, StoreTypes, ProcessTypes, store, polling
<1>7. ASSUME FlushQueued \/ FlushAll \/ FlushProcessing \/ FlushDead PROVE Types'
  <2>1. DOMAIN queued \subseteq Message /\ DOMAIN processing \subseteq Message
    BY MapType DEF StoreTypes
  <2>2. flush' \in FlushState
    <3>1. CASE FlushQueued
      BY <2>1, <3>1, Records DEF FlushQueued, FlushState
    <3>2. CASE FlushAll
      BY <2>1, <3>2 DEF FlushAll, StoreTypes, FlushState
    <3>3. CASE FlushProcessing
      BY <2>1, <3>3 DEF FlushProcessing, ProcessTypes, FlushState
    <3>4. CASE FlushDead
      BY <3>4 DEF FlushDead, StoreTypes, ProcessTypes, FlushState
    <3> QED BY <1>7, <3>1, <3>2, <3>3, <3>4
  <2>3. troubles' \in 0..MaxTroubles
    BY <1>7, QueueConstants DEF FlushQueued, FlushAll, FlushProcessing, FlushDead, Suffer, StoreTypes
  <2> QED BY <1>7, <2>2, <2>3
       DEF FlushQueued, FlushAll, FlushProcessing, FlushDead, StoreTypes, ProcessTypes, store, polling
<1>8. CASE FlushDelete
  <2>1. queued' \in Maps(Attempt) /\ processing' \in Maps(Entry)
    BY <1>8, MapOps DEF FlushDelete, StoreTypes
  <2> QED BY <1>8, <2>1, Records DEF FlushDelete, StoreTypes, ProcessTypes, FlushState, polling
<1>9. CASE UNCHANGED vars
  BY <1>9 DEF vars, store, polling, StoreTypes, ProcessTypes
<1> QED BY <1>1, <1>2, <1>3, <1>4, <1>5, <1>6, <1>7, <1>8, <1>9 DEF Next, Flushing

LEMMA StepTypes == Types /\ [Next]_vars => Types'
BY PollTypes, SweepTypes, OtherTypes

-----------------------------------------------------------------------------
(* The invariant holds initially and is kept by every step. *)

LEMMA Domains ==
  /\ \A f, g : DOMAIN Merge(f, g) = DOMAIN f \cup DOMAIN g
  /\ \A f, g, m : m \in DOMAIN g => Merge(f, g)[m] = g[m]
  /\ \A f, g, m : m \in DOMAIN f \ DOMAIN g => Merge(f, g)[m] = f[m]
  /\ \A f, S : DOMAIN Without(f, S) = DOMAIN f \ S
  /\ \A f, S, m : m \in DOMAIN f \ S => Without(f, S)[m] = f[m]
  /\ \A batch : /\ DOMAIN InFlight(batch) = DOMAIN batch
                /\ \A m \in DOMAIN batch : ~InFlight(batch)[m].old
BY DEF Merge, Without, InFlight

LEMMA InitInv == Init => QueueInv
<1> SUFFICES ASSUME Init PROVE QueueInv
  OBVIOUS
<1>1. Types
  BY InitTypes
<1>2. sent = 0 /\ queued = << >> /\ processing = << >> /\ drain = IdleDrain
  BY DEF Init
<1>3. \A w \in Worker : worker[w].batch = << >> /\ worker[w].pc \in {"scan", "off"}
  BY DEF Init, NewWorker, NoWorker
<1>4. \A t \in Tab : sweep[t].pc = "idle" /\ sweep[t].found = << >>
  BY DEF Init, IdleSweep
<1>5. Known
  BY <1>2, <1>3, <1>4 DEF Known, IdleDrain
<1>6. OneSweep /\ OldAside /\ FoundAside /\ Moving
  BY <1>2, <1>3, <1>4 DEF OneSweep, OldAside, FoundAside, Moving
<1>7. NoMessageLost /\ Counted /\ AwaitMeansHandled
  BY <1>2 DEF NoMessageLost, Counted, AwaitMeansHandled, IdleDrain
<1> QED BY <1>1, <1>5, <1>6, <1>7 DEF QueueInv

\* Workers that do no more than leave a poll, register, wake up, stop or start
\* disturb nothing.
Quiet(w) ==
  /\ worker'[w].batch \in {worker[w].batch, << >>}
  /\ worker'[w].pc \in {"put", "delete"}
       => worker'[w].pc = worker[w].pc /\ worker'[w].batch = worker[w].batch

LEMMA QuietWorkers ==
  ASSUME QueueInv, Types', UNCHANGED <<store, sent, sweep, settled>>,
         drain' \in {drain, IdleDrain}, \A w \in Worker : Quiet(w)
  PROVE  QueueInv'
<1> USE DEF Quiet
<1>1. UNCHANGED <<queued, processing, sent, sweep, settled>>
  BY DEF store
<1>2. \A w \in Worker : \A m : Polls(w, m)' => Polls(w, m)
  BY DEF Polls
<1>3. \A m : Aside(m) => Aside(m)'
  BY <1>1, <1>2 DEF Aside
<1>4. Known'
  BY <1>1 DEF QueueInv, Known, IdleDrain, Types, StoreTypes
<1>5. OneSweep' /\ OldAside' /\ FoundAside'
  BY <1>1, <1>3 DEF QueueInv, OneSweep, OldAside, FoundAside
<1>6. Moving'
  BY <1>1 DEF QueueInv, Moving
<1>7. NoMessageLost'
  BY <1>1 DEF QueueInv, NoMessageLost, Held
<1>8. Counted' /\ AwaitMeansHandled'
  BY <1>1 DEF QueueInv, Counted, AwaitMeansHandled, IdleDrain
<1> QED BY <1>4, <1>5, <1>6, <1>7, <1>8 DEF QueueInv

LEMMA ScanInv ==
  ASSUME QueueInv, Types', NEW w \in Worker, Scan(w)
  PROVE  QueueInv'
<1>1. UNCHANGED <<queued, processing, sent, sweep, settled, drain>>
  BY DEF Scan, store
<1>2. /\ worker'[w].pc = "put" /\ DOMAIN worker'[w].batch \subseteq DOMAIN queued
      /\ \A v \in Worker \ {w} : worker'[v] = worker[v]
  BY DEF Scan, Only, QueueInv, Types, ProcessTypes, WorkerState
<1>3. \A m : Aside(m) => Aside(m)'
  BY <1>1, <1>2 DEF Aside, Polls
<1>4. Known'
  BY <1>1, <1>2 DEF QueueInv, Known
<1>5. OneSweep' /\ OldAside' /\ FoundAside'
  BY <1>1, <1>3 DEF QueueInv, OneSweep, OldAside, FoundAside
<1>6. Moving'
  BY <1>1, <1>2 DEF QueueInv, Moving
<1>7. NoMessageLost' /\ Counted' /\ AwaitMeansHandled'
  BY <1>1 DEF QueueInv, NoMessageLost, Held, Counted, AwaitMeansHandled
<1> QED BY <1>4, <1>5, <1>6, <1>7 DEF QueueInv

LEMMA PutInv ==
  ASSUME QueueInv, Types', NEW w \in Worker, PutProcessing(w)
  PROVE  QueueInv'
<1> DEFINE batch == worker[w].batch
<1>1. UNCHANGED <<queued, sent, sweep, settled, drain>>
  BY DEF PutProcessing
<1>2. /\ worker[w].pc = "put" /\ worker'[w].pc = "delete" /\ worker'[w].batch = batch
      /\ \A v \in Worker \ {w} : worker'[v] = worker[v]
  BY DEF PutProcessing, QueueInv, Types, ProcessTypes, WorkerState
<1>3. processing' = Merge(processing, InFlight(batch))
  BY DEF PutProcessing
<1>4. /\ DOMAIN processing' = DOMAIN processing \cup DOMAIN batch
      /\ \A m \in DOMAIN processing' :
           processing'[m].old => m \in DOMAIN processing \ DOMAIN batch /\ processing[m].old
  <2>1. DOMAIN InFlight(batch) = DOMAIN batch
    BY Domains
  <2>2. DOMAIN processing' = DOMAIN processing \cup DOMAIN batch
    BY <1>3, <2>1 DEF Merge
  <2>3. \A m \in DOMAIN batch : ~processing'[m].old
    <3>1. \A m \in DOMAIN batch : processing'[m] = InFlight(batch)[m]
      BY <1>3, <2>1 DEF Merge
    <3>2. \A m \in DOMAIN batch : ~InFlight(batch)[m].old
      BY Domains
    <3> QED BY <3>1, <3>2
  <2>4. \A m \in DOMAIN processing \ DOMAIN batch : processing'[m] = processing[m]
    BY <1>3, <2>1, Domains
  <2> QED BY <2>2, <2>3, <2>4
<1>5. \A m : Aside(m) => Aside(m)' /\ m \notin DOMAIN batch
  BY <1>1, <1>2 DEF Aside, Polls
<1>6. Known'
  BY <1>1, <1>2, <1>4 DEF QueueInv, Known
<1>7. OneSweep' /\ OldAside'
  BY <1>1, <1>4, <1>5 DEF QueueInv, OneSweep, OldAside
<1>8. FoundAside'
  BY <1>1, <1>4, <1>5 DEF QueueInv, FoundAside
<1>9. Moving'
  BY <1>1, <1>2, <1>4 DEF QueueInv, Moving
<1>10. NoMessageLost' /\ Counted' /\ AwaitMeansHandled'
  BY <1>1, <1>4 DEF QueueInv, NoMessageLost, Held, Counted, AwaitMeansHandled
<1> QED BY <1>6, <1>7, <1>8, <1>9, <1>10 DEF QueueInv

LEMMA DeleteInv ==
  ASSUME QueueInv, Types', NEW w \in Worker, DeleteQueued(w)
  PROVE  QueueInv'
<1> DEFINE batch == worker[w].batch
<1>1. UNCHANGED <<processing, sent, sweep, settled, drain>>
  BY DEF DeleteQueued
<1>2. /\ worker[w].pc = "delete" /\ worker'[w].pc = "call" /\ worker'[w].batch = batch
      /\ \A v \in Worker \ {w} : worker'[v] = worker[v]
  BY DEF DeleteQueued, QueueInv, Types, ProcessTypes, WorkerState
<1>3. DOMAIN queued' = DOMAIN queued \ DOMAIN batch
  BY Domains DEF DeleteQueued
<1>4. \A m : Aside(m) => Aside(m)'
  BY <1>2, <1>3 DEF Aside, Polls
<1>5. Known'
  BY <1>1, <1>2, <1>3 DEF QueueInv, Known
<1>6. OneSweep' /\ OldAside' /\ FoundAside'
  BY <1>1, <1>4 DEF QueueInv, OneSweep, OldAside, FoundAside
<1>7. Moving'
  BY <1>1, <1>2 DEF QueueInv, Moving
<1>8. DOMAIN batch \subseteq settled \cup DOMAIN processing
  BY <1>2 DEF QueueInv, Moving
<1>9. NoMessageLost'
  BY <1>1, <1>3, <1>8 DEF QueueInv, NoMessageLost, Held
<1>10. Counted' /\ AwaitMeansHandled'
  BY <1>1 DEF QueueInv, Counted, AwaitMeansHandled
<1> QED BY <1>5, <1>6, <1>7, <1>9, <1>10 DEF QueueInv

LEMMA AckInv ==
  ASSUME QueueInv, Types', NEW w \in Worker, Ack(w)
  PROVE  QueueInv'
<1> DEFINE batch == worker[w].batch
<1>1. UNCHANGED <<queued, sent, sweep, drain>>
  BY DEF Ack
<1>2. /\ worker'[w].pc \in {"scan", "off"} /\ worker'[w].batch = << >>
      /\ \A v \in Worker \ {w} : worker'[v] = worker[v]
  <2>1. worker[w] \in WorkerState
    BY DEF QueueInv, Types, ProcessTypes
  <2>2. NextRound(w).pc \in {"scan", "off"} /\ NextRound(w).batch = << >>
    BY <2>1 DEF NextRound, NoWorker, NewWorker, WorkerState
  <2> QED BY <2>2 DEF Ack, QueueInv, Types, ProcessTypes
<1>3. processing' = Without(processing, DOMAIN batch) /\ settled' = settled \cup DOMAIN batch
  BY DEF Ack
<1>4. /\ DOMAIN processing' = DOMAIN processing \ DOMAIN batch
      /\ \A m \in DOMAIN processing' : processing'[m] = processing[m]
  <2>1. DOMAIN processing' = DOMAIN processing \ DOMAIN batch
    BY <1>3, Domains
  <2> QED BY <1>3, <2>1, Domains
<1>5. \A m : Aside(m) => Aside(m)'
  BY <1>1, <1>2 DEF Aside, Polls
<1>6. Known'
  BY <1>1, <1>2, <1>4 DEF QueueInv, Known
<1>7. OneSweep' /\ OldAside' /\ FoundAside'
  BY <1>1, <1>4, <1>5 DEF QueueInv, OneSweep, OldAside, FoundAside
<1>8. Moving'
  BY <1>2, <1>3, <1>4 DEF QueueInv, Moving
<1>9. NoMessageLost' /\ Counted' /\ AwaitMeansHandled'
  BY <1>1, <1>3, <1>4 DEF QueueInv, NoMessageLost, Held, Counted, AwaitMeansHandled
<1> QED BY <1>6, <1>7, <1>8, <1>9 DEF QueueInv

LEMMA QueryInv ==
  ASSUME Orderly, QueueInv, Types', NEW t \in Tab, SweepQuery(t)
  PROVE  QueueInv'
<1>1. UNCHANGED <<queued, processing, sent, settled, drain, worker>>
  BY DEF SweepQuery, store, polling
<1>2. /\ sweep'[t].pc = "delete" /\ DOMAIN sweep'[t].found = TimedOut
      /\ \A u \in Tab \ {t} : sweep'[u] = sweep[u]
  BY DEF SweepQuery, QueueInv, Types, ProcessTypes
<1>3. \A u \in Tab : sweep[u].pc = "idle"
  BY DEF SweepQuery, Orderly, Hazards, May
<1>4. \A m : Aside(m) => Aside(m)'
  BY <1>1 DEF Aside, Polls
<1>5. Known'
  BY <1>1, <1>2 DEF QueueInv, Known, TimedOut
<1>6. OneSweep' /\ OldAside'
  BY <1>1, <1>2, <1>3, <1>4 DEF QueueInv, OneSweep, OldAside
<1>7. FoundAside'
  BY <1>1, <1>2, <1>3, <1>4 DEF QueueInv, FoundAside, OldAside, TimedOut
<1>8. Moving' /\ Counted' /\ AwaitMeansHandled'
  BY <1>1 DEF QueueInv, Moving, Counted, AwaitMeansHandled
<1>9. NoMessageLost'
  <2>1. Held \subseteq Held'
    BY <1>2, <1>3 DEF Held
  <2> QED BY <1>1, <2>1 DEF QueueInv, NoMessageLost
<1> QED BY <1>5, <1>6, <1>7, <1>8, <1>9 DEF QueueInv

LEMMA SweepDeleteInv ==
  ASSUME Orderly, QueueInv, Types', NEW t \in Tab, SweepDelete(t)
  PROVE  QueueInv'
<1> DEFINE found == sweep[t].found
<1>1. UNCHANGED <<queued, sent, settled, worker>>
  BY DEF SweepDelete, polling
<1>2. /\ sweep[t].pc = "delete" /\ sweep'[t].pc = "put" /\ sweep'[t].found = found
      /\ \A u \in Tab \ {t} : sweep'[u] = sweep[u]
  BY DEF SweepDelete, QueueInv, Types, ProcessTypes, SweepState
<1>3. /\ DOMAIN processing' = DOMAIN processing \ DOMAIN found
      /\ \A m \in DOMAIN processing' : processing'[m] = processing[m]
  <2>1. processing' = Without(processing, DOMAIN found)
    BY DEF SweepDelete
  <2>2. DOMAIN processing' = DOMAIN processing \ DOMAIN found
    BY <2>1, Domains
  <2> QED BY <2>1, <2>2, Domains
<1>4. /\ drain'.mark = drain.mark /\ drain'.pc = drain.pc /\ drain'.zero = drain.zero
      /\ drain'.swept = (drain.swept \/ drain.pc = "processing")
  BY DEF SweepDelete, QueueInv, Types, ProcessTypes, DrainState
<1>5. \A m : Aside(m) => Aside(m)'
  BY <1>1 DEF Aside, Polls
<1>6. \A m \in DOMAIN found : Aside(m)
  BY <1>2 DEF QueueInv, FoundAside
<1>7. Known'
  BY <1>1, <1>2, <1>3, <1>4 DEF QueueInv, Known
<1>8. OneSweep' /\ OldAside'
  BY <1>1, <1>2, <1>3, <1>5 DEF QueueInv, OneSweep, OldAside
<1>9. FoundAside'
  BY <1>1, <1>2, <1>3, <1>5, <1>6 DEF QueueInv, FoundAside
<1>10. Moving'
  <2>1. ASSUME NEW w \in Worker, worker[w].pc = "delete", NEW m \in DOMAIN worker[w].batch
        PROVE  m \in settled \cup DOMAIN processing'
    <3>1. m \notin DOMAIN found
      BY <1>6, <2>1 DEF Aside, Polls
    <3> QED BY <1>3, <2>1, <3>1 DEF QueueInv, Moving
  <2> QED BY <1>1, <2>1 DEF Moving
<1>11. NoMessageLost'
  <2>1. DOMAIN found \subseteq Held' /\ Held \subseteq Held'
    BY <1>2 DEF Held
  <2> QED BY <1>1, <1>3, <2>1 DEF QueueInv, NoMessageLost
<1>12. Counted' /\ AwaitMeansHandled'
  BY <1>1, <1>4 DEF QueueInv, Counted, AwaitMeansHandled
<1> QED BY <1>7, <1>8, <1>9, <1>10, <1>11, <1>12 DEF QueueInv

LEMMA SweepPutInv ==
  ASSUME Orderly, QueueInv, Types', NEW t \in Tab, SweepPut(t)
  PROVE  QueueInv'
<1> DEFINE found == sweep[t].found
<1>1. UNCHANGED <<processing, sent, worker>>
  BY DEF SweepPut, polling
<1>2. /\ sweep[t].pc = "put" /\ sweep'[t].pc = "idle" /\ DOMAIN sweep'[t].found = {}
      /\ \A u \in Tab \ {t} : sweep'[u] = sweep[u]
  BY DEF SweepPut, QueueInv, Types, ProcessTypes, IdleSweep
<1>3. /\ GivenUp(found) \subseteq DOMAIN found
      /\ DOMAIN queued' = DOMAIN queued \cup (DOMAIN found \ GivenUp(found))
      /\ settled' = settled \cup GivenUp(found)
  <2>1. DOMAIN Retried(found) = DOMAIN found \ GivenUp(found)
    BY DEF Retried
  <2>2. queued' = Merge(queued, Retried(found))
    BY DEF SweepPut
  <2>3. DOMAIN queued' = DOMAIN queued \cup DOMAIN Retried(found)
    BY <2>2, Domains
  <2>4. GivenUp(found) \subseteq DOMAIN found /\ settled' = settled \cup GivenUp(found)
    BY DEF SweepPut, GivenUp
  <2> QED BY <2>1, <2>3, <2>4
<1>4. /\ drain'.mark = drain.mark /\ drain'.pc = drain.pc /\ drain'.zero = drain.zero
      /\ drain'.swept = (drain.swept \/ drain.pc = "processing")
  BY DEF SweepPut, QueueInv, Types, ProcessTypes, DrainState
<1>5. \A m : Aside(m) /\ m \notin DOMAIN found => Aside(m)'
  BY <1>1, <1>3 DEF Aside, Polls
<1>6. \A u \in Tab \ {t} : sweep'[u].pc = "idle"
  BY <1>2 DEF QueueInv, OneSweep
<1>7. DOMAIN found \cap DOMAIN processing = {}
  BY <1>2 DEF QueueInv, FoundAside
<1>8. Known'
  BY <1>1, <1>2, <1>3, <1>4 DEF QueueInv, Known
<1>9. OneSweep' /\ OldAside'
  BY <1>1, <1>2, <1>5, <1>6, <1>7 DEF QueueInv, OneSweep, OldAside
<1>10. FoundAside'
  BY <1>2, <1>6 DEF FoundAside
<1>11. Moving'
  BY <1>1, <1>3 DEF QueueInv, Moving
<1>12. NoMessageLost'
  <2>1. Held \subseteq DOMAIN found
    BY <1>2 DEF QueueInv, OneSweep, Held
  <2> QED BY <1>1, <1>3, <2>1 DEF QueueInv, NoMessageLost
<1>13. Counted' /\ AwaitMeansHandled'
  BY <1>1, <1>3, <1>4 DEF QueueInv, Counted, AwaitMeansHandled
<1> QED BY <1>8, <1>9, <1>10, <1>11, <1>12, <1>13 DEF QueueInv

LEMMA AgeInv ==
  ASSUME Orderly, QueueInv, Types', NEW m \in Message, Age(m)
  PROVE  QueueInv'
<1>1. UNCHANGED <<queued, sent, settled, sweep, drain, worker>>
  BY DEF Age, polling
<1>2. Aside(m)
  BY DEF Age, Orderly, Hazards, May, Aside
<1>3. /\ DOMAIN processing' = DOMAIN processing
      /\ \A k \in DOMAIN processing : k # m => processing'[k] = processing[k]
  BY DEF Age
<1>4. \A k : Aside(k) => Aside(k)'
  BY <1>1 DEF Aside, Polls
<1>5. Known' /\ OneSweep'
  BY <1>1, <1>3 DEF QueueInv, Known, OneSweep
<1>6. OldAside' /\ FoundAside'
  BY <1>1, <1>2, <1>3, <1>4 DEF QueueInv, OldAside, FoundAside
<1>7. Moving' /\ NoMessageLost' /\ Counted' /\ AwaitMeansHandled'
  BY <1>1, <1>3 DEF QueueInv, Moving, NoMessageLost, Held, Counted, AwaitMeansHandled
<1> QED BY <1>5, <1>6, <1>7 DEF QueueInv

LEMMA SendInv ==
  ASSUME QueueInv, Types', NEW t \in Tab, NEW n \in 1..MaxMessages, Send(t, n)
  PROVE  QueueInv'
<1>1. UNCHANGED <<processing, settled, sweep, drain, worker>>
  BY DEF Send
<1>2. /\ DOMAIN queued' = DOMAIN queued \cup (sent + 1 .. sent + n)
      /\ sent' = sent + n /\ sent \in Nat /\ n \in Nat
  BY QueueConstants DEF Send, Merge, QueueInv, Types, StoreTypes
<1>3. \A m \in 1..sent : Aside(m) => Aside(m)'
  BY <1>1, <1>2 DEF Aside, Polls
<1>4. drain.mark \in Nat /\ drain.mark <= sent
  BY QueueConstants DEF QueueInv, Known, Types, ProcessTypes, DrainState
<1>5. Known'
  BY <1>1, <1>2, <1>4 DEF QueueInv, Known
<1>6. OneSweep' /\ OldAside' /\ FoundAside'
  BY <1>1, <1>3 DEF QueueInv, Known, OneSweep, OldAside, FoundAside
<1>7. Moving' /\ Counted' /\ AwaitMeansHandled'
  BY <1>1 DEF QueueInv, Moving, Counted, AwaitMeansHandled
<1>8. NoMessageLost'
  BY <1>1, <1>2 DEF QueueInv, NoMessageLost, Held
<1> QED BY <1>5, <1>6, <1>7, <1>8 DEF QueueInv

LEMMA DrainInv ==
  ASSUME QueueInv, Types', Await \/ CountQueued \/ CountProcessing
  PROVE  QueueInv'
<1>1. UNCHANGED <<queued, processing, sent, settled, sweep, worker>>
  BY DEF Await, CountQueued, CountProcessing, store, polling
<1>2. \A m : Aside(m) => Aside(m)'
  BY <1>1 DEF Aside, Polls
<1>3. OneSweep' /\ OldAside' /\ FoundAside' /\ Moving'
  BY <1>1, <1>2 DEF QueueInv, OneSweep, OldAside, FoundAside, Moving
<1>4. NoMessageLost'
  BY <1>1 DEF QueueInv, NoMessageLost, Held
<1>5. drain \in DrainState /\ sent \in Nat
  BY QueueConstants DEF QueueInv, Types, ProcessTypes, StoreTypes
<1>6. CASE Await
  <2>1. drain'.mark = sent /\ drain'.pc = "queued"
    BY <1>6 DEF Await, IdleDrain
  <2> QED BY <1>1, <1>3, <1>4, <1>5, <2>1 DEF QueueInv, Known, Counted, AwaitMeansHandled
<1>7. CASE CountQueued
  <2>1. /\ drain'.mark = drain.mark /\ drain'.pc = "processing"
        /\ drain'.zero = (queued = << >>)
        /\ drain'.swept = \E t \in Tab : sweep[t].pc = "put"
    BY <1>5, <1>7 DEF CountQueued, DrainState
  <2>2. drain'.zero /\ ~drain'.swept => 1..sent \subseteq settled \cup DOMAIN processing
    <3> SUFFICES ASSUME queued = << >>, \A t \in Tab : sweep[t].pc # "put"
                 PROVE  1..sent \subseteq settled \cup DOMAIN processing
      BY <2>1
    <3>1. DOMAIN queued = {} /\ Held = {}
      BY DEF Held
    <3> QED BY <3>1 DEF QueueInv, NoMessageLost
  <2>3. 1..drain.mark \subseteq 1..sent
    BY <1>5 DEF QueueInv, Known, DrainState
  <2> QED BY <1>1, <1>3, <1>4, <2>1, <2>2, <2>3 DEF QueueInv, Known, Counted, AwaitMeansHandled
<1>8. CASE CountProcessing
  <2>1. /\ drain.pc = "processing" /\ drain'.mark = drain.mark /\ drain'.swept = drain.swept
        /\ drain'.pc = IF drain.zero /\ processing = << >> THEN "done" ELSE "queued"
    BY <1>5, <1>8 DEF CountProcessing, DrainState
  <2> QED BY <1>1, <1>3, <1>4, <2>1 DEF QueueInv, Known, Counted, AwaitMeansHandled
<1> QED BY <1>6, <1>7, <1>8

LEMMA FlushInv ==
  ASSUME QueueInv, Types', FlushQueued \/ FlushAll \/ Flushing
  PROVE  QueueInv'
<1>1. UNCHANGED <<sent, sweep, drain, worker>>
  BY DEF FlushQueued, FlushAll, Flushing, FlushProcessing, FlushDead, FlushDelete, polling
<1>2. PICK q, p : /\ DOMAIN queued' = DOMAIN queued \ q
                  /\ DOMAIN processing' = DOMAIN processing \ p
                  /\ \A m \in DOMAIN processing' : processing'[m] = processing[m]
                  /\ settled' = settled \cup q \cup p
  <2>1. CASE FlushDelete
    <3>1. /\ DOMAIN queued' = DOMAIN queued \ flush.q
          /\ DOMAIN processing' = DOMAIN processing \ flush.p
      BY <2>1, Domains DEF FlushDelete
    <3>2. \A m \in DOMAIN processing' : processing'[m] = processing[m]
      BY <2>1, <3>1, Domains DEF FlushDelete
    <3>3. settled' = settled \cup flush.q \cup flush.p
      BY <2>1 DEF FlushDelete
    <3> QED BY <3>1, <3>2, <3>3
  <2>2. CASE FlushQueued \/ FlushAll \/ FlushProcessing \/ FlushDead
    <3>1. UNCHANGED <<queued, processing, settled>>
      BY <2>2 DEF FlushQueued, FlushAll, FlushProcessing, FlushDead, store
    <3>2. /\ DOMAIN queued' = DOMAIN queued \ {} /\ DOMAIN processing' = DOMAIN processing \ {}
          /\ settled' = settled \cup {} \cup {}
      BY <3>1
    <3> QED BY <3>1, <3>2
  <2> QED BY <2>1, <2>2 DEF Flushing
<1>3. \A m : Aside(m) => Aside(m)'
  BY <1>1, <1>2 DEF Aside, Polls
<1>4. Known' /\ OneSweep'
  BY <1>1, <1>2 DEF QueueInv, Known, OneSweep
<1>5. OldAside' /\ FoundAside'
  BY <1>1, <1>2, <1>3 DEF QueueInv, OldAside, FoundAside
<1>6. Moving'
  BY <1>1, <1>2 DEF QueueInv, Moving
<1>7. NoMessageLost'
  BY <1>1, <1>2 DEF QueueInv, NoMessageLost, Held
<1>8. Counted' /\ AwaitMeansHandled'
  BY <1>1, <1>2 DEF QueueInv, Counted, AwaitMeansHandled
<1> QED BY <1>4, <1>5, <1>6, <1>7, <1>8 DEF QueueInv

LEMMA WorkersInv ==
  ASSUME QueueInv, Types',
         \/ \E w \in Worker : ScanEmpty(w) \/ CallbackFails(w) \/ TimerFires(w)
         \/ \E t \in Tab : Wake(t) \/ Reload(t)
  PROVE  QueueInv'
<1>1. \A w \in Worker : worker[w] \in WorkerState
  BY DEF QueueInv, Types, ProcessTypes
<1>2. \A w \in Worker :
        NextRound(w).pc \in {"scan", "off"} /\ NextRound(w).batch = << >>
  BY <1>1 DEF NextRound, NoWorker, NewWorker, WorkerState
<1>3. UNCHANGED <<store, sent, sweep, settled, drain>>
  BY DEF ScanEmpty, CallbackFails, TimerFires, Wake, Reload
<1>4. ASSUME NEW w \in Worker, ScanEmpty(w) \/ CallbackFails(w) \/ TimerFires(w)
      PROVE  \A v \in Worker : Quiet(v)
  <2>1. \A v \in Worker \ {w} : worker'[v] = worker[v]
    BY <1>4 DEF ScanEmpty, CallbackFails, TimerFires, QueueInv, Types, ProcessTypes
  <2>2. CASE ScanEmpty(w)
    <3>1. worker'[w] = [worker[w] EXCEPT !.pc = "wait", !.timers = @ + 1]
      BY <2>2 DEF ScanEmpty, QueueInv, Types, ProcessTypes
    <3>2. worker'[w].pc = "wait" /\ worker'[w].batch = worker[w].batch
      BY <1>1, <3>1 DEF WorkerState
    <3> QED BY <2>1, <3>2 DEF Quiet
  <2>3. CASE CallbackFails(w)
    <3>1. worker'[w] = NextRound(w)
      BY <2>3 DEF CallbackFails, QueueInv, Types, ProcessTypes
    <3> QED BY <1>2, <2>1, <3>1 DEF Quiet
  <2>4. CASE TimerFires(w)
    <3>1. PICK next \in {NextRound(w), worker[w]} :
            worker'[w] = [next EXCEPT !.timers = worker[w].timers - 1]
      BY <2>4 DEF TimerFires, QueueInv, Types, ProcessTypes
    <3>2. next \in WorkerState
      BY <1>1, RoundType DEF QueueInv, Types
    <3>3. worker'[w].pc = next.pc /\ worker'[w].batch = next.batch
      BY <3>1, <3>2 DEF WorkerState
    <3> QED BY <1>2, <2>1, <3>3 DEF Quiet
  <2> QED BY <1>4, <2>2, <2>3, <2>4
<1>5. ASSUME NEW t \in Tab, Wake(t) PROVE \A v \in Worker : Quiet(v)
  <2>1. \A v \in Worker : worker'[v] \in {worker[v], NextRound(v)}
    BY <1>5 DEF Wake, QueueInv, Types, ProcessTypes
  <2> QED BY <1>2, <2>1 DEF Quiet
<1>6. ASSUME NEW t \in Tab, Reload(t) PROVE \A v \in Worker : Quiet(v)
  <2>1. \A v \in Worker : worker'[v] \in {worker[v], Stop(v), NewWorker}
    BY <1>6 DEF Reload
  <2>2. \A v \in Worker : \/ Stop(v) = NoWorker
                          \/ Stop(v).pc = worker[v].pc /\ Stop(v).batch = worker[v].batch
    BY <1>1 DEF Stop, WorkerState
  <2>3. \A r \in {NewWorker, NoWorker} : r.pc \in {"scan", "off"} /\ r.batch = << >>
    BY DEF NewWorker, NoWorker
  <2> QED BY <2>1, <2>2, <2>3 DEF Quiet
<1> QED BY <1>3, <1>4, <1>5, <1>6, QuietWorkers

LEMMA ReopenInv ==
  ASSUME Orderly, QueueInv, Types', NEW t \in Tab, Reopen(t)
  PROVE  QueueInv'
<1>1. UNCHANGED <<queued, processing, sent, settled>>
  BY DEF Reopen, store
<1>2. /\ sweep[t].pc # "put" /\ sweep'[t].pc = "idle" /\ sweep'[t].found = << >>
      /\ \A u \in Tab \ {t} : sweep'[u] = sweep[u]
  BY DEF Reopen, Orderly, Hazards, May, IdleSweep, QueueInv, Types, ProcessTypes
<1>3. \A r \in {NewWorker, NoWorker} : r.pc \in {"scan", "off"} /\ r.batch = << >>
  BY DEF NewWorker, NoWorker
<1>4. \A w \in Worker : worker'[w] \in {worker[w], NewWorker, NoWorker}
  BY DEF Reopen
<1>5. drain' \in {drain, IdleDrain}
  BY DEF Reopen
<1>6. \A m : Aside(m) => Aside(m)'
  BY <1>1, <1>3, <1>4 DEF Aside, Polls
<1>7. Known'
  <2>1. DOMAIN << >> = {}
    OBVIOUS
  <2>2. \A w \in Worker : DOMAIN worker'[w].batch \subseteq 1..sent
    BY <1>3, <1>4, <2>1 DEF QueueInv, Known
  <2>3. \A u \in Tab : DOMAIN sweep'[u].found \subseteq 1..sent
    BY <1>2, <2>1 DEF QueueInv, Known
  <2>4. drain'.mark <= sent
    BY <1>5 DEF QueueInv, Known, IdleDrain, Types, StoreTypes
  <2> QED BY <1>1, <2>2, <2>3, <2>4 DEF QueueInv, Known
<1>8. OneSweep' /\ OldAside' /\ FoundAside'
  BY <1>1, <1>2, <1>6 DEF QueueInv, OneSweep, OldAside, FoundAside
<1>9. Moving'
  BY <1>1, <1>3, <1>4 DEF QueueInv, Moving
<1>10. NoMessageLost'
  <2>1. Held \subseteq Held'
    BY <1>2 DEF Held
  <2> QED BY <1>1, <2>1 DEF QueueInv, NoMessageLost
<1>11. Counted' /\ AwaitMeansHandled'
  BY <1>1, <1>5 DEF QueueInv, Counted, AwaitMeansHandled, IdleDrain
<1> QED BY <1>7, <1>8, <1>9, <1>10, <1>11 DEF QueueInv

LEMMA StepInv == ASSUME Orderly PROVE QueueInv /\ [Next]_vars => QueueInv'
<1> SUFFICES ASSUME QueueInv, [Next]_vars PROVE QueueInv'
  OBVIOUS
<1>1. Types'
  BY StepTypes DEF QueueInv
<1>2. ASSUME NEW w \in Worker, Poll(w) \/ Return(w) \/ TimerFires(w) PROVE QueueInv'
  BY <1>1, <1>2, WorkersInv, ScanInv, PutInv, DeleteInv, AckInv DEF Poll, Return
<1>3. ASSUME NEW t \in Tab,
             Wake(t) \/ SweepQuery(t) \/ Sweeping(t) \/ Reload(t) \/ Reopen(t)
      PROVE  QueueInv'
  BY <1>1, <1>3, WorkersInv, QueryInv, SweepDeleteInv, SweepPutInv, ReopenInv DEF Sweeping
<1>4. CASE \E t \in Tab, n \in 1..MaxMessages : Send(t, n)
  BY <1>1, <1>4, SendInv
<1>5. CASE \E m \in Message : Age(m)
  BY <1>1, <1>5, AgeInv
<1>6. CASE Await \/ CountQueued \/ CountProcessing
  BY <1>1, <1>6, DrainInv
<1>7. CASE FlushQueued \/ FlushAll \/ Flushing
  BY <1>1, <1>7, FlushInv
<1>8. CASE UNCHANGED vars
  <2>1. \A w \in Worker : Quiet(w)
    BY <1>8 DEF vars, polling, Quiet
  <2> QED BY <1>1, <1>8, <2>1, QuietWorkers DEF vars
<1> QED BY <1>2, <1>3, <1>4, <1>5, <1>6, <1>7, <1>8 DEF Next

-----------------------------------------------------------------------------
(* The waiters: the waiters of a tab are waiting workers of that tab, each  *)
(* once.  A step either leaves the waiters alone and lets those that wait   *)
(* go on waiting, or appends a worker that starts to wait, or leaves some   *)
(* of the waiters of one tab, in their places of before (Rest).             *)

WaitInv == TypeOK /\ WaitersWait

\* Steps that only touch the workers of one tab, and none that still waits:
\* the waiters at the places at are left.
Cut(t, s, at) ==
  /\ at \in [DOMAIN s -> DOMAIN waiters[t]]
  /\ waiters' = [waiters EXCEPT ![t] = s]
  /\ \A i \in DOMAIN s : s[i] = waiters[t][at[i]] /\ worker'[s[i]] = worker[s[i]]
  /\ \A i, j \in DOMAIN s : at[i] = at[j] => i = j
  /\ \A v \in Worker : TabOf[v] # t => worker'[v] = worker[v]

Rest(t) == \E s \in Seq(Worker) : \E at : Cut(t, s, at)

LEMMA KeepWaits ==
  ASSUME WaitInv, UNCHANGED waiters, \A v \in Worker : Waiting(v) => Waiting(v)'
  PROVE  WaitersWait'
<1> SUFFICES ASSUME NEW t \in Tab, NEW i \in DOMAIN waiters[t]
             PROVE  /\ TabOf[waiters[t][i]] = t /\ Waiting(waiters[t][i])'
                    /\ \A j \in DOMAIN waiters[t] : waiters[t][j] = waiters[t][i] => j = i
  BY DEF WaitersWait
<1>1. waiters[t][i] \in Worker
  BY ElementOfSeq DEF WaitInv, TypeOK, WaiterTypes
<1>2. PICK v \in Worker : v = waiters[t][i]
  BY <1>1
<1>3. Waiting(v)
  BY <1>2 DEF WaitInv, WaitersWait
<1>4. Waiting(v)'
  BY <1>3
<1> QED BY <1>2, <1>4 DEF WaitInv, WaitersWait, Waiting

LEMMA RestWaits ==
  ASSUME WaitInv, NEW t \in Tab, Rest(t)
  PROVE  WaitersWait' /\ waiters' \in [Tab -> Seq(Worker)]
<1>1. waiters \in [Tab -> Seq(Worker)]
  BY DEF WaitInv, TypeOK, WaiterTypes
<1>2. PICK s \in Seq(Worker) : \E at : Cut(t, s, at)
  BY DEF Rest
<1>3. PICK at : Cut(t, s, at)
  BY <1>2
<1> USE <1>3 DEF Cut
<1>4. waiters'[t] = s /\ \A u \in Tab \ {t} : waiters'[u] = waiters[u]
  BY <1>1, <1>3
<1>5. ASSUME NEW u \in Tab, NEW i \in DOMAIN waiters'[u]
      PROVE  /\ TabOf[waiters'[u][i]] = u /\ worker'[waiters'[u][i]].pc = "wait"
             /\ \A j \in DOMAIN waiters'[u] : waiters'[u][j] = waiters'[u][i] => j = i
  <2>1. CASE u = t
    <3>1. i \in DOMAIN s /\ at[i] \in DOMAIN waiters[t] /\ s[i] = waiters[t][at[i]]
      BY <1>3, <1>4, <1>5, <2>1
    <3>2. TabOf[s[i]] = t /\ worker[s[i]].pc = "wait"
      BY <3>1 DEF WaitInv, WaitersWait, Waiting
    <3>3. worker'[s[i]].pc = "wait"
      BY <1>3, <3>1, <3>2
    <3>4. ASSUME NEW j \in DOMAIN s, s[j] = s[i] PROVE j = i
      <4>1. at[j] \in DOMAIN waiters[t] /\ s[j] = waiters[t][at[j]]
        BY <1>3
      <4>2. at[j] = at[i]
        BY <3>1, <3>4, <4>1 DEF WaitInv, WaitersWait
      <4> QED BY <1>3, <3>1, <4>2
    <3> QED BY <1>4, <2>1, <3>2, <3>3, <3>4
  <2>2. CASE u # t
    <3>1. waiters'[u] = waiters[u]
      BY <1>4, <2>2
    <3>2. /\ TabOf[waiters[u][i]] = u /\ worker[waiters[u][i]].pc = "wait"
          /\ \A j \in DOMAIN waiters[u] : waiters[u][j] = waiters[u][i] => j = i
      BY <1>5, <3>1 DEF WaitInv, WaitersWait, Waiting
    <3>3. waiters[u][i] \in Worker
      BY <1>1, <1>5, <3>1, ElementOfSeq
    <3>4. worker'[waiters[u][i]] = worker[waiters[u][i]]
      BY <1>3, <2>2, <3>2, <3>3
    <3> QED BY <3>1, <3>2, <3>4
  <2> QED BY <2>1, <2>2
<1>6. WaitersWait'
  BY <1>5 DEF WaitersWait, Waiting
<1> QED BY <1>1, <1>3, <1>6

\* The worker of an entry, and that no other entry is his.
LEMMA Entries ==
  ASSUME WaitInv, NEW t \in Tab, NEW i \in DOMAIN waiters[t]
  PROVE  /\ waiters[t] \in Seq(Worker) /\ waiters[t][i] \in Worker
         /\ worker[waiters[t][i]].pc = "wait" /\ TabOf[waiters[t][i]] = t
         /\ \A j \in DOMAIN waiters[t] : waiters[t][j] = waiters[t][i] => j = i
<1>1. waiters[t] \in Seq(Worker)
  BY DEF WaitInv, TypeOK, WaiterTypes
<1>2. waiters[t][i] \in Worker
  BY <1>1, ElementOfSeq
<1> QED BY <1>1, <1>2 DEF WaitInv, WaitersWait, Waiting

\* What is cut out of a queue of waiters in which w occurs once.
LEMMA UnqueueCuts ==
  ASSUME NEW seq \in Seq(Worker), NEW w \in Worker,
         \A i, j \in DOMAIN seq : seq[i] = seq[j] => i = j
  PROVE  /\ Unqueue(w, seq) \in Seq(Worker)
         /\ \E at \in [DOMAIN Unqueue(w, seq) -> DOMAIN seq] :
              /\ \A i \in DOMAIN Unqueue(w, seq) :
                   Unqueue(w, seq)[i] = seq[at[i]] /\ Unqueue(w, seq)[i] # w
              /\ \A i, j \in DOMAIN Unqueue(w, seq) : at[i] = at[j] => i = j
<1> DEFINE places == {i \in DOMAIN seq : seq[i] = w}
<1>1. CASE places = {}
  <2>1. Unqueue(w, seq) = seq
    BY <1>1 DEF Unqueue
  <2>2. [i \in DOMAIN seq |-> i] \in [DOMAIN seq -> DOMAIN seq]
    OBVIOUS
  <2>3. \A i \in DOMAIN seq : seq[i] # w
    BY <1>1
  <2> QED BY <2>1, <2>2, <2>3
<1>2. ASSUME NEW n \in DOMAIN seq, seq[n] = w
      PROVE  /\ Unqueue(w, seq) \in Seq(Worker)
             /\ \E at \in [DOMAIN Unqueue(w, seq) -> DOMAIN seq] :
                  /\ \A i \in DOMAIN Unqueue(w, seq) :
                       Unqueue(w, seq)[i] = seq[at[i]] /\ Unqueue(w, seq)[i] # w
                  /\ \A i, j \in DOMAIN Unqueue(w, seq) : at[i] = at[j] => i = j
  <2>1. places = {n}
    BY <1>2
  <2>2. Len(seq) \in Nat /\ DOMAIN seq = 1..Len(seq) /\ n \in 1..Len(seq)
    BY <1>2, LenProperties
  <2>3. (CHOOSE i \in places : \A j \in places : i <= j) = n
    BY <2>1, <2>2
  <2> DEFINE rest == [i \in 1..Len(seq) - 1 |-> IF i < n THEN seq[i] ELSE seq[i + 1]]
             at == [i \in 1..Len(seq) - 1 |-> IF i < n THEN i ELSE i + 1]
  <2>4. Unqueue(w, seq) = rest
    BY <2>1, <2>3 DEF Unqueue
  <2>5. /\ DOMAIN at = 1..Len(seq) - 1 /\ DOMAIN rest = 1..Len(seq) - 1
        /\ \A i \in 1..Len(seq) - 1 : /\ at[i] \in DOMAIN seq /\ at[i] # n
                                      /\ rest[i] = seq[at[i]]
        /\ \A i, j \in 1..Len(seq) - 1 : at[i] = at[j] => i = j
    BY <2>2
  <2>6. at \in [1..Len(seq) - 1 -> DOMAIN seq]
    BY <2>5
  <2>7. \A i \in DOMAIN seq : seq[i] \in Worker
    BY ElementOfSeq, <2>2
  <2> HIDE DEF at
  <2>8. \A i \in 1..Len(seq) - 1 : rest[i] \in Worker /\ rest[i] # w
    BY <1>2, <2>5, <2>7
  <2>9. rest \in Seq(Worker)
    <3>1. Len(seq) - 1 \in Nat
      BY <2>2
    <3>2. rest = [i \in 1..Len(seq) - 1 |-> rest[i]]
      OBVIOUS
    <3> QED BY <2>8, <3>1, <3>2, IsASeq
  <2>10. \A i \in DOMAIN rest : rest[i] = seq[at[i]] /\ rest[i] # w
    BY <2>5, <2>8
  <2>11. \A i, j \in DOMAIN rest : at[i] = at[j] => i = j
    BY <2>5
  <2>12. at \in [DOMAIN rest -> DOMAIN seq]
    BY <2>5, <2>6
  <2> HIDE DEF rest
  <2> QED BY <2>4, <2>9, <2>10, <2>11, <2>12
<1> QED BY <1>1, <1>2

LEMMA ScanEmptyWaits ==
  ASSUME WaitInv, NEW w \in Worker, ScanEmpty(w)
  PROVE  WaitersWait' /\ waiters' \in [Tab -> Seq(Worker)]
<1> DEFINE t == TabOf[w]
<1>1. waiters \in [Tab -> Seq(Worker)] /\ worker \in [Worker -> WorkerState]
  BY DEF WaitInv, TypeOK, WaiterTypes, ProcessTypes
<1>2. t \in Tab /\ waiters[t] \in Seq(Worker)
  BY <1>1, QueueConstants
<1> HIDE DEF t
<1>3. /\ worker[w].pc = "scan" /\ worker'[w].pc = "wait"
      /\ \A v \in Worker \ {w} : worker'[v] = worker[v]
      /\ waiters' = [waiters EXCEPT ![t] = Append(@, w)]
  BY <1>1 DEF ScanEmpty, WorkerState, t
<1>4. waiters'[t] = Append(waiters[t], w) /\ \A u \in Tab \ {t} : waiters'[u] = waiters[u]
  BY <1>1, <1>2, <1>3
<1> DEFINE n == Len(waiters[t])
<1>5. /\ Append(waiters[t], w) \in Seq(Worker)
      /\ n \in Nat /\ DOMAIN waiters[t] = 1..n
      /\ DOMAIN Append(waiters[t], w) = 1..n + 1
      /\ Append(waiters[t], w)[n + 1] = w
      /\ \A i \in 1..n : Append(waiters[t], w)[i] = waiters[t][i]
  BY <1>2, AppendProperties, LenProperties
<1>6. waiters' \in [Tab -> Seq(Worker)]
  BY <1>1, <1>3, <1>5
<1> HIDE DEF n
\* The worker that starts to wait was not among the waiters.
<1>7. ASSUME NEW u \in Tab, NEW i \in DOMAIN waiters[u]
      PROVE  /\ waiters[u][i] # w /\ TabOf[waiters[u][i]] = u
             /\ worker'[waiters[u][i]].pc = "wait"
             /\ \A j \in DOMAIN waiters[u] : waiters[u][j] = waiters[u][i] => j = i
  BY <1>3, Entries
<1>8. ASSUME NEW u \in Tab, NEW i \in DOMAIN waiters'[u]
      PROVE  /\ TabOf[waiters'[u][i]] = u /\ worker'[waiters'[u][i]].pc = "wait"
             /\ \A j \in DOMAIN waiters'[u] : waiters'[u][j] = waiters'[u][i] => j = i
  <2>1. CASE u # t
    BY <1>4, <1>7, <1>8, <2>1
  <2>2. CASE u = t
    <3>1. /\ i \in 1..n + 1 /\ DOMAIN waiters'[u] = 1..n + 1 /\ waiters'[u][n + 1] = w
          /\ \A j \in 1..n : waiters'[u][j] = waiters[t][j]
      BY <1>4, <1>5, <1>8, <2>2
    <3>2. CASE i = n + 1
      <4>1. \A j \in 1..n : waiters'[u][j] # w
        BY <1>5, <1>7, <2>2, <3>1
      <4> QED BY <1>3, <1>5, <2>2, <3>1, <3>2, <4>1 DEF t
    <3>3. CASE i \in 1..n
      <4>1. /\ waiters'[u][i] # w /\ TabOf[waiters'[u][i]] = u
            /\ worker'[waiters'[u][i]].pc = "wait"
            /\ \A j \in 1..n : waiters'[u][j] = waiters'[u][i] => j = i
        BY <1>5, <1>7, <2>2, <3>1, <3>3
      <4> QED BY <1>5, <3>1, <4>1
    <3> QED BY <1>5, <3>1, <3>2, <3>3
  <2> QED BY <2>1, <2>2
<1> QED BY <1>6, <1>8 DEF WaitersWait, Waiting

LEMMA WakeWaits ==
  ASSUME WaitInv, NEW t \in Tab, Wake(t)
  PROVE  WaitersWait' /\ waiters' \in [Tab -> Seq(Worker)] /\ waking' \in [Tab -> Nat]
<1>1. /\ waiters \in [Tab -> Seq(Worker)] /\ worker \in [Worker -> WorkerState]
      /\ waking \in [Tab -> Nat]
  BY DEF WaitInv, TypeOK, WaiterTypes, ProcessTypes
<1>2. waking' \in [Tab -> Nat]
  BY <1>1 DEF Wake
<1>3. CASE waiters[t] = << >>
  <2>1. UNCHANGED <<waiters, worker>>
    BY <1>3 DEF Wake
  <2> QED BY <1>1, <1>2, <2>1, KeepWaits DEF Waiting
<1>4. CASE waiters[t] # << >>
  <2>1. PICK s \in Seq(Worker) : s = Tail(waiters[t])
    BY <1>1, <1>4, HeadTailProperties
  <2>2. PICK n \in Nat : n = Len(waiters[t])
    BY <1>1, LenProperties
  <2>3. /\ n # 0 /\ DOMAIN waiters[t] = 1..n /\ DOMAIN s = 1..n - 1
        /\ \A i \in 1..n - 1 : s[i] = waiters[t][i + 1]
        /\ Head(waiters[t]) = waiters[t][1]
    <3>1. waiters[t] \in Seq(Worker)
      BY <1>1
    <3>2. /\ Len(s) = n - 1 /\ \A i \in 1..Len(s) : s[i] = waiters[t][i + 1]
          /\ n # 0
      BY <1>4, <2>1, <2>2, <3>1, HeadTailProperties, EmptySeq
    <3>3. DOMAIN waiters[t] = 1..n /\ DOMAIN s = 1..Len(s)
      BY <2>1, <2>2, <3>1, LenProperties
    <3>4. Head(waiters[t]) = waiters[t][1]
      BY <1>4, <3>1, HeadTailProperties
    <3> QED BY <3>2, <3>3, <3>4
  <2>4. PICK w \in Worker : w = Head(waiters[t])
    BY <2>2, <2>3, Entries
  <2>5. waiters' = [waiters EXCEPT ![t] = s] /\ worker' = [worker EXCEPT ![w] = NextRound(w)]
    BY <1>4, <2>1, <2>4 DEF Wake
  <2>6. \A v \in Worker \ {w} : worker'[v] = worker[v]
    BY <1>1, <2>5
  <2>7. TabOf[w] = t
    BY <2>2, <2>3, <2>4, Entries
  <2>8. \A i \in 1..n - 1 : s[i] # w /\ s[i] \in Worker
    BY <2>2, <2>3, <2>4, Entries
  <2> DEFINE at == [i \in 1..n - 1 |-> i + 1]
  <2>9. /\ at \in [1..n - 1 -> 1..n] /\ \A i \in 1..n - 1 : s[i] = waiters[t][at[i]]
        /\ \A i, j \in 1..n - 1 : at[i] = at[j] => i = j
    BY <2>2, <2>3
  <2> HIDE DEF at
  <2>10. Cut(t, s, at)
    BY <2>3, <2>5, <2>6, <2>7, <2>8, <2>9 DEF Cut
  <2>11. Rest(t)
    BY <2>10 DEF Rest
  <2> QED BY <1>2, <2>11, RestWaits
<1> QED BY <1>3, <1>4

LEMMA TimerWaits ==
  ASSUME WaitInv, NEW w \in Worker, TimerFires(w)
  PROVE  WaitersWait' /\ waiters' \in [Tab -> Seq(Worker)]
<1>1. waiters \in [Tab -> Seq(Worker)] /\ worker \in [Worker -> WorkerState]
  BY DEF WaitInv, TypeOK, WaiterTypes, ProcessTypes
<1>2. PICK t \in Tab : t = TabOf[w]
  BY QueueConstants
<1>3. \A v \in Worker \ {w} : worker'[v] = worker[v]
  BY <1>1 DEF TimerFires
<1>4. waiters[t] \in Seq(Worker) /\ \A i, j \in DOMAIN waiters[t] : waiters[t][i] = waiters[t][j] => i = j
  BY <1>1, Entries
<1> DEFINE seq == waiters[t]
           cut == Unqueue(w, seq)
<1>5. /\ cut \in Seq(Worker)
      /\ \E at \in [DOMAIN cut -> DOMAIN seq] :
           /\ \A i \in DOMAIN cut : cut[i] = seq[at[i]] /\ cut[i] # w
           /\ \A i, j \in DOMAIN cut : at[i] = at[j] => i = j
  BY <1>4, UnqueueCuts
<1>6. PICK s \in Seq(Worker) : s = cut
  BY <1>5
<1>7. waiters' = [waiters EXCEPT ![t] = s]
  BY <1>1, <1>2, <1>6 DEF TimerFires
<1> HIDE DEF cut
<1>8. PICK at \in [DOMAIN s -> DOMAIN seq] :
        /\ \A i \in DOMAIN s : s[i] = seq[at[i]] /\ s[i] # w
        /\ \A i, j \in DOMAIN s : at[i] = at[j] => i = j
  BY <1>5, <1>6
<1>9. \A i \in DOMAIN s : s[i] \in Worker
  BY ElementOfSeq, LenProperties
<1>10. Cut(t, s, at)
  BY <1>2, <1>3, <1>7, <1>8, <1>9 DEF Cut
<1>11. Rest(t)
  BY <1>10 DEF Rest
<1> QED BY <1>11, RestWaits

LEMMA ReloadWaits ==
  ASSUME WaitInv, NEW t \in Tab, Reload(t)
  PROVE  WaitersWait' /\ waiters' \in [Tab -> Seq(Worker)]
<1>1. waiters \in [Tab -> Seq(Worker)] /\ worker \in [Worker -> WorkerState]
  BY DEF WaitInv, TypeOK, WaiterTypes, ProcessTypes
<1>2. PICK new \in Successors(t, Cardinality(Subscribed(t))) :
        worker' = [w \in Worker |-> CASE w \in new -> NewWorker
                                      [] w \in Subscribed(t) -> Stop(w)
                                      [] OTHER -> worker[w]]
  BY DEF Reload
<1>3. new \subseteq Workers(t) /\ (\A v \in new : ~Running(v)) /\ Subscribed(t) \subseteq Workers(t)
  BY <1>2 DEF Successors, Subscribed, Workers
<1>4. PICK at \in Places(waiters[t], Subscribed(t)) :
        waiters' = [waiters EXCEPT ![t] = [i \in DOMAIN at |-> waiters[t][at[i]]]]
  BY DEF Reload
<1>5. PICK n \in Nat : at \in [1..n -> DOMAIN waiters[t]]
  BY <1>1, <1>4, LenProperties DEF Places
<1>6. /\ \A i, j \in 1..n : at[i] = at[j] => i = j
      /\ \A i \in 1..n : at[i] \in DOMAIN waiters[t] /\ waiters[t][at[i]] \notin Subscribed(t)
  <2>1. \A i, j \in 1..n : i < j => at[i] < at[j]
    BY <1>4, <1>5 DEF Places
  <2>2. \A i \in 1..n : at[i] \in {k \in DOMAIN waiters[t] : waiters[t][k] \notin Subscribed(t)}
    BY <1>4, <1>5 DEF Places
  <2>3. \A i \in 1..n : at[i] \in Nat
    BY <1>1, <2>2, LenProperties
  <2> QED BY <2>1, <2>2, <2>3
<1> DEFINE left == [i \in 1..n |-> waiters[t][at[i]]]
<1>7. left \in Seq(Worker) /\ DOMAIN left = 1..n
  <2>1. \A i \in 1..n : waiters[t][at[i]] \in Worker
    BY <1>6, Entries
  <2> QED BY <2>1, IsASeq
<1>8. PICK s \in Seq(Worker) : s = left
  BY <1>7
<1>9. /\ waiters' = [waiters EXCEPT ![t] = s] /\ DOMAIN s = 1..n
      /\ \A i \in 1..n : s[i] = waiters[t][at[i]]
  BY <1>4, <1>5, <1>8
<1> HIDE DEF left
<1>10. \A i \in 1..n : s[i] \in Worker /\ worker'[s[i]] = worker[s[i]]
  <2> SUFFICES ASSUME NEW i \in 1..n PROVE s[i] \in Worker /\ worker'[s[i]] = worker[s[i]]
    OBVIOUS
  <2>1. at[i] \in DOMAIN waiters[t] /\ s[i] = waiters[t][at[i]] /\ s[i] \notin Subscribed(t)
    BY <1>6, <1>9
  <2>2. s[i] \in Worker /\ worker[s[i]].pc = "wait"
    BY <2>1, Entries
  <2>3. s[i] \notin new
    BY <1>3, <2>2 DEF Running
  <2> QED BY <1>2, <2>1, <2>2, <2>3
<1>11. \A v \in Worker : TabOf[v] # t => worker'[v] = worker[v]
  BY <1>2, <1>3 DEF Workers
<1>12. Cut(t, s, at)
  BY <1>5, <1>6, <1>9, <1>10, <1>11 DEF Cut
<1>13. Rest(t)
  BY <1>12 DEF Rest
<1> QED BY <1>13, RestWaits

LEMMA ReopenWaits ==
  ASSUME WaitInv, NEW t \in Tab, Reopen(t)
  PROVE  WaitersWait' /\ waiters' \in [Tab -> Seq(Worker)] /\ waking' \in [Tab -> Nat]
<1>1. waking \in [Tab -> Nat]
  BY DEF WaitInv, TypeOK, WaiterTypes
<1>2. waking' \in [Tab -> Nat]
  BY <1>1 DEF Reopen
<1>3. << >> \in Seq(Worker) /\ DOMAIN << >> = {}
  OBVIOUS
<1>4. waiters' = [waiters EXCEPT ![t] = << >>] /\ \A v \in Worker : TabOf[v] # t => worker'[v] = worker[v]
  BY DEF Reopen
<1>5. << >> \in [{} -> DOMAIN waiters[t]]
  OBVIOUS
<1>6. Cut(t, << >>, << >>)
  BY <1>3, <1>4, <1>5 DEF Cut
<1>7. Rest(t)
  BY <1>3, <1>6 DEF Rest
<1> QED BY <1>2, <1>7, RestWaits

\* Workers that scan, move messages or hand them out are not among the waiters.
LEMMA OtherWaits ==
  ASSUME WaitInv, [Next]_vars,
         \A w \in Worker : ~(ScanEmpty(w) \/ TimerFires(w)),
         \A t \in Tab : ~(Wake(t) \/ Reload(t) \/ Reopen(t))
  PROVE  WaitersWait' /\ waiters' \in [Tab -> Seq(Worker)] /\ waking' \in [Tab -> Nat]
<1>1. /\ waiters \in [Tab -> Seq(Worker)] /\ worker \in [Worker -> WorkerState]
      /\ waking \in [Tab -> Nat]
  BY DEF WaitInv, TypeOK, WaiterTypes, ProcessTypes
<1>2. ASSUME NEW w \in Worker, Scan(w) \/ PutProcessing(w) \/ DeleteQueued(w) \/ Return(w)
      PROVE  UNCHANGED <<waking, waiters>> /\ \A v \in Worker : Waiting(v) => Waiting(v)'
  <2>1. /\ UNCHANGED <<waking, waiters>> /\ worker[w].pc # "wait"
        /\ \E new : worker' = [worker EXCEPT ![w] = new]
    BY <1>2 DEF Scan, PutProcessing, DeleteQueued, Return, Ack, CallbackFails
  <2> QED BY <1>1, <2>1 DEF Waiting
<1>3. ASSUME NEW t \in Tab, SweepQuery(t) \/ Sweeping(t)
      PROVE  UNCHANGED <<waking, waiters, worker>>
  BY <1>3 DEF SweepQuery, Sweeping, SweepDelete, SweepPut, polling
<1>4. ASSUME NEW t \in Tab, NEW n \in 1..MaxMessages, Send(t, n)
      PROVE  UNCHANGED <<waiters, worker>> /\ waking' \in [Tab -> Nat]
  BY <1>1, <1>4 DEF Send
<1>5. ASSUME NEW m \in Message, Age(m)
      PROVE  UNCHANGED <<waking, waiters, worker>>
  BY <1>5 DEF Age, polling
<1>6. CASE Await \/ CountQueued \/ CountProcessing \/ FlushQueued \/ FlushAll \/ Flushing
  <2>1. UNCHANGED <<waking, waiters, worker>>
    BY <1>6 DEF Await, CountQueued, CountProcessing, FlushQueued, FlushAll, Flushing,
                FlushProcessing, FlushDead, FlushDelete, polling
  <2> QED BY <1>1, <2>1, KeepWaits DEF Waiting
<1>7. CASE UNCHANGED vars
  <2>1. UNCHANGED <<waking, waiters, worker>>
    BY <1>7 DEF vars, polling
  <2> QED BY <1>1, <2>1, KeepWaits DEF Waiting
<1>8. CASE \E w \in Worker : Poll(w) \/ Return(w)
  <2>1. PICK w \in Worker : Scan(w) \/ PutProcessing(w) \/ DeleteQueued(w) \/ Return(w)
    BY <1>8 DEF Poll
  <2> QED BY <1>1, <1>2, <2>1, KeepWaits
<1>9. CASE \E t \in Tab : SweepQuery(t) \/ Sweeping(t)
  <2>1. UNCHANGED <<waking, waiters, worker>>
    BY <1>3, <1>9
  <2> QED BY <1>1, <2>1, KeepWaits DEF Waiting
<1>10. CASE \E t \in Tab, n \in 1..MaxMessages : Send(t, n)
  <2>1. UNCHANGED <<waiters, worker>> /\ waking' \in [Tab -> Nat]
    BY <1>4, <1>10
  <2> QED BY <1>1, <2>1, KeepWaits DEF Waiting
<1>11. CASE \E m \in Message : Age(m)
  <2>1. UNCHANGED <<waking, waiters, worker>>
    BY <1>5, <1>11
  <2> QED BY <1>1, <2>1, KeepWaits DEF Waiting
<1> QED BY <1>6, <1>7, <1>8, <1>9, <1>10, <1>11 DEF Next, Poll

LEMMA StepWaits == WaitInv /\ [Next]_vars => WaitInv'
<1> SUFFICES ASSUME WaitInv, [Next]_vars PROVE WaitInv'
  OBVIOUS
<1>1. Types'
  BY StepTypes DEF WaitInv, TypeOK, Types
<1>2. waking \in [Tab -> Nat]
  BY DEF WaitInv, TypeOK, WaiterTypes
<1>3. WaitersWait' /\ waiters' \in [Tab -> Seq(Worker)] /\ waking' \in [Tab -> Nat]
  <2>1. CASE \E w \in Worker : ScanEmpty(w) \/ TimerFires(w)
    <3>1. waking' = waking
      BY <2>1 DEF ScanEmpty, TimerFires
    <3> QED BY <1>2, <2>1, <3>1, ScanEmptyWaits, TimerWaits
  <2>2. CASE \E t \in Tab : Wake(t) \/ Reload(t) \/ Reopen(t)
    <3>1. ASSUME NEW t \in Tab, Reload(t) PROVE waking' = waking
      BY <3>1 DEF Reload
    <3> QED BY <1>2, <2>2, <3>1, WakeWaits, ReloadWaits, ReopenWaits
  <2> QED BY <2>1, <2>2, OtherWaits
<1> QED BY <1>1, <1>3 DEF WaitInv, TypeOK, Types, WaiterTypes

LEMMA InitWaits == Init => WaitInv
<1> SUFFICES ASSUME Init PROVE WaitInv
  OBVIOUS
<1>1. Types
  BY InitTypes
<1>2. waiters = [t \in Tab |-> << >>] /\ waking = [t \in Tab |-> 0]
  BY DEF Init
<1>3. << >> \in Seq(Worker) /\ DOMAIN << >> = {}
  OBVIOUS
<1> QED BY <1>1, <1>2, <1>3 DEF WaitInv, TypeOK, Types, WaiterTypes, WaitersWait

-----------------------------------------------------------------------------
(* Theorems. *)

\* Every variable of the queue, its workers and their waiters keeps its type.
THEOREM QueueTypes == Spec => []TypeOK
<1>1. WaitInv => TypeOK
  BY DEF WaitInv
<1> QED BY <1>1, InitWaits, StepWaits, PTL DEF Spec

\* A waiter that is woken up or removed was waiting: no wake-up is spent on a
\* worker that is gone or busy, however polls, timers, reloads and closed tabs
\* meet.
THEOREM WaitersSafe == Spec => []WaitersWait
<1>1. WaitInv => WaitersWait
  BY DEF WaitInv
<1> QED BY <1>1, InitWaits, StepWaits, PTL DEF Spec

\* No message is lost while none of the hazards happens: no tab dies between
\* the two writes of a requeue, no two requeues coincide, and no worker stalls
\* for the whole timeout.  Reloads, closed tabs, flushes and failing callbacks
\* are in.
THEOREM QueueSafe == ASSUME Troubles \cap Hazards = {} PROVE Spec => []NoMessageLost
<1>1. Init => QueueInv
  BY InitInv
<1>2. QueueInv /\ [Next]_vars => QueueInv'
  BY StepInv DEF Orderly
<1>3. QueueInv => NoMessageLost
  BY DEF QueueInv
<1> QED BY <1>1, <1>2, <1>3, PTL DEF Spec

\* Under the same assumption an awaitEmptyQueue that no requeue disturbed
\* returns only when everything sent before it has been dealt with.
THEOREM AwaitSafe == ASSUME Troubles \cap Hazards = {} PROVE Spec => []AwaitMeansHandled
<1>1. Init => QueueInv
  BY InitInv
<1>2. QueueInv /\ [Next]_vars => QueueInv'
  BY StepInv DEF Orderly
<1>3. QueueInv => AwaitMeansHandled
  BY DEF QueueInv
<1> QED BY <1>1, <1>2, <1>3, PTL DEF Spec

-----------------------------------------------------------------------------
(* The refinement: the queue keeps the promise of Delivery. *)

\* What is settled, or about to be flushed, was sent.
SettledSent == settled \cup flush.q \cup flush.p \subseteq 1..sent

PromiseInv == QueueInv /\ SettledSent

\* A step sends, or settles, or neither; nothing is ever unsettled.
LEMMA StepSettles ==
  ASSUME PromiseInv, [Next]_vars
  PROVE  \/ sent' = sent /\ settled \subseteq settled' /\ SettledSent'
         \/ \E n \in 1..MaxMessages :
              sent' = sent + n /\ UNCHANGED <<settled, flush>>
<1> USE DEF PromiseInv, SettledSent
<1>1. DOMAIN queued \subseteq 1..sent /\ DOMAIN processing \subseteq 1..sent
  BY DEF QueueInv, Known
<1>2. ASSUME NEW w \in Worker, Poll(w) \/ Return(w) \/ TimerFires(w)
      PROVE  sent' = sent /\ settled \subseteq settled' /\ SettledSent'
  <2>1. DOMAIN worker[w].batch \subseteq 1..sent
    BY DEF QueueInv, Known
  <2>2. CASE Ack(w)
    <3>1. UNCHANGED <<sent, flush>> /\ settled' = settled \cup DOMAIN worker[w].batch
      BY <2>2 DEF Ack
    <3> QED BY <2>1, <3>1
  <2>3. CASE Poll(w) \/ CallbackFails(w) \/ TimerFires(w)
    <3>1. UNCHANGED <<sent, flush, settled>>
      BY <2>3 DEF Poll, ScanEmpty, Scan, PutProcessing, DeleteQueued, CallbackFails,
                  TimerFires
    <3> QED BY <3>1
  <2> QED BY <1>2, <2>2, <2>3 DEF Return
<1>3. ASSUME NEW t \in Tab,
             Wake(t) \/ SweepQuery(t) \/ Sweeping(t) \/ Reload(t) \/ Reopen(t)
      PROVE  sent' = sent /\ settled \subseteq settled' /\ SettledSent'
  <2>1. GivenUp(sweep[t].found) \subseteq 1..sent
    BY DEF GivenUp, QueueInv, Known
  <2>2. CASE SweepPut(t)
    <3>1. /\ UNCHANGED <<sent, flush>>
          /\ settled' = settled \cup GivenUp(sweep[t].found)
      BY <2>2 DEF SweepPut
    <3> QED BY <2>1, <3>1
  <2>3. CASE Wake(t) \/ SweepQuery(t) \/ SweepDelete(t) \/ Reload(t) \/ Reopen(t)
    <3>1. UNCHANGED <<sent, settled>> /\ flush' \in {flush, IdleFlush}
      BY <2>3 DEF Wake, SweepQuery, SweepDelete, Reload, Reopen
    <3> QED BY <3>1 DEF IdleFlush
  <2> QED BY <1>3, <2>2, <2>3 DEF Sweeping
<1>4. CASE \E t \in Tab, n \in 1..MaxMessages : Send(t, n)
  <2>1. \E n \in 1..MaxMessages : sent' = sent + n /\ UNCHANGED <<settled, flush>>
    BY <1>4 DEF Send
  <2> QED BY <2>1
<1>5. CASE (\E m \in Message : Age(m)) \/ Await \/ CountQueued \/ CountProcessing
  <2>1. UNCHANGED <<sent, settled, flush>>
    BY <1>5 DEF Age, Await, CountQueued, CountProcessing
  <2> QED BY <2>1
<1>6. CASE FlushQueued \/ FlushAll \/ FlushProcessing \/ FlushDead
  <2>1. UNCHANGED <<sent, settled>>
    BY <1>6 DEF FlushQueued, FlushAll, FlushProcessing, FlushDead
  <2>2. flush \in FlushState
    BY DEF QueueInv, Types, ProcessTypes
  <2>3. /\ flush'.q \in {flush.q, DOMAIN queued}
        /\ flush'.p \in {flush.p, {}, DOMAIN processing}
    <3>1. CASE FlushQueued
      <4>1. flush' = [pc |-> "processing", q |-> DOMAIN queued, p |-> {}, d |-> {}]
        BY <3>1 DEF FlushQueued, IdleFlush
      <4> QED BY <4>1
    <3>2. CASE FlushAll
      BY <3>2 DEF FlushAll
    <3>3. CASE FlushProcessing \/ FlushDead
      BY <2>2, <3>3 DEF FlushProcessing, FlushDead, FlushState
    <3> QED BY <1>6, <3>1, <3>2, <3>3
  <2>4. flush'.q \subseteq 1..sent /\ flush'.p \subseteq 1..sent
    BY <1>1, <2>3
  <2> QED BY <2>1, <2>4
<1>7. CASE FlushDelete
  <2>1. /\ sent' = sent /\ settled' = settled \cup flush.q \cup flush.p
        /\ flush' = IdleFlush
    BY <1>7 DEF FlushDelete
  <2> QED BY <2>1 DEF IdleFlush
<1>8. CASE UNCHANGED vars
  BY <1>8 DEF vars
<1> QED BY <1>2, <1>3, <1>4, <1>5, <1>6, <1>7, <1>8 DEF Next, Flushing

LEMMA PendingSent == PromiseInv => Pending = 1..sent \ settled
<1> SUFFICES ASSUME PromiseInv PROVE Pending = 1..sent \ settled
  OBVIOUS
<1>1. Held \subseteq 1..sent
  BY DEF PromiseInv, QueueInv, Known, Held
<1> QED BY <1>1 DEF PromiseInv, QueueInv, Known, NoMessageLost, Pending

LEMMA StepPromise ==
  ASSUME Orderly, PromiseInv, [Next]_vars
  PROVE  PromiseInv' /\ [Promise!Next]_<<sent, Pending, settled>>
<1>1. QueueInv'
  BY StepInv DEF PromiseInv
<1>2. sent \in 0..MaxMessages /\ sent' \in 0..MaxMessages
  BY <1>1 DEF PromiseInv, QueueInv, Types, StoreTypes
<1>3. CASE sent' = sent /\ settled \subseteq settled' /\ SettledSent'
  <2>1. PromiseInv'
    BY <1>1, <1>3 DEF PromiseInv
  <2>2. Pending = 1..sent \ settled /\ Pending' = 1..sent \ settled'
    <3>1. (PromiseInv => Pending = 1..sent \ settled)'
      BY PendingSent, PTL
    <3> QED BY <1>3, <2>1, <3>1, PendingSent
  <2>3. settled' \subseteq 1..sent
    BY <1>3 DEF SettledSent
  <2>4. PICK S \in SUBSET Pending : S = settled' \ settled
    BY <2>2, <2>3
  <2>5. Promise!Settle(S)
    BY <1>3, <2>2, <2>3, <2>4 DEF Promise!Settle
  <2> QED BY <2>1, <2>5 DEF Promise!Next
<1>4. ASSUME NEW n \in 1..MaxMessages, sent' = sent + n, UNCHANGED <<settled, flush>>
      PROVE  PromiseInv' /\ [Promise!Next]_<<sent, Pending, settled>>
  <2>1. 1..sent \subseteq 1..sent' /\ 1..sent' = (1..sent) \cup (sent + 1 .. sent + n)
    BY <1>2, <1>4, QueueConstants
  <2>2. PromiseInv'
    BY <1>1, <1>4, <2>1 DEF PromiseInv, SettledSent
  <2>3. Pending = 1..sent \ settled /\ Pending' = 1..sent' \ settled
    <3>1. (PromiseInv => Pending = 1..sent \ settled)'
      BY PendingSent, PTL
    <3> QED BY <1>4, <2>2, <3>1, PendingSent
  <2>4. (sent + 1 .. sent + n) \cap settled = {}
    BY <1>2, <1>4 DEF PromiseInv, SettledSent
  <2>5. Promise!Submit(n)
    BY <1>4, <2>1, <2>3, <2>4 DEF Promise!Submit
  <2> QED BY <2>2, <2>5 DEF Promise!Next
<1> QED BY <1>3, <1>4, StepSettles

\* Whatever the tabs and workers do, the stores together behave as the queue
\* that Delivery describes, under the assumption of QueueSafe.
THEOREM QueueKeepsPromise ==
  ASSUME Troubles \cap Hazards = {} PROVE Spec => KeepsPromise
<1>1. Init => PromiseInv /\ Promise!Init
  <2> SUFFICES ASSUME Init PROVE PromiseInv /\ Promise!Init
    OBVIOUS
  <2>1. QueueInv
    BY InitInv
  <2>2. sent = 0 /\ settled = {} /\ flush = IdleFlush
    BY DEF Init
  <2>3. PromiseInv
    BY <2>1, <2>2 DEF PromiseInv, SettledSent, IdleFlush
  <2>4. Pending = {}
    BY <2>2, <2>3, PendingSent
  <2> QED BY <2>2, <2>3, <2>4 DEF Promise!Init
<1>2. PromiseInv /\ [Next]_vars
        => PromiseInv' /\ [Promise!Next]_<<sent, Pending, settled>>
  BY StepPromise DEF Orderly
<1> QED BY <1>1, <1>2, PTL DEF Spec, KeepsPromise, Promise!Spec
============================================================================
