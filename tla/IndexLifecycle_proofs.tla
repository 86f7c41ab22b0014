----------------------- MODULE IndexLifecycle_proofs -----------------------
(* Theorems about IndexLifecycle, for any number of pages and tabs, and any  *)
(* number of reindexes and things that go wrong.                             *)
EXTENDS IndexLifecycle, TLAPS

-----------------------------------------------------------------------------
(* Types. *)

Locked == {"recheck", "mark", "collect", "clear", "send", "settle", "unmark"}

\* What a step must show of the runs.
RunTypes ==
  /\ pc \in [Run -> {"idle", "check", "drain", "lock"} \cup Locked]
  /\ keys \in [Run -> SUBSET Path]
  /\ lock \subseteq {r \in Run : pc[r] \in Locked}
DataTypes ==
  /\ version \in {None, Earlier, Desired} /\ marker \in BOOLEAN
  /\ old \subseteq Path /\ new \subseteq Path /\ seen \subseteq Path
  /\ queued \subseteq Message /\ lost \subseteq Message /\ dropped \subseteq Path
  /\ taken \in [Tab -> SUBSET Message] /\ done \in [Tab -> SUBSET Message]
  /\ \A t \in Tab : done[t] \subseteq taken[t]
  /\ listed \in [Tab -> BOOLEAN] /\ handler \in [Tab -> {"unread", "on", "marking", "off"}]
  /\ manuals \in 0..MaxManual /\ troubles \in 0..MaxTroubles

LEMMA TypeParts == TypeOK <=> RunTypes /\ DataTypes
BY DEF TypeOK, RunTypes, DataTypes, Locked

LEMMA InitTypes == Init => TypeOK
<1> SUFFICES ASSUME Init PROVE RunTypes /\ DataTypes
  BY TypeParts
<1>1. MaxManual \in Nat /\ MaxTroubles \in Nat
  BY IndexConstants
<1>2. RunTypes
  BY DEF Init, RunTypes
<1>3. DataTypes
  <2>1. version \in {None, Earlier, Desired} /\ marker \in BOOLEAN
    BY DEF Init
  <2>2. old \subseteq Path /\ new \subseteq Path /\ seen \subseteq Path
    BY DEF Init
  <2>3. manuals \in 0..MaxManual /\ troubles \in 0..MaxTroubles
    BY <1>1 DEF Init
  <2> QED BY <2>1, <2>2, <2>3 DEF Init, DataTypes
<1> QED BY <1>2, <1>3

LEMMA RunTypesStep ==
  ASSUME TypeOK, [Next]_vars
  PROVE  RunTypes'
<1> USE DEF RunTypes, Locked, flags, index, queue, tabs, runs, Go
<1>0. RunTypes /\ DataTypes
  BY TypeParts
<1>1. ASSUME NEW t \in Tab,
             ListStep(t) \/ WorkerStep(t) \/ ReadVersion(t) \/ Marked(t) \/ Fail(t)
      PROVE RunTypes'
  BY <1>0, <1>1
  DEF ListStep, Listed, See, WorkerStep, Indexed, Ack, EmptyQueue, Poll, ReadVersion, Marked, Fail
<1>2. ASSUME NEW t \in Tab, Close(t) PROVE RunTypes'
  BY <1>0, <1>2 DEF Close
<1>3. ASSUME NEW r \in Run, Ensure(r) \/ Reindex(r) \/ Lock(r) PROVE RunTypes'
  BY <1>0, <1>3 DEF Ensure, Reindex, Lock
<1>4. ASSUME NEW r \in Run, Check(r) \/ Drain(r) \/ Recheck(r) \/ Mark(r) PROVE RunTypes'
  BY <1>0, <1>4 DEF Check, Drain, Recheck, Mark
<1>5. ASSUME NEW r \in Run, Collect(r) PROVE RunTypes'
  BY <1>0, <1>5 DEF Collect, DataTypes
<1>6. ASSUME NEW r \in Run, NEW p \in Path, Clear(r, p) PROVE RunTypes'
  BY <1>0, <1>6 DEF Clear
<1>7. ASSUME NEW r \in Run, Unversion(r) \/ Send(r) \/ Settle(r) \/ Unmark(r) PROVE RunTypes'
  BY <1>0, <1>7 DEF Unversion, Send, Settle, Unmark
<1>8. CASE Requeue
  BY <1>0, <1>8 DEF Requeue
<1>9. CASE UNCHANGED vars
  BY <1>0, <1>9 DEF vars
<1> QED BY <1>1, <1>2, <1>3, <1>4, <1>5, <1>6, <1>7, <1>8, <1>9 DEF Next, RunStep

LEMMA DataTypesStep ==
  ASSUME TypeOK, [Next]_vars
  PROVE  DataTypes'
<1> USE DEF DataTypes, flags, index, queue, tabs, runs
<1>0. RunTypes /\ DataTypes
  BY TypeParts
<1>1. ASSUME NEW t \in Tab, ListStep(t) PROVE DataTypes'
  <2>1. ASSUME NEW p \in Path, See(t, p) PROVE DataTypes'
    <3>1. <<p, 0>> \in Message
      BY IndexConstants DEF Message
    <3> QED BY <1>0, <2>1, <3>1 DEF See
  <2>2. ASSUME Listed(t) PROVE DataTypes'
    BY <1>0, <2>2 DEF Listed
  <2> QED BY <1>1, <2>1, <2>2 DEF ListStep
<1>2. ASSUME NEW t \in Tab, WorkerStep(t) PROVE DataTypes'
  <2>1. ASSUME NEW m \in taken[t], Indexed(t, m) PROVE DataTypes'
    BY <1>0, <2>1 DEF Indexed, Message
  <2>2. ASSUME Poll(t) PROVE DataTypes'
    BY <1>0, <2>2 DEF Poll
  <2>3. ASSUME Ack(t) \/ EmptyQueue(t) PROVE DataTypes'
    BY <1>0, <2>3 DEF Ack, EmptyQueue
  <2> QED BY <1>2, <2>1, <2>2, <2>3 DEF WorkerStep
<1>3. ASSUME NEW t \in Tab, ReadVersion(t) \/ Marked(t) PROVE DataTypes'
  BY <1>0, <1>3 DEF ReadVersion, Marked
<1>4. ASSUME NEW t \in Tab, Close(t) PROVE DataTypes'
  BY <1>0, <1>4, IndexConstants DEF Close, Lose
<1>9. ASSUME NEW t \in Tab, Fail(t) PROVE DataTypes'
  BY <1>0, <1>9, IndexConstants DEF Fail, Lose
<1>5. ASSUME NEW r \in Run, Ensure(r) \/ Reindex(r) \/ Lock(r) PROVE DataTypes'
  BY <1>0, <1>5, IndexConstants DEF Ensure, Reindex, Lock
<1>6. ASSUME NEW r \in Run, RunStep(r) PROVE DataTypes'
  <2>1. ASSUME Send(r) PROVE DataTypes'
    BY <1>0, <2>1, IndexConstants DEF Send, Message
  <2> QED
    BY <1>0, <1>6, <2>1
    DEF RunStep, Check, Drain, Recheck, Mark, Collect, Clear, Unversion, Settle, Unmark
<1>7. CASE Requeue
  <2>1. queued' \subseteq Message
    BY <1>0, <1>7, IndexConstants DEF Requeue, Message
  <2>2. dropped' \subseteq Path
    BY <1>0, <1>7 DEF Requeue, Message, Pages
  <2> QED BY <1>0, <1>7, <2>1, <2>2 DEF Requeue
<1>8. CASE UNCHANGED vars
  BY <1>0, <1>8 DEF vars
<1> QED BY <1>1, <1>2, <1>3, <1>4, <1>5, <1>6, <1>7, <1>8, <1>9 DEF Next

\* The type invariant; with it, that a run which has the lock is between Recheck or Mark
\* and its end (ensureFullIndex, reindexSpace), whatever tab is closed.
THEOREM IndexTypes == Spec => []TypeOK
<1>1. TypeOK /\ [Next]_vars => TypeOK'
  <2> SUFFICES ASSUME TypeOK, [Next]_vars PROVE RunTypes' /\ DataTypes'
    BY DEF TypeOK, RunTypes, DataTypes, Locked
  <2> QED BY RunTypesStep, DataTypesStep
<1> QED BY InitTypes, <1>1, PTL DEF Spec

-----------------------------------------------------------------------------
(* One reindex at a time. *)

\* Who reindexes has the lock, alone; and a run of ensureFullIndex goes on only as long as
\* the version is not the desired one, for nobody else sets it.
Alone ==
  /\ \A r \in Run : pc[r] \in Locked => r \in lock
  /\ \A r, s \in lock : r = s
  /\ \A r \in Run : r[2] # "manual" /\ pc[r] \in {"mark", "collect", "clear"} => version # Desired

LEMMA AloneStep ==
  ASSUME TypeOK, Alone, [Next]_vars, {"early", "unlocked"} \cap Troubles = {}
  PROVE  Alone'
<1> USE DEF Alone, Locked, flags, index, queue, tabs, runs, Go
<1>0. /\ Alone /\ lock \subseteq {r \in Run : pc[r] \in Locked}
      /\ pc \in [Run -> {"idle", "check", "drain", "lock"} \cup Locked]
      /\ ~May("early") /\ ~May("unlocked")
  BY TypeParts DEF RunTypes, May
<1>1. ASSUME NEW t \in Tab, ListStep(t) \/ ReadVersion(t) \/ Marked(t) \/ Ack(t) \/ Fail(t)
      PROVE Alone'
  BY <1>0, <1>1 DEF ListStep, Listed, See, ReadVersion, Marked, Ack, Fail
<1>2. ASSUME NEW t \in Tab, EmptyQueue(t) PROVE Alone'
  BY <1>0, <1>2 DEF EmptyQueue, Fresh
<1>3. ASSUME NEW t \in Tab, NEW m \in taken[t], Indexed(t, m) PROVE Alone'
  BY <1>0, <1>3 DEF Indexed
<1>14. ASSUME NEW t \in Tab, Poll(t) PROVE Alone'
  BY <1>0, <1>14 DEF Poll
<1>4. ASSUME NEW t \in Tab, Close(t) PROVE Alone'
  <2>1. /\ lock' = {r \in lock : r[1] # t} /\ version' = version
        /\ pc' = [r \in Run |-> IF r[1] = t THEN "idle" ELSE pc[r]]
    BY <1>4 DEF Close
  <2> QED BY <1>0, <2>1
<1>5. ASSUME NEW r \in Run, Ensure(r) \/ Reindex(r) \/ Check(r) \/ Drain(r) PROVE Alone'
  BY <1>0, <1>5 DEF Ensure, Reindex, Check, Drain
<1>6. ASSUME NEW r \in Run, Lock(r) PROVE Alone'
  <2>1. /\ lock = {} /\ lock' = {r} /\ version' = version
        /\ pc' = [pc EXCEPT ![r] = IF r[2] = "manual" THEN "mark" ELSE "recheck"]
    BY <1>0, <1>6 DEF Lock
  <2>2. \A s \in Run : pc[s] \notin Locked
    BY <1>0, <2>1
  <2> QED BY <1>0, <2>1, <2>2
<1>7. ASSUME NEW r \in Run, Recheck(r) PROVE Alone'
  <2>1. /\ pc[r] = "recheck" /\ version' = version
        /\ \/ pc' = [pc EXCEPT ![r] = "idle"] /\ lock' = lock \ {r}
           \/ version # Desired /\ pc' = [pc EXCEPT ![r] = "mark"] /\ lock' = lock
    BY <1>7 DEF Recheck
  <2> QED BY <1>0, <2>1
<1>8. ASSUME NEW r \in Run, Mark(r) \/ Collect(r) \/ Send(r) PROVE Alone'
  BY <1>0, <1>8 DEF Mark, Collect, Send
<1>9. ASSUME NEW r \in Run, NEW p \in Path, Clear(r, p) PROVE Alone'
  BY <1>0, <1>9 DEF Clear
<1>10. ASSUME NEW r \in Run, Unversion(r) PROVE Alone'
  BY <1>0, <1>10 DEF Unversion, None, Desired
<1>11. ASSUME NEW r \in Run, Settle(r) PROVE Alone'
  <2>1. pc[r] = "settle" /\ pc' = [pc EXCEPT ![r] = "unmark"] /\ lock' = lock
    BY <1>11 DEF Settle
  <2>2. \A s \in Run : s # r => pc[s] \notin Locked
    BY <1>0, <2>1
  <2> QED BY <1>0, <2>1, <2>2
<1>12. ASSUME NEW r \in Run, Unmark(r) PROVE Alone'
  <2>1. /\ pc' = [pc EXCEPT ![r] = "idle"] /\ lock' = lock \ {r} /\ version' = version
    BY <1>12 DEF Unmark
  <2> QED BY <1>0, <2>1
<1>13. CASE Requeue \/ UNCHANGED vars
  BY <1>0, <1>13 DEF Requeue, vars
<1> QED
  BY <1>1, <1>2, <1>3, <1>4, <1>5, <1>6, <1>7, <1>8, <1>9, <1>10, <1>11, <1>12, <1>13, <1>14
  DEF Next, RunStep, WorkerStep

LEMMA InitAlone == Init => Alone
BY DEF Init, Alone, Locked

\* Only the lock and the second look at the version (ensureFullIndex) keep a tab from
\* clearing what another tab has just indexed.
THEOREM ClearedOnce ==
  ASSUME {"early", "unlocked"} \cap Troubles = {}
  PROVE  Spec => DoneOnce
<1> DEFINE Once == new \subseteq new' \/ version # Desired \/ \E r \in lock : r[2] = "manual"
<1>1. TypeOK /\ Alone /\ [Next]_vars => [Once]_vars
  <2> SUFFICES ASSUME TypeOK, Alone, Next PROVE Once
    OBVIOUS
  <2> USE DEF flags, index, queue, tabs, runs
  <2>1. ASSUME NEW r \in Run, NEW p \in Path, Clear(r, p) PROVE Once
    BY <2>1 DEF Clear, Alone, Locked
  <2>2. ASSUME NEW t \in Tab, ListStep(t) \/ WorkerStep(t) PROVE new \subseteq new'
    BY <2>2 DEF ListStep, Listed, See, WorkerStep, Indexed, Ack, EmptyQueue, Poll
  <2>3. ASSUME NEW t \in Tab, ReadVersion(t) \/ Marked(t) \/ Fail(t) \/ Close(t)
        PROVE new \subseteq new'
    BY <2>3 DEF ReadVersion, Marked, Fail, Close
  <2>4. ASSUME NEW r \in Run, Ensure(r) \/ Reindex(r) \/ Lock(r) PROVE new \subseteq new'
    BY <2>4 DEF Ensure, Reindex, Lock
  <2>5. ASSUME NEW r \in Run, Check(r) \/ Drain(r) \/ Recheck(r) \/ Mark(r) \/ Collect(r)
        PROVE new \subseteq new'
    BY <2>5 DEF Check, Drain, Recheck, Mark, Collect
  <2>6. ASSUME NEW r \in Run, Unversion(r) \/ Send(r) \/ Settle(r) \/ Unmark(r)
        PROVE new \subseteq new'
    BY <2>6 DEF Unversion, Send, Settle, Unmark
  <2>7. CASE Requeue
    BY <2>7 DEF Requeue
  <2> QED BY <2>1, <2>2, <2>3, <2>4, <2>5, <2>6, <2>7 DEF Next, RunStep
<1>2. TypeOK /\ Alone /\ [Next]_vars => Alone'
  BY AloneStep
<1> QED BY <1>1, <1>2, InitAlone, IndexTypes, PTL DEF Spec, DoneOnce

-----------------------------------------------------------------------------
(* Nothing is given up for nothing. *)

\* So many things have gone wrong.
Gone == MaxTroubles - troubles

\* Every retry of a message was paid for.
Paid ==
  /\ \A m \in queued : m[2] <= Gone
  /\ \A t \in Tab : \A m \in taken[t] : m[2] <= Gone
  /\ \A m \in lost : m[2] < Gone
  /\ dropped # {} => Gone > MaxRetries

LEMMA PaidStep ==
  ASSUME TypeOK, Paid, [Next]_vars
  PROVE  Paid'
<1> USE DEF Paid, Gone, flags, index, queue, tabs, runs
<1>0. DataTypes /\ MaxTroubles \in Nat /\ MaxRetries \in Nat
  BY TypeParts, IndexConstants
<1>1. ASSUME UNCHANGED <<queued, taken, lost, dropped, troubles>> PROVE Paid'
  BY <1>1
<1>2. ASSUME NEW t \in Tab, NEW p \in Path, See(t, p) PROVE Paid'
  BY <1>0, <1>2 DEF See, DataTypes
<1>3. ASSUME NEW t \in Tab, Poll(t) PROVE Paid'
  <2>1. PICK batch \in SUBSET queued :
          taken' = [taken EXCEPT ![t] = batch] /\ queued' = queued \ batch
    BY <1>3 DEF Poll
  <2>2. UNCHANGED <<lost, dropped, troubles>>
    BY <1>3 DEF Poll
  <2> QED BY <1>0, <2>1, <2>2 DEF DataTypes
<1>4. ASSUME NEW t \in Tab, Ack(t) PROVE Paid'
  BY <1>0, <1>4 DEF Ack, DataTypes
<1>5. ASSUME NEW t \in Tab, Fail(t) \/ Close(t) PROVE Paid'
  <2>1. /\ troubles \in Int /\ troubles' = troubles - 1 /\ Lose(t)
        /\ UNCHANGED <<queued, dropped>>
    BY <1>0, <1>5 DEF Fail, Close, DataTypes
  <2>2. /\ lost' = lost \cup taken[t] /\ \A s \in Tab : taken'[s] \subseteq taken[s]
    BY <1>0, <2>1 DEF Lose, DataTypes
  <2>3. /\ \A m \in queued \cup lost : m[2] \in Int
        /\ \A s \in Tab : \A m \in taken[s] : m[2] \in Int
    BY <1>0 DEF DataTypes, Message
  <2>4. \A m \in queued' : m[2] <= Gone'
    BY <1>0, <2>1, <2>3
  <2>5. \A s \in Tab : \A m \in taken'[s] : m[2] <= Gone'
    BY <1>0, <2>1, <2>2, <2>3
  <2>6. \A m \in lost' : m[2] < Gone'
    BY <1>0, <2>1, <2>2, <2>3
  <2>7. dropped' # {} => Gone' > MaxRetries
    BY <1>0, <2>1
  <2> QED BY <2>4, <2>5, <2>6, <2>7
<1>6. ASSUME NEW r \in Run, Send(r) PROVE Paid'
  <2>1. /\ queued' = queued \cup (Path \X {0}) /\ dropped' = {}
        /\ UNCHANGED <<taken, lost, troubles>>
    BY <1>6 DEF Send
  <2> QED BY <1>0, <2>1 DEF DataTypes
<1>7. CASE Requeue
  <2>1. /\ queued' = queued \cup {<<m[1], m[2] + 1>> : m \in {l \in lost : l[2] < MaxRetries}}
        /\ dropped' = dropped \cup Pages({l \in lost : l[2] = MaxRetries})
        /\ lost' = {} /\ UNCHANGED <<taken, troubles>>
    BY <1>7 DEF Requeue
  <2>2. Gone \in Int /\ \A m \in lost : m[2] \in Int
    BY <1>0 DEF DataTypes, Message
  <2>3. \A m \in queued' : m[2] <= Gone'
    BY <2>1, <2>2
  <2>4. dropped' # {} => Gone' > MaxRetries
    BY <1>0, <2>1, <2>2 DEF Pages
  <2> QED BY <2>1, <2>3, <2>4
<1>8. ASSUME NEW t \in Tab, Listed(t) \/ EmptyQueue(t) \/ ReadVersion(t) \/ Marked(t) PROVE Paid'
  BY <1>1, <1>8 DEF Listed, EmptyQueue, ReadVersion, Marked
<1>9. ASSUME NEW t \in Tab, NEW m \in taken[t], Indexed(t, m) PROVE Paid'
  BY <1>1, <1>9 DEF Indexed
<1>10. ASSUME NEW r \in Run, Ensure(r) \/ Reindex(r) \/ Lock(r) \/ Check(r) \/ Drain(r) PROVE Paid'
  BY <1>1, <1>10 DEF Ensure, Reindex, Lock, Check, Drain
<1>11. ASSUME NEW r \in Run, NEW p \in Path, Clear(r, p) PROVE Paid'
  BY <1>1, <1>11 DEF Clear
<1>12. ASSUME NEW r \in Run, Recheck(r) \/ Mark(r) \/ Collect(r) \/ Unversion(r) PROVE Paid'
  BY <1>1, <1>12 DEF Recheck, Mark, Collect, Unversion
<1>13. ASSUME NEW r \in Run, Settle(r) \/ Unmark(r) PROVE Paid'
  BY <1>1, <1>13 DEF Settle, Unmark
<1>14. CASE UNCHANGED vars
  BY <1>1, <1>14 DEF vars
<1> QED
  BY <1>2, <1>3, <1>4, <1>5, <1>6, <1>7, <1>8, <1>9, <1>10, <1>11, <1>12, <1>13, <1>14
  DEF Next, RunStep, WorkerStep, ListStep

LEMMA InitPaid == Init => Paid
BY DEF Init, Paid

-----------------------------------------------------------------------------
(* What is complete is whole. *)

\* A page that was indexed, or is going to be, or was given up.
Have(p) == p \in new \/ p \in dropped \/ Due(p)

\* A step keeps what it has: pages pass from the queue to the index, not the other way.
Keeps == old' \subseteq old /\ \A p \in Path : Have(p) => Have(p)'

\* The marker stands while the index is not whole; the version of an earlier client does not
\* come back; and what the steps of a reindex have done so far.
Marker ==
  /\ ~marker /\ version # Earlier => old = {} /\ \A p \in seen : Have(p)
  /\ version = Desired => seen = Path
  /\ \A t \in Tab : /\ handler[t] = "on" => version # Earlier
                    /\ listed[t] => seen = Path
  /\ \A r \in Run :
       /\ pc[r] \in {"collect", "clear", "send", "settle", "unmark"} => marker
       /\ pc[r] = "clear" => old \subseteq keys[r]
       /\ pc[r] = "send" => old = {}
       /\ pc[r] = "settle" => old = {} /\ seen = Path /\ \A p \in Path : Have(p)
       /\ pc[r] = "unmark" => old = {} /\ seen = Path /\ Path = new \cup dropped

\* Every step but that of clearing.
Other ==
  \/ \E t \in Tab : ListStep(t) \/ WorkerStep(t) \/ ReadVersion(t) \/ Marked(t) \/ Fail(t) \/ Close(t)
  \/ \E r \in Run : \/ Ensure(r) \/ Reindex(r) \/ Lock(r) \/ Check(r) \/ Drain(r) \/ Recheck(r)
                    \/ Mark(r) \/ Collect(r) \/ Unversion(r) \/ Send(r) \/ Settle(r) \/ Unmark(r)
  \/ Requeue \/ UNCHANGED vars

\* A step that leaves the messages where they are, or moves them on.
LEMMA Moved ==
  ASSUME old' \subseteq old, new \subseteq new', dropped \subseteq dropped',
         \A m \in queued \cup lost :
           \/ m[1] \in dropped'
           \/ \E n \in queued' \cup lost' : n[1] = m[1]
           \/ \E t \in Tab : \E n \in taken'[t] \ done'[t] : n[1] = m[1],
         \A t \in Tab : \A m \in taken[t] \ done[t] :
           \/ m \in lost' \/ m[1] \in new' \/ m \in taken'[t] \ done'[t]
  PROVE  Keeps
<1>1. \A p : Due(p) <=> \/ \E m \in queued \cup lost : m[1] = p
                        \/ \E t \in Tab : \E m \in taken[t] \ done[t] : m[1] = p
  BY DEF Due, Pages
<1>2. \A p : Due(p)' <=> \/ \E m \in queued' \cup lost' : m[1] = p
                         \/ \E t \in Tab : \E m \in taken'[t] \ done'[t] : m[1] = p
  BY DEF Due, Pages
<1>3. ASSUME NEW p \in Path, Have(p) PROVE Have(p)'
  <2>1. CASE p \in new \/ p \in dropped
    BY <2>1 DEF Have
  <2>2. CASE \E m \in queued \cup lost : m[1] = p
    BY <2>2, <1>2 DEF Have
  <2>3. CASE \E t \in Tab : \E m \in taken[t] \ done[t] : m[1] = p
    BY <2>3, <1>2 DEF Have
  <2> QED BY <1>1, <1>3, <2>1, <2>2, <2>3 DEF Have
<1> QED BY <1>3 DEF Keeps

\* They only move messages through the queue, or do nothing to it.
LEMMA Kept == ASSUME TypeOK, Other PROVE Keeps
<1> USE DEF flags, index, queue, tabs, runs
<1>0. DataTypes
  BY TypeParts
<1>1. ASSUME NEW t \in Tab, NEW p \in Path, See(t, p) PROVE Keeps
  <2>1. /\ queued' = queued \cup {<<p, 0>>} /\ dropped' = dropped \ {p}
        /\ UNCHANGED <<old, new, taken, done, lost>>
    BY <1>1 DEF See
  <2>2. Have(p)'
    <3>1. <<p, 0>> \in queued' /\ <<p, 0>>[1] = p
      BY <2>1
    <3> QED BY <3>1 DEF Have, Due, Pages
  <2>3. \A q \in Path : q # p /\ Have(q) => Have(q)'
    BY <2>1 DEF Have, Due, Pages
  <2> QED BY <2>1, <2>2, <2>3 DEF Keeps
<1>2. ASSUME NEW t \in Tab, NEW m \in taken[t], Indexed(t, m) PROVE Keeps
  <2>1. /\ new' = new \cup {m[1]} /\ done' = [done EXCEPT ![t] = @ \cup {m}]
        /\ UNCHANGED <<old, queued, taken, lost, dropped>>
    BY <1>2 DEF Indexed
  <2>2. \A s \in Tab : \A n \in taken[s] \ done[s] : n[1] \in new' \/ n \in taken'[s] \ done'[s]
    BY <1>0, <2>1 DEF DataTypes
  <2> QED BY <2>1, <2>2, Moved
<1>3. ASSUME NEW t \in Tab, Poll(t) PROVE Keeps
  <2>1. PICK batch \in SUBSET queued :
          taken' = [taken EXCEPT ![t] = batch] /\ queued' = queued \ batch
    BY <1>3 DEF Poll
  <2>2. taken[t] = {} /\ UNCHANGED <<old, new, done, lost, dropped>>
    BY <1>3 DEF Poll
  <2>3. \A s \in Tab : \A n \in taken[s] \ done[s] : n \in taken'[s] \ done'[s]
    BY <1>0, <2>1, <2>2 DEF DataTypes
  <2>4. \A n \in batch : n \in taken'[t] /\ (n \notin done'[t] \/ n \in done[t])
    BY <1>0, <2>1, <2>2 DEF DataTypes
  <2>5. done[t] = {}
    BY <1>0, <2>2 DEF DataTypes
  <2> QED BY <2>1, <2>2, <2>3, <2>4, <2>5, Moved
<1>4. ASSUME NEW t \in Tab, Ack(t) PROVE Keeps
  <2>1. /\ done[t] = taken[t] /\ taken' = [taken EXCEPT ![t] = {}] /\ done' = [done EXCEPT ![t] = {}]
        /\ UNCHANGED <<old, new, queued, lost, dropped>>
    BY <1>4 DEF Ack
  <2>2. \A s \in Tab : \A n \in taken[s] \ done[s] : n \in taken'[s] \ done'[s]
    BY <1>0, <2>1 DEF DataTypes
  <2> QED BY <2>1, <2>2, Moved
<1>5. ASSUME NEW t \in Tab, Fail(t) \/ Close(t) PROVE Keeps
  <2>1. /\ lost' = lost \cup taken[t] /\ taken' = [taken EXCEPT ![t] = {}]
        /\ done' = [done EXCEPT ![t] = {}] /\ UNCHANGED <<old, new, queued, dropped>>
    BY <1>5 DEF Fail, Close, Lose
  <2>2. \A s \in Tab : \A n \in taken[s] \ done[s] : n \in lost' \/ n \in taken'[s] \ done'[s]
    BY <1>0, <2>1 DEF DataTypes
  <2> QED BY <2>1, <2>2, Moved
<1>6. ASSUME NEW r \in Run, Send(r) PROVE Keeps
  <2>1. queued' = queued \cup (Path \X {0}) /\ old' = old
    BY <1>6 DEF Send
  <2>2. \A p \in Path : <<p, 0>> \in queued' /\ <<p, 0>>[1] = p
    BY <2>1
  <2>3. \A p \in Path : Have(p)'
    BY <2>2 DEF Have, Due, Pages
  <2> QED BY <2>1, <2>3 DEF Keeps
<1>7. CASE Requeue
  <2>1. /\ queued' = queued \cup {<<m[1], m[2] + 1>> : m \in {l \in lost : l[2] < MaxRetries}}
        /\ dropped' = dropped \cup Pages({l \in lost : l[2] = MaxRetries})
        /\ lost' = {} /\ UNCHANGED <<old, new, taken, done>>
    BY <1>7 DEF Requeue
  <2>2. \A m \in lost : m[2] \in 0..MaxRetries
    BY <1>0 DEF DataTypes, Message
  <2>3. ASSUME NEW m \in lost PROVE m[1] \in dropped' \/ \E n \in queued' : n[1] = m[1]
    <3>1. CASE m[2] = MaxRetries
      BY <2>1, <3>1 DEF Pages
    <3>2. CASE m[2] < MaxRetries
      <4>1. <<m[1], m[2] + 1>> \in queued' /\ <<m[1], m[2] + 1>>[1] = m[1]
        BY <2>1, <3>2
      <4> QED BY <4>1
    <3> QED BY <2>2, <3>1, <3>2, IndexConstants
  <2> QED BY <2>1, <2>3, Moved
<1>8. ASSUME UNCHANGED <<old, new, queued, taken, done, lost, dropped>> PROVE Keeps
  BY <1>8, Moved
<1>9. ASSUME NEW t \in Tab, Listed(t) \/ EmptyQueue(t) \/ ReadVersion(t) \/ Marked(t) PROVE Keeps
  BY <1>8, <1>9 DEF Listed, EmptyQueue, ReadVersion, Marked
<1>10. ASSUME NEW r \in Run, Ensure(r) \/ Reindex(r) \/ Lock(r) \/ Check(r) \/ Drain(r) PROVE Keeps
  BY <1>8, <1>10 DEF Ensure, Reindex, Lock, Check, Drain
<1>11. ASSUME NEW r \in Run, Recheck(r) \/ Mark(r) \/ Collect(r) \/ Unversion(r) PROVE Keeps
  BY <1>8, <1>11 DEF Recheck, Mark, Collect, Unversion
<1>12. ASSUME NEW r \in Run, Settle(r) \/ Unmark(r) PROVE Keeps
  BY <1>8, <1>12 DEF Settle, Unmark
<1>13. CASE UNCHANGED vars
  BY <1>8, <1>13 DEF vars
<1> QED
  BY <1>1, <1>2, <1>3, <1>4, <1>5, <1>6, <1>7, <1>9, <1>10, <1>11, <1>12, <1>13
  DEF Other, WorkerStep, ListStep

\* A step that leaves the flags and the listings alone, and does not enter a step of a
\* reindex, has only to keep what there is.
LEMMA Undisturbed ==
  ASSUME TypeOK, Marker, Keeps, new \subseteq new', new' \subseteq Path,
         version' = version, marker' = marker, seen' = seen,
         dropped \subseteq dropped', dropped' \subseteq Path,
         \A t \in Tab : /\ handler'[t] = "on" => handler[t] = "on" \/ version = None
                        /\ listed'[t] => listed[t] \/ seen = Path,
         \A r \in Run : \/ pc'[r] = pc[r] /\ keys'[r] = keys[r]
                        \/ pc'[r] \notin {"collect", "clear", "send", "settle", "unmark"}
  PROVE  Marker'
<1>1. Marker /\ seen \subseteq Path /\ old' \subseteq old /\ \A p \in Path : Have(p) => Have(p)'
  BY DEF Keeps, TypeOK
<1>2. ~marker' /\ version' # Earlier => old' = {} /\ \A p \in seen' : Have(p)'
  BY <1>1 DEF Marker
<1>3. version' = Desired => seen' = Path
  BY <1>1 DEF Marker
<1>4. \A t \in Tab : /\ handler'[t] = "on" => version' # Earlier
                     /\ listed'[t] => seen' = Path
  BY <1>1 DEF Marker, None, Earlier
<1>5. ASSUME NEW r \in Run
      PROVE  /\ pc'[r] \in {"collect", "clear", "send", "settle", "unmark"} => marker'
             /\ pc'[r] = "clear" => old' \subseteq keys'[r]
             /\ pc'[r] = "send" => old' = {}
             /\ pc'[r] = "settle" => old' = {} /\ seen' = Path /\ \A p \in Path : Have(p)'
             /\ pc'[r] = "unmark" => old' = {} /\ seen' = Path /\ Path = new' \cup dropped'
  <2>1. CASE pc'[r] \notin {"collect", "clear", "send", "settle", "unmark"}
    BY <2>1
  <2>2. CASE pc'[r] = pc[r] /\ keys'[r] = keys[r]
    BY <1>1, <2>2 DEF Marker
  <2> QED BY <2>1, <2>2
<1> QED BY <1>2, <1>3, <1>4, <1>5 DEF Marker

\* Who is in a step that only the holder of the lock takes is the only one.
LEMMA Others ==
  ASSUME TypeOK, Alone, NEW r \in Run, pc[r] \in Locked, NEW s \in Run, s # r
  PROVE  pc[s] \notin Locked
BY DEF Alone

LEMMA MarkerStep ==
  ASSUME TypeOK, Alone, Marker, [Next]_vars, {"early", "unlocked"} \cap Troubles = {}
  PROVE  Marker'
<1> USE DEF flags, index, queue, tabs, runs, Go
<1>0. /\ Marker /\ RunTypes /\ DataTypes /\ ~May("early") /\ ~May("unlocked")
  BY TypeParts DEF May
<1>1. ASSUME NEW t \in Tab, Listed(t) \/ Poll(t) \/ Ack(t) \/ Fail(t) PROVE Marker'
  <2>1. Keeps
    BY <1>1, Kept DEF Other, ListStep, WorkerStep
  <2> QED BY <1>0, <1>1, <2>1, Undisturbed DEF Listed, Poll, Ack, Fail, DataTypes
<1>2. ASSUME NEW t \in Tab, NEW m \in taken[t], Indexed(t, m) PROVE Marker'
  <2>1. Keeps
    BY <1>2, Kept DEF Other, WorkerStep
  <2>2. new \subseteq new' /\ new' \subseteq Path
    BY <1>0, <1>2 DEF Indexed, DataTypes, Message
  <2> QED BY <1>0, <1>2, <2>1, <2>2, Undisturbed DEF Indexed, DataTypes
<1>3. ASSUME NEW t \in Tab, NEW p \in Path, See(t, p) PROVE Marker'
  <2>1. Keeps
    BY <1>3, Kept DEF Other, ListStep
  <2>2. /\ seen' = seen \cup {p} /\ queued' = queued \cup {<<p, 0>>} /\ old' = old /\ new' = new
        /\ p \notin seen /\ UNCHANGED <<version, marker, listed, handler, pc, keys>>
    BY <1>3 DEF See
  <2>3. seen \subseteq Path /\ seen # Path
    BY <1>0, <2>2 DEF DataTypes
  <2>4. Have(p)'
    <3>1. <<p, 0>> \in queued' /\ <<p, 0>>[1] = p
      BY <2>2
    <3> QED BY <3>1 DEF Have, Due, Pages
  <2> QED BY <1>0, <2>1, <2>2, <2>3, <2>4 DEF Marker, Keeps
<1>4. ASSUME NEW t \in Tab, ReadVersion(t) \/ Marked(t) PROVE Marker'
  <2>1. Keeps
    BY <1>4, Kept DEF Other
  <2> QED BY <1>0, <1>4, <2>1, Undisturbed DEF ReadVersion, Marked, Fresh, DataTypes
<1>5. ASSUME NEW t \in Tab, EmptyQueue(t) PROVE Marker'
  <2>1. Keeps
    BY <1>5, Kept DEF Other, WorkerStep
  <2>2. /\ handler[t] = "on" /\ listed[t] /\ ~marker /\ version' = Desired
        /\ handler' = [handler EXCEPT ![t] = "marking"]
        /\ UNCHANGED <<old, new, marker, seen, dropped, listed, pc, keys>>
    BY <1>0, <1>5 DEF EmptyQueue, Fresh
  <2>3. seen = Path /\ old = {} /\ \A p \in seen : Have(p)
    BY <1>0, <2>2 DEF Marker
  <2>4. \A s \in Tab : handler'[s] = "on" => handler[s] = "on"
    BY <1>0, <2>2 DEF DataTypes
  <2> QED BY <1>0, <2>1, <2>2, <2>3, <2>4 DEF Marker, Keeps, Desired, Earlier
<1>6. ASSUME NEW t \in Tab, Close(t) PROVE Marker'
  <2>1. Keeps
    BY <1>6, Kept DEF Other
  <2> QED BY <1>0, <1>6, <2>1, Undisturbed DEF Close, DataTypes, Lose
<1>7. ASSUME NEW r \in Run, Ensure(r) \/ Reindex(r) \/ Lock(r) \/ Check(r) \/ Drain(r) \/ Recheck(r)
      PROVE Marker'
  <2>1. Keeps
    BY <1>7, Kept DEF Other
  <2>2. /\ UNCHANGED <<version, marker, seen, new, dropped, listed, handler, keys>>
        /\ \E to \in {"check", "drain", "lock", "mark", "recheck", "idle"} :
             pc' = [pc EXCEPT ![r] = to]
    BY <1>7 DEF Ensure, Reindex, Lock, Check, Drain, Recheck
  <2> QED BY <1>0, <2>1, <2>2, Undisturbed DEF RunTypes, DataTypes
<1>8. ASSUME NEW r \in Run, Mark(r) PROVE Marker'
  <2>1. /\ pc[r] = "mark" /\ marker' = TRUE /\ pc' = [pc EXCEPT ![r] = "collect"]
        /\ UNCHANGED <<version, old, new, queued, taken, done, lost, dropped, seen, listed, handler, keys>>
    BY <1>8 DEF Mark
  <2>2. \A s \in Run \ {r} : pc'[s] \notin Locked
    BY <1>0, <2>1, Others DEF Locked, RunTypes
  <2> QED BY <1>0, <2>1, <2>2 DEF Marker, RunTypes, Locked
<1>9. ASSUME NEW r \in Run, Collect(r) PROVE Marker'
  <2>1. /\ pc[r] = "collect" /\ pc' = [pc EXCEPT ![r] = "clear"]
        /\ keys' = [keys EXCEPT ![r] = old \cup new]
        /\ UNCHANGED <<version, marker, old, new, queued, taken, done, lost, dropped, seen, listed, handler>>
    BY <1>9 DEF Collect
  <2>2. marker
    BY <1>0, <2>1 DEF Marker
  <2>3. \A s \in Run \ {r} : pc'[s] \notin Locked
    BY <1>0, <2>1, Others DEF Locked, RunTypes
  <2> QED BY <1>0, <2>1, <2>2, <2>3 DEF Marker, RunTypes, Locked
<1>10. ASSUME NEW r \in Run, NEW p \in Path, Clear(r, p) PROVE Marker'
  <2>1. /\ pc[r] = "clear" /\ old' = old \ {p} /\ keys' = [keys EXCEPT ![r] = @ \ {p}]
        /\ UNCHANGED <<version, marker, seen, listed, handler, pc>>
    BY <1>10 DEF Clear
  <2>2. marker /\ old \subseteq keys[r]
    BY <1>0, <2>1 DEF Marker
  <2>3. \A s \in Run \ {r} : pc'[s] \notin Locked
    BY <1>0, <2>1, Others DEF Locked, RunTypes
  <2> QED BY <1>0, <2>1, <2>2, <2>3 DEF Marker, RunTypes, Locked
<1>11. ASSUME NEW r \in Run, Unversion(r) PROVE Marker'
  <2>1. /\ pc[r] = "clear" /\ keys[r] = {} /\ version' = None /\ pc' = [pc EXCEPT ![r] = "send"]
        /\ UNCHANGED <<marker, old, new, seen, listed, handler, keys>>
    BY <1>11 DEF Unversion
  <2>2. marker /\ old = {}
    BY <1>0, <2>1 DEF Marker
  <2>3. \A s \in Run \ {r} : pc'[s] \notin Locked
    BY <1>0, <2>1, Others DEF Locked, RunTypes
  <2> QED BY <1>0, <2>1, <2>2, <2>3 DEF Marker, RunTypes, Locked, None, Earlier, Desired
<1>12. ASSUME NEW r \in Run, Send(r) PROVE Marker'
  <2>1. /\ pc[r] = "send" /\ seen' = Path /\ queued' = queued \cup (Path \X {0}) /\ pc' = [pc EXCEPT ![r] = "settle"]
        /\ UNCHANGED <<version, marker, old, new, listed, handler, keys>>
    BY <1>12 DEF Send
  <2>2. marker /\ old = {}
    BY <1>0, <2>1 DEF Marker
  <2>3. \A s \in Run \ {r} : pc'[s] \notin Locked
    BY <1>0, <2>1, Others DEF Locked, RunTypes
  <2>4. ASSUME NEW p \in Path PROVE Have(p)'
    <3>1. <<p, 0>> \in queued' /\ <<p, 0>>[1] = p
      BY <2>1
    <3> QED BY <3>1 DEF Have, Due, Pages
  <2> QED BY <1>0, <2>1, <2>2, <2>3, <2>4 DEF Marker, RunTypes, Locked
<1>13. ASSUME NEW r \in Run, Settle(r) PROVE Marker'
  <2>1. /\ pc[r] = "settle" /\ version' = Desired /\ pc' = [pc EXCEPT ![r] = "unmark"]
        /\ queued \cup lost = {} /\ \A t \in Tab : taken[t] = {}
        /\ UNCHANGED <<marker, old, new, dropped, seen, listed, handler, keys>>
    BY <1>13 DEF Settle, Drained, Held
  <2>4. \A p \in Path : ~Due(p)
    BY <2>1 DEF Due, Pages
  <2>2. marker /\ old = {} /\ seen = Path /\ Path = new \cup dropped
    BY <1>0, <2>1, <2>4 DEF Marker, Have, DataTypes
  <2>3. \A s \in Run \ {r} : pc'[s] \notin Locked
    BY <1>0, <2>1, Others DEF Locked, RunTypes
  <2> QED BY <1>0, <2>1, <2>2, <2>3 DEF Marker, RunTypes, Locked, Earlier, Desired
<1>14. ASSUME NEW r \in Run, Unmark(r) PROVE Marker'
  <2>1. /\ pc[r] = "unmark" /\ pc' = [pc EXCEPT ![r] = "idle"]
        /\ UNCHANGED <<version, old, new, queued, taken, done, lost, dropped, seen, listed, handler, keys>>
    BY <1>14 DEF Unmark
  <2>2. old = {} /\ Path = new \cup dropped
    BY <1>0, <2>1 DEF Marker
  <2>3. \A s \in Run : pc'[s] \notin Locked
    <3>1. \A s \in Run \ {r} : pc[s] \notin Locked
      BY <2>1, Others DEF Locked
    <3> QED BY <1>0, <2>1, <3>1 DEF Locked, RunTypes
  <2>4. seen \subseteq Path /\ \A p \in Path : Have(p)'
    BY <1>0, <2>1, <2>2 DEF Have, DataTypes
  <2> QED BY <1>0, <2>1, <2>2, <2>3, <2>4 DEF Marker, Locked
<1>15. CASE Requeue \/ UNCHANGED vars
  <2>1. Keeps
    BY <1>15, Kept DEF Other
  <2>2. new' \subseteq Path /\ dropped \subseteq dropped' /\ dropped' \subseteq Path
    BY <1>0, <1>15 DEF Requeue, vars, Pages, DataTypes, Message
  <2>3. UNCHANGED <<version, marker, new, seen, listed, handler, pc, keys>>
    BY <1>15 DEF Requeue, vars
  <2> QED BY <1>0, <2>1, <2>2, <2>3, Undisturbed
<1> QED
  BY <1>1, <1>2, <1>3, <1>4, <1>5, <1>6, <1>7, <1>8, <1>9, <1>10, <1>11, <1>12, <1>13, <1>14, <1>15
  DEF Next, RunStep, WorkerStep, ListStep

LEMMA InitMarker == Init => Marker
<1> SUFFICES ASSUME Init PROVE Marker
  OBVIOUS
<1> QED BY DEF Init, Marker, Have, None, Earlier, Desired

\* An index that counts as complete is whole, but for pages whose message was given up after
\* more failures than it has retries, however many tabs reindex, interrupt one another or are
\* closed (markFullIndexComplete, ensureFullIndex, requeueTimeouts), as long as they share a
\* lock and no tab takes the empty queue of a reindex for that of a fresh install.
THEOREM WholeWhenComplete ==
  ASSUME {"early", "unlocked"} \cap Troubles = {}
  PROVE  Spec => []CompleteMeansWhole
<1>1. TypeOK /\ Alone /\ Marker /\ [Next]_vars => (Alone /\ Marker)'
  BY AloneStep, MarkerStep
<1>2. TypeOK /\ Paid /\ [Next]_vars => Paid'
  BY PaidStep
<1>3. Marker /\ Paid => CompleteMeansWhole
  BY DEF Marker, Paid, Gone, CompleteMeansWhole, Have, Desired, Earlier
<1> QED BY <1>1, <1>2, <1>3, InitAlone, InitMarker, InitPaid, IndexTypes, PTL DEF Spec
=============================================================================
