------------------------ MODULE EventedSpace_proofs ------------------------
(* Theorems about EventedSpace, for any number of pages, operations in      *)
(* flight, versions, changes and troubles.                           *)
EXTENDS EventedSpace, FiniteSetTheorems, SequenceTheorems, TLAPS

\* What TypeOK says of the operations and the datastore's queue, and of the rest.
OpTypes == op \in [Op -> OpState] /\ kv \in Seq(Op)
DataTypes ==
  /\ disk \in Files /\ versions \in Version
  /\ spaceSnapshot \in Files /\ snapshotChanged \in BOOLEAN /\ stored \in Files
  /\ operationCount \in Int
  /\ index \in [Path -> SUBSET (Version \X Version)]
  /\ indexQueue \subseteq Message /\ batch \subseteq Message /\ left \subseteq batch
  /\ givenUp \subseteq Path /\ events \in 0..MaxEvents

LEMMA IdleType == Idle \in OpState /\ NoFiles \in Files
BY EventedConstants DEF Idle, OpState, NoFiles, Files, Version

\* The updates that steps make to one operation.
LEMMA Updates ==
  ASSUME NEW r \in OpState
  PROVE  /\ \A pc \in {"asked", "answered", "compare", "save", "saving", "saved", "finally",
                       "parse", "write", "erase", "send", "cache"} :
              [r EXCEPT !.pc = pc] \in OpState
         /\ \A p \in Path \cup {None}, e \in {"changed", "deleted"} : Dispatch(r, e, p) \in OpState
         /\ \A f \in Files : [r EXCEPT !.got = f] \in OpState
         /\ \A f \in Files : [r EXCEPT !.save = f] \in OpState
         /\ \A s \in SUBSET Path : [r EXCEPT !.todo = s] \in OpState /\ [r EXCEPT !.gone = s] \in OpState
         /\ \A s \in SUBSET Version : [r EXCEPT !.keys = s] \in OpState
         /\ Handled(r) \in OpState /\ Cleared(r) \in OpState
         /\ \A f \in Files, c \in BOOLEAN : Saving(r, f, c) \in OpState
<1>1. /\ r.kind \in {"none", "list", "read", "write", "delete"}
      /\ r.event \in {"none", "changed", "deleted"}
  BY DEF OpState
<1>2. \A pc \in {"asked", "answered", "compare", "save", "saving", "saved", "finally",
                 "parse", "write", "erase", "send", "cache"} : [r EXCEPT !.pc = pc] \in OpState
  BY DEF OpState
<1>3. \A p \in Path \cup {None}, e \in {"changed", "deleted"} : Dispatch(r, e, p) \in OpState
  BY DEF OpState, Dispatch
<1>4. /\ \A f \in Files : [r EXCEPT !.got = f] \in OpState
      /\ \A f \in Files : [r EXCEPT !.save = f] \in OpState
  BY DEF OpState
<1>5. \A s \in SUBSET Path : [r EXCEPT !.todo = s] \in OpState /\ [r EXCEPT !.gone = s] \in OpState
  BY DEF OpState
<1>6. \A s \in SUBSET Version : [r EXCEPT !.keys = s] \in OpState
  BY DEF OpState
<1>7. Handled(r) \in OpState
  BY DEF OpState, Handled
<1>8. Cleared(r) \in OpState
  <2>1. [r EXCEPT !.pc = "send", !.keys = {}] \in OpState
    BY DEF OpState
  <2> QED BY <2>1, <1>7 DEF Cleared
<1>9. \A f \in Files, c \in BOOLEAN : Saving(r, f, c) \in OpState
  BY DEF OpState, Saving
<1> QED
  BY <1>2, <1>3, <1>4, <1>5, <1>6, <1>7, <1>8, <1>9

LEMMA IssueTypes ==
  ASSUME OpTypes, NEW o \in Op, NEW r \in OpState, Issue(o, r)
  PROVE  OpTypes'
BY DEF OpTypes, Issue

LEMMA ThenTypes ==
  ASSUME OpTypes, NEW o \in Op, NEW r \in OpState, kv # << >>, Then(o, r)
  PROVE  OpTypes'
BY DEF OpTypes, Then

LEMMA SetTypes ==
  ASSUME OpTypes, NEW o \in Op, NEW r \in OpState, op' = [op EXCEPT ![o] = r], UNCHANGED kv
  PROVE  OpTypes'
BY DEF OpTypes

\* A batch that comes back.
LEMMA RequeueTypes ==
  ASSUME DataTypes, Requeue
  PROVE  indexQueue' \subseteq Message /\ batch' = {} /\ left' = {} /\ givenUp' \subseteq Path
<1> DEFINE again == {<<m[1], m[2] + 1>> : m \in {b \in batch : b[2] < MaxRetries}}
<1>1. ASSUME NEW m \in batch, m[2] < MaxRetries PROVE <<m[1], m[2] + 1>> \in Message
  BY <1>1, EventedConstants DEF DataTypes, Message
<1>2. again \subseteq Message
  BY <1>1
<1>3. indexQueue' = indexQueue \cup again /\ batch' = {} /\ left' = {}
  BY DEF Requeue
<1>4. givenUp' \subseteq Path
  BY DEF Requeue, DataTypes
<1> QED BY <1>2, <1>3, <1>4 DEF DataTypes

LEMMA CallTypes ==
  ASSUME OpTypes, DataTypes,
         \/ StartList
         \/ \E o \in Caller, p \in Path : \E kind \in {"read", "write", "delete"} : StartCall(o, kind, p)
         \/ \E m \in Message : Poll(m) \/ TakeMessage(m)
         \/ Ack
  PROVE  OpTypes' /\ DataTypes'
<1>1. CASE StartList
  <2>1. [Idle EXCEPT !.kind = "list", !.pc = "asked"] \in OpState
    BY IdleType DEF OpState
  <2>2. OpTypes'
    BY <1>1, <2>1, SetTypes DEF StartList, Op
  <2> QED BY <1>1, <2>2 DEF StartList, DataTypes, space, snapshot, queue
<1>2. ASSUME NEW o \in Caller, NEW p \in Path, NEW kind \in {"read", "write", "delete"},
             StartCall(o, kind, p)
      PROVE  OpTypes' /\ DataTypes'
  <2> DEFINE v == IF kind = "write" THEN versions + 1 ELSE 0
             r == [Idle EXCEPT !.kind = kind, !.pc = "asked", !.path = p, !.got[p] = v]
  <2>0. /\ events > 0 /\ events' = events - 1 /\ operationCount' = operationCount + 1
        /\ IF kind = "write" THEN versions + 1 <= MaxVersions /\ versions' = versions + 1
                             ELSE versions' = versions
        /\ UNCHANGED <<disk, snapshot, stored, index, queue>>
    BY <1>2 DEF StartCall, Event
  <2>1. v \in Version /\ versions' \in Version
    BY <2>0, EventedConstants DEF DataTypes, Version
  <2>2. r \in OpState
    <3>1. [Idle.got EXCEPT ![p] = v] \in Files
      BY <2>1, IdleType DEF Idle, Files
    <3>2. Idle \in OpState
      BY IdleType
    <3> QED BY <3>1, <3>2 DEF OpState
  <2>3. OpTypes'
    BY <1>2, <2>2, SetTypes DEF StartCall, Op
  <2>4. events' \in 0..MaxEvents /\ operationCount' \in Int
    BY <2>0, EventedConstants DEF DataTypes
  <2> QED BY <2>0, <2>1, <2>3, <2>4 DEF DataTypes, snapshot, queue
<1>3. ASSUME NEW m \in Message, Poll(m) \/ TakeMessage(m) PROVE OpTypes' /\ DataTypes'
  <2>1. [Idle EXCEPT !.kind = "read", !.pc = "asked", !.path = m[1]] \in OpState
    BY IdleType DEF OpState, Message
  <2>2. /\ op' = [op EXCEPT ![Indexer] = [Idle EXCEPT !.kind = "read", !.pc = "asked", !.path = m[1]]]
        /\ operationCount' = operationCount + 1
        /\ UNCHANGED <<space, snapshot, stored, kv, index, givenUp, events>>
    BY <1>3 DEF Poll, TakeMessage, Read
  <2>3. OpTypes'
    BY <2>1, <2>2, SetTypes DEF Op
  <2>4. indexQueue' \subseteq indexQueue /\ batch' \subseteq batch \cup indexQueue /\ left' \subseteq batch'
    BY <1>3 DEF Poll, TakeMessage, DataTypes
  <2>5. operationCount' \in Int
    BY <2>2 DEF DataTypes
  <2> QED BY <2>2, <2>3, <2>4, <2>5 DEF DataTypes, space, snapshot, queue
<1>4. CASE Ack
  BY <1>4 DEF Ack, OpTypes, DataTypes, space, snapshot
<1> QED BY <1>1, <1>2, <1>3, <1>4

LEMMA SpaceTypes ==
  ASSUME OpTypes, DataTypes,
         \/ \E o \in Op : Serve(o) \/ Fail(o)
         \/ \E p \in Path : OthersWrite(p) \/ OthersDelete(p)
         \/ Reopen
  PROVE  OpTypes' /\ DataTypes'
<1>1. ASSUME NEW o \in Op, Serve(o) PROVE OpTypes' /\ DataTypes'
  <2> DEFINE r == op[o]
             got == CASE r.kind = "list" -> disk
                      [] r.kind = "read" -> [NoFiles EXCEPT ![r.path] = disk[r.path]]
                      [] OTHER           -> r.got
  <2>1. r \in OpState /\ r.got \in Files /\ r.path \in Path \cup {None}
    BY DEF OpTypes, OpState
  <2>2. disk \in Files /\ 0 \in Version
    BY EventedConstants DEF DataTypes, Version
  <2>3. [NoFiles EXCEPT ![r.path] = disk[r.path]] \in Files
    BY <2>1, <2>2 DEF Files, NoFiles
  <2>4. got \in Files
    BY <2>1, <2>2, <2>3
  <2>5. [r EXCEPT !.pc = "answered", !.got = got] \in OpState
    BY <2>1, <2>4 DEF OpState
  <2>6. op' = [op EXCEPT ![o] = [r EXCEPT !.pc = "answered", !.got = got]]
    BY <1>1 DEF Serve, OpTypes
  <2>7. OpTypes'
    BY <1>1, <2>5, <2>6, SetTypes DEF Serve
  <2>8. disk' \in Files
    <3>1. [disk EXCEPT ![r.path] = r.got[r.path]] \in Files
      BY <2>1, <2>2 DEF Files
    <3>2. [disk EXCEPT ![r.path] = 0] \in Files
      BY <2>1, <2>2 DEF Files
    <3> QED BY <1>1, <2>2, <3>1, <3>2 DEF Serve
  <2> QED BY <1>1, <2>7, <2>8 DEF Serve, DataTypes, snapshot, queue
<1>2. ASSUME NEW o \in Op, Fail(o) PROVE OpTypes' /\ DataTypes'
  <2> DEFINE r == op[o]
             pc == IF r.kind \in {"list", "delete"} THEN "save" ELSE "finally"
  <2>1. r \in OpState
    BY DEF OpTypes
  <2>2. [r EXCEPT !.pc = pc, !.got = NoFiles] \in OpState
    BY <2>1, IdleType DEF OpState
  <2>3. op' = [op EXCEPT ![o] = [r EXCEPT !.pc = pc, !.got = NoFiles]]
    BY <1>2 DEF Fail, OpTypes
  <2>4. OpTypes'
    BY <1>2, <2>2, <2>3, SetTypes DEF Fail
  <2>5. events' \in 0..MaxEvents
    BY <1>2, EventedConstants DEF Fail, Suffer, Event, DataTypes
  <2> QED BY <1>2, <2>4, <2>5 DEF Fail, DataTypes, space, snapshot, queue
<1>3. ASSUME NEW p \in Path, OthersWrite(p) PROVE OpTypes' /\ DataTypes'
  <2>1. versions + 1 \in Version
    BY <1>3, EventedConstants DEF OthersWrite, DataTypes, Version
  <2>2. [disk EXCEPT ![p] = versions + 1] \in Files
    BY <2>1 DEF DataTypes, Files
  <2>3. events' \in 0..MaxEvents
    BY <1>3, EventedConstants DEF OthersWrite, Event, DataTypes
  <2> QED BY <1>3, <2>1, <2>2, <2>3 DEF OthersWrite, OpTypes, DataTypes, snapshot, queue
<1>4. ASSUME NEW p \in Path, OthersDelete(p) PROVE OpTypes' /\ DataTypes'
  <2>1. [disk EXCEPT ![p] = 0] \in Files
    BY EventedConstants DEF DataTypes, Files, Version
  <2>2. events' \in 0..MaxEvents
    BY <1>4, EventedConstants DEF OthersDelete, Event, DataTypes
  <2> QED BY <1>4, <2>1, <2>2 DEF OthersDelete, OpTypes, DataTypes, snapshot, queue
<1>5. CASE Reopen
  <2>1. OpTypes'
    BY <1>5, IdleType DEF Reopen, OpTypes
  <2>2. events' \in 0..MaxEvents
    BY <1>5, EventedConstants DEF Reopen, Suffer, Event, DataTypes
  <2>3. Requeue
    BY <1>5 DEF Reopen
  <2>4. /\ UNCHANGED <<space, stored, index>> /\ spaceSnapshot' = stored
        /\ snapshotChanged' = FALSE /\ operationCount' = 0
    BY <1>5 DEF Reopen
  <2>5. 0 \in Int /\ FALSE \in BOOLEAN
    OBVIOUS
  <2>6. indexQueue' \subseteq Message /\ batch' = {} /\ left' = {} /\ givenUp' \subseteq Path
    BY <2>3, RequeueTypes
  <2> QED BY <2>1, <2>2, <2>4, <2>5, <2>6 DEF DataTypes, space, queue
<1> QED BY <1>1, <1>2, <1>3, <1>4, <1>5

\* updateInSnapshot, for a page or for no page at all.
LEMMA UpdateTypes ==
  ASSUME DataTypes, NEW p, NEW v, p \in Path => v \in Version, Update(p, v)
  PROVE  spaceSnapshot' \in Files /\ snapshotChanged' \in BOOLEAN
<1>1. spaceSnapshot \in Files /\ snapshotChanged \in BOOLEAN
  BY DEF DataTypes
<1>2. /\ spaceSnapshot' = [spaceSnapshot EXCEPT ![p] = v]
      /\ snapshotChanged' = (snapshotChanged \/ spaceSnapshot[p] # v)
  BY DEF Update
<1>3. CASE p \in Path
  BY <1>1, <1>2, <1>3 DEF Files
<1>4. CASE p \notin Path
  BY <1>1, <1>2, <1>4 DEF Files
<1> QED BY <1>3, <1>4

LEMMA SaveTypes ==
  ASSUME OpTypes, NEW o \in Op, NEW r \in OpState, NEW f \in Files, NEW c \in BOOLEAN,
         Save(o, r, f, c)
  PROVE  OpTypes'
<1>1. Saving(r, f, c) \in OpState
  BY Updates
<1>2. CASE c
  BY <1>1, <1>2, IssueTypes DEF Save
<1>3. CASE ~c
  BY <1>1, <1>3, SetTypes DEF Save
<1> QED BY <1>2, <1>3

LEMMA CacheTypes ==
  ASSUME OpTypes, DataTypes, NEW o \in Op, Cache(o)
  PROVE  OpTypes' /\ spaceSnapshot' \in Files /\ snapshotChanged' \in BOOLEAN
<1> DEFINE r == op[o]
<1>1. r \in OpState /\ (r.path \in Path => r.got[r.path] \in Version)
  BY DEF OpTypes, OpState, Files
<1>2. spaceSnapshot' \in Files /\ snapshotChanged' \in BOOLEAN
  BY <1>1, UpdateTypes DEF Cache
<1>3. OpTypes'
  BY <1>1, <1>2, SaveTypes DEF Cache
<1> QED BY <1>2, <1>3

LEMMA ReturnTypes ==
  ASSUME OpTypes, DataTypes, NEW o \in Op,
         \/ ReturnList(o) \/ ReturnFile(o) \/ ReturnDelete(o)
         \/ Listed(o) \/ AfterEvent(o) \/ Finally(o)
         \/ \E p \in Path : CompareListed(o, p) \/ CompareGone(o, p)
  PROVE  OpTypes' /\ DataTypes'
<1> DEFINE r == op[o]
<1>0. /\ r \in OpState /\ r.got \in Files /\ r.path \in Path \cup {None}
      /\ r.todo \in SUBSET Path /\ r.gone \in SUBSET Path
  BY DEF OpTypes, OpState
<1>1. CASE ReturnList(o)
  <2> DEFINE todo == {p \in Path : r.got[p] # 0}
             gone == {p \in Path : spaceSnapshot[p] # 0 /\ r.got[p] = 0}
  <2>1. [r EXCEPT !.pc = "compare", !.todo = todo, !.gone = gone] \in OpState
    BY <1>0 DEF OpState
  <2>2. op' = [op EXCEPT ![o] = [r EXCEPT !.pc = "compare", !.todo = todo, !.gone = gone]]
    BY <1>1 DEF ReturnList, OpTypes
  <2>3. OpTypes'
    BY <1>1, <2>1, <2>2, SetTypes DEF ReturnList
  <2> QED BY <1>1, <2>3 DEF ReturnList, DataTypes, space, snapshot, queue
<1>2. CASE ReturnFile(o)
  <2>1. UNCHANGED <<space, stored, operationCount, index, queue, events>>
    BY <1>2 DEF ReturnFile
  <2>2. CASE Go(o, "saved") /\ UNCHANGED <<snapshot, kv>>
    <3>1. OpTypes'
      BY <1>0, <2>2, Updates, SetTypes DEF Go, OpTypes
    <3> QED BY <2>1, <2>2, <3>1 DEF DataTypes, space, snapshot, queue
  <2>3. CASE Issue(o, Dispatch(r, "changed", r.path)) /\ UNCHANGED snapshot
    <3>1. OpTypes'
      BY <1>0, <2>3, Updates, IssueTypes
    <3> QED BY <2>1, <2>3, <3>1 DEF DataTypes, space, snapshot, queue
  <2>4. CASE Cache(o)
    BY <2>1, <2>4, CacheTypes DEF DataTypes, space, queue
  <2> QED BY <1>2, <1>0, <2>2, <2>3, <2>4 DEF ReturnFile
<1>3. CASE ReturnDelete(o)
  <2>1. OpTypes'
    BY <1>0, <1>3, Updates, IssueTypes DEF ReturnDelete
  <2>2. [spaceSnapshot EXCEPT ![r.path] = 0] \in Files
    <3>1. spaceSnapshot \in Files /\ 0 \in Version
      BY EventedConstants DEF DataTypes, Version
    <3> QED BY <1>0, <3>1 DEF Files
  <2> QED BY <1>3, <2>1, <2>2 DEF ReturnDelete, DataTypes, space, queue
<1>4. CASE Listed(o)
  <2>1. [r EXCEPT !.got = NoFiles] \in OpState
    BY <1>0, IdleType, Updates
  <2>2. spaceSnapshot \in Files /\ snapshotChanged \in BOOLEAN
    BY DEF DataTypes
  <2>3. OpTypes'
    BY <1>4, <2>1, <2>2, SaveTypes DEF Listed
  <2> QED BY <1>4, <2>3 DEF Listed, DataTypes, space, snapshot, queue
<1>5. CASE AfterEvent(o)
  BY <1>5, CacheTypes DEF AfterEvent, DataTypes, space, queue
<1>6. CASE Finally(o)
  <2> DEFINE failed == o = Indexer /\ r.got[r.path] = 0
  <2>1. OpTypes'
    <3>1. op' = [op EXCEPT ![o] = IF o = Indexer /\ ~failed
                                  THEN [r EXCEPT !.pc = "parse"] ELSE Idle]
      BY <1>6 DEF Finally
    <3>2. (IF o = Indexer /\ ~failed THEN [r EXCEPT !.pc = "parse"] ELSE Idle) \in OpState
      BY <1>0, IdleType, Updates
    <3> QED BY <1>6, <3>1, <3>2, SetTypes DEF Finally
  <2>2. /\ operationCount' = operationCount - 1 /\ (Requeue \/ UNCHANGED queue)
        /\ UNCHANGED <<space, snapshot, stored, index, events>>
    BY <1>6 DEF Finally
  <2>3. indexQueue' \subseteq Message /\ batch' \subseteq Message /\ left' \subseteq batch' /\ givenUp' \subseteq Path
    <3>1. CASE Requeue
      BY <3>1, RequeueTypes
    <3>2. CASE UNCHANGED queue
      BY <3>2 DEF queue, DataTypes
    <3> QED BY <2>2, <3>1, <3>2
  <2> QED BY <2>1, <2>2, <2>3 DEF DataTypes, space, snapshot, queue
<1>7. ASSUME NEW p \in Path, CompareListed(o, p) PROVE OpTypes' /\ DataTypes'
  <2> DEFINE rest == [r EXCEPT !.todo = r.todo \ {p}]
  <2>1. rest \in OpState
    BY <1>0, Updates
  <2>2. /\ Update(p, r.got[p])
        /\ \/ Issue(o, Dispatch(rest, "changed", p))
           \/ op' = [op EXCEPT ![o] = rest] /\ UNCHANGED kv
        /\ UNCHANGED <<space, stored, operationCount, index, queue, events>>
    BY <1>7 DEF CompareListed
  <2>3. OpTypes'
    <3>1. Dispatch(rest, "changed", p) \in OpState
      BY <2>1, Updates
    <3> QED BY <2>1, <2>2, <3>1, IssueTypes, SetTypes
  <2>4. spaceSnapshot' \in Files /\ snapshotChanged' \in BOOLEAN
    BY <1>0, <2>2, UpdateTypes DEF Files
  <2> QED BY <2>2, <2>3, <2>4 DEF DataTypes, space, queue
<1>8. ASSUME NEW p \in Path, CompareGone(o, p) PROVE OpTypes' /\ DataTypes'
  <2> DEFINE rest == [r EXCEPT !.gone = r.gone \ {p}]
  <2>1. Dispatch(rest, "deleted", p) \in OpState
    <3>1. rest \in OpState
      BY <1>0, Updates
    <3> QED BY <3>1, Updates
  <2>2. /\ spaceSnapshot' = [spaceSnapshot EXCEPT ![p] = 0] /\ snapshotChanged' = TRUE
        /\ Issue(o, Dispatch(rest, "deleted", p))
        /\ UNCHANGED <<space, stored, operationCount, index, queue, events>>
    BY <1>8 DEF CompareGone
  <2>3. OpTypes'
    BY <2>1, <2>2, IssueTypes
  <2>4. [spaceSnapshot EXCEPT ![p] = 0] \in Files
    BY EventedConstants DEF DataTypes, Files, Version
  <2> QED BY <2>2, <2>3, <2>4 DEF DataTypes, space, queue
<1> QED BY <1>1, <1>2, <1>3, <1>4, <1>5, <1>6, <1>7, <1>8

\* The operations that are counted, and what their kinds imply.
Resting == {"idle", "parse", "write"}
Shape(o, r) ==
  /\ r.kind = "list" => r.pc \notin Resting
  /\ r.kind \in {"read", "write", "delete"} \/ r.pc \in {"collect", "erase", "send"}
       => r.path \in Path
  /\ r.pc \in {"compare", "save"} => r.kind \in {"list", "delete"}
  /\ o = Indexer => r.kind \in {"none", "read"}
Shapes == \A o \in Op : Shape(o, op[o])

LEMMA StoreTypes ==
  ASSUME OpTypes, DataTypes, Shapes,
         \/ \E o \in Op : Store(o)
         \/ Parsed \/ IndexObjects
  PROVE  OpTypes' /\ DataTypes'
<1>1. ASSUME NEW o \in Op, Store(o) PROVE OpTypes' /\ DataTypes'
  <2> DEFINE r == op[o]
  <2>0. /\ r \in OpState /\ r.save \in Files /\ r.keys \in SUBSET Version
        /\ r.pc \in {"collect", "erase", "send"} => r.path \in Path
    BY DEF OpTypes, OpState, Shapes, Shape
  <2>1. Handled(r) \in OpState /\ Cleared(r) \in OpState
    BY <2>0, Updates
  <2>2. CASE Collect(o)
    <3> DEFINE keys == Keys(r.path)
               next == IF keys = {} THEN Cleared(r) ELSE [r EXCEPT !.pc = "erase", !.keys = keys]
    <3>1. r.path \in Path
      BY <2>0, <2>2 DEF Collect, Transaction, At
    <3>2. keys \in SUBSET Version
      BY <3>1 DEF Keys, DataTypes
    <3>3. [r EXCEPT !.pc = "erase", !.keys = keys] \in OpState
      BY <2>0, <3>2 DEF OpState
    <3>4. OpTypes'
      BY <2>1, <2>2, <3>3, ThenTypes DEF Collect, Transaction
    <3> QED BY <2>2, <3>4 DEF Collect, DataTypes, space, snapshot, queue
  <2>3. CASE Erase(o)
    <3>1. OpTypes'
      BY <2>1, <2>3, ThenTypes DEF Erase, Transaction
    <3>2. index' \in [Path -> SUBSET (Version \X Version)]
      BY <2>3 DEF Erase, DataTypes
    <3> QED BY <2>3, <3>1, <3>2 DEF Erase, DataTypes, space, snapshot, queue
  <2>4. CASE SendToIndexer(o)
    <3>1. OpTypes'
      BY <2>1, <2>4, ThenTypes DEF SendToIndexer, Transaction
    <3>2. indexQueue' = indexQueue \cup {<<r.path, 0>>} /\ givenUp' = givenUp \ {r.path}
          /\ UNCHANGED <<space, snapshot, stored, operationCount, index, batch, left, events>>
      BY <2>4 DEF SendToIndexer
    <3>3. <<r.path, 0>> \in Message
      BY <2>4, <2>0, EventedConstants DEF SendToIndexer, Transaction, At, Message
    <3> QED BY <3>1, <3>2, <3>3 DEF DataTypes, space, snapshot, queue
  <2>5. CASE SnapshotSaved(o)
    <3>1. [r EXCEPT !.pc = "saved", !.save = NoFiles] \in OpState
      BY <2>0, IdleType DEF OpState
    <3>2. OpTypes'
      BY <2>5, <3>1, ThenTypes DEF SnapshotSaved, Transaction
    <3> QED BY <2>5, <2>0, <3>2 DEF SnapshotSaved, DataTypes, space, queue
  <2> QED BY <1>1, <2>2, <2>3, <2>4, <2>5 DEF Store
<1>2. CASE Parsed
  <2>1. op[Indexer] \in OpState /\ Indexer \in Op
    BY DEF OpTypes, Op
  <2>2. OpTypes'
    BY <1>2, <2>1, Updates, IssueTypes DEF Parsed
  <2> QED BY <1>2, <2>2 DEF Parsed, DataTypes, space, snapshot, queue
<1>3. CASE IndexObjects
  <2> DEFINE r == op[Indexer]
             new == Entries(r.got[r.path])
  <2>1. r \in OpState /\ r.got \in Files /\ Indexer \in Op
    BY DEF OpTypes, OpState, Op
  <2>2. OpTypes'
    BY <1>3, <2>1, IdleType, ThenTypes DEF IndexObjects, Transaction
  <2>3. index' \in [Path -> SUBSET (Version \X Version)]
    <3>1. index' = [index EXCEPT ![r.path] =
                      {e \in index[r.path] : \A f \in new : e[1] # f[1]} \cup new]
      BY <1>3 DEF IndexObjects
    <3>2. CASE r.path \in Path
      <4>1. new \in SUBSET (Version \X Version)
        <5>1. r.got[r.path] \in Version /\ 0 \in Version
          BY <2>1, <3>2, EventedConstants DEF Files, Version
        <5> QED BY <5>1 DEF Entries
      <4> HIDE DEF new
      <4> QED BY <3>1, <3>2, <4>1 DEF DataTypes
    <3>3. CASE r.path \notin Path
      BY <3>1, <3>3 DEF DataTypes
    <3> QED BY <3>2, <3>3
  <2> QED BY <1>3, <2>2, <2>3 DEF IndexObjects, DataTypes, space, snapshot, queue
<1> QED BY <1>1, <1>2, <1>3

-----------------------------------------------------------------------------
(* What a step does to the count: it starts an operation, goes on with one,  *)
(* ends one, or belongs to none that is counted.                            *)

Flying(o) == op[o].pc \notin Resting
CompareState(r) ==
  \/ r.kind = "list"
  \/ r.kind \in {"read", "write"} /\ r.pc \in {"collect", "erase", "send", "cache", "saving"}

Begins(r, s) ==
  /\ r.pc \in Resting /\ s.pc \notin Resting /\ operationCount' = operationCount + 1
  /\ CompareState(s) => operationCount = 0
Continues(r, s) ==
  /\ r.pc \notin Resting /\ s.pc \notin Resting /\ UNCHANGED operationCount
  /\ CompareState(s) => CompareState(r) \/ operationCount = 1
Ends(r, s) ==
  /\ r.pc \notin Resting /\ s.pc \in Resting /\ operationCount' = operationCount - 1
  /\ ~CompareState(s)
Rests(r, s) ==
  /\ r.pc \in Resting /\ s.pc \in Resting /\ UNCHANGED operationCount
  /\ ~CompareState(s)

Moves(o) ==
  \E s : /\ op' = [op EXCEPT ![o] = s] /\ Shape(o, s)
         /\ \/ Begins(op[o], s) \/ Continues(op[o], s) \/ Ends(op[o], s) \/ Rests(op[o], s)

\* An operation in flight that stays in flight.
LEMMA GoesOn ==
  ASSUME OpTypes, NEW o \in Op, NEW s, Shape(o, op[o]), Flying(o), UNCHANGED operationCount,
         op' = [op EXCEPT ![o] = s],
         s.kind = op[o].kind, s.pc \notin Resting, s.path \in {op[o].path} \cup Path,
         s.pc \in {"collect", "erase", "send"} => s.path \in Path,
         s.pc \in {"compare", "save"} => s.kind \in {"list", "delete"},
         CompareState(s) => CompareState(op[o]) \/ operationCount = 1
  PROVE  Moves(o)
<1>1. Shape(o, s) /\ Continues(op[o], s)
  BY DEF Shape, Continues, Flying
<1> QED BY <1>1 DEF Moves

\* saveSnapshot is called at the end of a trigger, a listing or a deletion.
LEMMA SaveMoves ==
  ASSUME OpTypes, NEW o \in Op, NEW r \in OpState, NEW f \in Files, NEW c \in BOOLEAN,
         Shape(o, op[o]), Flying(o), UNCHANGED operationCount,
         r.kind = op[o].kind, r.path = op[o].path,
         CompareState(op[o]) \/ r.kind \in {"none", "delete"} \/ operationCount = 1,
         Save(o, r, f, c)
  PROVE  Moves(o)
<1> DEFINE s == Saving(r, f, c)
<1>1. op' = [op EXCEPT ![o] = s]
  BY DEF Save, Issue
<1>2. s.kind = r.kind /\ s.path = r.path /\ s.pc \in {"saving", "saved"}
  BY DEF Saving, OpState
<1>3. CompareState(s) => CompareState(op[o]) \/ operationCount = 1
  BY <1>2 DEF CompareState
<1> QED BY <1>1, <1>2, <1>3, GoesOn DEF Resting

LEMMA CacheMoves ==
  ASSUME OpTypes, DataTypes, NEW o \in Op, Shape(o, op[o]), Flying(o), UNCHANGED operationCount,
         CompareState(op[o]) \/ op[o].kind \in {"none", "delete"} \/ operationCount = 1, Cache(o)
  PROVE  Moves(o)
BY CacheTypes, SaveMoves DEF Cache, OpTypes

LEMMA CallMoves ==
  ASSUME OpTypes, DataTypes, Shapes
  PROVE  /\ StartList => Moves(Lister)
         /\ \A o \in Caller, p \in Path, kind \in {"read", "write", "delete"} :
              StartCall(o, kind, p) => Moves(o)
         /\ \A m \in Message : Poll(m) \/ TakeMessage(m) => Moves(Indexer)
<1>1. ASSUME StartList, NEW o, o = Lister PROVE Moves(o)
  <2> DEFINE s == [Idle EXCEPT !.kind = "list", !.pc = "asked"]
  <2>1. s.kind = "list" /\ s.pc = "asked"
    BY DEF Idle
  <2>2. Shape(o, s)
    BY <1>1, <2>1, EventedConstants DEF Shape, Resting
  <2>3. Begins(op[o], s) /\ op' = [op EXCEPT ![o] = s]
    BY <1>1, <2>1 DEF StartList, At, Begins, Resting
  <2> QED BY <2>2, <2>3 DEF Moves
<1>2. ASSUME NEW o \in Caller, NEW p \in Path, NEW kind \in {"read", "write", "delete"},
             StartCall(o, kind, p)
      PROVE  Moves(o)
  <2> DEFINE s == [Idle EXCEPT !.kind = kind, !.pc = "asked", !.path = p,
                               !.got[p] = IF kind = "write" THEN versions + 1 ELSE 0]
  <2>1. s.kind = kind /\ s.pc = "asked" /\ s.path = p
    BY DEF Idle
  <2>2. Shape(o, s)
    BY <2>1, EventedConstants DEF Shape
  <2>3. op' = [op EXCEPT ![o] = s] /\ op[o].pc = "idle" /\ operationCount' = operationCount + 1
    BY <1>2 DEF StartCall, At
  <2>4. Begins(op[o], s)
    BY <2>1, <2>3 DEF Begins, CompareState, Resting
  <2> QED BY <2>2, <2>3, <2>4 DEF Moves
<1>3. ASSUME NEW m \in Message, Poll(m) \/ TakeMessage(m), NEW p \in Path, p = m[1] PROVE Moves(Indexer)
  <2> DEFINE s == [Idle EXCEPT !.kind = "read", !.pc = "asked", !.path = p]
  <2>1. s.kind = "read" /\ s.pc = "asked" /\ s.path = p
    BY DEF Idle
  <2>2. Shape(Indexer, s)
    BY <2>1 DEF Shape
  <2>3. op' = [op EXCEPT ![Indexer] = s] /\ op[Indexer].pc = "idle"
        /\ operationCount' = operationCount + 1
    BY <1>3 DEF Poll, TakeMessage, Read, At
  <2>4. Begins(op[Indexer], s)
    BY <2>1, <2>3 DEF Begins, CompareState, Resting
  <2> QED BY <2>2, <2>3, <2>4 DEF Moves
<1> QED BY <1>1, <1>2, <1>3 DEF Message

LEMMA StepMoves ==
  ASSUME OpTypes, DataTypes, Shapes, NEW o \in Op, Step(o)
  PROVE  Moves(o)
<1> DEFINE r == op[o]
<1>0. r \in OpState /\ Shape(o, r)
  BY DEF OpTypes, Shapes
<1>1. CASE Serve(o)
  <2> DEFINE got == CASE r.kind = "list" -> disk
                      [] r.kind = "read" -> [NoFiles EXCEPT ![r.path] = disk[r.path]]
                      [] OTHER           -> r.got
             s == [r EXCEPT !.pc = "answered", !.got = got]
  <2>1. op' = [op EXCEPT ![o] = s] /\ r.pc = "asked" /\ UNCHANGED operationCount
    BY <1>1 DEF Serve, OpTypes
  <2>2. s.kind = r.kind /\ s.pc = "answered" /\ s.path = r.path
    BY <1>0 DEF OpState
  <2>3. CompareState(s) => CompareState(r)
    BY <2>2 DEF CompareState
  <2> QED BY <1>0, <2>1, <2>2, <2>3, GoesOn DEF Flying, Resting
<1>2. CASE Fail(o)
  <2> DEFINE s == [r EXCEPT !.pc = IF r.kind \in {"list", "delete"} THEN "save" ELSE "finally",
                            !.got = NoFiles]
  <2>1. op' = [op EXCEPT ![o] = s] /\ r.pc \in {"asked", "answered"} /\ UNCHANGED operationCount
    BY <1>2 DEF Fail, OpTypes
  <2>2. s.kind = r.kind /\ s.path = r.path
        /\ s.pc = IF r.kind \in {"list", "delete"} THEN "save" ELSE "finally"
    BY <1>0 DEF OpState
  <2>3. (CompareState(s) => CompareState(r)) /\ Flying(o)
    BY <2>1, <2>2 DEF CompareState, Flying, Resting
  <2> HIDE DEF s
  <2>4. s.pc \in {"save", "finally"} /\ (s.pc = "save" => s.kind \in {"list", "delete"})
    BY <2>2
  <2> QED BY <1>0, <2>1, <2>2, <2>3, <2>4, GoesOn DEF Resting
<1>3. CASE ReturnList(o)
  <2> DEFINE s == [r EXCEPT !.pc = "compare", !.todo = {p \in Path : r.got[p] # 0},
                            !.gone = {p \in Path : spaceSnapshot[p] # 0 /\ r.got[p] = 0}]
  <2>1. op' = [op EXCEPT ![o] = s] /\ r.pc = "answered" /\ r.kind = "list" /\ UNCHANGED operationCount
    BY <1>3 DEF ReturnList, OpTypes, At
  <2>2. s.kind = r.kind /\ s.pc = "compare" /\ s.path = r.path
    BY <1>0 DEF OpState
  <2>3. CompareState(r)
    BY <2>1 DEF CompareState
  <2> QED BY <1>0, <2>1, <2>2, <2>3, GoesOn DEF Flying, Resting
<1>4. CASE ReturnFile(o)
  <2>1. /\ r.pc = "answered" /\ r.kind \in {"read", "write"} /\ UNCHANGED operationCount
        /\ \/ Go(o, "saved")
           \/ operationCount = 1 /\ Issue(o, Dispatch(r, "changed", r.path))
           \/ operationCount = 1 /\ Cache(o)
    BY <1>4 DEF ReturnFile, At, Alone
  <2>2. Flying(o)
    BY <2>1 DEF Flying, Resting
  <2>3. CASE Go(o, "saved")
    <3> DEFINE s == [r EXCEPT !.pc = "saved"]
    <3>1. op' = [op EXCEPT ![o] = s]
      BY <2>3 DEF Go, OpTypes
    <3>2. s.kind = r.kind /\ s.pc = "saved" /\ s.path = r.path
      BY <1>0 DEF OpState
    <3>3. ~CompareState(s)
      BY <2>1, <3>2 DEF CompareState
    <3> QED BY <1>0, <2>1, <2>2, <3>1, <3>2, <3>3, GoesOn DEF Resting
  <2>4. CASE operationCount = 1 /\ Issue(o, Dispatch(r, "changed", r.path))
    <3> DEFINE s == Dispatch(r, "changed", r.path)
    <3>1. op' = [op EXCEPT ![o] = s]
      BY <2>4 DEF Issue
    <3>2. s.kind = r.kind /\ s.pc = "collect" /\ s.path = r.path
      BY <1>0 DEF OpState, Dispatch
    <3>3. r.path \in Path
      BY <1>0, <2>1 DEF Shape
    <3> QED BY <1>0, <2>1, <2>2, <2>4, <3>1, <3>2, <3>3, GoesOn DEF Resting
  <2>5. CASE operationCount = 1 /\ Cache(o)
    BY <1>0, <2>1, <2>2, <2>5, CacheMoves
  <2> QED BY <2>1, <2>3, <2>4, <2>5
<1>5. CASE ReturnDelete(o)
  <2> DEFINE s == Dispatch(r, "deleted", r.path)
  <2>1. op' = [op EXCEPT ![o] = s] /\ r.pc = "answered" /\ r.kind = "delete" /\ UNCHANGED operationCount
    BY <1>5 DEF ReturnDelete, At, Issue
  <2>2. s.kind = r.kind /\ s.pc = "collect" /\ s.path = r.path
    BY <1>0 DEF OpState, Dispatch
  <2>3. r.path \in Path /\ ~CompareState(s)
    BY <1>0, <2>1, <2>2 DEF Shape, CompareState
  <2>4. Flying(o)
    BY <2>1 DEF Flying, Resting
  <2> HIDE DEF s
  <2> QED BY <1>0, <2>1, <2>2, <2>3, <2>4, GoesOn DEF Resting
<1>6. ASSUME NEW p \in Path, CompareListed(o, p) PROVE Moves(o)
  <2> DEFINE rest == [r EXCEPT !.todo = r.todo \ {p}]
  <2>1. /\ op' \in {[op EXCEPT ![o] = Dispatch(rest, "changed", p)], [op EXCEPT ![o] = rest]}
        /\ r.pc = "compare" /\ UNCHANGED operationCount
    BY <1>6 DEF CompareListed, At, Issue
  <2>2. rest.kind = r.kind /\ rest.pc = r.pc /\ rest.path = r.path
    BY <1>0 DEF OpState
  <2>3. Dispatch(rest, "changed", p).kind = r.kind /\ Dispatch(rest, "changed", p).pc = "collect"
        /\ Dispatch(rest, "changed", p).path = p
    BY <1>0 DEF OpState, Dispatch
  <2>4. Flying(o) /\ r.kind \in {"list", "delete"}
    BY <1>0, <2>1 DEF Flying, Resting, Shape
  <2>5. CASE op' = [op EXCEPT ![o] = Dispatch(rest, "changed", p)]
    <3>1. CompareState(Dispatch(rest, "changed", p)) => CompareState(r)
      BY <2>3, <2>4 DEF CompareState
    <3> QED BY <1>0, <2>1, <2>3, <2>4, <2>5, <3>1, GoesOn DEF Resting
  <2>6. CASE op' = [op EXCEPT ![o] = rest]
    <3>1. CompareState(rest) => CompareState(r)
      BY <2>2 DEF CompareState
    <3> HIDE DEF rest
    <3> QED BY <1>0, <2>1, <2>2, <2>4, <2>6, <3>1, GoesOn DEF Resting
  <2> QED BY <2>1, <2>5, <2>6
<1>7. ASSUME NEW p \in Path, CompareGone(o, p) PROVE Moves(o)
  <2> DEFINE s == Dispatch([r EXCEPT !.gone = r.gone \ {p}], "deleted", p)
  <2>1. op' = [op EXCEPT ![o] = s] /\ r.pc = "compare" /\ UNCHANGED operationCount
    BY <1>7 DEF CompareGone, At, Issue
  <2>2. s.kind = r.kind /\ s.pc = "collect" /\ s.path = p
    BY <1>0 DEF OpState, Dispatch
  <2>3. Flying(o) /\ r.kind \in {"list", "delete"}
    BY <1>0, <2>1 DEF Flying, Resting, Shape
  <2>4. CompareState(s) => CompareState(r)
    BY <2>2, <2>3 DEF CompareState
  <2> QED BY <1>0, <2>1, <2>2, <2>3, <2>4, GoesOn DEF Resting
<1>8. CASE Listed(o)
  <2> DEFINE q == [r EXCEPT !.got = NoFiles]
  <2>1. r.pc \in {"compare", "save"} /\ Save(o, q, spaceSnapshot, snapshotChanged)
        /\ UNCHANGED operationCount
    BY <1>8 DEF Listed, At
  <2>2. q \in OpState /\ q.kind = r.kind /\ q.path = r.path
    BY <1>0, IdleType DEF OpState
  <2>3. Flying(o) /\ (CompareState(r) \/ q.kind = "delete")
    BY <1>0, <2>1, <2>2 DEF Flying, Resting, Shape, CompareState
  <2>4. spaceSnapshot \in Files /\ snapshotChanged \in BOOLEAN
    BY DEF DataTypes
  <2> QED BY <1>0, <2>1, <2>2, <2>3, <2>4, SaveMoves
<1>9. CASE AfterEvent(o)
  <2>1. r.pc = "cache" /\ Cache(o) /\ UNCHANGED operationCount
    BY <1>9 DEF AfterEvent, At
  <2>2. Flying(o) /\ (CompareState(r) \/ r.kind \in {"none", "delete"})
    BY <1>0, <2>1 DEF Flying, Resting, CompareState, OpState
  <2> QED BY <1>0, <2>1, <2>2, CacheMoves
<1>10. CASE Finally(o)
  <2>1. /\ r.pc \in {"saved", "finally"} /\ operationCount' = operationCount - 1
        /\ \/ op' = [op EXCEPT ![o] = Idle]
           \/ o = Indexer /\ op' = [op EXCEPT ![o] = [r EXCEPT !.pc = "parse"]]
    BY <1>10 DEF Finally
  <2>2. CASE op' = [op EXCEPT ![o] = Idle]
    <3>1. Idle.kind = "none" /\ Idle.pc = "idle"
      BY DEF Idle
    <3>2. Shape(o, Idle) /\ Ends(r, Idle)
      BY <2>1, <3>1 DEF Shape, Ends, Resting, CompareState
    <3> QED BY <2>2, <3>2 DEF Moves
  <2>3. CASE o = Indexer /\ op' = [op EXCEPT ![o] = [r EXCEPT !.pc = "parse"]]
    <3> DEFINE s == [r EXCEPT !.pc = "parse"]
    <3>1. s.kind = r.kind /\ s.path = r.path /\ s.pc = "parse" /\ r.kind \in {"none", "read"}
      BY <1>0, <2>3 DEF OpState, Shape
    <3>2. Shape(o, s) /\ Ends(r, s)
      BY <1>0, <2>1, <3>1 DEF Shape, Ends, Resting, CompareState
    <3> QED BY <2>3, <3>2 DEF Moves
  <2> QED BY <2>1, <2>2, <2>3
<1> QED BY <1>1, <1>2, <1>3, <1>4, <1>5, <1>6, <1>7, <1>8, <1>9, <1>10 DEF Step

\* What a transaction of the listeners makes of r.
After(r, s) ==
  /\ s.kind = r.kind /\ s.path = r.path
  /\ s.pc \in {"erase", "send", "compare", "save", "cache"}
  /\ s.pc \in {"compare", "save"} => r.kind \in {"list", "delete"}

LEMMA ListenerMoves ==
  ASSUME OpTypes, Shapes, NEW o \in Op, UNCHANGED operationCount,
         op[o].pc \in {"collect", "erase", "send"},
         NEW s, After(op[o], s), op' = [op EXCEPT ![o] = s]
  PROVE  Moves(o)
<1>0. Shape(o, op[o])
  BY DEF Shapes
<1>1. op[o].path \in Path /\ Flying(o)
  BY <1>0 DEF Shape, Flying, Resting
<1>2. CompareState(s) => CompareState(op[o])
  BY DEF After, CompareState
<1> QED BY <1>0, <1>1, <1>2, GoesOn DEF After, Resting

LEMMA StoreMoves ==
  ASSUME OpTypes, DataTypes, Shapes, NEW o \in Op, Store(o)
  PROVE  Moves(o)
<1> DEFINE r == op[o]
<1>0. r \in OpState /\ Shape(o, r)
  BY DEF OpTypes, Shapes
<1>2. After(r, Handled(r))
  BY <1>0 DEF OpState, Handled, After
<1>3. After(r, Cleared(r))
  <2>1. After(r, [r EXCEPT !.pc = "send", !.keys = {}])
    BY <1>0 DEF OpState, After
  <2> QED BY <1>2, <2>1 DEF Cleared
<1>4. CASE Collect(o)
  <2> DEFINE s == [r EXCEPT !.pc = "erase", !.keys = Keys(r.path)]
  <2>1. /\ r.pc = "collect" /\ UNCHANGED operationCount
        /\ op' \in {[op EXCEPT ![o] = Cleared(r)], [op EXCEPT ![o] = s]}
    BY <1>4 DEF Collect, Transaction, At, Then
  <2>2. After(r, s)
    BY <1>0 DEF OpState, After
  <2> HIDE DEF s
  <2>3. CASE op' = [op EXCEPT ![o] = s]
    BY <2>1, <2>2, <2>3, ListenerMoves
  <2>4. CASE op' = [op EXCEPT ![o] = Cleared(r)]
    BY <1>3, <2>1, <2>4, ListenerMoves
  <2> QED BY <2>1, <2>3, <2>4
<1>5. CASE Erase(o)
  <2>1. r.pc = "erase" /\ UNCHANGED operationCount /\ op' = [op EXCEPT ![o] = Cleared(r)]
    BY <1>5 DEF Erase, Transaction, At, Then
  <2> QED BY <1>3, <2>1, ListenerMoves
<1>6. CASE SendToIndexer(o)
  <2>1. r.pc = "send" /\ UNCHANGED operationCount /\ op' = [op EXCEPT ![o] = Handled(r)]
    BY <1>6 DEF SendToIndexer, Transaction, At, Then
  <2> QED BY <1>2, <2>1, ListenerMoves
<1>7. CASE SnapshotSaved(o)
  <2> DEFINE s == [r EXCEPT !.pc = "saved", !.save = NoFiles]
  <2>1. r.pc = "saving" /\ UNCHANGED operationCount /\ op' = [op EXCEPT ![o] = s]
    BY <1>7 DEF SnapshotSaved, Transaction, At, Then
  <2>2. s.kind = r.kind /\ s.path = r.path /\ s.pc = "saved"
    BY <1>0 DEF OpState
  <2>3. (CompareState(s) => CompareState(r)) /\ Flying(o)
    BY <2>1, <2>2 DEF CompareState, Flying, Resting
  <2> HIDE DEF s
  <2> QED BY <1>0, <2>1, <2>2, <2>3, GoesOn DEF Resting
<1> QED BY <1>4, <1>5, <1>6, <1>7 DEF Store

LEMMA IndexerMoves ==
  ASSUME OpTypes, DataTypes, Shapes, Parsed \/ IndexObjects
  PROVE  Moves(Indexer)
<1> DEFINE r == op[Indexer]
<1>0. r \in OpState /\ Shape(Indexer, r)
  BY DEF OpTypes, Shapes, Op
<1>1. CASE Parsed
  <2> DEFINE s == [r EXCEPT !.pc = "write"]
  <2>1. r.pc = "parse" /\ UNCHANGED operationCount /\ op' = [op EXCEPT ![Indexer] = s]
    BY <1>1 DEF Parsed, At, Issue
  <2>2. s.kind = r.kind /\ s.path = r.path /\ s.pc = "write"
    BY <1>0 DEF OpState
  <2>3. Shape(Indexer, s) /\ Rests(r, s)
    BY <1>0, <2>1, <2>2 DEF Shape, Rests, CompareState, Resting
  <2> QED BY <2>1, <2>3 DEF Moves
<1>2. CASE IndexObjects
  <2>1. r.pc = "write" /\ UNCHANGED operationCount /\ op' = [op EXCEPT ![Indexer] = Idle]
    BY <1>2 DEF IndexObjects, Transaction, At, Then
  <2>2. Idle.kind = "none" /\ Idle.pc = "idle"
    BY DEF Idle
  <2>3. Shape(Indexer, Idle) /\ Rests(r, Idle)
    BY <2>1, <2>2 DEF Shape, Rests, CompareState, Resting
  <2> QED BY <2>1, <2>3 DEF Moves
<1> QED BY <1>1, <1>2

-----------------------------------------------------------------------------
(* The inductive invariant.  The count is that of the operations in flight; *)
(* when it is 0 nobody compares, and when it is 1 nobody else does.         *)

Counted == operationCount = Cardinality({o \in Op : Flying(o)})
IInv == OpTypes /\ DataTypes /\ Shapes /\ Counted /\ OneComparison

LEMMA FlyingFinite == IsFiniteSet(Op) /\ \A S \in SUBSET Op : IsFiniteSet(S) /\ Cardinality(S) \in Nat
<1>1. IsFiniteSet((Caller \cup {Lister}) \cup {Indexer})
  BY EventedConstants, FS_AddElement
<1>2. IsFiniteSet(Op)
  BY <1>1, (Caller \cup {Lister}) \cup {Indexer} = Caller \cup {Lister, Indexer} DEF Op
<1> QED BY <1>2, FS_Subset, FS_CardinalityType

\* Nobody is in flight when the count is 0, and one alone when it is 1.
LEMMA CountMeans ==
  ASSUME Counted
  PROVE  /\ operationCount = 0 => \A o \in Op : ~Flying(o)
         /\ operationCount = 1 => \A o1, o2 \in Op : Flying(o1) /\ Flying(o2) => o1 = o2
<1> DEFINE S == {o \in Op : Flying(o)}
<1>1. IsFiniteSet(S) /\ S \in SUBSET Op
  BY FlyingFinite
<1>2. CASE operationCount = 0
  <2>1. S = {}
    BY <1>1, <1>2, FS_EmptySet DEF Counted
  <2> QED BY <1>2, <2>1
<1>3. CASE operationCount = 1
  <2>1. \E x : S = {x}
    BY <1>1, <1>3, FS_Singleton DEF Counted
  <2> QED BY <1>3, <2>1
<1> QED BY <1>2, <1>3

\* A step of one operation keeps the count right and two from comparing.
LEMMA MovesKeep ==
  ASSUME OpTypes, Shapes, Counted, OneComparison, operationCount \in Int, NEW o \in Op, Moves(o)
  PROVE  Shapes' /\ Counted' /\ OneComparison'
<1>1. PICK s : /\ op' = [op EXCEPT ![o] = s] /\ Shape(o, s)
               /\ \/ Begins(op[o], s) \/ Continues(op[o], s) \/ Ends(op[o], s) \/ Rests(op[o], s)
  BY DEF Moves
<1>2. op'[o] = s /\ \A q \in Op : q # o => op'[q] = op[q]
  BY <1>1 DEF OpTypes
<1>3. Shapes'
  BY <1>1, <1>2 DEF Shapes
<1> DEFINE S == {q \in Op : Flying(q)}
           T == {q \in Op : op'[q].pc \notin Resting}
<1>4. IsFiniteSet(S) /\ operationCount = Cardinality(S)
  BY FlyingFinite DEF Counted
<1>5. operationCount' = Cardinality(T)
  <2>1. CASE Begins(op[o], s)
    <3>1. T = S \cup {o} /\ o \notin S
      BY <1>2, <2>1 DEF Begins, Flying
    <3> QED BY <1>4, <2>1, <3>1, FS_AddElement DEF Begins
  <2>2. CASE Ends(op[o], s)
    <3>1. T = S \ {o} /\ o \in S
      BY <1>2, <2>2 DEF Ends, Flying
    <3> QED BY <1>4, <2>2, <3>1, FS_RemoveElement DEF Ends
  <2>3. CASE Continues(op[o], s) \/ Rests(op[o], s)
    <3>1. T = S
      BY <1>2, <2>3 DEF Continues, Rests, Flying
    <3> QED BY <1>4, <2>3, <3>1 DEF Continues, Rests
  <2> QED BY <1>1, <2>1, <2>2, <2>3
<1>6. Counted'
  BY <1>5 DEF Counted, Flying
<1>7. \A q \in Op : CompareState(op[q]) => Flying(q)
  BY DEF Shapes, Shape, CompareState, Flying, Resting
<1>8. ASSUME NEW q \in Op, q # o, CompareState(op[q]) PROVE ~CompareState(s)
  <2>1. Flying(q)
    BY <1>7, <1>8
  <2>2. CASE Begins(op[o], s)
    BY <2>1, <2>2, CountMeans DEF Begins
  <2>3. CASE Continues(op[o], s)
    <3>1. Flying(o) /\ operationCount # 1
      BY <1>8, <2>1, <2>3, CountMeans DEF Continues, Flying
    <3>2. ~CompareState(op[o])
      BY <1>8 DEF OneComparison, Comparing, CompareState
    <3> QED BY <2>3, <3>1, <3>2 DEF Continues
  <2>4. CASE Ends(op[o], s) \/ Rests(op[o], s)
    BY <2>4 DEF Ends, Rests
  <2> QED BY <1>1, <2>2, <2>3, <2>4
<1>9. \A o1, o2 \in Op : CompareState(op'[o1]) /\ CompareState(op'[o2]) => o1 = o2
  <2> SUFFICES ASSUME NEW o1 \in Op, NEW o2 \in Op, CompareState(op'[o1]), CompareState(op'[o2]),
                      o1 # o2
               PROVE  FALSE
    OBVIOUS
  <2>1. CASE o1 # o /\ o2 # o
    BY <1>2, <2>1 DEF OneComparison, Comparing, CompareState
  <2>2. CASE o1 = o \/ o2 = o
    BY <1>2, <1>8, <2>2
  <2> QED BY <2>1, <2>2
<1>10. OneComparison'
  BY <1>9 DEF OneComparison, Comparing, CompareState
<1> QED BY <1>3, <1>6, <1>10

LEMMA Kept ==
  ASSUME IInv, [Next]_vars
  PROVE  IInv'
<1> USE DEF IInv
<1>0. operationCount \in Int
  BY DEF DataTypes
<1>1. CASE StartList
  <2>1. OpTypes' /\ DataTypes'
    BY <1>1, CallTypes
  <2> QED BY <1>0, <1>1, <2>1, CallMoves, MovesKeep DEF Op
<1>2. CASE \E o \in Caller, p \in Path : \E kind \in {"read", "write", "delete"} :
             StartCall(o, kind, p)
  <2>1. OpTypes' /\ DataTypes'
    BY <1>2, CallTypes
  <2> QED BY <1>0, <1>2, <2>1, CallMoves, MovesKeep DEF Op
<1>3. CASE \E m \in Message : Poll(m) \/ TakeMessage(m)
  <2>1. OpTypes' /\ DataTypes'
    BY <1>3, CallTypes
  <2> QED BY <1>0, <1>3, <2>1, CallMoves, MovesKeep DEF Op
<1>4. CASE Ack \/ \E p \in Path : OthersWrite(p) \/ OthersDelete(p)
  <2>1. OpTypes' /\ DataTypes'
    BY <1>4, CallTypes, SpaceTypes
  <2>2. UNCHANGED <<op, operationCount>>
    BY <1>4 DEF Ack, OthersWrite, OthersDelete
  <2> QED BY <2>1, <2>2 DEF Shapes, Counted, Flying, OneComparison, Comparing
<1>5. ASSUME NEW o \in Op, Step(o) PROVE IInv'
  <2>1. OpTypes' /\ DataTypes'
    BY <1>5, SpaceTypes, ReturnTypes DEF Step
  <2> QED BY <1>0, <1>5, <2>1, StepMoves, MovesKeep
<1>6. ASSUME NEW o \in Op, Store(o) PROVE IInv'
  <2>1. OpTypes' /\ DataTypes'
    BY <1>6, StoreTypes
  <2> QED BY <1>0, <1>6, <2>1, StoreMoves, MovesKeep
<1>7. CASE Parsed \/ IndexObjects
  <2>1. OpTypes' /\ DataTypes'
    BY <1>7, StoreTypes
  <2> QED BY <1>0, <1>7, <2>1, IndexerMoves, MovesKeep DEF Op
<1>8. CASE Reopen
  <2>1. OpTypes' /\ DataTypes'
    BY <1>8, SpaceTypes
  <2>2. operationCount' = 0 /\ \A o \in Op : op'[o] = Idle
    BY <1>8 DEF Reopen
  <2>3. \A o \in Op : op'[o].kind = "none" /\ op'[o].pc = "idle"
    BY <2>2 DEF Idle
  <2>4. Shapes' /\ OneComparison'
    BY <2>3 DEF Shapes, Shape, Resting, OneComparison, Comparing
  <2>5. {o \in Op : op'[o].pc \notin Resting} = {}
    BY <2>3 DEF Resting
  <2>6. Counted'
    BY <2>2, <2>5, FS_EmptySet DEF Counted, Flying
  <2> QED BY <2>1, <2>4, <2>6
<1>9. CASE UNCHANGED vars
  <2>1. OpTypes' /\ DataTypes'
    BY <1>9 DEF vars, space, snapshot, queue, OpTypes, DataTypes
  <2>2. UNCHANGED <<op, operationCount>>
    BY <1>9 DEF vars
  <2> QED BY <2>1, <2>2 DEF Shapes, Counted, Flying, OneComparison, Comparing
<1> QED BY <1>1, <1>2, <1>3, <1>4, <1>5, <1>6, <1>7, <1>8, <1>9 DEF Next, Work

LEMMA Starts == Init => IInv
<1> SUFFICES ASSUME Init PROVE IInv
  OBVIOUS
<1>1. OpTypes /\ DataTypes
  <2>1. op \in [Op -> OpState] /\ kv \in Seq(Op)
    BY IdleType DEF Init
  <2>2. 0 \in Version /\ events \in 0..MaxEvents
    BY EventedConstants DEF Init, Version
  <2>3. /\ index \in [Path -> SUBSET (Version \X Version)]
        /\ indexQueue = {} /\ batch = {} /\ left = {} /\ givenUp = {}
    BY DEF Init
  <2>4. disk \in Files /\ spaceSnapshot \in Files /\ stored \in Files /\ versions = 0
    BY IdleType DEF Init
  <2>5. operationCount \in Int
    BY SMT DEF Init
  <2>6. snapshotChanged \in BOOLEAN
    BY Zenon DEF Init
  <2> QED BY <2>1, <2>2, <2>3, <2>4, <2>5, <2>6 DEF OpTypes, DataTypes
<1>2. \A o \in Op : op[o].kind = "none" /\ op[o].pc = "idle"
  BY DEF Init, Idle
<1>3. Shapes /\ OneComparison
  BY <1>2 DEF Shapes, Shape, Resting, OneComparison, Comparing
<1>4. {o \in Op : Flying(o)} = {}
  BY <1>2 DEF Flying, Resting
<1>5. Counted
  BY <1>4, FS_EmptySet DEF Counted, Init
<1> QED BY <1>1, <1>3, <1>5 DEF IInv

LEMMA Invariant == Spec => []IInv
BY Starts, Kept, PTL DEF Spec

\* Every variable keeps its type; that the count of operations in flight never
\* becomes negative is a matter of which steps count one off.
THEOREM EventedTypes == Spec => []TypeOK
<1>1. IInv => TypeOK
  <2>1. Counted => operationCount \in Nat
    BY FlyingFinite DEF Counted
  <2> QED BY <2>1 DEF IInv, OpTypes, DataTypes, TypeOK
<1> QED BY <1>1, Invariant, PTL

\* No two operations compare files with the snapshot at a time, however many are
\* in flight.
THEOREM OneAtATime == Spec => []OneComparison
<1>1. IInv => OneComparison
  BY DEF IInv
<1> QED BY <1>1, Invariant, PTL

-----------------------------------------------------------------------------
(* SeenIsIndexed.  The versions of p that are known: compared, saved, about  *)
(* to be saved, or v, which an operation is about to put into the snapshot.  *)

Known(p, v) ==
  /\ disk[p] # 0
  /\ \/ disk[p] \in {v, spaceSnapshot[p], stored[p]}
     \/ \E o \in Op : op[o].save[p] = disk[p]
\* It is in the hands of the queue, or was.
Handed(p) == Due(p) \/ p \in givenUp
Hands(p) == \A q \in Path : q = p \/ Handed(q) => Handed(q)'
Done(p) == Indexed(p) \/ Handed(p) \/ Indexing(p) \/ \E o \in Op : Announcing(o, p)

LEMMA QueueStays ==
  ASSUME UNCHANGED queue
  PROVE  \A q \in Path : Handed(q)' <=> Handed(q)
BY DEF queue, Handed, Due, Pages

\* What a batch that comes back was to bring is queued again, or given up.
LEMMA RequeueHands ==
  ASSUME Requeue
  PROVE  \A q \in Path : q = op[Indexer].path \/ Handed(q) => Handed(q)'
<1> DEFINE unhandled == {p \in Path : p \in Pages(left) \/ p = op[Indexer].path}
           again == {<<m[1], m[2] + 1>> : m \in {b \in batch : b[2] < MaxRetries}}
<1>1. /\ indexQueue' = indexQueue \cup again
      /\ givenUp' = givenUp \cup (unhandled \ Pages(indexQueue'))
  BY DEF Requeue
<1>2. Pages(indexQueue) \subseteq Pages(indexQueue') /\ Pages(indexQueue') \subseteq Pages(indexQueue' \cup left')
  BY <1>1 DEF Pages
<1>3. ASSUME NEW q \in unhandled PROVE Handed(q)'
  BY <1>1, <1>2, <1>3 DEF Handed, Due
<1>4. ASSUME NEW q \in Path, Handed(q) PROVE Handed(q)'
  <2>1. q \in Pages(indexQueue) \/ q \in Pages(left) \/ q \in givenUp
    BY <1>4 DEF Handed, Due, Pages
  <2>2. CASE q \in Pages(indexQueue)
    BY <1>2, <2>2 DEF Handed, Due
  <2>3. CASE q \in Pages(left)
    BY <1>3, <2>3
  <2>4. CASE q \in givenUp
    BY <1>1, <2>4 DEF Handed
  <2> QED BY <2>1, <2>2, <2>3, <2>4
<1> QED BY <1>3, <1>4

\* A message that the index worker begins with leaves the others where they are.
LEMMA ReadHands ==
  ASSUME DataTypes, NEW m \in Message, Poll(m) \/ TakeMessage(m), NEW q \in Path, q # m[1], Handed(q)
  PROVE  Handed(q)'
<1>1. (indexQueue \cup left) \ {m} \subseteq indexQueue' \cup left' /\ givenUp' = givenUp
  <2>1. batch = {} => left = {}
    BY DEF DataTypes
  <2>2. CASE Poll(m)
    BY <2>1, <2>2 DEF Poll, Read
  <2>3. CASE TakeMessage(m)
    BY <2>3 DEF TakeMessage, Read
  <2> QED BY <2>2, <2>3
<1> QED BY <1>1 DEF Handed, Due, Pages

\* What the fields of an operation owe each other.
Fits(r) ==
  /\ (r.event # "none") <=> (r.pc \in {"collect", "erase", "send"})
  /\ r.event = "changed" => r.kind \in {"list", "read", "write"}
  /\ r.event = "deleted" => r.kind \in {"list", "delete"}
  /\ r.pc = "send" => r.event = "changed"
  /\ r.pc = "cache" => r.kind \in {"read", "write"}
  /\ r.pc = "compare" => r.kind = "list"
  /\ (r.kind = "none") <=> (r.pc = "idle")
  /\ r.kind = "none" => r.path = None
  /\ r.pc \in {"parse", "write"} => r.got[r.path] # 0
Fitting == \A o \in Op : Fits(op[o])

\* The datastore has one transaction of each operation that waits for it.
Waiting(r) == r.pc \in {"collect", "erase", "send", "saving", "write"}
InLine ==
  /\ \A i, j \in 1..Len(kv) : kv[i] = kv[j] => i = j
  /\ \A o \in Op : Waiting(op[o]) <=> \E i \in 1..Len(kv) : kv[i] = o
Before(a, b) == \E i, j \in 1..Len(kv) : i < j /\ kv[i] = a /\ kv[j] = b

\* A version that a write has not yet brought to the disk is nowhere else.
Asked(o, p) == op[o].kind = "write" /\ op[o].pc = "asked" /\ op[o].path = p
Past(p, v) ==
  \/ v \in {disk[p], spaceSnapshot[p], stored[p]}
  \/ \E o \in Op : v = op[o].save[p] \/ (v = op[o].got[p] /\ ~Asked(o, p))
  \/ \E e \in index[p] : v = e[2]
Fresh(p) ==
  /\ \A v \in Version : v # 0 /\ Past(p, v) =>
       v <= versions /\ \A o \in Op : Asked(o, p) => op[o].got[p] # v
  /\ \A o \in Op : Asked(o, p) =>
       /\ op[o].got[p] <= versions
       /\ \A o2 \in Op : Asked(o2, p) /\ op[o2].got[p] = op[o].got[p] => o = o2

\* A listing that announces a deletion has taken the file out of the snapshot.
Gone == \A o \in Op : op[o].kind = "list" /\ op[o].event = "deleted" => spaceSnapshot[op[o].path] = 0

\* What is in the snapshot is in the index or on its way, and so it is before
\* a read or a write puts it there.
Compared(p) == spaceSnapshot[p] # 0 /\ Known(p, 0) => Done(p)
Cached(o) == op[o].pc = "cache" /\ Known(op[o].path, op[o].got[op[o].path]) => Done(op[o].path)

\* A deletion that is still to clear the index of p, which is in the snapshot
\* again: a listing has announced p, and clears the index itself, or queues p,
\* after the deletion has cleared it.
Clearing(d, p) == op[d].event = "deleted" /\ op[d].path = p
Later(d, l) ==
  \/ op[d].pc = "erase" /\ op[l].pc = "collect"
  \/ Before(d, l) /\ (op[d].pc = "collect" => op[l].pc = "collect")
Overtaken(d, p) ==
  Clearing(d, p) /\ spaceSnapshot[p] # 0 /\ Known(p, 0) =>
    \E l \in Op : l # d /\ op[l].kind = "list" /\ Announcing(l, p) /\ Later(d, l)

\* A read or a write that triggers next to a deletion has an old version: it
\* returned before the deletion was asked for.
Deleting(o) == op[o].kind = "delete" /\ op[o].pc \in {"answered", "collect", "erase"}
Triggering(o) == op[o].kind \in {"read", "write"} /\ op[o].pc \in {"collect", "erase", "send", "cache"}
Apart(d, o) ==
  Deleting(d) /\ Triggering(o) /\ op[d].path = op[o].path =>
    ~Known(op[o].path, op[o].got[op[o].path])

\* The index has the objects of the version on disk only if the index worker is
\* not about to put those of another one there.
Latest(p) ==
  op[Indexer].path = p /\ disk[p] # 0 /\ <<0, disk[p]>> \in index[p] =>
    op[Indexer].got[p] \in {0, disk[p]}

SeenInv ==
  /\ IInv /\ Fitting /\ InLine /\ Gone
  /\ \A p \in Path : Fresh(p) /\ Compared(p) /\ Latest(p)
  /\ \A o \in Op : Cached(o)
  /\ \A d \in Op, p \in Path : Overtaken(d, p)
  /\ \A d, o \in Op : Apart(d, o)


-----------------------------------------------------------------------------
(* What a step makes of the operation o, s, and of the rest.                 *)

\* A call starts, or the index worker takes a message.
Opens(o, s) ==
  /\ op[o].pc = "idle" /\ s.pc = "asked" /\ s.event = "none" /\ s.save = NoFiles
  /\ \/ s.kind # "write" /\ s.got = NoFiles /\ UNCHANGED versions
     \/ /\ s.kind = "write" /\ s.path \in Path /\ versions' = versions + 1
        /\ s.got = [NoFiles EXCEPT ![s.path] = versions + 1]
  /\ \/ o # Indexer /\ UNCHANGED queue
     \/ /\ o = Indexer /\ s.kind = "read" /\ s.path \in Path
        /\ \A q \in Path : q # s.path /\ Handed(q) => Handed(q)'
  /\ UNCHANGED <<disk, spaceSnapshot, stored, index>>

\* The wrapped space answers.
Answers(o, s) ==
  /\ op[o].pc = "asked" /\ s.pc = "answered" /\ s.event = "none"
  /\ s.kind = op[o].kind /\ s.path = op[o].path /\ s.save = op[o].save
  /\ \/ s.kind = "write" /\ s.got = op[o].got /\ disk' = [disk EXCEPT ![s.path] = s.got[s.path]]
     \/ s.kind = "delete" /\ s.got = op[o].got /\ disk' = [disk EXCEPT ![s.path] = 0]
     \/ s.kind = "list" /\ s.got = disk /\ UNCHANGED disk
     \/ s.kind = "read" /\ s.got = [NoFiles EXCEPT ![s.path] = disk[s.path]] /\ UNCHANGED disk
  /\ UNCHANGED <<versions, spaceSnapshot, stored, index, queue>>

\* It goes on without an event, or ends.
Proceeds(o, s) ==
  /\ op[o].event = "none" /\ s.event = "none" /\ op[o].pc # "cache"
  /\ op[o].pc = "asked" => s.got = NoFiles
  /\ s.pc \in {"compare", "save", "saving", "saved", "finally", "parse", "write", "idle"}
  /\ s.got \in {op[o].got, NoFiles} /\ s.save \in {op[o].save, spaceSnapshot, NoFiles}
  /\ stored' \in {stored, op[o].save}
  /\ \/ s.kind = op[o].kind /\ s.path = op[o].path /\ UNCHANGED queue
     \/ o # Indexer /\ s = Idle /\ UNCHANGED queue
     \/ o = Indexer /\ s = Idle /\ Hands(op[o].path)
  /\ UNCHANGED <<disk, versions, spaceSnapshot, index>>

\* It sends an event.
Announces(o, s) ==
  /\ op[o].event = "none" /\ s.pc = "collect"
  /\ s.kind = op[o].kind /\ s.got = op[o].got /\ s.save = op[o].save /\ s.path \in Path
  /\ \/ /\ s.event = "changed" /\ s.kind \in {"read", "write"} /\ s.path = op[o].path
        /\ op[o].pc = "answered" /\ operationCount = 1 /\ UNCHANGED spaceSnapshot
     \/ /\ s.event = "deleted" /\ s.kind = "delete" /\ s.path = op[o].path
        /\ op[o].pc = "answered" /\ spaceSnapshot' = [spaceSnapshot EXCEPT ![s.path] = 0]
     \/ /\ s.event = "changed" /\ s.kind = "list"
        /\ op[o].pc = "compare" /\ spaceSnapshot' = [spaceSnapshot EXCEPT ![s.path] = s.got[s.path]]
     \/ /\ s.event = "deleted" /\ s.kind = "list"
        /\ op[o].pc = "compare" /\ spaceSnapshot' = [spaceSnapshot EXCEPT ![s.path] = 0]
  /\ UNCHANGED <<disk, versions, stored, index, queue>>

\* The event is handled: the index is cleared, and a changed file is queued.
Listens(o, s) ==
  /\ s.kind = op[o].kind /\ s.path = op[o].path /\ s.got = op[o].got /\ s.save = op[o].save
  /\ op[o].path \in Path
  /\ \/ /\ op[o].pc \in {"collect", "erase"} /\ s.event = op[o].event /\ UNCHANGED queue
        /\ s.pc = "send" \/ (s.pc = "erase" /\ op[o].pc = "collect")
     \/ /\ op[o].pc \in {"collect", "erase"} /\ op[o].event = "deleted"
        /\ s.event = "none" /\ s.pc \in {"compare", "save"} /\ UNCHANGED queue
     \/ /\ op[o].pc = "send" /\ s.event = "none" /\ s.pc \in {"compare", "cache"}
        /\ Hands(s.path)
  /\ \A p \in Path : index'[p] \subseteq index[p]
  /\ \A p \in Path : (op[o].pc = "erase" /\ p = s.path) \/ index'[p] = index[p]
  /\ UNCHANGED <<disk, versions, spaceSnapshot, stored>>

\* The version a read or a write got is put into the snapshot.
Caches(o, s) ==
  /\ op[o].pc = "cache" /\ s.pc \in {"saving", "saved"} /\ s.event = "none"
  /\ s.kind = op[o].kind /\ s.path = op[o].path /\ s.got = op[o].got
  /\ s.save \in {op[o].save, spaceSnapshot'} /\ s.path \in Path
  /\ spaceSnapshot' = [spaceSnapshot EXCEPT ![s.path] = s.got[s.path]]
  /\ UNCHANGED <<disk, versions, stored, index, queue>>

\* The index worker stores a page.
Indexes(o, s) ==
  LET p == op[o].path
      new == Entries(op[o].got[p])
  IN /\ o = Indexer /\ op[o].pc = "write" /\ s = Idle
     /\ index' = [index EXCEPT ![p] = {e \in @ : \A f \in new : e[1] # f[1]} \cup new]
     /\ UNCHANGED <<disk, versions, spaceSnapshot, stored, queue>>

\* What becomes of its place in line.
Lines(o, s) ==
  \/ ~Waiting(op[o]) /\ Waiting(s) /\ kv' = Append(kv, o)
  \/ ~Waiting(op[o]) /\ ~Waiting(s) /\ kv' = kv
  \/ /\ Waiting(op[o]) /\ kv # << >> /\ Head(kv) = o
     /\ kv' = IF Waiting(s) THEN Append(Tail(kv), o) ELSE Tail(kv)

Turns(o, s) ==
  /\ op' = [op EXCEPT ![o] = s] /\ Fits(s) /\ Lines(o, s)
  /\ \/ Opens(o, s) \/ Answers(o, s) \/ Proceeds(o, s) \/ Announces(o, s)
     \/ Listens(o, s) \/ Caches(o, s) \/ Indexes(o, s)
Turn(o) == \E s \in OpState : Turns(o, s)

LEMMA CallTurns ==
  ASSUME IInv, Fitting
  PROVE  /\ StartList => Turn(Lister)
         /\ \A o \in Caller, p \in Path, kind \in {"read", "write", "delete"} :
              StartCall(o, kind, p) => Turn(o)
         /\ \A m \in Message : Poll(m) \/ TakeMessage(m) => Turn(Indexer)
<1> USE EventedConstants
<1>1. ASSUME StartList, NEW o, o = Lister PROVE Turn(o)
  <2> DEFINE s == [Idle EXCEPT !.kind = "list", !.pc = "asked"]
  <2>1. s \in OpState /\ s.kind = "list" /\ s.pc = "asked" /\ s.path = None /\ s.event = "none"
        /\ s.save = NoFiles /\ s.got = NoFiles
    BY IdleType DEF Idle, OpState
  <2>2. op[o].pc = "idle" /\ op' = [op EXCEPT ![o] = s]
        /\ UNCHANGED <<space, snapshot, stored, kv, index, queue, events>>
    BY <1>1 DEF StartList, At
  <2> HIDE DEF s
  <2>3. Fits(s) /\ Lines(o, s)
    BY <2>1, <2>2 DEF Fits, Lines, Waiting
  <2>4. Opens(o, s)
    BY <1>1, <2>1, <2>2 DEF Opens, space, snapshot
  <2> QED BY <2>1, <2>2, <2>3, <2>4 DEF Turns, Turn
<1>2. ASSUME NEW o \in Caller, NEW p \in Path, NEW kind \in {"read", "write", "delete"},
             StartCall(o, kind, p)
      PROVE  Turn(o)
  <2> DEFINE v == IF kind = "write" THEN versions + 1 ELSE 0
             s == [Idle EXCEPT !.kind = kind, !.pc = "asked", !.path = p, !.got[p] = v]
  <2>1. s.kind = kind /\ s.pc = "asked" /\ s.path = p /\ s.event = "none"
        /\ s.save = NoFiles /\ s.got = [NoFiles EXCEPT ![p] = v]
    BY DEF Idle
  <2>2. op[o].pc = "idle" /\ op' = [op EXCEPT ![o] = s]
        /\ UNCHANGED <<disk, snapshot, stored, kv, index, queue>>
        /\ IF kind = "write" THEN versions + 1 <= MaxVersions /\ versions' = versions + 1
                             ELSE versions' = versions
    BY <1>2 DEF StartCall, At
  <2>3. s \in OpState
    <3>1. v \in Version
      BY <2>2 DEF IInv, DataTypes, Version
    <3>2. [Idle.got EXCEPT ![p] = v] \in Files /\ Idle \in OpState
      BY <3>1, IdleType DEF Idle, Files
    <3> QED BY <3>2 DEF OpState
  <2>4. kind # "write" => s.got = NoFiles
    BY <2>1 DEF NoFiles
  <2>5. kind = "write" => s.got = [NoFiles EXCEPT ![p] = versions + 1]
    BY <2>1
  <2> HIDE DEF s, v
  <2>6. Fits(s) /\ Lines(o, s)
    BY <2>1, <2>2 DEF Fits, Lines, Waiting
  <2>7. Opens(o, s)
    BY <2>1, <2>2, <2>4, <2>5 DEF Opens, snapshot
  <2> QED BY <2>2, <2>3, <2>6, <2>7 DEF Turns, Turn
<1>3. ASSUME NEW m \in Message, Poll(m) \/ TakeMessage(m), NEW p \in Path, p = m[1] PROVE Turn(Indexer)
  <2> DEFINE s == [Idle EXCEPT !.kind = "read", !.pc = "asked", !.path = p]
  <2>1. s \in OpState /\ s.kind = "read" /\ s.pc = "asked" /\ s.path = p /\ s.event = "none"
        /\ s.save = NoFiles /\ s.got = NoFiles
    BY IdleType DEF Idle, OpState
  <2>2. op[Indexer].pc = "idle" /\ op' = [op EXCEPT ![Indexer] = s]
        /\ UNCHANGED <<space, snapshot, stored, kv, index>>
    BY <1>3 DEF Poll, TakeMessage, Read, At
  <2> HIDE DEF s
  <2>3. Fits(s) /\ Lines(Indexer, s)
    BY <2>1, <2>2 DEF Fits, Lines, Waiting
  <2>4. \A q \in Path : q # p /\ Handed(q) => Handed(q)'
    BY <1>3, ReadHands DEF IInv
  <2>5. Opens(Indexer, s)
    BY <2>1, <2>2, <2>4 DEF Opens, space, snapshot
  <2> QED BY <2>1, <2>2, <2>3, <2>5 DEF Turns, Turn
<1> QED BY <1>1, <1>2, <1>3 DEF Message

\* saveSnapshot, when nothing or an equal version has been put into the snapshot.
LEMMA SaveTurns ==
  ASSUME IInv, Fitting, NEW o \in Op, NEW r \in OpState, NEW c \in BOOLEAN,
         Save(o, r, spaceSnapshot, c), op[o].event = "none", ~Waiting(op[o]),
         op[o].pc \notin {"asked", "cache"},
         r.kind = op[o].kind, r.kind # "none", r.path = op[o].path, r.event = "none",
         r.got \in {op[o].got, NoFiles}, r.save = op[o].save,
         UNCHANGED <<disk, versions, spaceSnapshot, stored, index, queue>>
  PROVE  Turn(o)
<1> DEFINE s == Saving(r, spaceSnapshot, c)
<1>1. s \in OpState
  BY Updates DEF IInv, DataTypes
<1>2. /\ s.kind = r.kind /\ s.path = r.path /\ s.event = "none" /\ s.got = r.got
      /\ s.pc = (IF c THEN "saving" ELSE "saved")
      /\ s.save = (IF c THEN spaceSnapshot ELSE r.save)
  BY DEF Saving, OpState
<1>3. op' = [op EXCEPT ![o] = s] /\ kv' = (IF c THEN Append(kv, o) ELSE kv)
  BY DEF Save, Issue
<1> HIDE DEF s
<1>4. Fits(s)
  BY <1>2 DEF Fitting, Fits
<1>5. Lines(o, s)
  BY <1>2, <1>3 DEF Lines, Waiting
<1>6. Proceeds(o, s)
  BY <1>2 DEF Proceeds
<1> QED BY <1>1, <1>3, <1>4, <1>5, <1>6 DEF Turns, Turn

LEMMA DispatchFields ==
  ASSUME NEW r \in OpState, NEW p \in Path, NEW e \in {"changed", "deleted"}
  PROVE  LET s == Dispatch(r, e, p)
         IN /\ s \in OpState /\ s.kind = r.kind /\ s.pc = "collect" /\ s.path = p /\ s.event = e
            /\ s.got = r.got /\ s.save = r.save
<1>1. Dispatch(r, e, p) \in OpState
  BY Updates
<1> QED BY <1>1 DEF OpState, Dispatch

LEMMA StepTurns ==
  ASSUME IInv, Fitting, NEW o \in Op, Step(o)
  PROVE  Turn(o)
<1> DEFINE r == op[o]
<1>0. /\ r \in OpState /\ Shape(o, r) /\ Fits(r) /\ r.got \in Files /\ spaceSnapshot \in Files
      /\ snapshotChanged \in BOOLEAN /\ r.path \in Path \cup {None}
      /\ op \in [Op -> OpState]
  BY DEF IInv, OpTypes, DataTypes, Shapes, Fitting, OpState
<1>1. CASE Serve(o)
  <2> DEFINE got == CASE r.kind = "list" -> disk
                      [] r.kind = "read" -> [NoFiles EXCEPT ![r.path] = disk[r.path]]
                      [] OTHER           -> r.got
             s == [r EXCEPT !.pc = "answered", !.got = got]
  <2>1. /\ op' = [op EXCEPT ![o] = s] /\ r.pc = "asked"
        /\ UNCHANGED <<versions, snapshot, stored, kv, index, queue>>
        /\ disk' = CASE r.kind = "write"  -> [disk EXCEPT ![r.path] = r.got[r.path]]
               [] r.kind = "delete" -> [disk EXCEPT ![r.path] = 0]
               [] OTHER             -> disk
    BY <1>0, <1>1 DEF Serve
  <2>2. got \in Files
    <3>1. disk \in Files /\ 0 \in Version
      BY EventedConstants DEF IInv, DataTypes, Version
    <3>2. [NoFiles EXCEPT ![r.path] = disk[r.path]] \in Files
      BY <1>0, <3>1 DEF Files, NoFiles
    <3> QED BY <1>0, <3>1, <3>2
  <2>3. s \in OpState
    BY <1>0, <2>2 DEF OpState
  <2>4. s.kind = r.kind /\ s.pc = "answered" /\ s.path = r.path /\ s.event = r.event
        /\ s.save = r.save /\ s.got = got
    BY <1>0 DEF OpState
  <2>5. r.kind \in {"list", "read", "write", "delete"} /\ r.event = "none"
    BY <1>0, <2>1 DEF Fits, OpState
  <2> HIDE DEF s
  <2>6. Fits(s) /\ Lines(o, s)
    BY <1>0, <2>1, <2>4, <2>5 DEF Fits, Lines, Waiting
  <2>7. Answers(o, s)
    <3>1. CASE r.kind = "list"
      BY <2>1, <2>4, <2>5, <3>1 DEF Answers, snapshot
    <3>2. CASE r.kind = "read"
      BY <2>1, <2>4, <2>5, <3>2 DEF Answers, snapshot
    <3>3. CASE r.kind = "write"
      BY <2>1, <2>4, <2>5, <3>3 DEF Answers, snapshot
    <3>4. CASE r.kind = "delete"
      BY <2>1, <2>4, <2>5, <3>4 DEF Answers, snapshot
    <3> QED BY <2>5, <3>1, <3>2, <3>3, <3>4
  <2> QED BY <2>1, <2>3, <2>6, <2>7 DEF Turns, Turn
<1>2. CASE Fail(o)
  <2> DEFINE s == [r EXCEPT !.pc = IF r.kind \in {"list", "delete"} THEN "save" ELSE "finally",
                            !.got = NoFiles]
  <2>1. /\ op' = [op EXCEPT ![o] = s] /\ r.pc \in {"asked", "answered"}
        /\ UNCHANGED <<space, snapshot, stored, kv, index, queue>>
    BY <1>0, <1>2 DEF Fail
  <2>2. /\ s.kind = r.kind /\ s.path = r.path /\ s.event = r.event /\ s.save = r.save
        /\ s.got = NoFiles /\ s.pc = IF r.kind \in {"list", "delete"} THEN "save" ELSE "finally"
    BY <1>0 DEF OpState
  <2>3. s \in OpState
    BY <1>0, IdleType DEF OpState
  <2> HIDE DEF s
  <2>4. Fits(s) /\ Lines(o, s)
    BY <1>0, <2>1, <2>2 DEF Fits, Lines, Waiting
  <2>5. Proceeds(o, s)
    BY <1>0, <2>1, <2>2 DEF Fits, Proceeds, space, snapshot
  <2> QED BY <2>1, <2>3, <2>4, <2>5 DEF Turns, Turn
<1>3. CASE ReturnList(o)
  <2> DEFINE todo == {p \in Path : r.got[p] # 0}
             gone == {p \in Path : spaceSnapshot[p] # 0 /\ r.got[p] = 0}
             s == [r EXCEPT !.pc = "compare", !.todo = todo, !.gone = gone]
  <2>1. /\ op' = [op EXCEPT ![o] = s] /\ r.pc = "answered" /\ r.kind = "list"
        /\ UNCHANGED <<space, snapshot, stored, kv, index, queue>>
    BY <1>0, <1>3 DEF ReturnList, At
  <2>2. /\ s.kind = r.kind /\ s.path = r.path /\ s.event = r.event /\ s.save = r.save
        /\ s.got = r.got /\ s.pc = "compare"
    BY <1>0 DEF OpState
  <2>3. s \in OpState
    BY <1>0 DEF OpState
  <2> HIDE DEF s
  <2>4. Fits(s) /\ Lines(o, s)
    BY <1>0, <2>1, <2>2 DEF Fits, Lines, Waiting
  <2>5. Proceeds(o, s)
    BY <1>0, <2>1, <2>2 DEF Fits, Proceeds, space, snapshot
  <2> QED BY <2>1, <2>3, <2>4, <2>5 DEF Turns, Turn
<1>4. CASE ReturnFile(o)
  <2>1. /\ r.pc = "answered" /\ r.kind \in {"read", "write"}
        /\ UNCHANGED <<space, stored, index, queue>>
        /\ \/ Go(o, "saved") /\ UNCHANGED <<snapshot, kv>>
           \/ operationCount = 1 /\ Issue(o, Dispatch(r, "changed", r.path)) /\ UNCHANGED snapshot
           \/ spaceSnapshot[r.path] = r.got[r.path] /\ Cache(o)
    BY <1>4 DEF ReturnFile, At, Alone
  <2>2. r.path \in Path /\ r.event = "none"
    BY <1>0, <2>1 DEF Shape, Fits
  <2>3. CASE Go(o, "saved") /\ UNCHANGED <<snapshot, kv>>
    <3> DEFINE s == [r EXCEPT !.pc = "saved"]
    <3>1. op' = [op EXCEPT ![o] = s]
      BY <1>0, <2>3 DEF Go
    <3>2. /\ s \in OpState
          /\ s.kind = r.kind /\ s.pc = "saved" /\ s.path = r.path /\ s.event = r.event
          /\ s.got = r.got /\ s.save = r.save
      BY <1>0 DEF OpState
    <3> HIDE DEF s
    <3>3. Fits(s) /\ Lines(o, s)
      BY <1>0, <2>1, <2>2, <2>3, <3>2 DEF Fits, Lines, Waiting
    <3>4. Proceeds(o, s)
      BY <2>1, <2>2, <2>3, <3>2 DEF Proceeds, space, snapshot
    <3> QED BY <3>1, <3>2, <3>3, <3>4 DEF Turns, Turn
  <2>4. CASE operationCount = 1 /\ Issue(o, Dispatch(r, "changed", r.path)) /\ UNCHANGED snapshot
    <3> DEFINE s == Dispatch(r, "changed", r.path)
    <3>1. op' = [op EXCEPT ![o] = s] /\ kv' = Append(kv, o)
      BY <2>4 DEF Issue
    <3>2. /\ s \in OpState
          /\ s.kind = r.kind /\ s.pc = "collect" /\ s.path = r.path /\ s.event = "changed"
          /\ s.got = r.got /\ s.save = r.save
      BY <1>0, <2>2, DispatchFields
    <3> HIDE DEF s
    <3>3. Fits(s) /\ Lines(o, s)
      BY <1>0, <2>1, <2>2, <3>1, <3>2 DEF Fits, Lines, Waiting
    <3>4. Announces(o, s)
      BY <2>1, <2>2, <2>4, <3>2 DEF Announces, space, snapshot
    <3> QED BY <3>1, <3>2, <3>3, <3>4 DEF Turns, Turn
  <2>5. CASE spaceSnapshot[r.path] = r.got[r.path] /\ Cache(o)
    <3>1. /\ spaceSnapshot' = [spaceSnapshot EXCEPT ![r.path] = r.got[r.path]]
          /\ snapshotChanged' = (snapshotChanged \/ spaceSnapshot[r.path] # r.got[r.path])
          /\ Save(o, r, spaceSnapshot', snapshotChanged')
      BY <2>5 DEF Cache, Update
    <3>2. spaceSnapshot' = spaceSnapshot
      BY <1>0, <2>2, <2>5, <3>1 DEF Files
    <3>3. snapshotChanged' = snapshotChanged
      BY <1>0, <2>5, <3>1
    <3>4. Save(o, r, spaceSnapshot, snapshotChanged)
      BY <3>1, <3>2, <3>3
    <3>5. ~Waiting(r)
      BY <2>1 DEF Waiting
    <3>6. UNCHANGED <<disk, versions, spaceSnapshot, stored, index, queue>>
      BY <2>1, <3>2 DEF space
    <3> QED BY <1>0, <2>1, <2>2, <3>4, <3>5, <3>6, SaveTurns
  <2> QED BY <2>1, <2>3, <2>4, <2>5
<1>5. CASE ReturnDelete(o)
  <2> DEFINE s == Dispatch(r, "deleted", r.path)
  <2>1. /\ op' = [op EXCEPT ![o] = s] /\ r.pc = "answered" /\ r.kind = "delete"
        /\ kv' = Append(kv, o) /\ spaceSnapshot' = [spaceSnapshot EXCEPT ![r.path] = 0]
        /\ UNCHANGED <<space, stored, index, queue>>
    BY <1>5 DEF ReturnDelete, At, Issue
  <2>2. r.path \in Path /\ r.event = "none"
    BY <1>0, <2>1 DEF Shape, Fits
  <2>3. /\ s \in OpState
        /\ s.kind = r.kind /\ s.pc = "collect" /\ s.path = r.path /\ s.event = "deleted"
        /\ s.got = r.got /\ s.save = r.save
    BY <1>0, <2>2, DispatchFields
  <2> HIDE DEF s
  <2>4. Fits(s) /\ Lines(o, s)
    BY <1>0, <2>1, <2>2, <2>3 DEF Fits, Lines, Waiting
  <2>5. Announces(o, s)
    BY <2>1, <2>2, <2>3 DEF Announces, space
  <2> QED BY <2>1, <2>3, <2>4, <2>5 DEF Turns, Turn
<1>6. ASSUME NEW p \in Path, CompareListed(o, p) PROVE Turn(o)
  <2> DEFINE rest == [r EXCEPT !.todo = r.todo \ {p}]
             s == Dispatch(rest, "changed", p)
  <2>1. /\ r.pc = "compare" /\ UNCHANGED <<space, stored, index, queue>>
        /\ spaceSnapshot' = [spaceSnapshot EXCEPT ![p] = r.got[p]]
        /\ IF spaceSnapshot[p] # r.got[p]
           THEN op' = [op EXCEPT ![o] = s] /\ kv' = Append(kv, o)
           ELSE op' = [op EXCEPT ![o] = rest] /\ UNCHANGED kv
    BY <1>6 DEF CompareListed, At, Issue, Update
  <2>2. r.kind = "list" /\ r.event = "none"
    BY <1>0, <2>1 DEF Fits
  <2>3. /\ rest \in OpState
        /\ rest.kind = r.kind /\ rest.pc = r.pc /\ rest.path = r.path /\ rest.event = r.event
        /\ rest.got = r.got /\ rest.save = r.save
    BY <1>0 DEF OpState
  <2>4. /\ s \in OpState
        /\ s.kind = r.kind /\ s.pc = "collect" /\ s.path = p /\ s.event = "changed"
        /\ s.got = r.got /\ s.save = r.save
    BY <2>3, DispatchFields
  <2> HIDE DEF s, rest
  <2>5. CASE spaceSnapshot[p] # r.got[p]
    <3>3. Fits(s) /\ Lines(o, s)
      BY <1>0, <2>1, <2>2, <2>4, <2>5 DEF Fits, Lines, Waiting
    <3>4. Announces(o, s)
      BY <2>1, <2>2, <2>4 DEF Announces, space
    <3> QED BY <2>1, <2>4, <2>5, <3>3, <3>4 DEF Turns, Turn
  <2>6. CASE spaceSnapshot[p] = r.got[p]
    <3>1. spaceSnapshot' = spaceSnapshot
      BY <1>0, <2>1, <2>6 DEF Files
    <3>3. Fits(rest) /\ Lines(o, rest)
      BY <1>0, <2>1, <2>2, <2>3, <2>6 DEF Fits, Lines, Waiting
    <3>4. Proceeds(o, rest)
      BY <2>1, <2>2, <2>3, <3>1 DEF Proceeds, space
    <3> QED BY <2>1, <2>3, <2>6, <3>3, <3>4 DEF Turns, Turn
  <2> QED BY <2>5, <2>6
<1>7. ASSUME NEW p \in Path, CompareGone(o, p) PROVE Turn(o)
  <2> DEFINE rest == [r EXCEPT !.gone = r.gone \ {p}]
             s == Dispatch(rest, "deleted", p)
  <2>1. /\ r.pc = "compare" /\ UNCHANGED <<space, stored, index, queue>>
        /\ spaceSnapshot' = [spaceSnapshot EXCEPT ![p] = 0]
        /\ op' = [op EXCEPT ![o] = s] /\ kv' = Append(kv, o)
    BY <1>7 DEF CompareGone, At, Issue
  <2>2. r.kind = "list" /\ r.event = "none"
    BY <1>0, <2>1 DEF Fits
  <2>3. /\ rest \in OpState
        /\ rest.kind = r.kind /\ rest.got = r.got /\ rest.save = r.save
    BY <1>0 DEF OpState
  <2>4. /\ s \in OpState
        /\ s.kind = r.kind /\ s.pc = "collect" /\ s.path = p /\ s.event = "deleted"
        /\ s.got = r.got /\ s.save = r.save
    BY <2>3, DispatchFields
  <2> HIDE DEF s, rest
  <2>5. Fits(s) /\ Lines(o, s)
    BY <1>0, <2>1, <2>2, <2>4 DEF Fits, Lines, Waiting
  <2>6. Announces(o, s)
    BY <2>1, <2>2, <2>4 DEF Announces, space
  <2> QED BY <2>1, <2>4, <2>5, <2>6 DEF Turns, Turn
<1>8. CASE Listed(o)
  <2> DEFINE q == [r EXCEPT !.got = NoFiles]
  <2>1. r.pc \in {"compare", "save"} /\ Save(o, q, spaceSnapshot, snapshotChanged)
        /\ UNCHANGED <<space, snapshot, stored, index, queue>>
    BY <1>8 DEF Listed, At
  <2>2. /\ q \in OpState /\ q.kind = r.kind /\ q.path = r.path /\ q.event = r.event
        /\ q.got = NoFiles /\ q.save = r.save
    BY <1>0, IdleType DEF OpState
  <2>3. r.event = "none" /\ r.kind # "none" /\ ~Waiting(r)
    BY <1>0, <2>1 DEF Fits, Waiting
  <2>4. UNCHANGED <<disk, versions, spaceSnapshot, stored, index, queue>>
    BY <2>1 DEF space, snapshot
  <2> HIDE DEF q
  <2> QED BY <1>0, <2>1, <2>2, <2>3, <2>4, SaveTurns
<1>9. CASE AfterEvent(o)
  <2> DEFINE c == snapshotChanged'
             s == Saving(r, spaceSnapshot', c)
  <2>1. /\ r.pc = "cache" /\ Cache(o) /\ UNCHANGED <<space, stored, index, queue>>
    BY <1>9 DEF AfterEvent, At
  <2>2. r.kind \in {"read", "write"} /\ r.path \in Path /\ r.event = "none"
    BY <1>0, <2>1 DEF Fits, Shape
  <2>3. /\ spaceSnapshot' = [spaceSnapshot EXCEPT ![r.path] = r.got[r.path]]
        /\ Save(o, r, spaceSnapshot', snapshotChanged')
    BY <2>1 DEF Cache, Update
  <2>4. spaceSnapshot' \in Files /\ snapshotChanged' \in BOOLEAN
    BY <2>1, CacheTypes DEF IInv
  <2>5. s \in OpState
    BY <1>0, <2>4, Updates
  <2>6. op' = [op EXCEPT ![o] = s] /\ kv' = (IF c THEN Append(kv, o) ELSE kv)
    BY <2>3 DEF Save, Issue
  <2>7. /\ s.kind = r.kind /\ s.path = r.path /\ s.event = r.event /\ s.got = r.got
        /\ s.pc = (IF c THEN "saving" ELSE "saved")
        /\ s.save \in {r.save, spaceSnapshot'}
    BY <1>0 DEF Saving, OpState
  <2> HIDE DEF s
  <2>8. Fits(s)
    BY <1>0, <2>1, <2>2, <2>7 DEF Fits
  <2>9. Lines(o, s)
    BY <2>1, <2>6, <2>7 DEF Lines, Waiting
  <2>10. Caches(o, s)
    BY <2>1, <2>2, <2>3, <2>7 DEF Caches, space
  <2> QED BY <2>5, <2>6, <2>8, <2>9, <2>10 DEF Turns, Turn
<1>10. CASE Finally(o)
  <2> DEFINE failed == o = Indexer /\ r.got[r.path] = 0
             s == IF o = Indexer /\ ~failed THEN [r EXCEPT !.pc = "parse"] ELSE Idle
  <2>1. /\ r.pc \in {"saved", "finally"} /\ op' = [op EXCEPT ![o] = s]
        /\ IF failed THEN Requeue ELSE UNCHANGED queue
        /\ UNCHANGED <<space, snapshot, stored, kv, index>>
    BY <1>10 DEF Finally
  <2>2. r.event = "none" /\ r.kind # "none" /\ ~Waiting(r)
    BY <1>0, <2>1 DEF Fits, Waiting
  <2>3. CASE s = Idle
    <3>1. /\ Idle.kind = "none" /\ Idle.pc = "idle" /\ Idle.path = None /\ Idle.event = "none"
          /\ Idle.got = NoFiles /\ Idle.save = NoFiles
      BY DEF Idle
    <3>2. Fits(Idle) /\ Lines(o, Idle)
      BY <2>1, <2>2, <3>1 DEF Fits, Lines, Waiting
    <3>3. (o # Indexer /\ UNCHANGED queue) \/ (o = Indexer /\ Hands(r.path))
      <4>1. [r EXCEPT !.pc = "parse"].pc # Idle.pc
        BY <1>0, <3>1 DEF OpState
      <4>2. ~(o = Indexer /\ ~failed)
        BY <2>3, <4>1
      <4>3. CASE failed
        <5>1. Requeue /\ o = Indexer /\ r.path \in Path
          BY <1>0, <2>1, <2>2, <4>3 DEF Shape, OpState
        <5> QED BY <5>1, RequeueHands DEF Hands
      <4>4. CASE ~failed
        BY <2>1, <4>2, <4>4
      <4> QED BY <4>3, <4>4
    <3>4. Proceeds(o, Idle)
      BY <2>1, <2>2, <3>1, <3>3 DEF Proceeds, space, snapshot
    <3> QED BY <2>1, <2>3, <3>2, <3>4, IdleType DEF Turns, Turn
  <2>4. CASE o = Indexer /\ ~failed
    <3> DEFINE t == [r EXCEPT !.pc = "parse"]
    <3>1. s = t /\ r.got[r.path] # 0 /\ UNCHANGED queue
      BY <2>1, <2>4
    <3>2. /\ t \in OpState /\ t.kind = r.kind /\ t.path = r.path /\ t.event = r.event
          /\ t.got = r.got /\ t.save = r.save /\ t.pc = "parse"
      BY <1>0 DEF OpState
    <3> HIDE DEF t
    <3>3. Fits(t) /\ Lines(o, t)
      BY <1>0, <2>1, <2>2, <3>1, <3>2 DEF Fits, Lines, Waiting
    <3>4. Proceeds(o, t)
      BY <2>1, <2>2, <3>1, <3>2 DEF Proceeds, space, snapshot
    <3> QED BY <2>1, <3>1, <3>2, <3>3, <3>4 DEF Turns, Turn
  <2> QED BY <2>3, <2>4
<1> QED BY <1>1, <1>2, <1>3, <1>4, <1>5, <1>6, <1>7, <1>8, <1>9, <1>10 DEF Step

LEMMA StoreTurns ==
  ASSUME IInv, Fitting, NEW o \in Op, Store(o)
  PROVE  Turn(o)
<1> DEFINE r == op[o]
<1>0. /\ r \in OpState /\ Shape(o, r) /\ Fits(r) /\ r.save \in Files
      /\ op \in [Op -> OpState]
      /\ index \in [Path -> SUBSET (Version \X Version)]
  BY DEF IInv, OpTypes, DataTypes, Shapes, Fitting, OpState
<1>1. /\ Handled(r) \in OpState
      /\ Handled(r).kind = r.kind /\ Handled(r).path = r.path /\ Handled(r).event = "none"
      /\ Handled(r).got = r.got /\ Handled(r).save = r.save
      /\ Handled(r).pc = CASE r.kind = "list"   -> "compare"
                           [] r.kind = "delete" -> "save"
                           [] OTHER             -> "cache"
  <2>1. Handled(r) \in OpState
    BY <1>0, Updates
  <2> QED BY <1>0, <2>1 DEF OpState, Handled
<1> DEFINE sent == [r EXCEPT !.pc = "send", !.keys = {}]
<1>2. /\ sent \in OpState
      /\ sent.kind = r.kind /\ sent.path = r.path /\ sent.event = r.event
      /\ sent.got = r.got /\ sent.save = r.save /\ sent.pc = "send"
  BY <1>0 DEF OpState
<1>3. Cleared(r) = IF r.event = "changed" THEN sent ELSE Handled(r)
  BY DEF Cleared
<1> HIDE DEF sent
\* What Collect and Erase have in common.
<1>4. ASSUME r.pc \in {"collect", "erase"}, kv # << >>, Head(kv) = o,
             Then(o, Cleared(r)),
             \A p \in Path : index'[p] \subseteq index[p],
             \A p \in Path : (r.pc = "erase" /\ p = r.path) \/ index'[p] = index[p],
             UNCHANGED <<space, snapshot, stored, queue>>
      PROVE  Turn(o)
  <2>1. r.event \in {"changed", "deleted"} /\ r.path \in Path /\ Waiting(r)
    BY <1>0, <1>4 DEF Fits, Shape, OpState, Waiting
  <2>2. CASE r.event = "changed"
    <3>1. op' = [op EXCEPT ![o] = sent] /\ kv' = Append(Tail(kv), o)
      BY <1>2, <1>3, <1>4, <2>2 DEF Then
    <3>2. Fits(sent) /\ Lines(o, sent)
      BY <1>0, <1>2, <1>4, <2>1, <2>2, <3>1 DEF Fits, Lines, Waiting
    <3>3. Listens(o, sent)
      BY <1>2, <1>4, <2>1 DEF Listens, space, snapshot
    <3> QED BY <1>2, <3>1, <3>2, <3>3 DEF Turns, Turn
  <2>3. CASE r.event = "deleted"
    <3>1. r.kind \in {"list", "delete"}
      BY <1>0, <2>3 DEF Fits
    <3>2. op' = [op EXCEPT ![o] = Handled(r)] /\ kv' = Tail(kv) /\ Handled(r).pc \in {"compare", "save"}
      BY <1>1, <1>3, <1>4, <2>3, <3>1 DEF Then
    <3>3. Fits(Handled(r)) /\ Lines(o, Handled(r))
      BY <1>0, <1>1, <1>4, <2>1, <2>3, <3>1, <3>2 DEF Fits, Lines, Waiting
    <3>4. Listens(o, Handled(r))
      BY <1>1, <1>4, <2>1, <2>3, <3>2 DEF Listens, space, snapshot
    <3> QED BY <1>1, <3>2, <3>3, <3>4 DEF Turns, Turn
  <2> QED BY <2>1, <2>2, <2>3
<1>5. CASE Collect(o)
  <2> DEFINE keys == Keys(r.path)
             s == [r EXCEPT !.pc = "erase", !.keys = keys]
  <2>1. /\ r.pc = "collect" /\ kv # << >> /\ Head(kv) = o
        /\ Then(o, IF keys = {} THEN Cleared(r) ELSE s)
        /\ UNCHANGED <<space, snapshot, stored, index, queue>>
    BY <1>5 DEF Collect, Transaction, At
  <2>2. CASE keys = {}
    <3>1. Then(o, Cleared(r))
      BY <2>1, <2>2
    <3> QED BY <1>4, <2>1, <3>1
  <2>3. CASE keys # {}
    <3>1. r.path \in Path /\ r.event # "none" /\ Waiting(r)
      BY <1>0, <2>1 DEF Shape, Fits, Waiting
    <3>2. s \in OpState
      <4>1. keys \in SUBSET Version
        BY <1>0, <3>1 DEF Keys
      <4> QED BY <1>0, <4>1 DEF OpState
    <3>3. /\ s.kind = r.kind /\ s.path = r.path /\ s.event = r.event
          /\ s.got = r.got /\ s.save = r.save /\ s.pc = "erase"
      BY <1>0 DEF OpState
    <3>4. Then(o, s)
      BY <2>1, <2>3
    <3> HIDE DEF s
    <3>5. op' = [op EXCEPT ![o] = s] /\ kv' = Append(Tail(kv), o)
      BY <3>3, <3>4 DEF Then
    <3>6. Fits(s) /\ Lines(o, s)
      BY <1>0, <2>1, <3>1, <3>3, <3>5 DEF Fits, Lines, Waiting
    <3>7. Listens(o, s)
      BY <2>1, <3>1, <3>3 DEF Listens, space, snapshot
    <3> QED BY <3>2, <3>5, <3>6, <3>7 DEF Turns, Turn
  <2> QED BY <2>2, <2>3
<1>6. CASE Erase(o)
  <2>1. /\ r.pc = "erase" /\ kv # << >> /\ Head(kv) = o /\ Then(o, Cleared(r))
        /\ index' = [index EXCEPT ![r.path] = {e \in index[r.path] : e[1] \notin r.keys}]
        /\ UNCHANGED <<space, snapshot, stored, queue>>
    BY <1>6 DEF Erase, Transaction, At
  <2>2. /\ \A p \in Path : index'[p] \subseteq index[p]
        /\ \A p \in Path : (r.pc = "erase" /\ p = r.path) \/ index'[p] = index[p]
    BY <1>0, <2>1
  <2> QED BY <1>4, <2>1, <2>2
<1>7. CASE SendToIndexer(o)
  <2>1. /\ r.pc = "send" /\ kv # << >> /\ Head(kv) = o /\ Then(o, Handled(r))
        /\ indexQueue' = indexQueue \cup {<<r.path, 0>>} /\ givenUp' = givenUp \ {r.path} /\ left' = left
        /\ UNCHANGED <<space, snapshot, stored, index>>
    BY <1>7 DEF SendToIndexer, Transaction, At
  <2>2. r.event = "changed" /\ r.path \in Path /\ Waiting(r) /\ r.kind \in {"list", "read", "write"}
    BY <1>0, <2>1 DEF Fits, Shape, Waiting
  <2>3. op' = [op EXCEPT ![o] = Handled(r)] /\ kv' = Tail(kv) /\ Handled(r).pc \in {"compare", "cache"}
    BY <1>1, <2>1, <2>2 DEF Then
  <2>4. Fits(Handled(r)) /\ Lines(o, Handled(r))
    BY <1>0, <1>1, <2>1, <2>2, <2>3 DEF Fits, Lines, Waiting
  <2>5. Hands(r.path)
    <3>1. <<r.path, 0>> \in indexQueue' \cup left' /\ <<r.path, 0>>[1] = r.path
      BY <2>1
    <3>2. ASSUME NEW q \in Path, q = r.path PROVE Handed(q)'
      <4>1. q \in Pages(indexQueue' \cup left')
        BY <3>1, <3>2 DEF Pages
      <4> QED BY <4>1 DEF Handed, Due
    <3>3. ASSUME NEW q \in Path, Handed(q), q # r.path PROVE Handed(q)'
      <4>1. indexQueue \cup left \subseteq indexQueue' \cup left'
        BY <2>1
      <4>2. Pages(indexQueue \cup left) \subseteq Pages(indexQueue' \cup left')
        BY <4>1 DEF Pages
      <4> QED BY <2>1, <3>3, <4>2 DEF Handed, Due
    <3> QED BY <3>2, <3>3 DEF Hands
  <2>6. Listens(o, Handled(r))
    BY <1>1, <2>1, <2>2, <2>3, <2>5 DEF Listens, space, snapshot
  <2> QED BY <1>1, <2>3, <2>4, <2>6 DEF Turns, Turn
<1>8. CASE SnapshotSaved(o)
  <2> DEFINE s == [r EXCEPT !.pc = "saved", !.save = NoFiles]
  <2>1. /\ r.pc = "saving" /\ kv # << >> /\ Head(kv) = o /\ Then(o, s) /\ stored' = r.save
        /\ UNCHANGED <<space, spaceSnapshot, index, queue>>
    BY <1>8 DEF SnapshotSaved, Transaction, At
  <2>2. r.event = "none" /\ Waiting(r) /\ r.kind # "none"
    BY <1>0, <2>1 DEF Fits, Waiting
  <2>3. /\ s \in OpState /\ s.kind = r.kind /\ s.path = r.path /\ s.event = r.event
        /\ s.got = r.got /\ s.save = NoFiles /\ s.pc = "saved"
    BY <1>0, IdleType DEF OpState
  <2> HIDE DEF s
  <2>4. op' = [op EXCEPT ![o] = s] /\ kv' = Tail(kv)
    BY <2>1, <2>3 DEF Then
  <2>5. Fits(s) /\ Lines(o, s)
    BY <1>0, <2>1, <2>2, <2>3, <2>4 DEF Fits, Lines, Waiting
  <2>6. Proceeds(o, s)
    BY <2>1, <2>2, <2>3 DEF Proceeds, space
  <2> QED BY <2>3, <2>4, <2>5, <2>6 DEF Turns, Turn
<1> QED BY <1>5, <1>6, <1>7, <1>8 DEF Store

LEMMA IndexerTurns ==
  ASSUME IInv, Fitting, Parsed \/ IndexObjects
  PROVE  Turn(Indexer)
<1> DEFINE r == op[Indexer]
<1>0. r \in OpState /\ Fits(r) /\ Indexer \in Op
  BY DEF IInv, OpTypes, Fitting, Op
<1>1. CASE Parsed
  <2> DEFINE s == [r EXCEPT !.pc = "write"]
  <2>1. /\ r.pc = "parse" /\ op' = [op EXCEPT ![Indexer] = s] /\ kv' = Append(kv, Indexer)
        /\ UNCHANGED <<space, snapshot, stored, index, queue>>
    BY <1>1 DEF Parsed, At, Issue
  <2>2. /\ s \in OpState /\ s.kind = r.kind /\ s.path = r.path /\ s.event = r.event
        /\ s.got = r.got /\ s.save = r.save /\ s.pc = "write"
    BY <1>0 DEF OpState
  <2> HIDE DEF s
  <2>3. Fits(s) /\ Lines(Indexer, s)
    BY <1>0, <2>1, <2>2 DEF Fits, Lines, Waiting
  <2>4. Proceeds(Indexer, s)
    BY <1>0, <2>1, <2>2 DEF Fits, Proceeds, space, snapshot
  <2> QED BY <2>1, <2>2, <2>3, <2>4 DEF Turns, Turn
<1>2. CASE IndexObjects
  <2>1. /\ r.pc = "write" /\ kv # << >> /\ Head(kv) = Indexer /\ Then(Indexer, Idle)
        /\ UNCHANGED <<space, snapshot, stored, queue>>
    BY <1>2 DEF IndexObjects, Transaction, At
  <2>2. /\ Idle.kind = "none" /\ Idle.pc = "idle" /\ Idle.path = None /\ Idle.event = "none"
    BY DEF Idle
  <2>3. op' = [op EXCEPT ![Indexer] = Idle] /\ kv' = Tail(kv)
    BY <2>1, <2>2 DEF Then
  <2>4. Fits(Idle) /\ Lines(Indexer, Idle)
    BY <1>0, <2>1, <2>2, <2>3 DEF Fits, Lines, Waiting
  <2>5. Indexes(Indexer, Idle)
    BY <1>2, <2>1 DEF Indexes, IndexObjects, space, snapshot
  <2> QED BY <2>3, <2>4, <2>5, IdleType DEF Turns, Turn
<1> QED BY <1>1, <1>2

\* Who waits for the datastore stays in line, and behind those who came before;
\* who issues a transaction gets in line behind all others; and a transaction
\* that is done has nobody before it.
LEMMA LinesKeep ==
  ASSUME OpTypes, InLine, NEW o \in Op, NEW s \in OpState, op' = [op EXCEPT ![o] = s], Lines(o, s)
  PROVE  /\ InLine'
         /\ \A a, b \in Op : a # o /\ b # o /\ Before(a, b) => Before(a, b)'
         /\ Waiting(s) => \A a \in Op : a # o /\ Waiting(op[a]) => Before(a, o)'
         /\ Waiting(op[o]) => \A a \in Op : ~Before(a, o)
<1> DEFINE n == Len(kv)
<1>0. /\ kv \in Seq(Op) /\ n \in Nat
      /\ \A i, j \in 1..n : kv[i] = kv[j] => i = j
      /\ \A a \in Op : Waiting(op[a]) <=> \E i \in 1..n : kv[i] = a
      /\ op'[o] = s /\ \A a \in Op : a # o => op'[a] = op[a]
  BY DEF OpTypes, InLine
<1>1. CASE ~Waiting(op[o]) /\ Waiting(s) /\ kv' = Append(kv, o)
  <2>1. Len(kv') = n + 1 /\ kv'[n + 1] = o /\ \A i \in 1..n : kv'[i] = kv[i]
    BY <1>0, <1>1, AppendProperties
  <2>2. \A i \in 1..n : kv[i] # o
    BY <1>0, <1>1
  <2> HIDE DEF n
  <2>3. \A i, j \in 1..Len(kv') : kv'[i] = kv'[j] => i = j
    BY <1>0, <2>1, <2>2
  <2>4. \A a \in Op : Waiting(op'[a]) <=> \E i \in 1..Len(kv') : kv'[i] = a
    <3> SUFFICES ASSUME NEW a \in Op
                 PROVE  Waiting(op'[a]) <=> \E i \in 1..Len(kv') : kv'[i] = a
      OBVIOUS
    <3>1. CASE a = o
      <4>1. n + 1 \in 1..Len(kv')
        BY <1>0, <2>1
      <4> QED BY <1>0, <1>1, <2>1, <3>1, <4>1
    <3>2. CASE a # o
      <4>1. Waiting(op'[a]) <=> \E i \in 1..n : kv[i] = a
        BY <1>0, <3>2
      <4>2. (\E i \in 1..n : kv[i] = a) <=> \E i \in 1..Len(kv') : kv'[i] = a
        BY <1>0, <2>1, <3>2
      <4> QED BY <4>1, <4>2
    <3> QED BY <3>1, <3>2
  <2>5. \A a, b \in Op : Before(a, b) => Before(a, b)'
    BY <1>0, <2>1 DEF Before, n
  <2>6. \A a \in Op : a # o /\ Waiting(op[a]) => Before(a, o)'
    BY <1>0, <2>1 DEF Before
  <2> QED BY <1>1, <2>3, <2>4, <2>5, <2>6 DEF InLine
<1>2. CASE ~Waiting(op[o]) /\ ~Waiting(s) /\ kv' = kv
  BY <1>0, <1>2 DEF InLine, Before
<1>3. CASE Waiting(op[o]) /\ kv # << >> /\ Head(kv) = o
           /\ kv' = IF Waiting(s) THEN Append(Tail(kv), o) ELSE Tail(kv)
  <2>1. /\ n >= 1 /\ kv[1] = o /\ Tail(kv) \in Seq(Op) /\ Len(Tail(kv)) = n - 1
        /\ \A i \in 1..(n - 1) : Tail(kv)[i] = kv[i + 1]
    BY <1>0, <1>3, HeadTailProperties
  <2>2. \A i \in 1..(n - 1) : kv[i + 1] # o
    BY <1>0, <2>1
  <2>3. \A a \in Op : ~Before(a, o)
    BY <1>0, <2>1 DEF Before
  <2>4. CASE Waiting(s)
    <3>1. /\ Len(kv') = n /\ kv'[n] = o
          /\ \A i \in 1..(n - 1) : kv'[i] = kv[i + 1]
      BY <1>0, <1>3, <2>1, <2>4, AppendProperties
    <3> HIDE DEF n
    <3>2. \A i, j \in 1..Len(kv') : kv'[i] = kv'[j] => i = j
      <4> SUFFICES ASSUME NEW i \in 1..n, NEW j \in 1..n, kv'[i] = kv'[j] PROVE i = j
        BY <3>1
      <4>1. CASE i # n /\ j # n
        <5>1. i \in 1..(n - 1) /\ j \in 1..(n - 1) /\ i + 1 \in 1..n /\ j + 1 \in 1..n
          BY <1>0, <4>1
        <5>2. i + 1 = j + 1
          BY <1>0, <3>1, <5>1
        <5> QED BY <1>0, <5>1, <5>2
      <4>2. CASE i = n /\ j # n
        <5>1. j \in 1..(n - 1)
          BY <1>0, <4>2
        <5> QED BY <2>2, <3>1, <4>2, <5>1
      <4>3. CASE j = n /\ i # n
        <5>1. i \in 1..(n - 1)
          BY <1>0, <4>3
        <5> QED BY <2>2, <3>1, <4>3, <5>1
      <4> QED BY <4>1, <4>2, <4>3
    <3>3. \A a \in Op : a # o /\ Waiting(op[a]) => \E i \in 1..(n - 1) : kv[i + 1] = a
      <4> SUFFICES ASSUME NEW a \in Op, a # o, Waiting(op[a])
                   PROVE  \E i \in 1..(n - 1) : kv[i + 1] = a
        OBVIOUS
      <4>1. PICK i \in 1..n : kv[i] = a
        BY <1>0
      <4>2. i - 1 \in 1..(n - 1) /\ (i - 1) + 1 = i
        BY <1>0, <2>1, <4>1
      <4> QED BY <4>1, <4>2
    <3>4. \A a \in Op : Waiting(op'[a]) <=> \E i \in 1..Len(kv') : kv'[i] = a
      <4> SUFFICES ASSUME NEW a \in Op
                   PROVE  Waiting(op'[a]) <=> \E i \in 1..n : kv'[i] = a
        BY <3>1
      <4>1. CASE a = o
        <5>1. n \in 1..n
          BY <1>0, <2>1
        <5> QED BY <1>0, <2>4, <3>1, <4>1, <5>1
      <4>2. ASSUME a # o, Waiting(op'[a]) PROVE \E i \in 1..n : kv'[i] = a
        <5>1. PICK i \in 1..(n - 1) : kv[i + 1] = a
          BY <1>0, <3>3, <4>2
        <5>2. i \in 1..n
          BY <1>0, <5>1
        <5> QED BY <3>1, <5>1, <5>2
      <4>3. ASSUME a # o, NEW i \in 1..n, kv'[i] = a PROVE Waiting(op'[a])
        <5>1. i \in 1..(n - 1) /\ i + 1 \in 1..n
          BY <1>0, <3>1, <4>3
        <5> QED BY <1>0, <3>1, <4>3, <5>1
      <4> QED BY <4>1, <4>2, <4>3
    <3>5. \A a, b \in Op : a # o /\ b # o /\ Before(a, b) => Before(a, b)'
      <4> SUFFICES ASSUME NEW a \in Op, NEW b \in Op, a # o, b # o, Before(a, b)
                   PROVE  Before(a, b)'
        OBVIOUS
      <4>1. PICK i, j \in 1..n : i < j /\ kv[i] = a /\ kv[j] = b
        BY DEF Before, n
      <4>2. /\ i - 1 \in 1..(n - 1) /\ (i - 1) + 1 = i /\ j - 1 \in 1..(n - 1) /\ (j - 1) + 1 = j
            /\ i - 1 < j - 1 /\ i - 1 \in 1..n /\ j - 1 \in 1..n
        BY <1>0, <2>1, <4>1
      <4> QED BY <3>1, <4>1, <4>2 DEF Before
    <3>6. \A a \in Op : a # o /\ Waiting(op[a]) => Before(a, o)'
      <4> SUFFICES ASSUME NEW a \in Op, a # o, Waiting(op[a]) PROVE Before(a, o)'
        OBVIOUS
      <4>1. PICK i \in 1..(n - 1) : kv[i + 1] = a
        BY <3>3
      <4>2. i \in 1..n /\ n \in 1..n /\ i < n
        BY <1>0, <4>1
      <4> QED BY <3>1, <4>1, <4>2 DEF Before
    <3> QED BY <2>3, <3>2, <3>4, <3>5, <3>6 DEF InLine
  <2>5. CASE ~Waiting(s)
    <3>1. /\ Len(kv') = n - 1 /\ \A i \in 1..(n - 1) : kv'[i] = kv[i + 1]
      BY <1>3, <2>1, <2>5
    <3> HIDE DEF n
    <3>2. \A i, j \in 1..Len(kv') : kv'[i] = kv'[j] => i = j
      <4> SUFFICES ASSUME NEW i \in 1..(n - 1), NEW j \in 1..(n - 1), kv'[i] = kv'[j] PROVE i = j
        BY <3>1
      <4>1. i + 1 \in 1..n /\ j + 1 \in 1..n
        BY <1>0
      <4>2. i + 1 = j + 1
        BY <1>0, <3>1, <4>1
      <4> QED BY <1>0, <4>2
    <3>3. \A a \in Op : Waiting(op'[a]) <=> \E i \in 1..Len(kv') : kv'[i] = a
      <4> SUFFICES ASSUME NEW a \in Op
                   PROVE  Waiting(op'[a]) <=> \E i \in 1..(n - 1) : kv'[i] = a
        BY <3>1
      <4>1. CASE a = o
        BY <1>0, <2>2, <2>5, <3>1, <4>1
      <4>2. ASSUME a # o, Waiting(op'[a]) PROVE \E i \in 1..(n - 1) : kv'[i] = a
        <5>1. PICK i \in 1..n : kv[i] = a
          BY <1>0, <4>2
        <5>2. i - 1 \in 1..(n - 1) /\ (i - 1) + 1 = i
          BY <1>0, <2>1, <4>2, <5>1
        <5> QED BY <3>1, <5>1, <5>2
      <4>3. ASSUME a # o, NEW i \in 1..(n - 1), kv'[i] = a PROVE Waiting(op'[a])
        <5>1. i + 1 \in 1..n
          BY <1>0
        <5> QED BY <1>0, <3>1, <4>3, <5>1
      <4> QED BY <4>1, <4>2, <4>3
    <3>4. \A a, b \in Op : a # o /\ b # o /\ Before(a, b) => Before(a, b)'
      <4> SUFFICES ASSUME NEW a \in Op, NEW b \in Op, a # o, b # o, Before(a, b)
                   PROVE  Before(a, b)'
        OBVIOUS
      <4>1. PICK i, j \in 1..n : i < j /\ kv[i] = a /\ kv[j] = b
        BY DEF Before, n
      <4>2. /\ i - 1 \in 1..(n - 1) /\ (i - 1) + 1 = i /\ j - 1 \in 1..(n - 1) /\ (j - 1) + 1 = j
            /\ i - 1 < j - 1
        BY <1>0, <2>1, <4>1
      <4> QED BY <3>1, <4>1, <4>2 DEF Before
    <3> QED BY <2>3, <2>5, <3>2, <3>3, <3>4 DEF InLine
  <2> QED BY <2>4, <2>5
<1> QED BY <1>1, <1>2, <1>3 DEF Lines


\* What TypeOK says of one operation, and of one page.
LEMMA Typed ==
  ASSUME IInv
  PROVE  /\ \A o \in Op : /\ op[o] \in OpState /\ Shape(o, op[o])
                          /\ op[o].got \in Files /\ op[o].save \in Files
                          /\ op[o].path \in Path \cup {None}
                          /\ \A p \in Path : op[o].got[p] \in Version /\ op[o].save[p] \in Version
         /\ \A p \in Path : /\ disk[p] \in Version /\ spaceSnapshot[p] \in Version
                            /\ stored[p] \in Version
                            /\ index[p] \subseteq Version \X Version
         /\ versions \in Nat /\ Version \subseteq Nat /\ 0 \in Version
         /\ op \in [Op -> OpState] /\ Indexer \in Op
<1>1. \A o \in Op : op[o] \in OpState /\ Shape(o, op[o]) /\ op[o].got \in Files /\ op[o].save \in Files
                    /\ op[o].path \in Path \cup {None}
  BY DEF IInv, OpTypes, Shapes, OpState
<1>2. \A o \in Op, p \in Path : op[o].got[p] \in Version /\ op[o].save[p] \in Version
  BY <1>1 DEF Files
<1>3. \A p \in Path : /\ disk[p] \in Version /\ spaceSnapshot[p] \in Version
                      /\ stored[p] \in Version
                      /\ index[p] \subseteq Version \X Version
  BY DEF IInv, DataTypes, Files
<1>4. versions \in Nat /\ Version \subseteq Nat /\ 0 \in Version
  BY EventedConstants DEF IInv, DataTypes, Version
<1> QED BY <1>1, <1>2, <1>3, <1>4 DEF IInv, OpTypes, Op

\* A step after which no version is where none was.
LEMMA FreshStays ==
  ASSUME IInv, NEW p \in Path, Fresh(p), versions' = versions,
         \A v \in Version : v # 0 /\ Past(p, v)' => Past(p, v),
         \A q \in Op : Asked(q, p)' => Asked(q, p) /\ op'[q].got[p] = op[q].got[p]
  PROVE  Fresh(p)'
BY DEF Fresh

Was(p, v) == v = 0 \/ Past(p, v)

LEMMA Here ==
  ASSUME NEW p \in Path
  PROVE  /\ Was(p, 0) /\ Was(p, disk[p]) /\ Was(p, spaceSnapshot[p]) /\ Was(p, stored[p])
         /\ \A q \in Op : Was(p, op[q].save[p]) /\ (~Asked(q, p) => Was(p, op[q].got[p]))
         /\ \A e \in index[p] : Was(p, e[2])
BY DEF Was, Past

LEMMA PastStays ==
  ASSUME NEW o \in Op, NEW s \in OpState, op'[o] = s, \A q \in Op : q # o => op'[q] = op[q],
         NEW p \in Path,
         Was(p, disk'[p]), Was(p, spaceSnapshot'[p]), Was(p, stored'[p]), Was(p, s.save[p]),
         (s.kind = "write" /\ s.pc = "asked" /\ s.path = p) \/ Was(p, s.got[p]),
         \A e \in index'[p] : e \in index[p] \/ Was(p, e[2])
  PROVE  \A v \in Version : v # 0 /\ Past(p, v)' => Past(p, v)
<1> SUFFICES ASSUME NEW v \in Version, v # 0, Past(p, v)' PROVE Past(p, v)
  OBVIOUS
<1>1. CASE v \in {disk'[p], spaceSnapshot'[p], stored'[p]}
  BY <1>1 DEF Was
<1>2. ASSUME NEW q \in Op, v = op'[q].save[p] PROVE Past(p, v)
  <2>1. CASE q = o
    BY <1>2, <2>1 DEF Was
  <2>2. CASE q # o
    BY <1>2, <2>2 DEF Past
  <2> QED BY <2>1, <2>2
<1>3. ASSUME NEW q \in Op, v = op'[q].got[p], ~Asked(q, p)' PROVE Past(p, v)
  <2>1. CASE q = o
    <3>1. Was(p, s.got[p])
      BY <1>3, <2>1 DEF Asked
    <3> QED BY <1>3, <2>1, <3>1 DEF Was
  <2>2. CASE q # o
    BY <1>3, <2>2 DEF Past, Asked
  <2> QED BY <2>1, <2>2
<1>4. ASSUME NEW e \in index'[p], v = e[2] PROVE Past(p, v)
  <2>1. CASE e \in index[p]
    BY <1>4, <2>1 DEF Past
  <2>2. CASE Was(p, e[2])
    BY <1>4, <2>2 DEF Was
  <2> QED BY <2>1, <2>2
<1> QED BY <1>1, <1>2, <1>3, <1>4 DEF Past

LEMMA TurnFresh ==
  ASSUME SeenInv, IInv', NEW o \in Op, NEW s \in OpState, Turns(o, s), NEW p \in Path
  PROVE  Fresh(p)'
<1>0. /\ op'[o] = s /\ (\A q \in Op : q # o => op'[q] = op[q]) /\ Fits(op[o]) /\ Fits(s)
      /\ Fresh(p) /\ IInv /\ NoFiles[p] = 0
  BY Typed DEF Turns, SeenInv, Fitting, NoFiles
<1>1. CASE Opens(o, s)
  <2>1. /\ op[o].pc = "idle" /\ s.pc = "asked" /\ s.save[p] = 0
        /\ UNCHANGED <<disk, spaceSnapshot, stored, index>>
    BY <1>0, <1>1 DEF Opens
  <2>2. CASE s.kind # "write" /\ s.got = NoFiles /\ UNCHANGED versions
    <3>1. \A v \in Version : v # 0 /\ Past(p, v)' => Past(p, v)
      BY <1>0, <2>1, <2>2 DEF Past, Asked
    <3>2. \A q \in Op : Asked(q, p)' => Asked(q, p) /\ op'[q].got[p] = op[q].got[p]
      BY <1>0, <2>1, <2>2 DEF Asked
    <3> QED BY <1>0, <2>2, <3>1, <3>2, FreshStays
  <2>3. CASE /\ s.kind = "write" /\ s.path \in Path /\ versions' = versions + 1
             /\ s.got = [NoFiles EXCEPT ![s.path] = versions + 1]
    <3>1. s.got[p] = IF p = s.path THEN versions + 1 ELSE 0
      BY <2>3 DEF NoFiles
    <3>2. \A v \in Version : v # 0 /\ Past(p, v)' => Past(p, v)
      <4>1. (s.kind = "write" /\ s.pc = "asked" /\ s.path = p) \/ Was(p, s.got[p])
        BY <1>0, <2>1, <2>3, <3>1, Here
      <4>2. Was(p, s.save[p]) /\ Was(p, disk'[p]) /\ Was(p, spaceSnapshot'[p]) /\ Was(p, stored'[p])
        BY <2>1, Here
      <4> QED BY <1>0, <2>1, <4>1, <4>2, PastStays
    <3>3. \A q \in Op : q # o => (Asked(q, p)' <=> Asked(q, p)) /\ op'[q].got[p] = op[q].got[p]
      BY <1>0 DEF Asked
    <3>4. Asked(o, p)' => op'[o].got[p] = versions + 1
      BY <1>0, <2>3, <3>1 DEF Asked
    <3>5. versions \in Nat /\ Version \subseteq Nat
      BY <1>0, Typed
    <3>6. \A v \in Version : v # 0 /\ Past(p, v)' =>
            v <= versions /\ \A q \in Op : Asked(q, p) => op[q].got[p] # v
      BY <1>0, <3>2 DEF Fresh
    <3>7. \A q \in Op : Asked(q, p) => op[q].got[p] <= versions /\ op[q].got[p] \in Nat
      BY <1>0, <3>5, Typed DEF Fresh
    <3>8. ASSUME NEW v \in Version, v # 0, Past(p, v)'
          PROVE  v <= versions' /\ \A q \in Op : Asked(q, p)' => op'[q].got[p] # v
      <4>1. v <= versions /\ v \in Nat /\ v <= versions + 1 /\ v # versions + 1
        BY <3>5, <3>6, <3>8
      <4>2. ASSUME NEW q \in Op, Asked(q, p)' PROVE op'[q].got[p] # v
        <5>1. CASE q = o
          BY <3>4, <4>1, <4>2, <5>1
        <5>2. CASE q # o
          BY <3>3, <3>6, <3>8, <4>2, <5>2
        <5> QED BY <5>1, <5>2
      <4> QED BY <2>3, <4>1, <4>2
    <3>9. ASSUME NEW q \in Op, Asked(q, p)' PROVE op'[q].got[p] <= versions'
      <4>1. CASE q = o
        BY <2>3, <3>4, <3>5, <3>9, <4>1
      <4>2. CASE q # o
        BY <2>3, <3>3, <3>5, <3>7, <3>9, <4>2
      <4> QED BY <4>1, <4>2
    <3>10. ASSUME NEW q \in Op, NEW q2 \in Op, Asked(q, p)', Asked(q2, p)', op'[q2].got[p] = op'[q].got[p]
           PROVE  q = q2
      <4>1. CASE q = o /\ q2 # o
        BY <3>3, <3>4, <3>5, <3>7, <3>10, <4>1
      <4>2. CASE q2 = o /\ q # o
        BY <3>3, <3>4, <3>5, <3>7, <3>10, <4>2
      <4>3. CASE q # o /\ q2 # o
        BY <1>0, <3>3, <3>10, <4>3 DEF Fresh
      <4> QED BY <4>1, <4>2, <4>3
    <3> QED BY <3>8, <3>9, <3>10 DEF Fresh
  <2> QED BY <1>1, <2>2, <2>3 DEF Opens
<1>2. CASE Answers(o, s)
  <2>1. /\ op[o].pc = "asked" /\ s.pc = "answered" /\ s.kind = op[o].kind /\ s.path = op[o].path
        /\ s.save = op[o].save
        /\ UNCHANGED <<versions, spaceSnapshot, stored, index, queue>>
    BY <1>2 DEF Answers
  <2>2. \A q \in Op : Asked(q, p)' => q # o /\ Asked(q, p) /\ op'[q].got[p] = op[q].got[p]
    BY <1>0, <2>1 DEF Asked
  <2>3. CASE s.kind = "write" /\ s.got = op[o].got /\ disk' = [disk EXCEPT ![s.path] = s.got[s.path]]
    <3>1. CASE Asked(o, p)
      <4>1. \A v \in Version : v # 0 /\ Past(p, v)' => Past(p, v) \/ v = op[o].got[p]
        BY <1>0, <2>1, <2>2, <2>3, <3>1, Typed DEF Past, Asked
      <4>2. op[o].got[p] <= versions
            /\ \A q \in Op : q # o /\ Asked(q, p) => op[q].got[p] # op[o].got[p]
        BY <1>0, <3>1 DEF Fresh
      <4> QED BY <1>0, <2>1, <2>2, <4>1, <4>2 DEF Fresh
    <3>2. CASE ~Asked(o, p)
      <4>1. p # s.path /\ disk'[p] = disk[p]
        BY <1>0, <2>1, <2>3, <3>2 DEF Asked, IInv, DataTypes, Files
      <4>2. \A v \in Version : v # 0 /\ Past(p, v)' => Past(p, v)
        BY <1>0, <2>1, <2>3, <3>2, <4>1 DEF Past, Asked
      <4> QED BY <1>0, <2>1, <2>2, <4>2, FreshStays
    <3> QED BY <3>1, <3>2
  <2>4. CASE s.kind = "delete" /\ s.got = op[o].got /\ disk' = [disk EXCEPT ![s.path] = 0]
    <3>1. disk'[p] \in {0, disk[p]}
      BY <1>0, <2>4 DEF IInv, DataTypes, Files
    <3>2. \A v \in Version : v # 0 /\ Past(p, v)' => Past(p, v)
      <4>1. Was(p, s.got[p])
        BY <1>0, <2>1, <2>4, <3>1, Here DEF Asked
      <4>2. Was(p, s.save[p]) /\ Was(p, disk'[p]) /\ Was(p, spaceSnapshot'[p]) /\ Was(p, stored'[p])
        BY <2>1, <2>4, <3>1, Here
      <4> QED BY <1>0, <2>1, <4>1, <4>2, PastStays
    <3> QED BY <1>0, <2>1, <2>2, <3>2, FreshStays
  <2>5. CASE s.kind = "list" /\ s.got = disk /\ UNCHANGED disk
    <3>2. \A v \in Version : v # 0 /\ Past(p, v)' => Past(p, v)
      <4>1. Was(p, s.got[p])
        BY <1>0, <2>1, <2>5, Here DEF Asked
      <4>2. Was(p, s.save[p]) /\ Was(p, disk'[p]) /\ Was(p, spaceSnapshot'[p]) /\ Was(p, stored'[p])
        BY <2>1, <2>5, Here
      <4> QED BY <1>0, <2>1, <4>1, <4>2, PastStays
    <3> QED BY <1>0, <2>1, <2>2, <3>2, FreshStays
  <2>6. CASE s.kind = "read" /\ s.got = [NoFiles EXCEPT ![s.path] = disk[s.path]] /\ UNCHANGED disk
    <3>1. s.got[p] \in {0, disk[p]}
      BY <2>6 DEF NoFiles
    <3>2. \A v \in Version : v # 0 /\ Past(p, v)' => Past(p, v)
      <4>1. Was(p, s.got[p])
        BY <1>0, <2>1, <2>6, <3>1, Here DEF Asked
      <4>2. Was(p, s.save[p]) /\ Was(p, disk'[p]) /\ Was(p, spaceSnapshot'[p]) /\ Was(p, stored'[p])
        BY <2>1, <2>6, <3>1, Here
      <4> QED BY <1>0, <2>1, <4>1, <4>2, PastStays
    <3> QED BY <1>0, <2>1, <2>2, <3>2, FreshStays
  <2> QED BY <1>2, <2>3, <2>4, <2>5, <2>6 DEF Answers
\* After any other step, s has no version that is new.
<1>3. ASSUME s.pc # "asked", versions' = versions, op[o].pc # "asked" \/ s.got = NoFiles,
             s.got \in {op[o].got, NoFiles}, disk' = disk,
             spaceSnapshot'[p] \in {0, spaceSnapshot[p], op[o].got[p]},
             op[o].pc # "asked" \/ UNCHANGED spaceSnapshot,
             stored'[p] \in {stored[p], op[o].save[p]},
             s.save[p] \in {op[o].save[p], spaceSnapshot[p], spaceSnapshot'[p], 0},
             \A e \in index'[p] : e \in index[p] \/ (e[2] = op[o].got[p] /\ op[o].pc # "asked")
      PROVE  Fresh(p)'
  <2>1. \A q \in Op : Asked(q, p)' => Asked(q, p) /\ op'[q].got[p] = op[q].got[p]
    BY <1>0, <1>3 DEF Asked
  <2>2. \A v \in Version : v # 0 /\ Past(p, v)' => Past(p, v)
    <3>1. op[o].pc # "asked" => Was(p, op[o].got[p])
      BY Here DEF Asked
    <3>2. Was(p, spaceSnapshot'[p])
      BY <1>3, <3>1, Here
    <3>3. Was(p, s.got[p])
      BY <1>0, <1>3, <3>1, Here
    <3>4. Was(p, s.save[p]) /\ Was(p, disk'[p]) /\ Was(p, stored'[p])
      BY <1>3, <3>2, Here
    <3>5. \A e \in index'[p] : e \in index[p] \/ Was(p, e[2])
      BY <1>3, <3>1
    <3> QED BY <1>0, <3>2, <3>3, <3>4, <3>5, PastStays
  <2> QED BY <1>0, <1>3, <2>1, <2>2, FreshStays
<1>4. CASE Proceeds(o, s)
  <2>1. Idle.got = NoFiles
    BY DEF Idle
  <2> QED BY <1>0, <1>3, <1>4 DEF Proceeds
<1>5. CASE Announces(o, s)
  <2>1. op[o].pc # "asked" /\ s.pc # "asked"
    BY <1>5 DEF Announces
  <2>2. spaceSnapshot'[p] \in {0, spaceSnapshot[p], op[o].got[p]}
    BY <1>0, <1>5 DEF Announces, IInv, DataTypes, Files
  <2> QED BY <1>3, <1>5, <2>1, <2>2 DEF Announces
<1>6. CASE Listens(o, s)
  BY <1>3, <1>6, <1>0 DEF Listens
<1>7. CASE Caches(o, s)
  <2>1. spaceSnapshot'[p] \in {spaceSnapshot[p], op[o].got[p]}
    BY <1>0, <1>7 DEF Caches, IInv, DataTypes, Files
  <2> QED BY <1>3, <1>7, <2>1 DEF Caches
<1>8. CASE Indexes(o, s)
  <2> DEFINE q == op[o].path
             new == Entries(op[o].got[q])
  <2>1. /\ op[o].pc = "write" /\ s = Idle
        /\ index' = [index EXCEPT ![q] = {e \in index[q] : \A f \in new : e[1] # f[1]} \cup new]
        /\ UNCHANGED <<disk, versions, spaceSnapshot, stored, queue>>
    BY <1>8 DEF Indexes
  <2>2. s.pc = "idle" /\ s.got = NoFiles /\ s.save = NoFiles
    BY <2>1 DEF Idle
  <2>3. \A e \in new : e[2] = op[o].got[q]
    BY DEF Entries
  <2> HIDE DEF new
  <2>4. \A e \in index'[p] : e \in index[p] \/ e[2] = op[o].got[p]
    BY <1>0, <2>1, <2>3 DEF IInv, DataTypes
  <2> QED BY <1>0, <1>3, <2>1, <2>2, <2>4
<1> QED BY <1>1, <1>2, <1>4, <1>5, <1>6, <1>7, <1>8 DEF Turns

\* o puts a version of p into the snapshot.
Puts(o, s, p) ==
  /\ s.path = p
  /\ op[o].pc = "cache" \/ (op[o].pc = "compare" /\ s.pc = "collect" /\ s.event = "changed")

\* Otherwise no step makes a version known that was not.
LEMMA Steady ==
  ASSUME SeenInv, NEW o \in Op, NEW s \in OpState, Turns(o, s), NEW p \in Path, ~Puts(o, s, p),
         NEW v \in Version, v = 0 \/ Past(p, v), Known(p, v)'
  PROVE  Known(p, v) /\ disk'[p] = disk[p] /\ spaceSnapshot'[p] \in {0, spaceSnapshot[p]}
<1>0. /\ op'[o] = s /\ (\A q \in Op : q # o => op'[q] = op[q]) /\ Fits(op[o]) /\ Fits(s)
      /\ Fresh(p) /\ IInv /\ NoFiles[p] = 0
      /\ disk'[p] # 0
      /\ \/ disk'[p] \in {v, spaceSnapshot'[p], stored'[p]}
         \/ \E q \in Op : op'[q].save[p] = disk'[p]
  BY Typed DEF Turns, SeenInv, Fitting, NoFiles, Known
<1>1. spaceSnapshot'[p] \in {0, spaceSnapshot[p]}
  BY <1>0 DEF Turns, Opens, Answers, Proceeds, Announces, Listens, Caches, Indexes, Puts,
              IInv, DataTypes, Files
<1>2. stored'[p] \in {stored[p], op[o].save[p]}
  BY <1>0 DEF Turns, Opens, Answers, Proceeds, Announces, Listens, Caches, Indexes
<1>3. s.save[p] \in {0, op[o].save[p], spaceSnapshot[p], spaceSnapshot'[p]}
  <2>1. Idle.save = NoFiles
    BY DEF Idle
  <2> QED BY <1>0, <2>1 DEF Turns, Opens, Answers, Proceeds, Announces, Listens, Caches, Indexes
<1>4. \/ disk'[p] \in {v, spaceSnapshot[p], stored[p]}
      \/ \E q \in Op : op[q].save[p] = disk'[p]
  <2>1. CASE disk'[p] \in {v, spaceSnapshot'[p], stored'[p]}
    BY <1>0, <1>1, <1>2, <2>1
  <2>2. ASSUME NEW q \in Op, op'[q].save[p] = disk'[p]
        PROVE  \/ disk'[p] \in {v, spaceSnapshot[p], stored[p]}
               \/ \E q2 \in Op : op[q2].save[p] = disk'[p]
    BY <1>0, <1>1, <1>3, <2>2
  <2> QED BY <1>0, <2>1, <2>2
<1>5. disk'[p] = disk[p]
  <2>1. CASE Answers(o, s)
    <3>1. disk'[p] \in {0, disk[p]} \/ (Asked(o, p) /\ disk'[p] = op[o].got[p])
      BY <1>0, <2>1 DEF Answers, Asked, IInv, DataTypes, Files
    <3>2. ASSUME Asked(o, p), disk'[p] = op[o].got[p] PROVE FALSE
      <4>1. disk'[p] \in Version
        BY <1>0, <3>2, Typed
      <4>2. Past(p, disk'[p])
        BY <1>0, <1>4 DEF Past
      <4> QED BY <1>0, <3>2, <4>1, <4>2 DEF Fresh
    <3> QED BY <1>0, <3>1, <3>2
  <2>2. CASE ~Answers(o, s)
    BY <2>2 DEF Turns, Opens, Proceeds, Announces, Listens, Caches, Indexes
  <2> QED BY <2>1, <2>2
<1> QED BY <1>0, <1>1, <1>4, <1>5 DEF Known

\* What is done stays so, unless a deletion clears the index.
LEMMA DoneStays ==
  ASSUME SeenInv, IInv', NEW o \in Op, NEW s \in OpState, Turns(o, s), NEW p \in Path,
         Done(p), disk[p] # 0, disk'[p] = disk[p],
         ~(op[o].pc = "erase" /\ Clearing(o, p))
  PROVE  Done(p)'
<1>0. /\ op'[o] = s /\ (\A q \in Op : q # o => op'[q] = op[q]) /\ Fits(op[o]) /\ Fits(s)
      /\ Latest(p) /\ IInv /\ NoFiles[p] = 0
      /\ Indexer \in Op /\ Shape(o, op[o]) /\ op[o] \in OpState
  BY Typed DEF Turns, SeenInv, Fitting, NoFiles, IInv, DataTypes
<1>1. CASE Indexed(p)
  <2>1. CASE index'[p] = index[p]
    BY <1>1, <2>1 DEF Indexed, Done
  <2>2. CASE Listens(o, s) /\ op[o].pc = "erase" /\ s.path = p
    <3>1. op[o].event = "changed" /\ s.event = "changed"
      BY <1>0, <2>2 DEF Listens, Fits, Clearing, OpState
    <3> QED BY <1>0, <2>2, <3>1 DEF Done, Announcing
  <2>3. CASE Indexes(o, s)
    <3> DEFINE q == op[o].path
               new == Entries(op[o].got[q])
    <3>1. /\ o = Indexer /\ op[o].pc = "write"
          /\ index' = [index EXCEPT ![q] = {e \in index[q] : \A f \in new : e[1] # f[1]} \cup new]
      BY <2>3 DEF Indexes
    <3>2. CASE q = p
      <4>1. op[o].got[p] = disk[p]
        <5>1. <<0, disk[p]>> \in index[p]
          BY <1>1 DEF Indexed, Entries
        <5>2. op[o].got[p] # 0
          BY <1>0, <3>1, <3>2 DEF Fits
        <5> QED BY <1>0, <3>1, <3>2, <5>1, <5>2 DEF Latest
      <4>2. new \subseteq index'[p]
        BY <1>0, <3>1, <3>2 DEF IInv, DataTypes
      <4> QED BY <3>2, <4>1, <4>2 DEF Indexed, Done
    <3>3. CASE q # p
      <4>1. index'[p] = index[p]
        BY <1>0, <3>1, <3>3 DEF IInv, DataTypes
      <4> QED BY <2>1, <4>1
    <3> QED BY <3>2, <3>3
  <2> QED BY <2>1, <2>2, <2>3 DEF Turns, Opens, Answers, Proceeds, Announces, Listens, Caches
<1>2. CASE Handed(p)
  <2>1. CASE Opens(o, s) /\ o = Indexer /\ s.path = p
    <3>1. s.kind = "read" /\ s.got = NoFiles
      BY <2>1 DEF Opens
    <3> QED BY <1>0, <2>1, <3>1 DEF Done, Indexing
  <2>2. CASE ~(Opens(o, s) /\ o = Indexer /\ s.path = p)
    <3>1. CASE Opens(o, s) /\ o = Indexer
      BY <1>2, <2>2, <3>1 DEF Opens, Done
    <3>2. CASE (\E q \in {op[o].path, s.path} : Hands(q))
      BY <1>2, <3>2 DEF Hands, Done
    <3>3. CASE UNCHANGED queue
      BY <1>2, <3>3, QueueStays DEF Done
    <3> QED BY <3>1, <3>2, <3>3 DEF Turns, Opens, Proceeds, Listens, Answers, Announces, Caches, Indexes
  <2> QED BY <2>1, <2>2
<1>3. CASE Indexing(p)
  <2>1. CASE o # Indexer
    BY <1>0, <1>3, <2>1 DEF Indexing, Done
  <2>2. CASE o = Indexer
    <3>0. op[o].path = p /\ op[o].got[p] \in {0, disk[p]} /\ op[o].kind = "read"
      BY <1>0, <1>3, <2>2, EventedConstants DEF Indexing, Shape, Fits
    <3>1. CASE Opens(o, s)
      BY <1>0, <3>0, <3>1 DEF Opens, Fits
    <3>2. CASE Answers(o, s)
      <4>1. s.path = p /\ s.got = [NoFiles EXCEPT ![p] = disk[p]]
        BY <3>0, <3>2 DEF Answers
      <4>2. s.got[p] = disk[p]
        BY <4>1 DEF NoFiles
      <4> QED BY <1>0, <2>2, <4>1, <4>2 DEF Done, Indexing
    <3>3. CASE Proceeds(o, s)
      <4>1. CASE s.path = p
        BY <1>0, <2>2, <3>0, <3>3, <4>1 DEF Proceeds, Done, Indexing
      <4>2. CASE s.path # p
        <5>1. Hands(p)
          BY <2>2, <3>0, <3>3, <4>2 DEF Proceeds
        <5> QED BY <5>1 DEF Done, Hands
      <4> QED BY <4>1, <4>2
    <3>4. CASE Announces(o, s)
      BY <1>0, <2>2, <3>0, <3>4 DEF Announces, Done, Indexing
    <3>5. CASE Listens(o, s)
      BY <1>0, <2>2, <3>0, <3>5 DEF Listens, Done, Indexing
    <3>6. CASE Caches(o, s)
      BY <1>0, <2>2, <3>0, <3>6 DEF Caches, Done, Indexing
    <3>7. CASE Indexes(o, s)
      <4> DEFINE new == Entries(op[o].got[p])
      <4>1. /\ op[o].pc = "write"
            /\ index' = [index EXCEPT ![p] = {e \in index[p] : \A f \in new : e[1] # f[1]} \cup new]
        BY <3>0, <3>7 DEF Indexes
      <4>2. op[o].got[p] = disk[p]
        BY <1>0, <3>0, <4>1 DEF Fits
      <4>3. new \subseteq index'[p]
        BY <1>0, <4>1 DEF IInv, DataTypes
      <4> QED BY <4>2, <4>3 DEF Indexed, Done
    <3> QED BY <3>1, <3>2, <3>3, <3>4, <3>5, <3>6, <3>7 DEF Turns
  <2> QED BY <2>1, <2>2
<1>4. ASSUME NEW q \in Op, Announcing(q, p) PROVE Done(p)'
  <2>1. CASE q # o
    BY <1>0, <1>4, <2>1 DEF Announcing, Done
  <2>2. CASE q = o
    <3>0. op[o].event = "changed" /\ op[o].path = p
      BY <1>4, <2>2 DEF Announcing
    <3>1. Listens(o, s)
      BY <1>0, <3>0 DEF Turns, Opens, Answers, Proceeds, Announces, Caches, Indexes, Fits
    <3>2. CASE s.event = "changed"
      BY <1>0, <3>0, <3>1, <3>2 DEF Listens, Announcing, Done
    <3>3. CASE s.event # "changed"
      <4>1. Hands(p)
        BY <3>0, <3>1, <3>3 DEF Listens
      <4> QED BY <4>1 DEF Done, Hands
    <3> QED BY <3>2, <3>3
  <2> QED BY <2>1, <2>2
<1> QED BY <1>1, <1>2, <1>3, <1>4 DEF Done

\* Only who compares puts versions into the snapshot.
LEMMA PutsCompares ==
  ASSUME Fitting, NEW o \in Op, NEW s, NEW p, Puts(o, s, p)
  PROVE  Comparing(o) /\ op[o].event = "none"
BY DEF Fitting, Fits, Puts, Comparing

\* What a read or a write puts there was known to be about to get there.
LEMMA CachesKnown ==
  ASSUME SeenInv, NEW o \in Op, NEW s \in OpState, Turns(o, s), NEW p \in Path,
         Puts(o, s, p), op[o].pc = "cache", Known(p, 0)'
  PROVE  op[o].path = p /\ Known(p, op[o].got[p]) /\ disk'[p] = disk[p] /\ disk[p] # 0
<1>0. /\ op'[o] = s /\ (\A q \in Op : q # o => op'[q] = op[q]) /\ Fits(op[o]) /\ Fits(s) /\ IInv
  BY Typed DEF Turns, SeenInv, Fitting
<1>1. Caches(o, s)
  BY <1>0 DEF Turns, Opens, Answers, Proceeds, Announces, Listens, Indexes, Fits
<1>2. /\ op[o].path = p /\ s.got = op[o].got /\ s.save \in {op[o].save, spaceSnapshot'}
      /\ spaceSnapshot'[p] = op[o].got[p] /\ disk' = disk /\ stored' = stored
  BY <1>0, <1>1 DEF Caches, Puts, IInv, DataTypes, Files
<1>3. disk[p] # 0
  BY <1>2 DEF Known
<1>4. CASE disk'[p] \in {0, spaceSnapshot'[p], stored'[p]}
  BY <1>2, <1>3, <1>4 DEF Known
<1>5. ASSUME NEW q \in Op, op'[q].save[p] = disk'[p] PROVE Known(p, op[o].got[p])
  <2>1. CASE q = o
    BY <1>0, <1>2, <1>3, <1>5, <2>1 DEF Known
  <2>2. CASE q # o
    BY <1>0, <1>2, <1>3, <1>5, <2>2 DEF Known
  <2> QED BY <2>1, <2>2
<1> QED BY <1>2, <1>3, <1>4, <1>5 DEF Known

LEMMA TurnCompared ==
  ASSUME SeenInv, IInv', NEW o \in Op, NEW s \in OpState, Turns(o, s), NEW p \in Path
  PROVE  Compared(p)'
<1> SUFFICES ASSUME spaceSnapshot'[p] # 0, Known(p, 0)' PROVE Done(p)'
  BY DEF Compared
<1>0. /\ op'[o] = s /\ (\A q \in Op : q # o => op'[q] = op[q]) /\ Fits(op[o]) /\ Fits(s)
      /\ IInv /\ 0 \in Version /\ Compared(p) /\ Overtaken(o, p)
  BY Typed DEF Turns, SeenInv, Fitting
<1>1. CASE ~Puts(o, s, p)
  <2>1. Known(p, 0) /\ disk'[p] = disk[p] /\ spaceSnapshot[p] # 0 /\ disk[p] # 0
    BY <1>0, <1>1, Steady DEF Known
  <2>2. Done(p)
    BY <1>0, <2>1 DEF Compared
  <2>3. CASE op[o].pc = "erase" /\ Clearing(o, p)
    <3>1. PICK l \in Op : l # o /\ Announcing(l, p)
      BY <1>0, <2>1, <2>3 DEF Overtaken
    <3> QED BY <1>0, <3>1 DEF Announcing, Done
  <2>4. CASE ~(op[o].pc = "erase" /\ Clearing(o, p))
    BY <2>1, <2>2, <2>4, DoneStays
  <2> QED BY <2>3, <2>4
<1>2. CASE Puts(o, s, p) /\ op[o].pc = "compare"
  BY <1>0, <1>2 DEF Puts, Done, Announcing
<1>3. CASE Puts(o, s, p) /\ op[o].pc = "cache"
  <2>1. op[o].path = p /\ Known(p, op[o].got[p]) /\ disk'[p] = disk[p] /\ disk[p] # 0
    BY <1>3, CachesKnown
  <2>2. Done(p)
    BY <1>3, <2>1 DEF SeenInv, Cached
  <2> QED BY <1>3, <2>1, <2>2, DoneStays
<1> QED BY <1>1, <1>2, <1>3 DEF Puts


LEMMA TurnCached ==
  ASSUME SeenInv, IInv', NEW o \in Op, NEW s \in OpState, Turns(o, s), NEW q \in Op
  PROVE  Cached(q)'
<1>0. /\ op'[o] = s /\ (\A x \in Op : x # o => op'[x] = op[x]) /\ Fits(op[o]) /\ Fits(s)
      /\ IInv /\ Fits(op'[q])
  BY Typed DEF Turns, SeenInv, Fitting
<1>1. ASSUME op'[q].pc = "cache", NEW p \in Path, op'[q].path = p, NEW v \in Version, op'[q].got[p] = v,
             Known(p, v)'
      PROVE  Done(p)'
  <2>1. CASE q = o
    <3>1. Listens(o, s)
      BY <1>0, <1>1, <2>1 DEF Turns, Opens, Answers, Proceeds, Announces, Caches, Indexes, Idle
    <3>2. Hands(p)
      BY <1>0, <1>1, <2>1, <3>1 DEF Listens
    <3> QED BY <3>2 DEF Done, Hands
  <2>2. CASE q # o
    <3>1. op[q].pc = "cache" /\ op[q].path = p /\ op[q].got[p] = v /\ Comparing(q)
          /\ op[q].kind \in {"read", "write"}
      BY <1>0, <1>1, <2>2 DEF Comparing, Fits
    <3>2. ~Puts(o, s, p)
      BY <2>2, <3>1, PutsCompares DEF SeenInv, IInv, OneComparison
    <3>3. Past(p, v)
      BY <3>1 DEF Past, Asked
    <3>4. Known(p, v) /\ disk'[p] = disk[p] /\ disk[p] # 0
      BY <1>1, <3>2, <3>3, Steady DEF Known
    <3>5. Done(p)
      BY <3>1, <3>4 DEF SeenInv, Cached
    <3>6. ~(op[o].pc = "erase" /\ Clearing(o, p))
      <4> SUFFICES ASSUME op[o].pc = "erase", op[o].event = "deleted", op[o].path = p PROVE FALSE
        BY DEF Clearing
      <4>1. CASE op[o].kind = "list"
        BY <2>2, <3>1, <4>1 DEF SeenInv, IInv, OneComparison, Comparing
      <4>2. CASE op[o].kind = "delete"
        <5>1. Deleting(o) /\ Triggering(q)
          BY <3>1, <4>2 DEF Deleting, Triggering
        <5> QED BY <3>1, <3>4, <5>1 DEF SeenInv, Apart
      <4> QED BY <1>0, <4>1, <4>2 DEF Fits
    <3> QED BY <3>4, <3>5, <3>6, DoneStays
  <2> QED BY <2>1, <2>2
<1>2. op'[q].pc = "cache" => op'[q].path \in Path
  BY <1>0 DEF IInv, Shapes, Shape, Fits
<1>3. op'[q].path \in Path => op'[q].got[op'[q].path] \in Version
  BY DEF IInv, OpTypes, OpState, Files
<1> QED BY <1>1, <1>2, <1>3 DEF Cached

LEMMA TurnLatest ==
  ASSUME SeenInv, IInv', NEW o \in Op, NEW s \in OpState, Turns(o, s), NEW p \in Path
  PROVE  Latest(p)'
<1> SUFFICES ASSUME op'[Indexer].path = p, disk'[p] # 0, <<0, disk'[p]>> \in index'[p]
             PROVE  op'[Indexer].got[p] \in {0, disk'[p]}
  BY DEF Latest
<1>0. /\ op'[o] = s /\ (\A x \in Op : x # o => op'[x] = op[x]) /\ Fits(op[o]) /\ Fits(s)
      /\ IInv /\ Indexer \in Op /\ Latest(p) /\ Shape(o, op[o]) /\ Fresh(p)
      /\ Shape(o, s)
  BY Typed DEF Turns, SeenInv, Fitting, IInv, Shapes
<1>1. CASE o = Indexer
  <2>1. s.path = p /\ s.kind \in {"none", "read"} /\ p # None
    BY <1>0, <1>1, EventedConstants DEF Shape
  <2>2. CASE Opens(o, s)
    <3>1. s.got = NoFiles
      BY <2>1, <2>2 DEF Opens
    <3> QED BY <1>0, <1>1, <3>1 DEF NoFiles
  <2>3. CASE Answers(o, s)
    <3>1. s.got = [NoFiles EXCEPT ![p] = disk[p]] /\ disk' = disk
      BY <1>0, <2>1, <2>3 DEF Answers, Fits
    <3> QED BY <1>0, <1>1, <3>1 DEF NoFiles
  <2>4. CASE Proceeds(o, s) \/ Announces(o, s) \/ Listens(o, s) \/ Caches(o, s)
    <3>1. s.got = NoFiles \/ (s.got = op[o].got /\ op[o].path = p)
      <4>1. Idle.got = NoFiles
        BY DEF Idle
      <4> QED BY <2>1, <2>4, <4>1 DEF Proceeds, Announces, Listens, Caches
    <3>2. disk' = disk /\ index'[p] \subseteq index[p]
      BY <2>4 DEF Proceeds, Announces, Listens, Caches
    <3>3. CASE s.got = NoFiles
      BY <1>0, <1>1, <3>3 DEF NoFiles
    <3>4. CASE s.got = op[o].got /\ op[o].path = p
      BY <1>0, <1>1, <3>2, <3>4 DEF Latest
    <3> QED BY <3>1, <3>3, <3>4
  <2>5. CASE Indexes(o, s)
    BY <2>1, <2>5 DEF Indexes, Idle
  <2> QED BY <2>2, <2>3, <2>4, <2>5 DEF Turns
<1>2. CASE o # Indexer
  <2>1. op'[Indexer] = op[Indexer] /\ index'[p] \subseteq index[p]
    BY <1>0, <1>2 DEF Turns, Opens, Answers, Proceeds, Announces, Listens, Caches, Indexes
  <2>2. disk'[p] = disk[p]
    <3>1. disk'[p] \in {0, disk[p]} \/ (Asked(o, p) /\ disk'[p] = op[o].got[p])
      BY <1>0 DEF Turns, Opens, Answers, Proceeds, Announces, Listens, Caches, Indexes, Asked,
                  IInv, DataTypes, Files
    <3>2. ASSUME Asked(o, p), disk'[p] = op[o].got[p] PROVE FALSE
      <4>1. disk'[p] \in Version
        BY <1>0, <3>2, Typed
      <4>2. Past(p, disk'[p])
        BY <2>1 DEF Past
      <4> QED BY <1>0, <3>2, <4>1, <4>2 DEF Fresh
    <3> QED BY <3>1, <3>2
  <2> QED BY <1>0, <2>1, <2>2 DEF Latest
<1> QED BY <1>1, <1>2

LEMMA TurnShapes ==
  ASSUME SeenInv, IInv', NEW o \in Op, NEW s \in OpState, Turns(o, s)
  PROVE  Fitting' /\ InLine' /\ Gone'
<1>0. /\ op'[o] = s /\ (\A x \in Op : x # o => op'[x] = op[x]) /\ Fits(op[o]) /\ Fits(s)
      /\ IInv /\ OpTypes /\ InLine /\ Lines(o, s)
  BY Typed DEF Turns, SeenInv, Fitting, IInv
<1>1. Fitting'
  <2>1. \A x \in Op : Fits(op'[x])
    BY <1>0 DEF SeenInv, Fitting
  <2> QED BY <2>1 DEF Fitting, Fits
<1>2. InLine'
  BY <1>0, LinesKeep DEF Turns
<1>3. Gone'
  <2> SUFFICES ASSUME NEW x \in Op, op'[x].kind = "list", op'[x].event = "deleted", NEW p, p = op'[x].path
               PROVE  spaceSnapshot'[p] = 0
    BY DEF Gone
  <2>0. p \in Path
    <3>1. Fits(op'[x]) /\ Shape(x, op'[x])
      BY <1>0 DEF SeenInv, Fitting, IInv, Shapes
    <3> QED BY <3>1 DEF Fits, Shape
  <2>1. CASE x = o
    <3>1. CASE Announces(o, s)
      BY <1>0, <2>0, <2>1, <3>1 DEF Announces, IInv, DataTypes, Files
    <3>2. CASE Listens(o, s)
      BY <1>0, <2>0, <2>1, <3>2 DEF Listens, SeenInv, Gone
    <3> QED BY <1>0, <2>1, <3>1, <3>2 DEF Turns, Opens, Answers, Proceeds, Caches, Indexes, Idle
  <2>2. CASE x # o
    <3>1. op[x].kind = "list" /\ op[x].event = "deleted" /\ op[x].path = p /\ spaceSnapshot[p] = 0
          /\ Comparing(x)
      BY <1>0, <2>2 DEF SeenInv, Gone, Comparing
    <3>2. ~Puts(o, s, p)
      BY <2>2, <3>1, PutsCompares DEF SeenInv, IInv, OneComparison
    <3>3. spaceSnapshot'[p] \in {0, spaceSnapshot[p]}
      BY <1>0, <2>0, <3>2 DEF Turns, Opens, Answers, Proceeds, Announces, Listens, Caches, Indexes, Puts,
              IInv, DataTypes, Files
    <3> QED BY <3>1, <3>3
  <2> QED BY <2>1, <2>2
<1> QED BY <1>1, <1>2, <1>3

LEMMA TurnApart ==
  ASSUME SeenInv, IInv', NEW o \in Op, NEW s \in OpState, Turns(o, s), NEW d \in Op, NEW q \in Op
  PROVE  Apart(d, q)'
<1>0. /\ op'[o] = s /\ (\A x \in Op : x # o => op'[x] = op[x]) /\ Fits(op[o]) /\ Fits(s)
      /\ IInv /\ Shape(q, op'[q]) /\ op'[q].got \in Files
  BY Typed DEF Turns, SeenInv, Fitting, IInv, Shapes, OpTypes, OpState
<1> SUFFICES ASSUME Deleting(d)', Triggering(q)', NEW p, p = op'[q].path, op'[d].path = p,
                    NEW v, v = op'[q].got[p], Known(p, v)'
             PROVE  FALSE
  BY DEF Apart
<1>1. p \in Path /\ v \in Version
  BY <1>0 DEF Triggering, Shape, Files
<1>2. d # q
  BY DEF Deleting, Triggering
\* q was there before, and nobody else compares.
<1>3. /\ Triggering(q) /\ op[q].path = p /\ op[q].got[p] = v
      /\ ~Puts(o, s, p)
  <2>1. CASE q # o
    <3>1. Triggering(q) /\ op[q].path = p /\ op[q].got[p] = v /\ Comparing(q)
      BY <1>0, <2>1 DEF Triggering, Comparing
    <3> QED BY <2>1, <3>1, PutsCompares DEF SeenInv, IInv, OneComparison
  <2>2. CASE q = o
    <3>1. CASE Announces(o, s)
      <4>1. operationCount = 1 /\ Flying(o)
        BY <1>0, <2>2, <3>1 DEF Announces, Triggering, Flying, Resting
      <4>2. Flying(d)
        BY <1>0, <1>2, <2>2 DEF Deleting, Flying, Resting
      <4> QED BY <1>0, <1>2, <2>2, <4>1, <4>2, CountMeans DEF IInv
    <3>2. CASE Listens(o, s)
      BY <1>0, <2>2, <3>2 DEF Listens, Triggering, Puts
    <3> QED BY <1>0, <2>2, <3>1, <3>2 DEF Turns, Opens, Answers, Proceeds, Caches, Indexes, Idle, Triggering
  <2> QED BY <2>1, <2>2
<1>4. Past(p, v)
  BY <1>3 DEF Past, Asked, Triggering
<1>5. Known(p, v) /\ disk'[p] = disk[p] /\ disk[p] # 0
  BY <1>1, <1>3, <1>4, Steady DEF Known
<1>6. Deleting(d) /\ op[d].path = p
  <2>1. CASE d # o
    BY <1>0, <2>1 DEF Deleting
  <2>2. CASE d = o
    <3>1. CASE Answers(o, s)
      <4>1. disk' = [disk EXCEPT ![p] = 0]
        BY <1>0, <2>2, <3>1 DEF Answers, Deleting
      <4> QED BY <1>0, <1>1, <1>5, <4>1 DEF IInv, DataTypes, Files
    <3>2. CASE Announces(o, s) \/ Listens(o, s)
      BY <1>0, <2>2, <3>2 DEF Announces, Listens, Deleting
    <3> QED BY <1>0, <2>2, <3>1, <3>2 DEF Turns, Opens, Proceeds, Caches, Indexes, Idle, Deleting
  <2> QED BY <2>1, <2>2
<1> QED BY <1>3, <1>5, <1>6 DEF SeenInv, Apart

LEMMA TurnOvertaken ==
  ASSUME SeenInv, IInv', NEW o \in Op, NEW s \in OpState, Turns(o, s), NEW d \in Op, NEW p \in Path
  PROVE  Overtaken(d, p)'
<1>0. /\ op'[o] = s /\ (\A x \in Op : x # o => op'[x] = op[x]) /\ Fits(op[o]) /\ Fits(s)
      /\ IInv /\ Fitting /\ OpTypes /\ InLine /\ 0 \in Version
      /\ op' = [op EXCEPT ![o] = s] /\ Lines(o, s)
  BY Typed DEF Turns, SeenInv, Fitting, IInv
<1> SUFFICES ASSUME Clearing(d, p)', spaceSnapshot'[p] # 0, Known(p, 0)'
             PROVE  \E l \in Op : l # d /\ op'[l].kind = "list" /\ Announcing(l, p)' /\ Later(d, l)'
  BY DEF Overtaken
<1>1. /\ \A a, b \in Op : a # o /\ b # o /\ Before(a, b) => Before(a, b)'
      /\ Waiting(s) => \A a \in Op : a # o /\ Waiting(op[a]) => Before(a, o)'
      /\ Waiting(op[o]) => \A a \in Op : ~Before(a, o)
  BY <1>0, LinesKeep
<1>2. CASE d = o
  <2>1. CASE Announces(o, s)
    <3>1. spaceSnapshot'[p] = 0
      BY <1>0, <1>2, <2>1 DEF Announces, Clearing, IInv, DataTypes, Files
    <3> QED BY <3>1
  <2>2. CASE Listens(o, s)
    <3>1. op[o].pc = "collect" /\ s.pc = "erase" /\ Clearing(d, p)
      BY <1>0, <1>2, <2>2 DEF Listens, Clearing, Fits
    <3>2. ~Puts(o, s, p)
      BY <3>1 DEF Puts
    <3>3. Known(p, 0) /\ spaceSnapshot[p] # 0
      BY <1>0, <3>2, Steady
    <3>4. PICK l \in Op : l # d /\ op[l].kind = "list" /\ Announcing(l, p) /\ Later(d, l)
      BY <3>1, <3>3 DEF SeenInv, Overtaken
    <3>5. op[l].pc = "collect" /\ op'[l] = op[l]
      BY <1>0, <1>2, <3>1, <3>4 DEF Later
    <3>6. Later(d, l)'
      BY <1>0, <1>2, <3>1, <3>5 DEF Later
    <3> QED BY <3>4, <3>5, <3>6 DEF Announcing
  <2> QED BY <1>0, <1>2, <2>1, <2>2 DEF Turns, Opens, Answers, Proceeds, Caches, Indexes, Idle, Clearing
<1>3. CASE d # o
  <2>0. /\ op'[d] = op[d] /\ Clearing(d, p) /\ op[d].pc \in {"collect", "erase"}
        /\ op[d].kind \in {"list", "delete"} /\ Waiting(op[d])
    BY <1>0, <1>3 DEF Clearing, Fitting, Fits, Waiting
  <2>1. CASE ~Puts(o, s, p)
    <3>1. Known(p, 0) /\ spaceSnapshot[p] # 0
      BY <1>0, <2>1, Steady
    <3>2. PICK l \in Op : l # d /\ op[l].kind = "list" /\ Announcing(l, p) /\ Later(d, l)
      BY <2>0, <3>1 DEF SeenInv, Overtaken
    <3>3. CASE l # o
      <4>1. op'[l] = op[l]
        BY <1>0, <3>3
      <4>2. Later(d, l)'
        BY <1>1, <1>3, <2>0, <3>2, <3>3, <4>1 DEF Later
      <4> QED BY <3>2, <4>1, <4>2 DEF Announcing
    <3>4. CASE l = o
      <4>1. Waiting(op[o]) /\ op[o].event = "changed" /\ op[o].path = p
        BY <1>0, <3>2, <3>4 DEF Announcing, Fits, Waiting
      <4>2. op[d].pc = "erase" /\ op[o].pc = "collect"
        BY <1>1, <3>2, <3>4, <4>1 DEF Later
      <4>3. Listens(o, s)
        BY <1>0, <4>1, <4>2 DEF Turns, Opens, Answers, Proceeds, Announces, Caches, Indexes, Fits
      <4>4. s.event = "changed" /\ s.path = p /\ s.kind = "list" /\ s.pc \in {"erase", "send"}
        BY <3>2, <3>4, <4>1, <4>2, <4>3 DEF Listens
      <4>5. Before(d, o)'
        BY <1>1, <1>3, <2>0, <4>4 DEF Waiting
      <4>6. Later(d, o)'
        BY <2>0, <4>2, <4>5 DEF Later
      <4> QED BY <1>0, <1>3, <4>4, <4>6 DEF Announcing
    <3> QED BY <3>3, <3>4
  <2>2. CASE Puts(o, s, p)
    <3>1. op[d].kind = "delete"
      <4>1. Comparing(o)
        BY <1>0, <2>2, PutsCompares
      <4> QED BY <1>0, <1>3, <2>0, <4>1 DEF IInv, OneComparison, Comparing
    <3>2. CASE op[o].pc = "compare"
      <4>1. s.pc = "collect" /\ s.event = "changed" /\ s.path = p
        BY <2>2, <3>2 DEF Puts
      <4>2. s.kind = "list"
        BY <1>0, <3>2, <4>1 DEF Turns, Opens, Answers, Proceeds, Announces, Listens, Caches, Indexes, Fits
      <4>3. Before(d, o)'
        BY <1>1, <1>3, <2>0, <4>1 DEF Waiting
      <4>4. Later(d, o)'
        BY <1>0, <4>1, <4>3 DEF Later
      <4> QED BY <1>0, <1>3, <4>1, <4>2, <4>4 DEF Announcing
    <3>3. CASE op[o].pc = "cache"
      <4>1. op[o].path = p /\ Known(p, op[o].got[p])
        BY <2>2, <3>3, CachesKnown
      <4>2. Deleting(d) /\ Triggering(o) /\ op[d].path = op[o].path
        BY <1>0, <2>0, <3>1, <3>3, <4>1 DEF Deleting, Triggering, Clearing, Fits
      <4> QED BY <4>1, <4>2 DEF SeenInv, Apart
    <3> QED BY <2>2, <3>2, <3>3 DEF Puts
  <2> QED BY <2>1, <2>2
<1> QED BY <1>2, <1>3

LEMMA TurnKeeps ==
  ASSUME SeenInv, IInv', NEW o \in Op, Turn(o)
  PROVE  SeenInv'
<1>1. PICK s \in OpState : Turns(o, s)
  BY DEF Turn
<1>2. Fitting' /\ InLine' /\ Gone'
  BY <1>1, TurnShapes
<1>3. \A p \in Path : Fresh(p)' /\ Compared(p)' /\ Latest(p)'
  BY <1>1, TurnFresh, TurnCompared, TurnLatest
<1>4. \A q \in Op : Cached(q)'
  BY <1>1, TurnCached
<1>5. \A d \in Op, p \in Path : Overtaken(d, p)'
  BY <1>1, TurnOvertaken
<1>6. \A d, q \in Op : Apart(d, q)'
  BY <1>1, TurnApart
<1> QED BY <1>2, <1>3, <1>4, <1>5, <1>6 DEF SeenInv

\* Changes from outside, and steps of the queue.
LEMMA OutsideKeeps ==
  ASSUME SeenInv, IInv', UNCHANGED <<op, kv, spaceSnapshot, stored, index>>, versions' \in Nat,
         versions <= versions',
         \A p \in Path : /\ disk'[p] \in {0, disk[p]} \/ (disk'[p] = versions' /\ versions < versions')
                         /\ Handed(p) => Handed(p)'
  PROVE  SeenInv'
<1>0. IInv /\ versions \in Nat /\ Version \subseteq Nat /\ 0 \in Version
  BY Typed DEF SeenInv
<1>1. Fitting' /\ InLine' /\ Gone'
  BY DEF SeenInv, Fitting, Fits, InLine, Waiting, Gone
<1>2. \A p \in Path : Fresh(p)'
  <2> SUFFICES ASSUME NEW p \in Path PROVE Fresh(p)'
    OBVIOUS
  <2>1. Fresh(p) /\ \A q \in Op : Asked(q, p)' <=> Asked(q, p)
    BY DEF SeenInv, Asked
  <2>2. \A q \in Op : op[q].got[p] \in Nat
    BY <1>0, Typed
  <2>3. \A v \in Version : v # 0 /\ Past(p, v)' => Past(p, v) \/ (v = versions' /\ versions < versions')
    BY DEF Past, Asked
  <2>4. ASSUME NEW v \in Version, v # 0, Past(p, v)'
        PROVE  v <= versions' /\ \A q \in Op : Asked(q, p) => op[q].got[p] # v
    BY <1>0, <2>1, <2>2, <2>3, <2>4 DEF Fresh
  <2>5. \A q \in Op : Asked(q, p) => op[q].got[p] <= versions'
    BY <1>0, <2>1, <2>2 DEF Fresh
  <2> QED BY <2>1, <2>4, <2>5 DEF Fresh
\* A version that has just been written is nowhere else yet.
<1>3. ASSUME NEW p \in Path, NEW v \in Version, v = 0 \/ Past(p, v), Known(p, v)'
      PROVE  Known(p, v) /\ disk'[p] = disk[p]
  <2>1. Fresh(p) /\ disk'[p] # 0 /\ disk'[p] \in Version
    BY <1>3, Typed DEF SeenInv, Known, IInv, DataTypes, Files
  <2>2. disk'[p] \in {v, spaceSnapshot[p], stored[p]} \/ \E q \in Op : op[q].save[p] = disk'[p]
    BY <1>3 DEF Known
  <2>3. Past(p, disk'[p])
    BY <1>3, <2>1, <2>2 DEF Past
  <2>4. disk'[p] <= versions
    BY <2>1, <2>3 DEF Fresh
  <2>5. disk'[p] = disk[p]
    BY <1>0, <2>1, <2>4
  <2> QED BY <2>1, <2>2, <2>5 DEF Known
<1>4. ASSUME NEW p \in Path, Done(p), disk'[p] = disk[p], disk[p] # 0 PROVE Done(p)'
  <2>1. Handed(p) => Handed(p)'
    OBVIOUS
  <2> QED BY <1>4, <2>1 DEF Done, Indexed, Indexing, Announcing
<1>5. \A p \in Path : Compared(p)'
  BY <1>0, <1>3, <1>4 DEF SeenInv, Compared, Known
<1>6. \A p \in Path : Latest(p)'
  <2> SUFFICES ASSUME NEW p \in Path, op[Indexer].path = p, disk'[p] # 0, <<0, disk'[p]>> \in index[p]
               PROVE  op[Indexer].got[p] \in {0, disk'[p]}
    BY DEF Latest
  <2>1. Fresh(p) /\ Latest(p) /\ disk'[p] \in Version
    BY DEF SeenInv, IInv, DataTypes, Files
  <2>2. Past(p, disk'[p])
    BY DEF Past
  <2>3. disk'[p] <= versions
    BY <2>1, <2>2 DEF Fresh
  <2>4. disk'[p] = disk[p]
    BY <1>0, <2>1, <2>3
  <2> QED BY <2>1, <2>4 DEF Latest
<1>7. \A o \in Op : Cached(o)'
  <2> SUFFICES ASSUME NEW o \in Op, op[o].pc = "cache", NEW p, p = op[o].path, NEW v, v = op[o].got[p],
                      Known(p, v)'
               PROVE  Done(p)'
    BY DEF Cached
  <2>1. p \in Path /\ v \in Version
    BY <1>0, Typed DEF Shape, SeenInv, Fitting, Fits
  <2>2. Past(p, v)
    BY DEF Past, Asked
  <2>3. Known(p, v) /\ disk'[p] = disk[p]
    BY <1>3, <2>1, <2>2
  <2> QED BY <1>4, <2>1, <2>3 DEF SeenInv, Cached, Known
<1>8. \A d \in Op, p \in Path : Overtaken(d, p)'
  <2> SUFFICES ASSUME NEW d \in Op, NEW p \in Path, Clearing(d, p), spaceSnapshot[p] # 0, Known(p, 0)'
               PROVE  \E l \in Op : l # d /\ op[l].kind = "list" /\ Announcing(l, p)' /\ Later(d, l)'
    BY DEF Overtaken, Clearing
  <2>1. Known(p, 0)
    BY <1>0, <1>3
  <2>2. PICK l \in Op : l # d /\ op[l].kind = "list" /\ Announcing(l, p) /\ Later(d, l)
    BY <2>1 DEF SeenInv, Overtaken
  <2> QED BY <2>2 DEF Announcing, Later, Before
<1>9. \A d, o \in Op : Apart(d, o)'
  <2> SUFFICES ASSUME NEW d \in Op, NEW o \in Op, Deleting(d), Triggering(o), op[d].path = op[o].path,
                      NEW p, p = op[o].path, NEW v, v = op[o].got[p], Known(p, v)'
               PROVE  FALSE
    BY DEF Apart, Deleting, Triggering
  <2>1. p \in Path /\ v \in Version
    BY <1>0, Typed DEF Shape, Triggering
  <2>2. Past(p, v)
    BY DEF Past, Asked, Triggering
  <2>3. Known(p, v)
    BY <1>3, <2>1, <2>2
  <2> QED BY <2>3 DEF SeenInv, Apart
<1> QED BY <1>1, <1>2, <1>5, <1>6, <1>7, <1>8, <1>9 DEF SeenInv

\* A snapshot that is not ahead knows nothing that is not done.
LEMMA ReopenKeeps ==
  ASSUME "tear" \notin Troubles, SeenInv, IInv', Reopen
  PROVE  SeenInv'
<1>0. /\ IInv /\ Version \subseteq Nat /\ 0 \in Version /\ \A p \in Path : NoFiles[p] = 0 /\ p # None
      /\ \A q \in Path : ~Ahead(q)
  BY Typed, EventedConstants DEF SeenInv, NoFiles, Reopen
<1>1. /\ spaceSnapshot' = stored /\ kv' = << >> /\ UNCHANGED <<space, stored, index>>
      /\ Requeue
      /\ \A o \in Op : op'[o] = Idle
  BY DEF Reopen
<1>2. /\ Idle.kind = "none" /\ Idle.pc = "idle" /\ Idle.path = None /\ Idle.event = "none"
      /\ Idle.got = NoFiles /\ Idle.save = NoFiles
  BY DEF Idle
<1>3. Fitting' /\ InLine' /\ Gone'
  <2>1. Fitting'
    BY <1>1, <1>2 DEF Fitting, Fits
  <2>2. InLine'
    BY <1>1, <1>2 DEF InLine, Waiting
  <2>3. Gone'
    BY <1>1, <1>2 DEF Gone
  <2> QED BY <2>1, <2>2, <2>3
<1>4. \A p \in Path : Fresh(p)'
  <2> SUFFICES ASSUME NEW p \in Path PROVE Fresh(p)'
    OBVIOUS
  <2>1. \A q \in Op : ~Asked(q, p)'
    BY <1>1, <1>2 DEF Asked
  <2>2. \A v \in Version : v # 0 /\ Past(p, v)' => Past(p, v)
    <3>1. ASSUME NEW v \in Version, v # 0, v \in {disk'[p], spaceSnapshot'[p], stored'[p]} PROVE Past(p, v)
      BY <1>1, <3>1 DEF Past, space
    <3>2. ASSUME NEW v \in Version, NEW e \in index'[p], v = e[2] PROVE Past(p, v)
      BY <1>1, <3>2 DEF Past
    <3>3. \A q \in Op : op'[q].got[p] = 0 /\ op'[q].save[p] = 0
      BY <1>0, <1>1, <1>2
    <3> QED BY <3>1, <3>2, <3>3 DEF Past
  <2> QED BY <1>0, <1>1, <2>1, <2>2, FreshStays DEF SeenInv, space
<1>5. ASSUME NEW p \in Path, Known(p, 0)' PROVE Done(p)'
  <2>1. disk[p] = stored[p] /\ disk[p] # 0 /\ disk' = disk
    <3>1. \A q \in Op : op'[q].save[p] = 0
      BY <1>0, <1>1, <1>2
    <3> QED BY <1>1, <1>5, <3>1 DEF Known, space
  <2>2. spaceSnapshot[p] # 0 /\ \A o \in Op : ~(op[o].event # "none" /\ op[o].path = p)
    BY <1>0, <2>1 DEF Ahead
  <2>3. Done(p)
    BY <2>1, <2>2 DEF SeenInv, Compared, Known
  <2>4. ~\E o \in Op : Announcing(o, p)
    BY <2>2 DEF Announcing
  <2>6. CASE Indexed(p)
    BY <1>1, <2>1, <2>6 DEF Indexed, Done
  <2>7. CASE Handed(p)
    BY <1>1, <2>7, RequeueHands DEF Done
  <2>8. CASE Indexing(p)
    <3>1. op[Indexer].path = p
      BY <2>8 DEF Indexing
    <3>2. Handed(p)'
      BY <1>1, <3>1, RequeueHands
    <3> QED BY <3>2 DEF Done
  <2> QED BY <2>3, <2>4, <2>6, <2>7, <2>8 DEF Done
<1>6. \A p \in Path : Compared(p)' /\ Latest(p)'
  <2>1. \A p \in Path : Compared(p)'
    BY <1>5 DEF Compared
  <2>2. \A p \in Path : Latest(p)'
    <3>1. op'[Indexer].path = None
      BY <1>1, <1>2 DEF Op
    <3> QED BY <1>0, <3>1 DEF Latest
  <2> QED BY <2>1, <2>2
<1>7. \A o \in Op : Cached(o)'
  BY <1>1, <1>2 DEF Cached
<1>8. \A d \in Op, p \in Path : Overtaken(d, p)'
  BY <1>1, <1>2 DEF Overtaken, Clearing
<1>9. \A d, o \in Op : Apart(d, o)'
  BY <1>1, <1>2 DEF Apart, Deleting
<1> QED BY <1>3, <1>4, <1>6, <1>7, <1>8, <1>9 DEF SeenInv

LEMMA SeenKept ==
  ASSUME "tear" \notin Troubles, SeenInv, [Next]_vars
  PROVE  SeenInv'
<1>0. IInv /\ Fitting /\ IInv'
  BY Kept DEF SeenInv
<1>1. CASE StartList
  BY <1>0, <1>1, CallTurns, TurnKeeps DEF Op
<1>2. CASE \E o \in Caller, p \in Path : \E kind \in {"read", "write", "delete"} :
             StartCall(o, kind, p)
  BY <1>0, <1>2, CallTurns, TurnKeeps DEF Op
<1>3. CASE \E m \in Message : Poll(m) \/ TakeMessage(m)
  BY <1>0, <1>3, CallTurns, TurnKeeps DEF Op
<1>4. ASSUME NEW p \in Path, OthersWrite(p) \/ OthersDelete(p) PROVE SeenInv'
  <2>0. versions \in Nat /\ disk \in Files
    BY <1>0, Typed DEF IInv, DataTypes
  <2>1. UNCHANGED <<op, kv, spaceSnapshot, stored, index, queue>>
    BY <1>4 DEF OthersWrite, OthersDelete, snapshot
  <2>2. versions' \in Nat /\ versions <= versions'
    BY <1>4, <2>0 DEF OthersWrite, OthersDelete
  <2>3. \A q \in Path : disk'[q] \in {0, disk[q]} \/ (disk'[q] = versions' /\ versions < versions')
    <3>1. CASE OthersWrite(p)
      BY <2>0, <3>1 DEF OthersWrite, Files
    <3>2. CASE OthersDelete(p)
      BY <2>0, <3>2 DEF OthersDelete, Files
    <3> QED BY <1>4, <3>1, <3>2
  <2>4. \A q \in Path : Handed(q) => Handed(q)'
    BY <2>1, QueueStays
  <2> QED BY <1>0, <2>1, <2>2, <2>3, <2>4, OutsideKeeps
<1>5. ASSUME NEW o \in Op, Step(o) \/ Store(o) PROVE SeenInv'
  BY <1>0, <1>5, StepTurns, StoreTurns, TurnKeeps
<1>6. CASE Parsed \/ IndexObjects
  BY <1>0, <1>6, IndexerTurns, TurnKeeps DEF Op
<1>7. CASE Reopen
  BY <1>0, <1>7, ReopenKeeps
<1>8. CASE UNCHANGED vars
  <2>1. UNCHANGED <<op, kv, spaceSnapshot, stored, index, versions, disk, queue>>
    BY <1>8 DEF vars, space, snapshot
  <2>2. versions \in Nat
    BY <1>0, Typed
  <2>3. \A q \in Path : Handed(q) => Handed(q)'
    BY <2>1, QueueStays
  <2> QED BY <1>0, <2>1, <2>2, <2>3, OutsideKeeps
<1>9. CASE Ack
  <2>1. UNCHANGED <<op, kv, spaceSnapshot, stored, index, versions, disk, indexQueue, left, givenUp>>
    BY <1>9 DEF Ack, space, snapshot
  <2>2. versions \in Nat
    BY <1>0, Typed
  <2>3. \A q \in Path : Handed(q) => Handed(q)'
    BY <2>1 DEF Handed, Due, Pages
  <2> QED BY <1>0, <2>1, <2>2, <2>3, OutsideKeeps
<1> QED BY <1>1, <1>2, <1>3, <1>4, <1>5, <1>6, <1>7, <1>8, <1>9 DEF Next, Work

LEMMA SeenStarts == Init => SeenInv
<1> SUFFICES ASSUME Init PROVE SeenInv
  OBVIOUS
<1>1. IInv /\ 0 \in Version /\ \A p \in Path : NoFiles[p] = 0 /\ p # None
  BY Starts, EventedConstants DEF NoFiles, Version
<1>2. \A o \in Op : /\ op[o].kind = "none" /\ op[o].pc = "idle" /\ op[o].path = None
                    /\ op[o].event = "none" /\ op[o].got = NoFiles /\ op[o].save = NoFiles
  BY DEF Init, Idle
<1>3. /\ kv = << >> /\ \A p \in Path : /\ disk[p] = 0 /\ spaceSnapshot[p] = 0 /\ stored[p] = 0
                                       /\ index[p] = {}
  BY <1>1 DEF Init
<1>4. Fitting /\ Gone
  BY <1>2 DEF Fitting, Fits, Gone
<1>5. InLine
  BY <1>2, <1>3 DEF InLine, Waiting
<1>6. \A p \in Path : Fresh(p)
  BY <1>1, <1>2, <1>3 DEF Fresh, Past, Asked
<1>7. \A p \in Path : Compared(p) /\ Latest(p)
  BY <1>3 DEF Compared, Latest
<1>8. \A o \in Op : Cached(o)
  BY <1>2 DEF Cached
<1>9. \A d \in Op, p \in Path : Overtaken(d, p)
  BY <1>2 DEF Overtaken, Clearing
<1>10. \A d, o \in Op : Apart(d, o)
  BY <1>2 DEF Apart, Deleting
<1> QED BY <1>1, <1>4, <1>5, <1>6, <1>7, <1>8, <1>9, <1>10 DEF SeenInv

\* No version that was compared stays out of the index, whatever is in flight,
\* fails or is cut off, as long as no window is closed while the stored snapshot
\* is ahead.
THEOREM SeenSafe ==
  ASSUME "tear" \notin Troubles
  PROVE  Spec => []SeenIsIndexed
<1>1. SeenInv => SeenIsIndexed
  <2> SUFFICES ASSUME SeenInv, NEW p \in Path, disk[p] # 0, spaceSnapshot[p] = disk[p] PROVE Done(p)
    BY DEF SeenIsIndexed, Done, Handed
  <2>1. Known(p, 0)
    BY DEF Known
  <2> QED BY <2>1 DEF SeenInv, Compared
<1>2. SeenInv /\ [Next]_vars => SeenInv'
  BY SeenKept
<1> QED BY <1>1, <1>2, SeenStarts, PTL DEF Spec
=============================================================================
