------------------------ MODULE ServiceWorker_proofs ------------------------
(* Theorems about ServiceWorker, for any number of files and engines, and any *)
(* number of changes and troubles.                                           *)
EXTENDS ServiceWorker, TLAPS

-----------------------------------------------------------------------------
(* Types. *)

State == {"none", "loading", "hung", "running", "stopped"}
EngineState == [state : State, snap : Snapshot, pc : {"idle", "cycle", "file"},
                todo : SUBSET Path, here : Files, there : Files]

StoreTypes ==
  /\ server \in Files /\ local \in Files /\ acked \in Files /\ saved \in Snapshot
  /\ complete \subseteq Path /\ overrun \subseteq Path
FlagTypes ==
  /\ reachable \in BOOLEAN /\ confirmed \in BOOLEAN /\ online \in BOOLEAN
  /\ configuring \in BOOLEAN /\ cycled \in BOOLEAN
EngineTypes ==
  /\ engine \in [Engine -> EngineState]
  /\ plugged # None => plugged \in Engine /\ engine[plugged].state \in {"running", "stopped"}
RequestTypes ==
  /\ request \in [kind : {"none", "put", "delete"}, path : Path \cup {None}, ver : Version,
                  via : {"none", "server", "first", "router", "proxy", "sync"}]
  /\ request.via # "none" => request.path \in Path
CountTypes == clock \in Version /\ troubles \in 0..MaxTroubles

Types == StoreTypes /\ FlagTypes /\ EngineTypes /\ RequestTypes /\ CountTypes

LEMMA Zero == 0 \in Version /\ 1 \in Version
BY WorkerConstants DEF Version

LEMMA SnapshotIs ==
  ASSUME NEW f \in Files, NEW m \in SUBSET Path
  PROVE  [files |-> f, marks |-> m] \in Snapshot
BY DEF Snapshot, Files

LEMMA SnapshotHas ==
  ASSUME NEW s \in Snapshot
  PROVE  s.files \in Files /\ s.marks \in SUBSET Path
BY DEF Snapshot, Files

\* What sync makes of a file.
LEMMA SettledType ==
  ASSUME NEW f \in [l : Version, r : Version, s : Version, marked : BOOLEAN, back : BOOLEAN],
         NEW here \in Version, NEW there \in Version
  PROVE  LET to == Settled(f, here, there) IN
         /\ to.l \in Version /\ to.r \in Version /\ to.s \in Version /\ to.marked \in BOOLEAN
<1> DEFINE do == Decision(f)
<1> HIDE DEF do
<1> QED BY Zero DEF Settled, do

\* The updates of one engine.
LEMMA EngineUpdates ==
  ASSUME NEW r \in EngineState
  PROVE  /\ \A s \in State : [r EXCEPT !.state = s] \in EngineState
         /\ \A s \in Snapshot : [r EXCEPT !.snap = s] \in EngineState
         /\ \A s \in SUBSET Path : [r EXCEPT !.todo = s] \in EngineState
         /\ \A c \in {"idle", "cycle", "file"} : [r EXCEPT !.pc = c] \in EngineState
BY DEF EngineState

\* What sync has listed of a file, what it makes of the snapshot, and what is left to do.
LEMMA ListedType ==
  ASSUME EngineTypes, NEW e \in Engine, NEW p \in Path, NEW l \in Version, NEW r \in Version,
         NEW back \in BOOLEAN
  PROVE  Listed(e, p, l, r, back) \in
           [l : Version, r : Version, s : Version, marked : BOOLEAN, back : BOOLEAN]
<1>1. engine[e].snap \in Snapshot
  BY DEF EngineTypes, EngineState
<1>2. engine[e].snap.files[p] \in Version
  BY <1>1, SnapshotHas DEF Files
<1> QED BY <1>2 DEF Listed

LEMMA NotedType ==
  ASSUME NEW snap \in Snapshot, NEW p \in Path, NEW to, to.s \in Version
  PROVE  Noted(snap, p, to) \in Snapshot
<1>1. snap.files \in Files /\ snap.marks \in SUBSET Path
  BY SnapshotHas
<1>2. [snap.files EXCEPT ![p] = to.s] \in Files
  BY <1>1 DEF Files
<1>3. (IF to.marked THEN snap.marks \cup {p} ELSE snap.marks \ {p}) \in SUBSET Path
  BY <1>1
<1> QED BY <1>2, <1>3, SnapshotIs DEF Noted

LEMMA BeyondType ==
  ASSUME NEW r \in EngineState, NEW p \in Path, NEW snap \in Snapshot
  PROVE  Beyond(r, p, snap) \in EngineState /\ Beyond(r, p, snap).state = r.state
BY Zero DEF Beyond, EngineState, Files

\* What a step of sync leaves behind.
SyncLeaves ==
  /\ local' \in Files /\ server' \in Files /\ saved' \in Snapshot /\ overrun' \subseteq Path
  /\ engine' \in [Engine -> EngineState]
  /\ \A f \in Engine : engine'[f].state = engine[f].state

LEMMA SyncTypes ==
  ASSUME StoreTypes, EngineTypes, NEW e \in Engine, NEW p \in Path,
         NEW l \in Version, NEW r \in Version, NEW back \in BOOLEAN,
         SyncPath(e, p, Listed(e, p, l, r, back))
  PROVE  SyncLeaves
<1> DEFINE f    == Listed(e, p, l, r, back)
           snap == engine[e].snap
           to   == Settled(f, local[p], server[p])
           new  == Noted(snap, p, to)
<1>1. engine[e] \in EngineState /\ engine \in [Engine -> EngineState]
  BY DEF EngineTypes
<1>2. snap \in Snapshot
  BY <1>1 DEF EngineState
<1>3. f \in [l : Version, r : Version, s : Version, marked : BOOLEAN, back : BOOLEAN]
  BY ListedType
<1>4. local[p] \in Version /\ server[p] \in Version
  BY DEF StoreTypes, Files
<1> HIDE DEF f
<1>5. to.l \in Version /\ to.r \in Version /\ to.s \in Version
  BY <1>3, <1>4, SettledType
<1> HIDE DEF to
<1>6. /\ local' = [local EXCEPT ![p] = to.l] /\ server' = [server EXCEPT ![p] = to.r]
      /\ engine' = [engine EXCEPT ![e] = Beyond(engine[e], p, new)]
      /\ saved' = new \/ saved' = saved
      /\ overrun' = overrun \/ overrun' = overrun \cup {p}
  BY DEF SyncPath, f, to
<1>7. new \in Snapshot
  BY <1>2, <1>5, NotedType
<1> HIDE DEF new
<1>8. local' \in Files /\ server' \in Files /\ saved' \in Snapshot /\ overrun' \subseteq Path
  BY <1>5, <1>6, <1>7 DEF StoreTypes, Files
<1>9. /\ engine' \in [Engine -> EngineState]
      /\ \A g \in Engine : engine'[g].state = engine[g].state
  BY <1>1, <1>6, <1>7, BeyondType
<1> QED BY <1>8, <1>9 DEF SyncLeaves

\* The steps that sync a file, and what one that gives up leaves.
LEMMA NextTypes ==
  ASSUME StoreTypes, EngineTypes, NEW e \in Engine, NEW p \in Path, SyncNext(e, p)
  PROVE  SyncLeaves
<1>1. engine[e] \in EngineState
  BY DEF EngineTypes
<1>2. engine[e].here[p] \in Version /\ engine[e].there[p] \in Version
  BY <1>1 DEF EngineState, Files
<1>3. \E back \in BOOLEAN :
        SyncPath(e, p, Listed(e, p, engine[e].here[p], engine[e].there[p], back))
  BY DEF SyncNext, OnList
<1> QED BY <1>2, <1>3, SyncTypes

LEMMA StoredTypes ==
  ASSUME Types, Stored, plugged # None
  PROVE  UNCHANGED <<server, local, saved, engine, overrun>> \/ SyncLeaves
<1>1. StoreTypes /\ EngineTypes /\ plugged \in Engine /\ request.path \in Path
  BY DEF Types, EngineTypes, RequestTypes, Stored
<1>2. local[request.path] \in Version /\ server[request.path] \in Version
  BY <1>1 DEF StoreTypes, Files
<1>3. \/ UNCHANGED <<server, local, saved, engine, overrun>>
      \/ SyncPath(plugged, request.path,
            Listed(plugged, request.path, local[request.path], server[request.path], TRUE))
  BY DEF Stored
<1> QED BY <1>1, <1>2, <1>3, SyncTypes

FailLeaves(e) ==
  /\ UNCHANGED <<server, local, acked, complete, overrun, clock, troubles, reachable, confirmed,
                 online, configuring, cycled, plugged, request>>
  /\ saved' \in Snapshot
  /\ \E r \in EngineState : r.state = engine[e].state /\ engine' = [engine EXCEPT ![e] = r]

LEMMA FailTypes ==
  ASSUME Types, NEW e \in Engine, SyncFails(e)
  PROVE  FailLeaves(e)
<1>1. engine[e] \in EngineState /\ saved \in Snapshot /\ engine \in [Engine -> EngineState]
  BY DEF Types, EngineTypes, StoreTypes
<1>2. engine[e].snap \in Snapshot
  BY <1>1 DEF EngineState
<1>3. ASSUME NEW snap \in Snapshot, Throw(e, snap) PROVE FailLeaves(e)
  <2> DEFINE r == [engine[e] EXCEPT !.snap = snap, !.pc = "idle", !.todo = {},
                                    !.here = NoFiles, !.there = NoFiles]
  <2>1. r \in EngineState /\ r.state = engine[e].state
    BY <1>1, Zero DEF EngineState, NoFiles, Files
  <2>2. engine' = [engine EXCEPT ![e] = r]
    BY <1>3 DEF Throw
  <2>3. saved' \in Snapshot
    BY <1>1, <1>3 DEF Throw
  <2> HIDE DEF r
  <2>4. UNCHANGED <<server, local, acked, complete, overrun, clock, troubles, reachable,
                    confirmed, online, configuring, cycled, plugged, request>>
    BY <1>3 DEF Throw, router, history
  <2> QED BY <2>1, <2>2, <2>3, <2>4 DEF FailLeaves
<1>4. ASSUME NEW p \in Path PROVE Noted(engine[e].snap, p, Settled(OnList(e, p), 0, 0)) \in Snapshot
  <2>1. engine[e].here[p] \in Version /\ engine[e].there[p] \in Version
    BY <1>1 DEF EngineState, Files
  <2>2. OnList(e, p) \in [l : Version, r : Version, s : Version, marked : BOOLEAN, back : BOOLEAN]
    BY <2>1, ListedType DEF Types, OnList
  <2>3. Settled(OnList(e, p), 0, 0).s \in Version
    BY <2>2, Zero, SettledType
  <2> QED BY <1>2, <2>3, NotedType
<1>5. \A p \in engine[e].todo : p \in Path
  BY <1>1 DEF EngineState
<1>6. \/ Throw(e, engine[e].snap)
      \/ \E p \in engine[e].todo :
           Throw(e, IF Decision(OnList(e, p)) = "remove"
                    THEN Noted(engine[e].snap, p, Settled(OnList(e, p), 0, 0))
                    ELSE engine[e].snap)
  BY DEF SyncFails
<1> QED BY <1>2, <1>3, <1>4, <1>5, <1>6

LEMMA InitTypes == Init => Types
<1> SUFFICES ASSUME Init PROVE Types
  OBVIOUS
<1>1. Empty \in Snapshot
  BY Zero DEF Empty, Snapshot, NoFiles, Files
<1>2. StoreTypes
  BY Zero, <1>1 DEF Init, StoreTypes, NoFiles, Files
<1>3. Fresh \in EngineState
  BY <1>1, Zero DEF Fresh, EngineState, State, NoFiles, Files
<1>4. EngineTypes
  BY <1>3 DEF Init, EngineTypes
<1>5. RequestTypes
  BY Zero DEF Init, RequestTypes, Nothing
<1>6. CountTypes
  <2>1. MaxTroubles \in Nat
    BY WorkerConstants
  <2>2. MaxTroubles \in 0..MaxTroubles
    BY <2>1
  <2> QED BY Zero, <2>2 DEF Init, CountTypes
<1>7. FlagTypes
  BY DEF Init, FlagTypes
<1> QED BY <1>2, <1>4, <1>5, <1>6, <1>7 DEF Types

LEMMA StoreTypesStep ==
  ASSUME Types, [Next]_vars
  PROVE  StoreTypes'
<1> USE DEF StoreTypes, router, history
<1>0. /\ StoreTypes /\ RequestTypes /\ EngineTypes /\ clock \in Version /\ 0 \in Version
  BY Zero DEF Types, CountTypes
<1>1. ASSUME NEW e \in Engine, Configure(e) \/ Plug(e) \/ Hang(e) \/ StartCycle(e) PROVE StoreTypes'
  BY <1>0, <1>1 DEF Configure, Plug, Hang, StartCycle
<1>2. ASSUME NEW e \in Engine, NEW p \in Path, StartFile(e, p) \/ SyncNext(e, p) PROVE StoreTypes'
  <2>1. CASE StartFile(e, p)
    BY <1>0, <2>1 DEF StartFile
  <2>2. CASE SyncNext(e, p)
    <3>1. UNCHANGED <<acked, complete>>
      BY <2>2 DEF SyncNext
    <3>2. SyncLeaves
      BY <1>0, <2>2, NextTypes
    <3> QED BY <1>0, <3>1, <3>2 DEF SyncLeaves
  <2> QED BY <1>2, <2>1, <2>2
<1>3. ASSUME NEW e \in Engine, SyncFails(e) \/ CycleEnds(e) PROVE StoreTypes'
  <2>1. CASE SyncFails(e)
    BY <1>0, <2>1, FailTypes DEF FailLeaves
  <2>2. CASE CycleEnds(e)
    <3>1. engine[e].snap \in Snapshot
      BY <1>0 DEF EngineTypes, EngineState
    <3> QED BY <1>0, <2>2, <3>1 DEF CycleEnds
  <2> QED BY <1>3, <2>1, <2>2
<1>4. ASSUME NEW kind \in {"put", "delete"}, NEW p \in Path, Ask(kind, p) PROVE StoreTypes'
  BY <1>0, <1>4 DEF Ask, Files
<1>5. ASSUME NEW f \in Files, NEW p \in Path, NEW kind, NEW v \in Version
      PROVE  Effect(f, p, kind, v) \in Files
  BY <1>0, <1>5 DEF Effect, Files
<1>6. ASSUME request.path \in Path, Acknowledge PROVE acked' \in Files /\ complete' \subseteq Path
  BY <1>0, <1>6 DEF Acknowledge, Files, RequestTypes
<1>7. CASE Served
  <2>1. request.path \in Path /\ request.ver \in Version
    BY <1>0, <1>7 DEF Served, RequestTypes
  <2>2. /\ server' = Effect(server, request.path, request.kind, request.ver)
        /\ Acknowledge \/ UNCHANGED <<acked, complete>>
        /\ UNCHANGED <<local, saved, overrun>>
    BY <1>7 DEF Served
  <2> QED BY <1>0, <1>5, <1>6, <2>1, <2>2
<1>8. CASE Unserved \/ Pass \/ Dropped
  BY <1>0, <1>8 DEF Unserved, Pass, Dropped
<1>9. CASE Store
  <2>1. request.path \in Path /\ request.ver \in Version
    BY <1>0, <1>9 DEF Store, RequestTypes
  <2>2. /\ local' = Effect(local, request.path, request.kind, request.ver)
        /\ Acknowledge \/ UNCHANGED <<acked, complete>>
        /\ UNCHANGED <<server, saved>> /\ overrun' \subseteq overrun
    BY <1>9 DEF Store
  <2> QED BY <1>0, <1>5, <1>6, <2>1, <2>2
<1>10. CASE Stored
  <2>1. request.path \in Path
    BY <1>0, <1>10 DEF Stored, RequestTypes
  <2>2. Acknowledge
    BY <1>10 DEF Stored
  <2>3. UNCHANGED <<server, local, saved, overrun>> \/ SyncLeaves
    <3>1. CASE plugged = None
      BY <1>10, <3>1 DEF Stored
    <3>2. CASE plugged # None
      BY <1>10, <3>2, StoredTypes
    <3> QED BY <3>1, <3>2
  <2>4. /\ local' \in Files /\ server' \in Files /\ saved' \in Snapshot
        /\ overrun' \subseteq Path
    BY <1>0, <2>3 DEF SyncLeaves
  <2> QED BY <1>6, <2>1, <2>2, <2>4
<1>11. CASE Unlock \/ Ping \/ Reset \/ Restart \/ Network
  BY <1>0, <1>11 DEF Unlock, Ping, Reset, Restart, Network
<1>12. CASE Wipe
  <2>1. Empty \in Snapshot
    BY <1>0 DEF Empty, Snapshot, NoFiles, Files
  <2> QED BY <1>0, <1>12, <2>1 DEF Wipe, NoFiles, Files
<1>13. ASSUME NEW p \in Path, OthersWrite(p) PROVE StoreTypes'
  <2>1. clock' \in Version
    BY <1>0, <1>13, WorkerConstants DEF OthersWrite, Version
  <2> QED BY <1>0, <1>13, <2>1 DEF OthersWrite, Files
<1>14. CASE UNCHANGED vars
  BY <1>0, <1>14 DEF vars
<1> QED
  BY <1>1, <1>2, <1>3, <1>4, <1>7, <1>8, <1>9, <1>10, <1>11, <1>12, <1>13, <1>14
  DEF Next, EngineStep, Handle

LEMMA FlagTypesStep ==
  ASSUME Types, [Next]_vars
  PROVE  FlagTypes'
<1> USE DEF FlagTypes, router, history
<1>0. FlagTypes
  BY DEF Types
<1>1. ASSUME NEW e \in Engine, Configure(e) \/ Plug(e) \/ Hang(e) \/ StartCycle(e) PROVE FlagTypes'
  BY <1>0, <1>1 DEF Configure, Plug, Hang, StartCycle
<1>2. ASSUME NEW e \in Engine, SyncFails(e) \/ CycleEnds(e) PROVE FlagTypes'
  BY <1>0, <1>2, FailTypes DEF FailLeaves, CycleEnds
<1>3. ASSUME NEW e \in Engine, NEW p \in Path, StartFile(e, p) \/ SyncNext(e, p) PROVE FlagTypes'
  BY <1>0, <1>3 DEF StartFile, SyncNext
<1>4. ASSUME NEW kind \in {"put", "delete"}, NEW p \in Path, Ask(kind, p) PROVE FlagTypes'
  BY <1>0, <1>4 DEF Ask
<1>5. CASE Handle
  BY <1>0, <1>5 DEF Handle, Served, Unserved, Pass, Store, Stored, Dropped
<1>6. CASE Unlock \/ Ping \/ Reset \/ Wipe \/ Restart \/ Network
  BY <1>0, <1>6 DEF Unlock, Ping, Reset, Wipe, Restart, Network
<1>7. ASSUME NEW p \in Path, OthersWrite(p) PROVE FlagTypes'
  BY <1>0, <1>7 DEF OthersWrite
<1>8. CASE UNCHANGED vars
  BY <1>0, <1>8 DEF vars
<1> QED BY <1>1, <1>2, <1>3, <1>4, <1>5, <1>6, <1>7, <1>8 DEF Next, EngineStep

LEMMA CountTypesStep ==
  ASSUME Types, [Next]_vars
  PROVE  CountTypes'
<1> USE DEF CountTypes, router, history
<1>0. CountTypes /\ MaxChanges \in Nat /\ MaxTroubles \in Nat
  BY WorkerConstants DEF Types
<1>1. ASSUME clock' = clock, troubles' = troubles \/ Suffer PROVE CountTypes'
  BY <1>0, <1>1 DEF Suffer
<1>2. ASSUME NEW e \in Engine, Configure(e) \/ Plug(e) \/ Hang(e) \/ StartCycle(e)
      PROVE  clock' = clock /\ (troubles' = troubles \/ Suffer)
  BY <1>2 DEF Configure, Plug, Hang, StartCycle
<1>3. ASSUME NEW e \in Engine, SyncFails(e) \/ CycleEnds(e)
      PROVE  clock' = clock /\ (troubles' = troubles \/ Suffer)
  BY <1>3, FailTypes DEF FailLeaves, CycleEnds
<1>4. ASSUME NEW e \in Engine, NEW p \in Path, StartFile(e, p) \/ SyncNext(e, p)
      PROVE  clock' = clock /\ (troubles' = troubles \/ Suffer)
  BY <1>4 DEF StartFile, SyncNext
<1>5. CASE Handle
  <2>1. clock' = clock /\ troubles' = troubles
    BY <1>5 DEF Handle, Served, Unserved, Pass, Store, Stored, Dropped
  <2> QED BY <1>1, <2>1
<1>6. CASE Unlock \/ Ping \/ Reset \/ Wipe \/ Restart \/ Network
  <2>1. clock' = clock /\ (troubles' = troubles \/ Suffer)
    BY <1>6 DEF Unlock, Ping, Reset, Wipe, Restart, Network
  <2> QED BY <1>1, <2>1
<1>7. ASSUME clock < MaxChanges + 1, clock' = clock + 1, troubles' = troubles PROVE CountTypes'
  BY <1>0, <1>7 DEF Version
<1>8. ASSUME NEW kind \in {"put", "delete"}, NEW p \in Path, Ask(kind, p) PROVE CountTypes'
  BY <1>7, <1>8 DEF Ask
<1>9. ASSUME NEW p \in Path, OthersWrite(p) PROVE CountTypes'
  BY <1>7, <1>9 DEF OthersWrite
<1>10. CASE UNCHANGED vars
  BY <1>0, <1>10 DEF vars
<1> QED
  BY <1>1, <1>2, <1>3, <1>4, <1>5, <1>6, <1>8, <1>9, <1>10 DEF Next, EngineStep

LEMMA RequestTypesStep ==
  ASSUME Types, [Next]_vars
  PROVE  RequestTypes'
<1> USE DEF RequestTypes, router, history
<1>0. RequestTypes /\ clock \in Version /\ 0 \in Version
  BY Zero DEF Types, CountTypes
<1>1. ASSUME request' = request PROVE RequestTypes'
  BY <1>0, <1>1
<1>2. ASSUME Done PROVE RequestTypes'
  BY <1>0, <1>2 DEF Done, Nothing
<1>3. ASSUME NEW via \in {"router", "proxy", "sync"}, request.via # "none",
             request' = [request EXCEPT !.via = via]
      PROVE  RequestTypes'
  BY <1>0, <1>3
<1>4. ASSUME NEW e \in Engine, Configure(e) \/ Plug(e) \/ Hang(e) \/ EngineStep(e)
      PROVE  request' = request
  BY <1>4, FailTypes
  DEF Configure, Plug, Hang, EngineStep, StartCycle, FailLeaves, CycleEnds, SyncNext
<1>5. ASSUME NEW e \in Engine, NEW p \in Path, StartFile(e, p) PROVE request' = request
  BY <1>5 DEF StartFile
<1>6. ASSUME NEW kind \in {"put", "delete"}, NEW p \in Path, Ask(kind, p) PROVE RequestTypes'
  <2>1. clock' \in Version
    BY CountTypesStep DEF CountTypes
  <2>2. /\ request' = [kind |-> kind, path |-> p, ver |-> clock', via |-> Route]
        /\ Route \in {"server", "first", "router"}
    BY <1>6 DEF Ask, Route
  <2> HIDE DEF Route
  <2> QED BY <2>1, <2>2
<1>7. CASE Served \/ Stored \/ Dropped
  BY <1>2, <1>7 DEF Served, Stored, Dropped
<1>8. CASE Unserved
  BY <1>2, <1>3, <1>8 DEF Unserved, Done
<1>9. CASE Pass
  BY <1>3, <1>9 DEF Pass
<1>10. CASE Store
  BY <1>2, <1>3, <1>10 DEF Store
<1>11. CASE Restart
  BY <1>2, <1>11 DEF Restart, Done
<1>12. CASE Unlock \/ Ping \/ Reset \/ Wipe \/ Network
  BY <1>1, <1>12 DEF Unlock, Ping, Reset, Wipe, Network
<1>13. ASSUME NEW p \in Path, OthersWrite(p) PROVE request' = request
  BY <1>13 DEF OthersWrite
<1>14. CASE UNCHANGED vars
  BY <1>1, <1>14 DEF vars
<1> QED
  BY <1>1, <1>4, <1>5, <1>6, <1>7, <1>8, <1>9, <1>10, <1>11, <1>12, <1>13, <1>14 DEF Next, Handle

\* A step that leaves the router's engine where it is keeps the state of every engine.
LEMMA EngineTypesStep ==
  ASSUME Types, [Next]_vars
  PROVE  EngineTypes'
<1> USE DEF router, history
<1>0. /\ EngineTypes /\ engine \in [Engine -> EngineState] /\ None \notin Engine
      /\ \A e \in Engine : engine[e] \in EngineState
  BY WorkerConstants DEF Types, EngineTypes
<1>1. ASSUME engine' = engine, plugged' \in {plugged, None} PROVE EngineTypes'
  BY <1>0, <1>1 DEF EngineTypes
<1>2. ASSUME NEW e \in Engine, NEW r \in EngineState, engine' = [engine EXCEPT ![e] = r],
             r.state = engine[e].state, plugged' = plugged
      PROVE  EngineTypes'
  BY <1>0, <1>2 DEF EngineTypes
<1>3. ASSUME NEW e \in Engine, Configure(e) \/ Hang(e) PROVE EngineTypes'
  <2>1. PICK s \in {"loading", "hung"} : engine' = [engine EXCEPT ![e].state = s]
    BY <1>3 DEF Configure, Hang
  <2>2. [engine[e] EXCEPT !.state = s] \in EngineState
    BY <1>0, EngineUpdates DEF State
  <2>3. engine' = [engine EXCEPT ![e] = [engine[e] EXCEPT !.state = s]]
    BY <2>1
  <2>4. plugged' = plugged /\ (plugged # None => engine[e].state \notin {"running", "stopped"})
    BY <1>3 DEF Configure, Hang
  <2> DEFINE r == [engine[e] EXCEPT !.state = s]
  <2> HIDE DEF r
  <2>5. plugged # None => plugged # e
    BY <1>0, <2>4 DEF EngineTypes
  <2>6. engine' \in [Engine -> EngineState]
    BY <1>0, <2>2, <2>3
  <2>7. \A f \in Engine : f # e => engine'[f] = engine[f]
    BY <1>0, <2>3
  <2> QED BY <1>0, <2>4, <2>5, <2>6, <2>7 DEF EngineTypes
<1>4. ASSUME NEW e \in Engine, Plug(e) PROVE EngineTypes'
  <2>1. saved \in Snapshot
    BY DEF Types, StoreTypes
  <2>2. /\ engine' = [engine EXCEPT ![e].state = "running", ![e].snap = saved]
        /\ plugged' = e
    BY <1>4 DEF Plug
  <2>3. engine' \in [Engine -> EngineState] /\ engine'[e].state = "running"
    BY <1>0, <2>1, <2>2 DEF EngineState, State
  <2> QED BY <2>2, <2>3 DEF EngineTypes
<1>5. ASSUME NEW e \in Engine, StartCycle(e) PROVE EngineTypes'
  <2> DEFINE s == {p \in Path : server[p] # 0 \/ local[p] # 0 \/ engine[e].snap.files[p] # 0}
  <2>1. /\ plugged' = plugged
        /\ engine' = [engine EXCEPT ![e].pc = "cycle", ![e].todo = s,
                                    ![e].here = local, ![e].there = server]
    BY <1>5 DEF StartCycle
  <2>2. s \in SUBSET Path /\ local \in Files /\ server \in Files
    BY DEF Types, StoreTypes
  <2> HIDE DEF s
  <2> DEFINE r == [engine[e] EXCEPT !.pc = "cycle", !.todo = s, !.here = local, !.there = server]
  <2>3. r \in EngineState /\ r.state = engine[e].state
    BY <1>0, <2>2 DEF EngineState
  <2>4. engine' = [engine EXCEPT ![e] = r]
    BY <2>1
  <2> HIDE DEF r
  <2> QED BY <1>2, <2>1, <2>3, <2>4
<1>6. ASSUME NEW e \in Engine, SyncFails(e) \/ CycleEnds(e) PROVE EngineTypes'
  <2>1. CASE SyncFails(e)
    <3>1. FailLeaves(e)
      BY <2>1, FailTypes
    <3>2. PICK r \in EngineState : r.state = engine[e].state /\ engine' = [engine EXCEPT ![e] = r]
      BY <3>1 DEF FailLeaves
    <3>3. plugged' = plugged
      BY <3>1 DEF FailLeaves
    <3> QED BY <1>2, <3>2, <3>3
  <2>2. CASE CycleEnds(e)
    <3>1. plugged' = plugged /\ engine' = [engine EXCEPT ![e] = [engine[e] EXCEPT !.pc = "idle"]]
      BY <2>2 DEF CycleEnds
    <3> DEFINE r == [engine[e] EXCEPT !.pc = "idle"]
    <3>2. r \in EngineState /\ r.state = engine[e].state
      BY <1>0 DEF EngineState
    <3> HIDE DEF r
    <3> QED BY <1>2, <3>1, <3>2 DEF r
  <2> QED BY <1>6, <2>1, <2>2
<1>7. ASSUME SyncLeaves, plugged' = plugged PROVE EngineTypes'
  BY <1>0, <1>7 DEF EngineTypes, SyncLeaves
<1>8. ASSUME NEW e \in Engine, NEW p \in Path, StartFile(e, p) PROVE EngineTypes'
  <2> DEFINE r == [engine[e] EXCEPT !.pc = "file", !.todo = {p}, !.here[p] = local[p],
                                    !.there[p] = server[p]]
  <2>1. plugged' = plugged /\ engine' = [engine EXCEPT ![e] = r]
    BY <1>8 DEF StartFile
  <2>2. local[p] \in Version /\ server[p] \in Version
    BY DEF Types, StoreTypes, Files
  <2>3. r \in EngineState /\ r.state = engine[e].state
    BY <1>0, <2>2 DEF EngineState, Files
  <2> HIDE DEF r
  <2> QED BY <1>2, <2>1, <2>3
<1>9. ASSUME NEW e \in Engine, NEW p \in Path, SyncNext(e, p) PROVE EngineTypes'
  <2>1. SyncLeaves
    BY <1>9, NextTypes DEF Types
  <2>2. plugged' = plugged
    BY <1>9 DEF SyncNext, router
  <2> QED BY <1>7, <2>1, <2>2
<1>10. ASSUME NEW kind \in {"put", "delete"}, NEW p \in Path, Ask(kind, p) PROVE EngineTypes'
  BY <1>1, <1>10 DEF Ask
<1>11. ASSUME NEW m \in SUBSET Path, plugged \in Engine, plugged' = plugged,
              engine' = [engine EXCEPT ![plugged].snap.marks = m]
       PROVE  EngineTypes'
  <2>1. engine[plugged].snap \in Snapshot
    BY <1>0, <1>11 DEF EngineState
  <2>2. [engine[plugged].snap EXCEPT !.marks = m] \in Snapshot
    BY <2>1, <1>11 DEF Snapshot
  <2> DEFINE n == [engine[plugged].snap EXCEPT !.marks = m]
  <2>3. engine' = [engine EXCEPT ![plugged] = [engine[plugged] EXCEPT !.snap = n]]
    BY <1>11
  <2> HIDE DEF n
  <2>4. [engine[plugged] EXCEPT !.snap = n] \in EngineState
    BY <1>0, <1>11, <2>2, EngineUpdates DEF n
  <2>5. [engine[plugged] EXCEPT !.snap = n].state = engine[plugged].state
    BY <1>0, <1>11 DEF EngineState
  <2> QED BY <1>2, <1>11, <2>3, <2>4, <2>5
<1>12. ASSUME plugged \in Engine PROVE engine[plugged].snap.marks \in SUBSET Path
  BY <1>0, <1>12 DEF EngineState, Snapshot
<1>13. request.via # "none" => request.path \in Path
  BY DEF Types, RequestTypes
<1>14. CASE Served
  <2>1. plugged' = plugged /\ request.path \in Path
    BY <1>13, <1>14 DEF Served
  <2>2. \/ engine' = engine
        \/ /\ plugged # None
           /\ engine' = [engine EXCEPT ![plugged].snap.marks =
                                         engine[plugged].snap.marks \cup {request.path}]
    BY <1>14 DEF Served
  <2>3. plugged # None => plugged \in Engine
    BY <1>0 DEF EngineTypes
  <2>4. plugged # None => engine[plugged].snap.marks \cup {request.path} \in SUBSET Path
    BY <1>12, <2>1, <2>3
  <2> QED BY <1>1, <1>11, <2>1, <2>2, <2>3, <2>4
<1>15. CASE Pass
  <2>1. /\ plugged' = plugged /\ plugged # None
        /\ \/ engine' = engine
           \/ engine' = [engine EXCEPT ![plugged].snap.marks =
                                         engine[plugged].snap.marks \ {request.path}]
    BY <1>15 DEF Pass
  <2>2. plugged \in Engine
    BY <1>0, <2>1 DEF EngineTypes
  <2>3. engine[plugged].snap.marks \ {request.path} \in SUBSET Path
    BY <1>12, <2>2
  <2> QED BY <1>1, <1>11, <2>1, <2>2, <2>3
<1>16. CASE Stored
  <2>1. plugged' = plugged /\ request.path \in Path
    BY <1>13, <1>16 DEF Stored
  <2>2. CASE plugged = None
    <3>1. engine' = engine
      BY <1>16, <2>2 DEF Stored
    <3> QED BY <1>1, <2>1, <3>1
  <2>3. CASE plugged # None
    BY <1>1, <1>7, <1>16, <2>1, <2>3, StoredTypes
  <2> QED BY <2>2, <2>3
<1>17. CASE Unserved \/ Store \/ Dropped \/ Unlock \/ Ping \/ Network
  BY <1>1, <1>17 DEF Unserved, Store, Dropped, Unlock, Ping, Network
<1>18. CASE Reset \/ Wipe
  <2>1. /\ plugged # None /\ plugged' \in {plugged, None}
        /\ engine' = [engine EXCEPT ![plugged].state = "stopped"]
    BY <1>18 DEF Reset, Wipe, Stopped
  <2>2. plugged \in Engine
    BY <1>0, <2>1 DEF EngineTypes
  <2>3. engine' \in [Engine -> EngineState] /\ engine'[plugged].state = "stopped"
    BY <1>0, <2>1, <2>2 DEF EngineState, State
  <2> QED BY <2>1, <2>2, <2>3 DEF EngineTypes
<1>19. CASE Restart
  <2>1. Fresh \in EngineState
    BY Zero DEF Fresh, EngineState, State, Empty, Snapshot, NoFiles, Files
  <2>2. engine' = [e \in Engine |-> Fresh] /\ plugged' = None
    BY <1>19 DEF Restart
  <2> QED BY <2>1, <2>2 DEF EngineTypes
<1>20. ASSUME NEW p \in Path, OthersWrite(p) PROVE EngineTypes'
  BY <1>1, <1>20 DEF OthersWrite
<1>21. CASE UNCHANGED vars
  BY <1>1, <1>21 DEF vars
<1> QED
  BY <1>3, <1>4, <1>5, <1>6, <1>8, <1>9, <1>10, <1>14, <1>15, <1>16, <1>17, <1>18, <1>19, <1>20, <1>21
  DEF Next, EngineStep, Handle

LEMMA Typed == Spec => []Types
<1>1. Types /\ [Next]_vars => Types'
  <2> SUFFICES ASSUME Types, [Next]_vars PROVE Types'
    OBVIOUS
  <2> QED
    BY StoreTypesStep, FlagTypesStep, CountTypesStep, RequestTypesStep, EngineTypesStep DEF Types
<1> QED BY InitTypes, <1>1, PTL DEF Spec

\* The type invariant: with it, that the router has an engine only once that engine has its
\* snapshot (configure awaits SyncEngine.start), also after resets and wipes.
THEOREM WorkerTypes == Spec => []TypeOK
<1>1. Types => TypeOK
  BY DEF Types, StoreTypes, FlagTypes, EngineTypes, RequestTypes, CountTypes, TypeOK,
         EngineState, State, Files
<1> QED BY <1>1, Typed, PTL

-----------------------------------------------------------------------------
(* One engine. *)

Loading(e) == engine[e].state = "loading"

\* While an engine loads there is none in the router, and no other one loads; an engine that
\* runs is the router's.
Alone ==
  /\ \A e \in Engine : Running(e) => plugged = e
  /\ \A e \in Engine : Loading(e) => plugged = None
  /\ \A e, f \in Engine : Loading(e) /\ Loading(f) => e = f

LEMMA AloneStep ==
  ASSUME Types, Alone, [Next]_vars, "joined" \notin Troubles
  PROVE  Alone'
<1> USE DEF router, history
<1>0. /\ Alone /\ engine \in [Engine -> EngineState] /\ None \notin Engine
      /\ plugged # None => plugged \in Engine /\ engine[plugged].state \in {"running", "stopped"}
  BY WorkerConstants DEF Types, EngineTypes
<1>1. ASSUME \A e \in Engine : engine'[e].state = engine[e].state,
             UNCHANGED plugged
      PROVE  Alone'
  BY <1>0, <1>1 DEF Alone, Running, Loading
<1>2. ASSUME NEW e \in Engine, Configure(e) PROVE Alone'
  <2>1. /\ plugged = None /\ plugged' = None /\ \A f \in Engine : ~Loading(f)
        /\ \A f \in Engine : engine'[f].state = IF f = e THEN "loading" ELSE engine[f].state
    BY <1>0, <1>2 DEF Configure, Joins, May, Loading, EngineState
  <2> QED BY <1>0, <2>1 DEF Alone, Running, Loading
<1>3. ASSUME NEW e \in Engine, Plug(e) PROVE Alone'
  <2>1. /\ Loading(e) /\ plugged' = e
        /\ \A f \in Engine : engine'[f].state = IF f = e THEN "running" ELSE engine[f].state
    BY <1>0, <1>3 DEF Plug, EngineState, Loading
  <2>2. \A f \in Engine : ~Running(f) /\ (f # e => ~Loading(f))
    BY <1>0, <2>1 DEF Alone, Running, Loading
  <2> QED BY <1>0, <2>1, <2>2 DEF Alone, Running, Loading
<1>4. ASSUME NEW e \in Engine, Hang(e) PROVE Alone'
  <2>1. /\ UNCHANGED plugged
        /\ \A f \in Engine : engine'[f].state = IF f = e THEN "hung" ELSE engine[f].state
    BY <1>0, <1>4 DEF Hang, EngineState
  <2> QED BY <1>0, <2>1 DEF Alone, Running, Loading
<1>5. CASE Unlock
  BY <1>1, <1>5 DEF Unlock
<1>6. CASE Reset \/ Wipe
  <2>1. /\ plugged # None /\ plugged' \in {plugged, None}
        /\ engine' = [engine EXCEPT ![plugged].state = "stopped"]
    BY <1>6 DEF Reset, Wipe, Stopped
  <2>2. plugged \in Engine
    BY <1>0, <2>1
  <2>3. \A f \in Engine : engine'[f].state = IF f = plugged THEN "stopped" ELSE engine[f].state
    BY <1>0, <2>1, <2>2 DEF EngineState
  <2>4. \A f \in Engine : ~Loading(f) /\ (Running(f) => f = plugged)
    BY <1>0, <2>1 DEF Alone
  <2> QED BY <2>3, <2>4 DEF Alone, Running, Loading
<1>7. CASE Restart
  <2>1. \A e \in Engine : engine'[e].state = "none"
    BY <1>7 DEF Restart, Fresh
  <2> QED BY <2>1 DEF Alone, Running, Loading
<1>8. ASSUME NEW e \in Engine, StartCycle(e) \/ SyncFails(e) \/ CycleEnds(e) PROVE Alone'
  <2>1. CASE SyncFails(e)
    BY <1>0, <1>1, <2>1, FailTypes DEF FailLeaves
  <2>2. CASE StartCycle(e) \/ CycleEnds(e)
    <3>1. UNCHANGED plugged
      BY <2>2 DEF StartCycle, CycleEnds
    <3>2. \A f \in Engine : engine'[f].state = engine[f].state
      <4>1. CASE StartCycle(e)
        BY <1>0, <4>1 DEF StartCycle, EngineState
      <4>2. CASE CycleEnds(e)
        BY <1>0, <4>2 DEF CycleEnds, EngineState
      <4> QED BY <2>2, <4>1, <4>2
    <3> QED BY <1>1, <3>1, <3>2
  <2> QED BY <1>8, <2>1, <2>2
<1>9. ASSUME NEW e \in Engine, NEW p \in Path, StartFile(e, p) PROVE Alone'
  <2>1. UNCHANGED plugged
    BY <1>9 DEF StartFile
  <2>2. \A f \in Engine : engine'[f].state = engine[f].state
    BY <1>0, <1>9 DEF StartFile, EngineState
  <2> QED BY <1>1, <2>1, <2>2
<1>10. ASSUME NEW e \in Engine, NEW p \in Path, SyncNext(e, p) PROVE Alone'
  <2>1. UNCHANGED plugged
    BY <1>10 DEF SyncNext
  <2>2. SyncLeaves
    BY <1>10, NextTypes DEF Types
  <2> QED BY <1>1, <2>1, <2>2 DEF SyncLeaves
<1>11. ASSUME NEW m, plugged \in Engine, engine' = [engine EXCEPT ![plugged].snap.marks = m]
       PROVE  \A f \in Engine : engine'[f].state = engine[f].state
  BY <1>0, <1>11 DEF EngineState
<1>12. CASE Served \/ Pass
  <2>1. UNCHANGED plugged
    BY <1>12 DEF Served, Pass
  <2>2. \/ engine' = engine
        \/ plugged # None /\ \E m : engine' = [engine EXCEPT ![plugged].snap.marks = m]
    BY <1>12 DEF Served, Pass
  <2> QED BY <1>0, <1>1, <1>11, <2>1, <2>2
<1>13. CASE Stored
  <2>1. UNCHANGED plugged
    BY <1>13 DEF Stored
  <2>2. engine' = engine \/ SyncLeaves
    <3>1. CASE plugged = None
      BY <1>13, <3>1 DEF Stored
    <3>2. CASE plugged # None
      BY <1>13, <3>2, StoredTypes
    <3> QED BY <3>1, <3>2
  <2> QED BY <1>1, <2>1, <2>2 DEF SyncLeaves
<1>14. CASE Unserved \/ Store \/ Dropped \/ Ping \/ Network
  BY <1>1, <1>14 DEF Unserved, Store, Dropped, Ping, Network
<1>15. ASSUME NEW kind \in {"put", "delete"}, NEW p \in Path, Ask(kind, p) \/ OthersWrite(p)
       PROVE  Alone'
  BY <1>1, <1>15 DEF Ask, OthersWrite
<1>16. CASE UNCHANGED vars
  BY <1>1, <1>16 DEF vars
<1> QED
  BY <1>2, <1>3, <1>4, <1>5, <1>6, <1>7, <1>8, <1>9, <1>10, <1>12, <1>13, <1>14, <1>15, <1>16
  DEF Next, EngineStep, Handle

\* However often the worker is configured, reset, restarted or wiped, whichever of its engines
\* never gets its snapshot, and whenever a timeout opens the mutex, no two loops sync the same
\* store (configure, reset), as long as no configuration begins while another is under way.
THEOREM EngineAlone ==
  ASSUME "joined" \notin Troubles
  PROVE  Spec => []OneEngine
<1>1. Init => Alone
  BY DEF Init, Alone, Running, Loading, Fresh
<1>2. Types /\ Alone /\ [Next]_vars => Alone'
  BY AloneStep
<1>3. Alone => OneEngine
  BY DEF Alone, OneEngine
<1> QED BY <1>1, <1>2, <1>3, Typed, PTL DEF Spec

=============================================================================
