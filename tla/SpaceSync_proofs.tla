-------------------------- MODULE SpaceSync_proofs --------------------------
(* Theorems about SpaceSync, for any number of paths, invocations, workers  *)
(* and environment steps.                                                   *)
EXTENDS SpaceSync, SequenceTheorems, TLAPS

Decisions == {"push", "forget", "deleteLocal", "pull", "deleteRemote", "note", "mark",
              "conflict", "dropStale", "unsync", "none", "forgetBoth"}

\* What syncFile may decide; only a file listed on the secondary is noted.
LEMMA DecisionRange ==
  ASSUME NEW pm, NEW sm, NEW item, NEW marked \in BOOLEAN, NEW syncBack \in BOOLEAN
  PROVE  LET d == Decision(pm, sm, item, marked, syncBack) IN
         d \in Decisions /\ (d \in {"note", "dropStale"} => sm # NoMeta)
<1>1. OnlyHere(item, marked) \in {"push", "forget", "deleteLocal"}
  BY DEF OnlyHere
<1>2. OnlyThere(item, marked, syncBack) \in {"pull", "deleteRemote", "note", "mark"}
  BY DEF OnlyThere
<1>3. NoStampMoved(pm, sm, syncBack) \in {"unsync", "conflict", "none"}
  BY DEF NoStampMoved
<1>4. InBoth(pm, sm, item, syncBack)
        \in {"conflict", "push", "pull", "dropStale", "unsync", "none"}
  <2> DEFINE here == pm.lm # item[1]
             there == sm.lm # item[2]
  <2>1. CASE item = NoItem \/ (here /\ there)
    BY <2>1 DEF InBoth
  <2>2. CASE item # NoItem /\ here /\ ~there
    BY <2>2 DEF InBoth
  <2>3. CASE item # NoItem /\ ~here /\ there
    BY <2>3 DEF InBoth
  <2>4. CASE item # NoItem /\ ~here /\ ~there
    BY <2>4, <1>3 DEF InBoth
  <2> QED BY <2>1, <2>2, <2>3, <2>4
<1> QED
  BY <1>1, <1>2, <1>4 DEF Decision, Decisions

\* What every update of one worker must show to keep WorkersOK.
LEMMA WorkerUpdate ==
  ASSUME WorkersOK, NEW c \in Slot, NEW w \in Worker, NEW r, IsWork(r),
         work' = [work EXCEPT ![c][w] = r]
  PROVE  WorkersOK'
BY DEF WorkersOK

LEMMA CallUpdate ==
  ASSUME CallsOK, NEW c \in Slot, NEW r, IsCall(r), call' = [call EXCEPT ![c] = r]
  PROVE  CallsOK'
BY DEF CallsOK

LEMMA IdleRecords == IsCall(IdleCall) /\ IsWork(IdleWork) /\ IsFile(NoFile)
BY DEF IsCall, IsWork, IdleCall, IdleWork, IsFile, NoFile, IsMetas, Pc

\* Putting an entry into a map and dropping one keep its kind.
LEMMA MapUpdates ==
  /\ \A f, p, v : IsStore(f) /\ IsFile(v) => IsStore(Put(f, p, v))
  /\ \A f, p : IsStore(f) => IsStore(Drop(f, p))
  /\ \A f, p, v : IsFiles(f) /\ v \in Nat \X Nat => IsFiles(Put(f, p, v))
  /\ \A f, p : IsFiles(f) => IsFiles(Drop(f, p))
BY DEF IsStore, IsFile, IsFiles, Put, Drop

LEMMA Listings ==
  ASSUME NEW store, IsStore(store)
  PROVE  IsMetas(Listing(store))
BY DEF IsStore, IsMetas, Listing, Meta

LEMMA HistGrows ==
  ASSUME hist \in Seq(Nat), NEW d \in Nat, hist' = Append(hist, d)
  PROVE  /\ hist' \in Seq(Nat) /\ Len(hist) \in Nat /\ Len(hist') = Len(hist) + 1
         /\ \A t \in 1..Len(hist) : hist'[t] = hist[t]
         /\ hist'[Now] = d /\ Now \in Nat
BY AppendProperties, LenProperties DEF Now

LEMMA InitTypeOK == Init => TypeOK
<1> SUFFICES ASSUME Init PROVE TypeOK
  OBVIOUS
<1>1. StoresOK
  BY DEF Init, StoresOK, IsStore
<1>2. SnapshotOK
  BY DEF Init, SnapshotOK, IsFiles, Snap
<1>3. CallsOK
  BY IdleRecords DEF Init, CallsOK
<1>4. WorkersOK
  BY IdleRecords DEF Init, WorkersOK
<1>5. EnvOK
  BY SyncConstants DEF Init, EnvOK
<1> QED BY <1>1, <1>2, <1>3, <1>4, <1>5 DEF TypeOK

\* Whether or not the mutex is released and the snapshot saved, the snapshot is
\* well-typed.
LEMMA SaveType ==
  ASSUME SnapshotOK, UNCHANGED snapshot, saved' = saved \/ saved' = Snap
  PROVE  SnapshotOK'
<1>1. CASE saved' = saved
  BY <1>1 DEF SnapshotOK, snapshot, IsFiles
<1>2. CASE saved' = Snap
  BY <1>2 DEF SnapshotOK, snapshot, IsFiles, Snap
<1> QED BY <1>1, <1>2

LEMMA ReleaseType ==
  ASSUME TypeOK, NEW c \in Slot, UNCHANGED snapshot,
         Release(c) \/ UNCHANGED <<isSyncing, saved>>
  PROVE  SnapshotOK' /\ isSyncing' \in BOOLEAN
<1>1. (saved' = saved \/ saved' = Snap) /\ isSyncing' \in BOOLEAN
  BY DEF Release, TypeOK, EnvOK
<1> QED BY <1>1, SaveType DEF TypeOK

\* A worker that throws keeps everything well-typed.
LEMMA ThrowType ==
  ASSUME TypeOK, NEW c \in Slot, NEW w \in Worker, Throw(c, w), UNCHANGED snapshot
  PROVE  SnapshotOK' /\ CallsOK' /\ WorkersOK' /\ isSyncing' \in BOOLEAN
<1>1. WorkersOK'
  <2>1. IsWork([IdleWork EXCEPT !.pc = "dead"])
    BY IdleRecords DEF IsWork, IdleWork, Pc
  <2> QED BY <2>1, WorkerUpdate DEF Throw, TypeOK
<1>2. CallsOK'
  <2>1. IsCall([call[c] EXCEPT !.failed = TRUE])
    BY DEF TypeOK, CallsOK, IsCall
  <2>2. call' = [call EXCEPT ![c] = [call[c] EXCEPT !.failed = TRUE]]
    BY DEF Throw
  <2> QED BY <2>1, <2>2, CallUpdate DEF TypeOK
<1>3. Release(c) \/ UNCHANGED <<isSyncing, saved>>
  BY DEF Throw
<1> QED BY <1>1, <1>2, <1>3, ReleaseType

\* Steps that change one worker's record only in its program counter.
LEMMA GotoType ==
  ASSUME WorkersOK, NEW c \in Slot, NEW w \in Worker, NEW pc \in Pc, Goto(c, w, pc)
  PROVE  WorkersOK'
<1>1. IsWork([work[c][w] EXCEPT !.pc = pc])
  <2>1. IsWork(work[c][w])
    BY DEF WorkersOK
  <2> QED BY <2>1 DEF IsWork
<1>2. work' = [work EXCEPT ![c][w] = [work[c][w] EXCEPT !.pc = pc]]
  BY DEF Goto
<1> QED BY <1>1, <1>2, WorkerUpdate

LEMMA InvocationType ==
  ASSUME TypeOK, NEW c \in Slot,
         \/ StartFull(c) \/ \E p \in UserPath : StartSingle(c, p)
         \/ CallStep(c) \/ ListFault(c)
  PROVE  TypeOK'
<1>1. ASSUME StartFull(c) \/ \E p \in UserPath : StartSingle(c, p) PROVE TypeOK'
  <2>1. CASE StartFull(c)
    <3>1. CallsOK'
      <4>1. IsCall([IdleCall EXCEPT !.kind = "full", !.phase = "listLocal"])
        BY IdleRecords DEF IsCall, IdleCall
      <4> QED BY <2>1, <4>1, CallUpdate DEF StartFull, TypeOK
    <3> QED
      BY <2>1, <3>1 DEF StartFull, TypeOK, StoresOK, SnapshotOK, WorkersOK, EnvOK,
         stores, snapshot
  <2>2. ASSUME NEW p \in UserPath, StartSingle(c, p) PROVE TypeOK'
    <3>1. CallsOK'
      <4>1. IsCall([IdleCall EXCEPT !.kind = "single", !.phase = "listLocal",
                                    !.todo = {p}])
        BY IdleRecords DEF IsCall, IdleCall
      <4> QED BY <2>2, <4>1, CallUpdate DEF StartSingle, TypeOK
    <3> QED
      BY <2>2, <3>1 DEF StartSingle, TypeOK, StoresOK, SnapshotOK, WorkersOK, EnvOK,
         stores, snapshot
  <2> QED BY <1>1, <2>1, <2>2
<1>2. ASSUME ListLocal(c) PROVE TypeOK'
  <2>1. call' = [call EXCEPT ![c] = [call[c] EXCEPT !.phase = "listRemote",
                                                   !.plist = Listing(local)]]
    BY <1>2 DEF ListLocal
  <2>2. CallsOK'
    <3>1. IsCall(call[c]) /\ IsMetas(Listing(local))
      BY Listings DEF TypeOK, StoresOK, CallsOK
    <3>2. IsCall([call[c] EXCEPT !.phase = "listRemote", !.plist = Listing(local)])
      BY <3>1 DEF IsCall
    <3> QED BY <2>1, <3>2, CallUpdate DEF TypeOK
  <2> QED
    BY <1>2, <2>2 DEF ListLocal, TypeOK, StoresOK, SnapshotOK, WorkersOK,
       EnvOK, stores, snapshot, history
<1>3. ASSUME ListRemote(c) PROVE TypeOK'
  <2>1. PICK todo, noSync :
          call' = [call EXCEPT ![c] = [call[c] EXCEPT !.phase = "process",
                     !.slist = Listing(remote), !.noSync = noSync, !.todo = todo]]
    BY <1>3 DEF ListRemote
  <2>2. CallsOK'
    <3>1. IsCall(call[c]) /\ IsMetas(Listing(remote))
      BY Listings DEF TypeOK, StoresOK, CallsOK
    <3>2. IsCall([call[c] EXCEPT !.phase = "process", !.slist = Listing(remote),
                                 !.noSync = noSync, !.todo = todo])
      BY <3>1 DEF IsCall
    <3> QED BY <2>1, <3>2, CallUpdate DEF TypeOK
  <2> QED
    BY <1>3, <2>2 DEF ListRemote, TypeOK, StoresOK, SnapshotOK, WorkersOK,
       EnvOK, stores, snapshot, history
<1>4. ASSUME Finish(c) PROVE TypeOK'
  <2>1. CallsOK'
    BY <1>4, CallUpdate, IdleRecords DEF Finish, TypeOK
  <2>2. WorkersOK'
    BY <1>4, IdleRecords DEF Finish, TypeOK, WorkersOK
  <2>3. SnapshotOK' /\ isSyncing' \in BOOLEAN
    BY <1>4, ReleaseType DEF Finish
  <2> QED
    BY <1>4, <2>1, <2>2, <2>3 DEF Finish, TypeOK, StoresOK, EnvOK, stores, history
<1>5. ASSUME ListFault(c) PROVE TypeOK'
  <2>1. CallsOK'
    BY <1>5, CallUpdate, IdleRecords DEF ListFault, TypeOK
  <2>2. budget' \in [Kind -> Nat]
    BY <1>5 DEF ListFault, Trouble, Spend, TypeOK, EnvOK, Kind
  <2>3. SnapshotOK' /\ isSyncing' \in BOOLEAN
    BY <1>5, ReleaseType DEF ListFault
  <2> QED
    BY <1>5, <2>1, <2>2, <2>3 DEF ListFault, TypeOK, StoresOK, WorkersOK, EnvOK, stores,
       history
<1> QED BY <1>1, <1>2, <1>3, <1>4, <1>5 DEF CallStep

\* The step that takes a path and runs syncFile up to its first await.
LEMMA BeginType ==
  ASSUME TypeOK, NEW c \in Slot, NEW w \in Worker, Begin(c, w)
  PROVE  TypeOK'
<1>1. PICK p \in call[c].todo :
        LET sm == Lookup(call[c].slist, p, NoMeta)
            d  == Decision(Lookup(call[c].plist, p, NoMeta), sm,
                           Lookup(files, p, NoItem), p \in nonSynced,
                           p \notin call[c].noSync)
        IN /\ call' = [call EXCEPT ![c].todo = @ \ {p}]
           /\ files' = FilesAtOnce(d, p, sm)
           /\ nonSynced' = MarksAtOnce(d, p)
           /\ work' = [work EXCEPT ![c][w] = WorkOn(d, p)]
  BY DEF Begin
<1> DEFINE sm == Lookup(call[c].slist, p, NoMeta)
           d  == Decision(Lookup(call[c].plist, p, NoMeta), sm,
                          Lookup(files, p, NoItem), p \in nonSynced,
                          p \notin call[c].noSync)
<1>2. d \in Decisions
  <2>1. (p \in nonSynced) \in BOOLEAN /\ (p \notin call[c].noSync) \in BOOLEAN
    OBVIOUS
  <2> QED BY <2>1, DecisionRange, Zenon
<1>3. sm.lm \in Nat
  BY DEF Lookup, NoMeta, TypeOK, CallsOK, IsCall, IsMetas
<1> HIDE DEF d, sm
<1>4. CallsOK'
  <2>1. IsCall([call[c] EXCEPT !.todo = @ \ {p}])
    BY DEF TypeOK, CallsOK, IsCall
  <2> QED BY <1>1, <2>1, CallUpdate DEF TypeOK
<1>5. WorkersOK'
  <2>1. IsWork(WorkOn(d, p))
    <3>1. \A pc \in Pc : IsWork([IdleWork EXCEPT !.path = p, !.pc = pc])
      BY IdleRecords DEF IsWork, IdleWork
    <3>2. \/ WorkOn(d, p) = IdleWork
          \/ \E pc \in Pc : WorkOn(d, p) = [IdleWork EXCEPT !.path = p, !.pc = pc]
      BY <1>2 DEF WorkOn, Decisions, Pc
    <3> QED BY <3>1, <3>2, IdleRecords
  <2> QED BY <1>1, <2>1, WorkerUpdate DEF TypeOK, d, sm
<1>6. SnapshotOK'
  <2>1. IsFiles(files')
    BY <1>1, <1>3, MapUpdates DEF FilesAtOnce, TypeOK, SnapshotOK, d, sm
  <2> QED BY <2>1 DEF Begin, TypeOK, SnapshotOK
<1> QED
  BY <1>4, <1>5, <1>6 DEF Begin, TypeOK, StoresOK, EnvOK, stores, history

\* The steps that change one worker's record only, or end the worker.
LEMMA ReadType ==
  ASSUME TypeOK, NEW c \in Slot, NEW w \in Worker,
         ReadLocal(c, w) \/ ReadRemote(c, w) \/ DropStale(c, w)
  PROVE  TypeOK'
<1>1. ASSUME Throw(c, w), UNCHANGED <<stores, snapshot, ignored, budget, history>>
      PROVE  TypeOK'
  <2>1. SnapshotOK' /\ CallsOK' /\ WorkersOK' /\ isSyncing' \in BOOLEAN
    BY <1>1, ThrowType
  <2> QED BY <1>1, <2>1 DEF TypeOK, StoresOK, EnvOK, stores, history
<1>2. ASSUME NEW r, IsWork(r), work' = [work EXCEPT ![c][w] = r],
             UNCHANGED <<remote, hist, snapshot, saved, isSyncing, call, ignored, budget,
                         history>>,
             IsStore(local')
      PROVE  TypeOK'
  <2>1. WorkersOK'
    BY <1>2, WorkerUpdate DEF TypeOK
  <2> QED
    BY <1>2, <2>1 DEF TypeOK, StoresOK, SnapshotOK, CallsOK, EnvOK, history, snapshot
<1> DEFINE r == work[c][w]  p == work[c][w].path
<1>3. IsWork(r) /\ IsStore(local) /\ IsStore(remote)
  BY DEF TypeOK, StoresOK, WorkersOK
<1>4. CASE ReadLocal(c, w) /\ p \in DOMAIN local
  <2>1. \A pc \in Pc : IsWork([r EXCEPT !.a = local[p], !.pc = pc])
    BY <1>3, <1>4 DEF IsWork, IsStore
  <2> QED BY <1>2, <1>3, <1>4, <2>1 DEF ReadLocal, Pc, stores
<1>5. CASE ReadRemote(c, w) /\ p \in DOMAIN remote
  <2>1. \A pc \in Pc : IsWork([r EXCEPT !.b = remote[p], !.pc = pc])
    BY <1>3, <1>5 DEF IsWork, IsStore
  <2> QED BY <1>2, <1>3, <1>5, <2>1 DEF ReadRemote, Pc, stores
<1>6. CASE ReadLocal(c, w) /\ p \notin DOMAIN local
  BY <1>1, <1>6 DEF ReadLocal
<1>7. CASE ReadRemote(c, w) /\ p \notin DOMAIN remote
  BY <1>1, <1>7 DEF ReadRemote
<1>8. CASE DropStale(c, w)
  <2>1. IsWork([r EXCEPT !.pc = "report"]) /\ IsWork(IdleWork) /\ IsStore(local')
    BY <1>3, <1>8, IdleRecords, MapUpdates DEF IsWork, DropStale, Pc
  <2> QED BY <1>2, <1>8, <2>1 DEF DropStale
<1> QED BY <1>4, <1>5, <1>6, <1>7, <1>8

\* The steps that change a store or the snapshot, or end the worker.
LEMMA WriteType ==
  ASSUME TypeOK, NEW c \in Slot, NEW w \in Worker,
         \/ PushWrite(c, w) \/ PullWrite(c, w) \/ DeleteLocal(c, w)
         \/ DeleteRemote(c, w) \/ Unsync(c, w) \/ Report(c, w)
  PROVE  TypeOK'
<1> DEFINE r == work[c][w]
<1>1. /\ IsWork(r) /\ IsStore(local) /\ IsStore(remote) /\ IsFiles(files)
      /\ IsFile(r.a) /\ IsFile(r.b)
  BY DEF TypeOK, StoresOK, SnapshotOK, WorkersOK, IsWork, IsFile
<1>2. ASSUME Throw(c, w), UNCHANGED <<stores, snapshot, ignored, budget, history>>
      PROVE  TypeOK'
  <2>1. SnapshotOK' /\ CallsOK' /\ WorkersOK' /\ isSyncing' \in BOOLEAN
    BY <1>2, ThrowType
  <2> QED BY <1>2, <2>1 DEF TypeOK, StoresOK, EnvOK, stores, history
<1>3. ASSUME Goto(c, w, "report"), IsStore(local'), IsStore(remote'), IsFiles(files'),
             UNCHANGED <<hist, saved, isSyncing, call, ignored, budget, history>>
      PROVE  TypeOK'
  <2>1. WorkersOK'
    BY <1>3, GotoType DEF TypeOK, Pc
  <2> QED
    BY <1>3, <2>1 DEF TypeOK, StoresOK, SnapshotOK, CallsOK, EnvOK, history
<1>4. CASE PushWrite(c, w)
  <2>1. IsStore(remote') /\ IsFiles(files')
    BY <1>1, <1>4, MapUpdates DEF PushWrite, Pushed, IsFile
  <2> QED BY <1>1, <1>3, <1>4, <2>1 DEF PushWrite
<1>5. CASE PullWrite(c, w)
  <2>1. IsStore(local') /\ IsFiles(files')
    BY <1>1, <1>5, MapUpdates DEF PullWrite, IsFile
  <2> QED BY <1>1, <1>3, <1>5, <2>1 DEF PullWrite
<1>6. CASE DeleteLocal(c, w)
  <2>1. CASE r.path \in DOMAIN local
    <3>1. IsStore(local')
      BY <1>1, <1>6, <2>1, MapUpdates DEF DeleteLocal
    <3> QED BY <1>1, <1>3, <1>6, <2>1, <3>1 DEF DeleteLocal, snapshot
  <2>2. CASE r.path \notin DOMAIN local
    BY <1>2, <1>6, <2>2 DEF DeleteLocal, stores
  <2> QED BY <2>1, <2>2
<1>7. CASE DeleteRemote(c, w)
  <2>1. CASE r.path \in DOMAIN remote
    <3>1. IsStore(remote') /\ IsFiles(files')
      BY <1>1, <1>7, <2>1, MapUpdates DEF DeleteRemote
    <3> QED BY <1>1, <1>3, <1>7, <2>1, <3>1 DEF DeleteRemote
  <2>2. CASE r.path \notin DOMAIN remote
    BY <1>2, <1>7, <2>2 DEF DeleteRemote, stores
  <2> QED BY <2>1, <2>2
<1>8. CASE Unsync(c, w)
  <2>1. CASE r.path \in DOMAIN local
    <3>1. IsStore(local')
      BY <1>1, <1>8, <2>1, MapUpdates DEF Unsync
    <3> QED BY <1>1, <1>3, <1>8, <2>1, <3>1 DEF Unsync
  <2>2. CASE r.path \notin DOMAIN local
    BY <1>2, <1>8, <2>2 DEF Unsync, stores, snapshot
  <2> QED BY <2>1, <2>2
<1>9. CASE Report(c, w)
  <2>1. WorkersOK'
    BY <1>9, WorkerUpdate, IdleRecords DEF Report, TypeOK
  <2>2. CallsOK'
    <3>1. IsCall([call[c] EXCEPT !.changed = TRUE])
      BY DEF TypeOK, CallsOK, IsCall
    <3>2. call' = [call EXCEPT ![c] = [call[c] EXCEPT !.changed = TRUE]]
      BY <1>9 DEF Report
    <3> QED BY <3>1, <3>2, CallUpdate DEF TypeOK
  <2>3. SnapshotOK'
    BY <1>9, SaveType DEF Report, TypeOK
  <2> QED
    BY <1>9, <2>1, <2>2, <2>3 DEF Report, TypeOK, StoresOK, EnvOK, stores, history
<1> QED BY <1>4, <1>5, <1>6, <1>7, <1>8, <1>9

\* The steps of a conflict.
LEMMA ConflictType ==
  ASSUME TypeOK, NEW c \in Slot, NEW w \in Worker,
         \/ ConflictRead(c, w) \/ CopyLocal(c, w) \/ CopyRemote(c, w)
         \/ Overwrite(c, w)
  PROVE  TypeOK'
<1> DEFINE r == work[c][w]
<1>1. /\ IsWork(r) /\ IsStore(local) /\ IsStore(remote) /\ IsFiles(files)
      /\ IsFile(r.a) /\ IsFile(r.b) /\ r.copyA \in Nat /\ r.copyB \in Nat
      /\ Now \in Nat /\ hist \in Seq(Nat)
  BY LenProperties DEF TypeOK, StoresOK, SnapshotOK, WorkersOK, IsWork, IsFile, Now
<1>2. ASSUME Throw(c, w), UNCHANGED <<stores, snapshot, ignored, budget, history>>
      PROVE  TypeOK'
  <2>1. SnapshotOK' /\ CallsOK' /\ WorkersOK' /\ isSyncing' \in BOOLEAN
    BY <1>2, ThrowType
  <2> QED BY <1>2, <2>1 DEF TypeOK, StoresOK, EnvOK, stores, history
<1>3. ASSUME WorkersOK', IsStore(local'), IsStore(remote'), IsFiles(files'),
             hist' \in Seq(Nat),
             UNCHANGED <<nonSynced, saved, isSyncing, call, ignored, budget, history>>
      PROVE  TypeOK'
  BY <1>3 DEF TypeOK, StoresOK, SnapshotOK, CallsOK, EnvOK, history
<1>4. CASE ConflictRead(c, w)
  <2>1. CASE r.path \notin DOMAIN remote
    BY <1>2, <1>4, <2>1 DEF ConflictRead, snapshot
  <2>2. CASE r.path \in DOMAIN remote /\ remote[r.path].data = r.a.data
    <3>1. IsFiles(files')
      BY <1>1, <1>4, <2>2, MapUpdates DEF ConflictRead, IsFile, IsStore
    <3>2. WorkersOK'
      BY <1>4, <2>2, WorkerUpdate, IdleRecords DEF ConflictRead, TypeOK
    <3> QED BY <1>1, <1>3, <1>4, <2>2, <3>1, <3>2 DEF ConflictRead, stores
  <2>3. CASE r.path \in DOMAIN remote /\ remote[r.path].data # r.a.data
    <3>1. IsWork([r EXCEPT !.b = remote[r.path], !.pc = "copyLocal"])
      BY <1>1, <2>3 DEF IsWork, IsStore, Pc
    <3>2. WorkersOK'
      BY <1>4, <2>3, <3>1, WorkerUpdate DEF ConflictRead, TypeOK
    <3> QED BY <1>1, <1>3, <1>4, <2>3, <3>2 DEF ConflictRead, stores
  <2> QED BY <2>1, <2>2, <2>3
<1>5. CASE CopyLocal(c, w)
  <2>1. IsWork([r EXCEPT !.copyA = Now, !.pc = "copyRemote"])
    BY <1>1 DEF IsWork, Pc
  <2>2. WorkersOK'
    BY <1>5, <2>1, WorkerUpdate DEF CopyLocal, TypeOK
  <2>3. IsStore(local') /\ hist' \in Seq(Nat)
    BY <1>1, <1>5, MapUpdates, AppendProperties DEF CopyLocal, IsFile
  <2> QED BY <1>1, <1>3, <1>5, <2>2, <2>3 DEF CopyLocal, snapshot
<1>6. CASE CopyRemote(c, w)
  <2>1. IsWork([r EXCEPT !.copyB = Now, !.pc = "overwrite"])
    BY <1>1 DEF IsWork, Pc
  <2>2. WorkersOK'
    BY <1>6, <2>1, WorkerUpdate DEF CopyRemote, TypeOK
  <2>3. IsStore(remote') /\ hist' \in Seq(Nat)
    BY <1>1, <1>6, MapUpdates, AppendProperties DEF CopyRemote, IsFile
  <2> QED BY <1>1, <1>3, <1>6, <2>2, <2>3 DEF CopyRemote, snapshot
<1>7. CASE Overwrite(c, w)
  <2>1. WorkersOK'
    BY <1>7, GotoType DEF Overwrite, TypeOK, Pc
  <2>2. IsStore(remote') /\ hist' \in Seq(Nat)
    BY <1>1, <1>7, MapUpdates, AppendProperties DEF Overwrite, IsFile
  <2>3. IsFiles(files')
    BY <1>1, <1>7, MapUpdates DEF Overwrite, IsFile
  <2> QED BY <1>1, <1>3, <1>7, <2>1, <2>2, <2>3 DEF Overwrite
<1> QED BY <1>4, <1>5, <1>6, <1>7

LEMMA FaultType ==
  ASSUME TypeOK, NEW c \in Slot, NEW w \in Worker, RemoteFault(c, w)
  PROVE  TypeOK'
<1> DEFINE r == work[c][w]
<1>1. /\ IsWork(r) /\ IsStore(local) /\ IsStore(remote) /\ IsFile(r.a) /\ IsFile(r.b)
      /\ Now \in Nat /\ hist \in Seq(Nat)
  BY LenProperties DEF TypeOK, StoresOK, WorkersOK, IsWork, IsFile, Now
<1>2. SnapshotOK' /\ CallsOK' /\ WorkersOK' /\ isSyncing' \in BOOLEAN
  BY ThrowType DEF RemoteFault
<1>3. IsStore(remote') /\ hist' \in Seq(Nat)
  <2> DEFINE copy == ConflictPath(r.path, r.b.lm)
  <2>1. CASE UNCHANGED <<remote, hist>>
    BY <1>1, <2>1
  <2>2. CASE remote' = Put(remote, r.path, r.a) /\ UNCHANGED hist
    BY <1>1, <2>2, MapUpdates
  <2>3. CASE remote' = Drop(remote, r.path) /\ UNCHANGED hist
    BY <1>1, <2>3, MapUpdates
  <2>4. CASE /\ remote' = Put(remote, copy, [lm |-> Now, data |-> r.b.data])
             /\ hist' = Append(hist, r.b.data)
    <3>1. IsFile([lm |-> Now, data |-> r.b.data])
      BY <1>1 DEF IsFile
    <3> QED BY <1>1, <2>4, <3>1, MapUpdates, AppendProperties DEF IsFile
  <2>5. CASE /\ remote' = Put(remote, r.path, [lm |-> Now, data |-> r.a.data])
             /\ hist' = Append(hist, r.a.data)
    <3>1. IsFile([lm |-> Now, data |-> r.a.data])
      BY <1>1 DEF IsFile
    <3> QED BY <1>1, <2>5, <3>1, MapUpdates, AppendProperties DEF IsFile
  <2> QED BY <2>1, <2>2, <2>3, <2>4, <2>5 DEF RemoteFault
<1>4. budget' \in [Kind -> Nat]
  BY DEF RemoteFault, Trouble, Spend, TypeOK, EnvOK, Kind
<1> QED BY <1>1, <1>2, <1>3, <1>4 DEF RemoteFault, TypeOK, StoresOK, EnvOK, history

LEMMA EnvironmentType ==
  ASSUME TypeOK, Environment
  PROVE  TypeOK'
<1>1. /\ IsStore(local) /\ IsStore(remote) /\ Now \in Nat /\ hist \in Seq(Nat)
      /\ budget \in [Kind -> Nat]
  BY LenProperties DEF TypeOK, StoresOK, EnvOK, Now
<1>2. ASSUME IsStore(local'), IsStore(remote'), hist' \in Seq(Nat), NEW k \in Kind,
             Spend(k), UNCHANGED <<snapshot, saved, control, ignored, overlap>>
      PROVE  TypeOK'
  <2>1. budget' \in [Kind -> Nat]
    BY <1>1, <1>2 DEF Spend
  <2> QED
    BY <1>2, <2>1 DEF TypeOK, StoresOK, SnapshotOK, CallsOK, WorkersOK, EnvOK,
       snapshot, control
<1>3. ASSUME NEW p \in UserPath,
             \/ LocalWrite(p) \/ LocalDelete(p) \/ RemoteWrite(p) \/ RemoteDelete(p)
             \/ SilentChange(p)
      PROVE  TypeOK'
  <2>1. CASE LocalWrite(p)
    <3>1. IsStore(local') /\ hist' \in Seq(Nat)
      BY <1>1, <2>1, MapUpdates, AppendProperties DEF LocalWrite, IsFile
    <3> QED BY <1>1, <1>2, <2>1, <3>1 DEF LocalWrite, Kind
  <2>2. CASE LocalDelete(p)
    <3>1. IsStore(local')
      BY <1>1, <2>2, MapUpdates DEF LocalDelete
    <3> QED BY <1>1, <1>2, <2>2, <3>1 DEF LocalDelete, Kind
  <2>3. CASE RemoteWrite(p)
    <3>1. IsStore(remote') /\ hist' \in Seq(Nat)
      BY <1>1, <2>3, MapUpdates, AppendProperties DEF RemoteWrite, IsFile
    <3> QED BY <1>1, <1>2, <2>3, <3>1 DEF RemoteWrite, Kind
  <2>4. CASE RemoteDelete(p)
    <3>1. IsStore(remote')
      BY <1>1, <2>4, MapUpdates DEF RemoteDelete
    <3> QED BY <1>1, <1>2, <2>4, <3>1 DEF RemoteDelete, Kind
  <2>5. CASE SilentChange(p)
    <3>1. IsStore(remote') /\ hist' \in Seq(Nat)
      BY <1>1, <2>5, MapUpdates, AppendProperties DEF SilentChange, IsFile, IsStore
    <3> QED BY <1>1, <1>2, <2>5, <3>1 DEF SilentChange, Trouble, Kind
  <2> QED BY <1>3, <2>1, <2>2, <2>3, <2>4, <2>5
<1>4. ASSUME SetSyncConfig PROVE TypeOK'
  <2>1. budget' \in [Kind -> Nat]
    BY <1>1, <1>4 DEF SetSyncConfig, Trouble, Spend, Kind
  <2> QED
    BY <1>4, <2>1 DEF SetSyncConfig, TypeOK, StoresOK, SnapshotOK, CallsOK, WorkersOK,
       EnvOK, stores, snapshot, control, history
<1>5. ASSUME Restart PROVE TypeOK'
  <2>1. budget' \in [Kind -> Nat]
    BY <1>1, <1>5 DEF Restart, Trouble, Spend, Kind
  <2>2. CallsOK' /\ WorkersOK'
    BY <1>5, IdleRecords DEF Restart, CallsOK, WorkersOK
  <2> QED
    BY <1>5, <2>1, <2>2 DEF Restart, TypeOK, StoresOK, SnapshotOK, EnvOK, stores, history
<1> QED BY <1>3, <1>4, <1>5, InvocationType, FaultType DEF Environment

\* Every variable of the sync holds a value of its kind, for any number of
\* files, invocations, workers, faults and restarts.
THEOREM TypeCorrect == Spec => []TypeOK
<1>1. TypeOK /\ [Next]_vars => TypeOK'
  <2> SUFFICES ASSUME TypeOK, [Next]_vars PROVE TypeOK'
    OBVIOUS
  <2>1. ASSUME NEW c \in Slot, NEW w \in Worker, WorkerStep(c, w) PROVE TypeOK'
    BY <2>1, BeginType, ReadType, WriteType, ConflictType DEF WorkerStep
  <2>2. CASE UNCHANGED vars
    BY <2>2 DEF vars, stores, snapshot, control, history, TypeOK, StoresOK, SnapshotOK,
       CallsOK, WorkersOK, EnvOK
  <2> QED BY <2>1, <2>2, InvocationType, EnvironmentType DEF Next
<1> QED BY <1>1, InitTypeOK, PTL DEF Spec

-----------------------------------------------------------------------------
(* The mutex.  On its own MutexHeld is not inductive: that a thrown worker     *)
(* frees the mutex at most once needs that only an invocation in its process   *)
(* phase has workers, or has failed.                                           *)

MutexInv ==
  /\ MutexHeld
  /\ \A c \in Slot : call[c].failed => call[c].phase = "process"
  /\ \A c \in Slot, w \in Worker : work[c][w].pc # "idle" => call[c].phase = "process"

\* Steps that leave every invocation's phase and the mutex alone.
LEMMA MutexStable ==
  ASSUME MutexInv, isSyncing' = isSyncing,
         \A c \in Slot : /\ call'[c].phase = call[c].phase
                        /\ call'[c].failed = call[c].failed,
         \A c \in Slot, w \in Worker :
           work'[c][w].pc # "idle" => call[c].phase = "process"
  PROVE  MutexInv'
BY DEF MutexInv, MutexHeld, Holds, Busy

LEMMA MutexThrow ==
  ASSUME TypeOK, MutexInv, NEW c \in Slot, NEW w \in Worker,
         work[c][w].pc # "idle", Throw(c, w)
  PROVE  MutexInv'
<1>1. /\ \A d \in Slot : IsCall(call[d])
      /\ \A d \in Slot, v \in Worker : IsWork(work[d][v])
      /\ call = [d \in Slot |-> call[d]]
      /\ work = [d \in Slot |-> [v \in Worker |-> work[d][v]]]
  BY DEF TypeOK, CallsOK, WorkersOK
<1>2. call[c].phase = "process"
  BY DEF MutexInv
<1>3. /\ \A d \in Slot : call'[d].phase = call[d].phase
      /\ \A d \in Slot : call'[d].failed = IF d = c THEN TRUE ELSE call[d].failed
  <2>1. call' = [call EXCEPT ![c] = [call[c] EXCEPT !.failed = TRUE]]
    BY DEF Throw
  <2>2. /\ [call[c] EXCEPT !.failed = TRUE].phase = call[c].phase
        /\ [call[c] EXCEPT !.failed = TRUE].failed = TRUE
    BY <1>1 DEF IsCall
  <2> QED BY <1>1, <2>1, <2>2
<1>4. \A d \in Slot, v \in Worker : work'[d][v].pc # "idle" => call[d].phase = "process"
  BY <1>1, <1>2 DEF Throw, MutexInv
<1>5. CASE call[c].failed
  BY <1>1, <1>2, <1>3, <1>4, <1>5 DEF Throw, MutexInv, MutexHeld, Holds, Busy
<1>6. CASE ~call[c].failed
  <2>1. Holds(c) /\ ~isSyncing'
    BY <1>2, <1>6 DEF Holds, Busy, Throw, Release
  <2>2. \A d \in Slot : ~Holds(d)'
    BY <1>3, <2>1 DEF Holds, Busy, MutexInv, MutexHeld
  <2> QED BY <1>2, <1>3, <1>4, <2>1, <2>2 DEF MutexInv, MutexHeld
<1> QED BY <1>5, <1>6

\* A step of a worker that takes it to another program counter.
LEMMA MutexWork ==
  ASSUME TypeOK, MutexInv, NEW c \in Slot, NEW w \in Worker,
         call[c].phase = "process", NEW r, work' = [work EXCEPT ![c][w] = r],
         isSyncing' = isSyncing, call' = call
  PROVE  MutexInv'
<1>1. \A d \in Slot, v \in Worker : work'[d][v].pc # "idle" => call[d].phase = "process"
  BY DEF TypeOK, WorkersOK, MutexInv
<1> QED BY <1>1, MutexStable

LEMMA MutexWorker ==
  ASSUME TypeOK, MutexInv, NEW c \in Slot, NEW w \in Worker,
         WorkerStep(c, w) \/ RemoteFault(c, w)
  PROVE  MutexInv'
<1>1. CASE Begin(c, w)
  <2>1. PICK todo, r : /\ call' = [call EXCEPT ![c] = [call[c] EXCEPT !.todo = todo]]
                       /\ work' = [work EXCEPT ![c][w] = r]
    BY <1>1 DEF Begin
  <2>2. \A d \in Slot : call'[d].phase = call[d].phase /\ call'[d].failed = call[d].failed
    BY <2>1 DEF TypeOK, CallsOK, IsCall
  <2>3. \A d \in Slot, v \in Worker : work'[d][v].pc # "idle" => call[d].phase = "process"
    BY <1>1, <2>1 DEF Begin, TypeOK, WorkersOK, MutexInv
  <2> QED BY <1>1, <2>2, <2>3, MutexStable DEF Begin
<1>2. CASE Report(c, w)
  <2>1. call' = [call EXCEPT ![c] = [call[c] EXCEPT !.changed = TRUE]]
    BY <1>2 DEF Report
  <2>2. \A d \in Slot : call'[d].phase = call[d].phase /\ call'[d].failed = call[d].failed
    BY <2>1 DEF TypeOK, CallsOK, IsCall
  <2>3. \A d \in Slot, v \in Worker : work'[d][v].pc # "idle" => call[d].phase = "process"
    BY <1>2 DEF Report, TypeOK, WorkersOK, MutexInv, IdleWork
  <2> QED BY <1>2, <2>2, <2>3, MutexStable DEF Report
<1>3. ASSUME work[c][w].pc # "idle", Throw(c, w) PROVE MutexInv'
  BY <1>3, MutexThrow
<1>4. ASSUME work[c][w].pc # "idle", NEW r, work' = [work EXCEPT ![c][w] = r],
             UNCHANGED <<isSyncing, call>>
      PROVE  MutexInv'
  BY <1>4, MutexWork DEF MutexInv
<1>5. CASE RemoteFault(c, w)
  BY <1>3, <1>5 DEF RemoteFault
<1>6. CASE ReadLocal(c, w)
  BY <1>3, <1>4, <1>6 DEF ReadLocal
<1>7. CASE ReadRemote(c, w)
  BY <1>3, <1>4, <1>7 DEF ReadRemote
<1>8. CASE ConflictRead(c, w)
  <2>1. CASE work[c][w].path \in DOMAIN remote
    BY <1>4, <1>8, <2>1 DEF ConflictRead
  <2>2. CASE work[c][w].path \notin DOMAIN remote
    BY <1>3, <1>8, <2>2 DEF ConflictRead
  <2> QED BY <2>1, <2>2
<1>9. ASSUME Goto(c, w, "report"), work[c][w].pc # "idle", UNCHANGED <<isSyncing, call>>
      PROVE  MutexInv'
  BY <1>4, <1>9 DEF Goto
<1>10. CASE \/ PushWrite(c, w) \/ PullWrite(c, w) \/ DeleteLocal(c, w)
            \/ DeleteRemote(c, w) \/ Unsync(c, w) \/ Overwrite(c, w)
  BY <1>3, <1>9, <1>10
     DEF PushWrite, PullWrite, DeleteLocal, DeleteRemote, Unsync, Overwrite
<1>11. CASE CopyLocal(c, w) \/ CopyRemote(c, w) \/ DropStale(c, w)
  BY <1>4, <1>11 DEF CopyLocal, CopyRemote, DropStale
<1> QED
  BY <1>1, <1>2, <1>5, <1>6, <1>7, <1>8, <1>10, <1>11 DEF WorkerStep

LEMMA MutexInvocation ==
  ASSUME TypeOK, MutexInv, NEW c \in Slot,
         \/ StartFull(c) \/ \E p \in UserPath : StartSingle(c, p)
         \/ CallStep(c) \/ ListFault(c)
  PROVE  MutexInv'
<1>1. /\ call = [d \in Slot |-> call[d]] /\ \A d \in Slot : IsCall(call[d])
      /\ work = [d \in Slot |-> [v \in Worker |-> work[d][v]]]
  BY DEF TypeOK, CallsOK, WorkersOK
<1>2. ASSUME NEW r, call' = [call EXCEPT ![c] = r], r.phase = "listLocal", ~r.failed,
             Free(c), ~isSyncing, isSyncing', UNCHANGED work
      PROVE  MutexInv'
  BY <1>1, <1>2 DEF MutexInv, MutexHeld, Holds, Busy, Free
<1>3. CASE StartFull(c)
  <2> DEFINE r == [IdleCall EXCEPT !.kind = "full", !.phase = "listLocal"]
  <2>1. r.phase = "listLocal" /\ ~r.failed
    BY DEF IdleCall
  <2> QED BY <1>2, <1>3, <2>1 DEF StartFull
<1>4. ASSUME NEW p \in UserPath, StartSingle(c, p) PROVE MutexInv'
  <2> DEFINE r == [IdleCall EXCEPT !.kind = "single", !.phase = "listLocal", !.todo = {p}]
  <2>1. r.phase = "listLocal" /\ ~r.failed
    BY DEF IdleCall
  <2> QED BY <1>2, <1>4, <2>1 DEF StartSingle
<1>5. ASSUME NEW r, call' = [call EXCEPT ![c] = r], r.phase \in {"listRemote", "process"},
             ~r.failed, call[c].phase \in {"listLocal", "listRemote"},
             UNCHANGED <<isSyncing, work>>
      PROVE  MutexInv'
  BY <1>1, <1>5 DEF MutexInv, MutexHeld, Holds, Busy
<1>6. CASE ListLocal(c)
  <2> DEFINE r == [call[c] EXCEPT !.phase = "listRemote", !.plist = Listing(local)]
  <2>1. r.phase = "listRemote" /\ ~r.failed
    BY <1>1, <1>6 DEF IsCall, ListLocal, MutexInv
  <2>2. call' = [call EXCEPT ![c] = r]
    BY <1>6 DEF ListLocal
  <2> QED BY <1>5, <1>6, <2>1, <2>2 DEF ListLocal
<1>7. CASE ListRemote(c)
  <2>1. PICK todo, noSync :
          call' = [call EXCEPT ![c] = [call[c] EXCEPT !.phase = "process",
                     !.slist = Listing(remote), !.noSync = noSync, !.todo = todo]]
    BY <1>7 DEF ListRemote
  <2> DEFINE r == [call[c] EXCEPT !.phase = "process",
                     !.slist = Listing(remote), !.noSync = noSync, !.todo = todo]
  <2>2. r.phase = "process" /\ ~r.failed
    BY <1>1, <1>7 DEF IsCall, ListRemote, MutexInv
  <2> QED BY <1>5, <1>7, <2>1, <2>2 DEF ListRemote
<1>8. CASE ListFault(c)
  <2>1. Holds(c)
    BY <1>8 DEF ListFault, MutexInv, Holds, Busy
  <2> QED
    BY <1>1, <1>8, <2>1 DEF ListFault, Release, MutexInv, MutexHeld, Holds, Busy, IdleCall
<1>9. CASE Finish(c)
  <2>1. /\ \A d \in Slot \ {c} : call'[d] = call[d]
        /\ call'[c].phase = "idle" /\ ~call'[c].failed
        /\ \A d \in Slot \ {c}, v \in Worker : work'[d][v] = work[d][v]
        /\ \A v \in Worker : work'[c][v].pc = "idle"
    BY <1>1, <1>9 DEF Finish, IdleCall, IdleWork
  <2>2. CASE call[c].failed
    BY <1>9, <2>1, <2>2 DEF Finish, MutexInv, MutexHeld, Holds, Busy
  <2>3. CASE ~call[c].failed
    <3>1. Holds(c) /\ ~isSyncing'
      BY <1>9, <2>3 DEF Finish, Release, Holds, Busy
    <3> QED BY <2>1, <3>1 DEF MutexInv, MutexHeld, Holds, Busy
  <2> QED BY <2>2, <2>3
<1> QED BY <1>3, <1>4, <1>6, <1>7, <1>8, <1>9 DEF CallStep

LEMMA MutexAlways == Spec => []MutexInv
<1>1. Init => MutexInv
  BY DEF Init, MutexInv, MutexHeld, Holds, Busy, IdleCall, IdleWork
<1>2. TypeOK /\ MutexInv /\ [Next]_vars => MutexInv'
  <2> SUFFICES ASSUME TypeOK, MutexInv, [Next]_vars PROVE MutexInv'
    OBVIOUS
  <2>1. ASSUME UNCHANGED control PROVE MutexInv'
    BY <2>1 DEF control, MutexInv, MutexHeld, Holds, Busy
  <2>2. CASE Restart
    BY <2>2 DEF Restart, MutexInv, MutexHeld, Holds, Busy, IdleCall, IdleWork
  <2>3. ASSUME NEW p \in UserPath,
               \/ LocalWrite(p) \/ LocalDelete(p) \/ RemoteWrite(p) \/ RemoteDelete(p)
               \/ SilentChange(p)
        PROVE  MutexInv'
    BY <2>1, <2>3 DEF LocalWrite, LocalDelete, RemoteWrite, RemoteDelete, SilentChange
  <2>4. CASE SetSyncConfig \/ UNCHANGED vars
    BY <2>1, <2>4 DEF SetSyncConfig, vars
  <2> QED
    BY <2>2, <2>3, <2>4, MutexWorker, MutexInvocation DEF Next, Environment
<1> QED BY <1>1, <1>2, TypeCorrect, PTL DEF Spec

\* isSyncing is set exactly while one invocation that has not thrown is under
\* way, however many have failed and still run, and across restarts.
THEOREM MutexCorrect == Spec => []MutexHeld
<1>1. MutexInv => MutexHeld
  BY DEF MutexInv
<1> QED BY <1>1, MutexAlways, PTL

-----------------------------------------------------------------------------
(* The snapshot.  Agreement follows from StampInv: stamps name contents, and   *)
(* both stamps of a snapshot entry name the same content.  It takes an         *)
(* environment that changes no file behind its stamp.                          *)

Grows == /\ hist \in Seq(Nat)
         /\ hist' = hist \/ \E d \in Nat : hist' = Append(hist, d)

\* Stamps keep their meaning as the history grows, and so does all that is
\* said of them.
LEMMA StampsKept ==
  ASSUME Grows
  PROVE  /\ \A t : IsStamp(t) => IsStamp(t)' /\ hist'[t] = hist[t]
         /\ \A f : Stamped(f) => Stamped(f)'
         /\ \A i : SameContent(i) => SameContent(i)'
         /\ \A s : StampedStore(s) => StampedStore(s)'
         /\ \A l : StampedList(l) => StampedList(l)'
         /\ \A r : StampedWork(r) => StampedWork(r)'
<1>1. \A t : IsStamp(t) => IsStamp(t)' /\ hist'[t] = hist[t]
  <2>1. CASE hist' = hist
    BY <2>1 DEF IsStamp
  <2>2. ASSUME NEW d \in Nat, hist' = Append(hist, d)
        PROVE  \A t : IsStamp(t) => IsStamp(t)' /\ hist'[t] = hist[t]
    BY <2>2, HistGrows DEF IsStamp, Grows
  <2> QED BY <2>1, <2>2 DEF Grows
<1>2. \A f : Stamped(f) => Stamped(f)'
  BY <1>1 DEF Stamped
<1>3. \A i : SameContent(i) => SameContent(i)'
  BY <1>1 DEF SameContent
<1>4. \A s : StampedStore(s) => StampedStore(s)'
  BY <1>2 DEF StampedStore
<1>5. \A l : StampedList(l) => StampedList(l)'
  BY <1>1 DEF StampedList
<1>6. \A r : StampedWork(r) => StampedWork(r)'
  BY <1>1, <1>2 DEF StampedWork
<1> QED BY <1>1, <1>2, <1>3, <1>4, <1>5, <1>6

LEMMA StampedMaps ==
  ASSUME Grows
  PROVE  /\ \A s, p, f : StampedStore(s) /\ Stamped(f)' => StampedStore(Put(s, p, f))'
         /\ \A s, p : StampedStore(s) => StampedStore(Drop(s, p))'
         /\ \A m, p, i : SameContents(m) /\ SameContent(i)' => SameContents(Put(m, p, i))'
         /\ \A m, p : SameContents(m) => SameContents(Drop(m, p))'
BY StampsKept DEF StampedStore, SameContents, Put, Drop

\* The stamp of a new write names its content.
LEMMA NewStamp ==
  ASSUME hist \in Seq(Nat), NEW d \in Nat, hist' = Append(hist, d)
  PROVE  /\ Grows
         /\ \A t : t = Now => IsStamp(t)' /\ hist'[t] = d
         /\ \A t : t = Now => Stamped([lm |-> t, data |-> d])'
<1>1. Grows
  BY DEF Grows
<1>2. \A t : t = Now => IsStamp(t)' /\ hist'[t] = d
  BY HistGrows DEF IsStamp, Now
<1> QED BY <1>1, <1>2 DEF Stamped

\* What a step must show of each part it changes.
LEMMA StampFrame ==
  ASSUME StampInv, Grows,
         local' = local \/ StampedStore(local)',
         remote' = remote \/ StampedStore(remote)',
         files' = files \/ SameContents(files)',
         saved' = saved \/ saved' = Snap,
         \A c \in Slot : call'[c].slist = call[c].slist \/ StampedList(call[c].slist)',
         \A c \in Slot, w \in Worker :
           work'[c][w] = work[c][w] \/ StampedWork(work[c][w])'
  PROVE  StampInv'
<1>1. StampedStore(local)' /\ StampedStore(remote)'
  BY StampsKept DEF StampInv
<1>2. SameContents(files)'
  BY StampsKept DEF StampInv, SameContents
<1>3. SameContents(saved.files)'
  BY StampsKept DEF StampInv, SameContents, Snap
<1>4. \A c \in Slot : StampedList(call[c].slist)'
  BY StampsKept DEF StampInv
<1>5. \A c \in Slot, w \in Worker : StampedWork(work[c][w])'
  BY StampsKept DEF StampInv
<1> QED BY <1>1, <1>2, <1>3, <1>4, <1>5 DEF StampInv

LEMMA StampWork ==
  ASSUME WorkersOK, NEW c \in Slot, NEW w \in Worker, NEW r, StampedWork(r)',
         work' = [work EXCEPT ![c][w] = r]
  PROVE  \A d \in Slot, v \in Worker :
           work'[d][v] = work[d][v] \/ StampedWork(work[d][v])'
<1>1. \A d \in Slot, v \in Worker : work'[d][v] = work[d][v] \/ work'[d][v] = r
  BY DEF WorkersOK
<1> QED BY <1>1 DEF StampedWork

\* A worker with nothing in its hands.
LEMMA StampIdle ==
  \A r : r.pc \notin {"pushWrite", "conflictRead", "copyLocal", "copyRemote", "overwrite",
                     "pullWrite", "stdWrite"} => StampedWork(r)'
BY DEF StampedWork

LEMMA StampGoto ==
  ASSUME WorkersOK, NEW c \in Slot, NEW w \in Worker, Goto(c, w, "report")
  PROVE  \A d \in Slot, v \in Worker :
           work'[d][v] = work[d][v] \/ StampedWork(work[d][v])'
<1> DEFINE r == [work[c][w] EXCEPT !.pc = "report"]
<1>1. r.pc = "report" /\ work' = [work EXCEPT ![c][w] = r]
  BY DEF Goto, WorkersOK, IsWork
<1> HIDE DEF r
<1>2. \A x : x = r => StampedWork(x)'
  BY <1>1, StampIdle
<1> QED BY <1>1, <1>2, StampWork

LEMMA StampThrow ==
  ASSUME TypeOK, NEW c \in Slot, NEW w \in Worker, Throw(c, w)
  PROVE  /\ saved' = saved \/ saved' = Snap
         /\ \A d \in Slot : call'[d].slist = call[d].slist
         /\ \A d \in Slot, v \in Worker :
              work'[d][v] = work[d][v] \/ StampedWork(work[d][v])'
<1>1. saved' = saved \/ saved' = Snap
  BY DEF Throw, Release
<1>2. \A d \in Slot : call'[d].slist = call[d].slist
  <2>1. call' = [call EXCEPT ![c] = [call[c] EXCEPT !.failed = TRUE]]
    BY DEF Throw
  <2> QED BY <2>1 DEF TypeOK, CallsOK, IsCall
<1>3. \A d \in Slot, v \in Worker :
        work'[d][v] = work[d][v] \/ StampedWork(work[d][v])'
  <2> DEFINE r == [IdleWork EXCEPT !.pc = "dead"]
  <2>1. r.pc = "dead" /\ work' = [work EXCEPT ![c][w] = r]
    BY DEF IdleWork, Throw
  <2> HIDE DEF r
  <2>2. StampedWork(r)'
    BY <2>1, StampIdle
  <2> QED BY <2>1, <2>2, StampWork DEF TypeOK
<1> QED BY <1>1, <1>2, <1>3

LEMMA StampBegin ==
  ASSUME TypeOK, StampInv, NEW c \in Slot, NEW w \in Worker, Begin(c, w)
  PROVE  StampInv'
<1>1. PICK p \in call[c].todo :
        LET sm == Lookup(call[c].slist, p, NoMeta)
            d  == Decision(Lookup(call[c].plist, p, NoMeta), sm,
                           Lookup(files, p, NoItem), p \in nonSynced,
                           p \notin call[c].noSync)
        IN /\ call' = [call EXCEPT ![c].todo = @ \ {p}]
           /\ files' = FilesAtOnce(d, p, sm)
           /\ nonSynced' = MarksAtOnce(d, p)
           /\ work' = [work EXCEPT ![c][w] = WorkOn(d, p)]
  BY DEF Begin
<1> DEFINE sm == Lookup(call[c].slist, p, NoMeta)
           d  == Decision(Lookup(call[c].plist, p, NoMeta), sm,
                          Lookup(files, p, NoItem), p \in nonSynced,
                          p \notin call[c].noSync)
<1>2. d \in Decisions /\ (d \in {"note", "dropStale"} => sm # NoMeta)
  <2>1. (p \in nonSynced) \in BOOLEAN /\ (p \notin call[c].noSync) \in BOOLEAN
    OBVIOUS
  <2> QED BY <2>1, DecisionRange, Zenon
<1>3. sm # NoMeta => IsStamp(sm.lm)
  BY DEF Lookup, StampInv, StampedList
<1>4. /\ call' = [call EXCEPT ![c] = [call[c] EXCEPT !.todo = @ \ {p}]]
      /\ files' = FilesAtOnce(d, p, sm)
      /\ work' = [work EXCEPT ![c][w] = WorkOn(d, p)]
  BY <1>1
<1> HIDE DEF d, sm
<1>5. Grows
  BY DEF Grows, Begin, stores, TypeOK, StoresOK
<1>6. files' = files \/ SameContents(files)'
  <2>1. CASE files' = files
    BY <2>1
  <2>2. CASE files' = Drop(files, p)
    BY <2>2, <1>5, StampedMaps DEF StampInv, SameContents
  <2>3. CASE sm # NoMeta /\ files' = Put(files, p, <<sm.lm, sm.lm>>)
    <3>1. SameContent(<<sm.lm, sm.lm>>)
      BY <1>3, <2>3 DEF SameContent
    <3>2. \A i : i = <<sm.lm, sm.lm>> => SameContent(i)'
      BY <3>1, <1>5, StampsKept
    <3> QED BY <2>3, <3>2, <1>5, StampedMaps DEF StampInv, SameContents
  <2> QED BY <1>2, <1>4, <2>1, <2>2, <2>3 DEF FilesAtOnce
<1>7. \A e \in Slot : call'[e].slist = call[e].slist
  BY <1>4 DEF TypeOK, CallsOK, IsCall
<1>8. \A e \in Slot, v \in Worker :
        work'[e][v] = work[e][v] \/ StampedWork(work[e][v])'
  <2>1. WorkOn(d, p).pc \in {"idle", "report", "std"} \cup Decisions
    BY <1>2 DEF WorkOn, IdleWork, Decisions
  <2>2. \A r : r = WorkOn(d, p) => StampedWork(r)'
    BY <2>1, StampIdle DEF Decisions
  <2> QED BY <1>4, <2>2, StampWork DEF TypeOK
<1> QED BY <1>5, <1>6, <1>7, <1>8, StampFrame DEF Begin, StampInv, stores

\* The steps that take a file into a worker's hands.
LEMMA StampRead ==
  ASSUME TypeOK, StampInv, NEW c \in Slot, NEW w \in Worker,
         \/ ReadLocal(c, w) \/ ReadRemote(c, w) \/ ConflictRead(c, w)
         \/ DropStale(c, w) \/ Report(c, w)
  PROVE  StampInv'
<1> DEFINE r == work[c][w]  p == work[c][w].path
<1>1. Grows
  BY DEF Grows, ReadLocal, ReadRemote, ConflictRead, DropStale, Report, stores,
     TypeOK, StoresOK
<1>2. IsWork(r) /\ WorkersOK
  BY DEF TypeOK, WorkersOK, StampInv
<1>3. ASSUME Throw(c, w), UNCHANGED <<stores, snapshot, budget>> PROVE StampInv'
  BY <1>1, <1>2, <1>3, StampThrow, StampFrame DEF stores, snapshot
<1>4. ASSUME NEW x, StampedWork(x), work' = [work EXCEPT ![c][w] = x],
             UNCHANGED <<remote, hist, call, budget>>,
             saved' = saved \/ saved' = Snap,
             local' = local \/ StampedStore(local)',
             files' = files \/ SameContents(files)'
      PROVE  StampInv'
  <2>1. StampedWork(x)'
    BY <1>1, <1>4, StampsKept
  <2> QED BY <1>1, <1>2, <1>4, <2>1, StampWork, StampFrame
<1>5. CASE ReadLocal(c, w) /\ p \in DOMAIN local
  <2>0. PICK pc \in {"pushWrite", "conflictRead"} :
          work' = [work EXCEPT ![c][w] = [r EXCEPT !.a = local[p], !.pc = pc]]
    BY <1>5 DEF ReadLocal
  <2> DEFINE x == [r EXCEPT !.a = local[p], !.pc = pc]
  <2>1. x.a = local[p] /\ x.pc \in {"pushWrite", "conflictRead"}
    BY <1>2 DEF IsWork
  <2>2. work' = [work EXCEPT ![c][w] = x] /\ UNCHANGED <<stores, call, files, saved, budget>>
    BY <1>5, <2>0 DEF ReadLocal, snapshot
  <2>3. Stamped(local[p])
    BY <1>5 DEF StampInv, StampedStore
  <2> HIDE DEF x
  <2>4. StampedWork(x)
    BY <2>1, <2>3 DEF StampedWork
  <2> QED BY <1>4, <2>2, <2>4 DEF stores
<1>6. CASE ReadRemote(c, w) /\ p \in DOMAIN remote
  <2>0. PICK pc \in {"pullWrite", "stdWrite"} :
          work' = [work EXCEPT ![c][w] = [r EXCEPT !.b = remote[p], !.pc = pc]]
    BY <1>6 DEF ReadRemote
  <2> DEFINE x == [r EXCEPT !.b = remote[p], !.pc = pc]
  <2>1. x.b = remote[p] /\ x.pc \in {"pullWrite", "stdWrite"}
    BY <1>2 DEF IsWork
  <2>2. work' = [work EXCEPT ![c][w] = x] /\ UNCHANGED <<stores, call, files, saved, budget>>
    BY <1>6, <2>0 DEF ReadRemote, snapshot
  <2>3. Stamped(remote[p])
    BY <1>6 DEF StampInv, StampedStore
  <2> HIDE DEF x
  <2>4. StampedWork(x)
    BY <2>1, <2>3 DEF StampedWork
  <2> QED BY <1>4, <2>2, <2>4 DEF stores
<1>7. CASE \/ ReadLocal(c, w) /\ p \notin DOMAIN local
           \/ ReadRemote(c, w) /\ p \notin DOMAIN remote
           \/ ConflictRead(c, w) /\ p \notin DOMAIN remote
  BY <1>3, <1>7 DEF ReadLocal, ReadRemote, ConflictRead, snapshot
<1>8. StampedWork(IdleWork)
  BY DEF StampedWork, IdleWork
<1>9. CASE ConflictRead(c, w) /\ p \in DOMAIN remote /\ remote[p].data = r.a.data
  <2>1. Stamped(r.a) /\ Stamped(remote[p])
    BY <1>9 DEF ConflictRead, StampInv, StampedStore, StampedWork
  <2>2. SameContent(<<r.a.lm, remote[p].lm>>)
    BY <1>9, <2>1 DEF SameContent, Stamped
  <2>3. files' = Put(files, p, <<r.a.lm, remote[p].lm>>)
    BY <1>9 DEF ConflictRead
  <2>4. \A i : i = <<r.a.lm, remote[p].lm>> => SameContent(i)'
    BY <1>1, <2>2, StampsKept
  <2>5. SameContents(files)'
    BY <1>1, <2>3, <2>4, StampedMaps DEF StampInv, SameContents
  <2> QED BY <1>4, <1>8, <1>9, <2>5 DEF ConflictRead, stores
<1>10. CASE ConflictRead(c, w) /\ p \in DOMAIN remote /\ remote[p].data # r.a.data
  <2> DEFINE x == [r EXCEPT !.b = remote[p], !.pc = "copyLocal"]
  <2>1. x.b = remote[p] /\ x.pc = "copyLocal" /\ x.a = r.a
    BY <1>2 DEF IsWork
  <2>2. work' = [work EXCEPT ![c][w] = x] /\ UNCHANGED <<stores, call, files, saved, budget>>
    BY <1>10 DEF ConflictRead, snapshot
  <2>3. Stamped(remote[p]) /\ Stamped(r.a)
    BY <1>10 DEF ConflictRead, StampInv, StampedStore, StampedWork
  <2> HIDE DEF x
  <2>4. StampedWork(x)
    BY <2>1, <2>3 DEF StampedWork
  <2> QED BY <1>4, <2>2, <2>4 DEF stores
<1>11. CASE DropStale(c, w)
  <2>1. PICK x : work' = [work EXCEPT ![c][w] = x] /\ x.pc \in {"idle", "report"}
    <3>1. [r EXCEPT !.pc = "report"].pc = "report" /\ IdleWork.pc = "idle"
      BY <1>2 DEF IsWork, IdleWork
    <3> QED BY <1>11, <3>1 DEF DropStale
  <2>2. StampedWork(x)
    BY <2>1 DEF StampedWork
  <2>3. StampedStore(local)'
    BY <1>1, <1>11, StampedMaps DEF DropStale, StampInv
  <2> QED BY <1>4, <1>11, <2>1, <2>2, <2>3 DEF DropStale, snapshot
<1>12. CASE Report(c, w)
  <2>1. call' = [call EXCEPT ![c] = [call[c] EXCEPT !.changed = TRUE]]
    BY <1>12 DEF Report
  <2>2. \A d \in Slot : call'[d].slist = call[d].slist
    BY <2>1 DEF TypeOK, CallsOK, IsCall
  <2>3. \A d \in Slot, v \in Worker : work'[d][v] = work[d][v] \/ StampedWork(work[d][v])'
    <3>1. StampedWork(IdleWork)'
      BY <1>1, <1>8, StampsKept
    <3> QED BY <1>2, <1>12, <3>1, StampWork DEF Report
  <2> QED BY <1>1, <1>2, <1>12, <2>2, <2>3, StampFrame DEF Report, stores, snapshot
<1> QED BY <1>5, <1>6, <1>7, <1>9, <1>10, <1>11, <1>12

\* The steps that write a file to a store, or remove one.
LEMMA StampWrite ==
  ASSUME TypeOK, StampInv, NEW c \in Slot, NEW w \in Worker,
         \/ PushWrite(c, w) \/ PullWrite(c, w) \/ DeleteLocal(c, w)
         \/ DeleteRemote(c, w) \/ Unsync(c, w)
  PROVE  StampInv'
<1> DEFINE r == work[c][w]
<1>1. Grows
  BY DEF Grows, PushWrite, PullWrite, DeleteLocal, DeleteRemote, Unsync, TypeOK, StoresOK
<1>2. WorkersOK /\ StampedWork(r)
  BY DEF TypeOK, StampInv
<1>3. ASSUME Throw(c, w), UNCHANGED <<stores, files, budget>> PROVE StampInv'
  BY <1>1, <1>2, <1>3, StampThrow, StampFrame DEF stores
<1>4. ASSUME Goto(c, w, "report"), UNCHANGED <<saved, call, budget>>,
             local' = local \/ StampedStore(local)',
             remote' = remote \/ StampedStore(remote)',
             files' = files \/ SameContents(files)'
      PROVE  StampInv'
  BY <1>1, <1>2, <1>4, StampGoto, StampFrame
<1>5. \A i : i \in {<<r.a.lm, r.a.lm>>, <<r.b.lm, r.b.lm>>} /\ IsStamp(i[1])
              => SameContent(i)'
  <2>1. ASSUME NEW i, i \in {<<r.a.lm, r.a.lm>>, <<r.b.lm, r.b.lm>>}, IsStamp(i[1])
        PROVE  SameContent(i)
    BY <2>1 DEF SameContent
  <2> QED BY <1>1, <2>1, StampsKept
<1>6. CASE PushWrite(c, w)
  <2>1. Stamped(r.a)
    BY <1>2, <1>6 DEF PushWrite, StampedWork
  <2>2. \A f : f = r.a => Stamped(f)'
    BY <1>1, <2>1, StampsKept
  <2>3. StampedStore(remote)'
    BY <1>1, <1>6, <2>2, StampedMaps DEF PushWrite, StampInv
  <2>4. SameContents(files)'
    <3>1. files' = Put(files, r.path, <<r.a.lm, r.a.lm>>)
      BY <1>6 DEF PushWrite, Pushed
    <3>2. \A i : i = <<r.a.lm, r.a.lm>> => SameContent(i)'
      BY <1>5, <2>1 DEF Stamped
    <3> QED BY <1>1, <3>1, <3>2, StampedMaps DEF StampInv
  <2> QED BY <1>4, <1>6, <2>3, <2>4 DEF PushWrite
<1>7. CASE PullWrite(c, w)
  <2>1. Stamped(r.b)
    BY <1>2, <1>7 DEF PullWrite, StampedWork
  <2>2. \A f : f = r.b => Stamped(f)'
    BY <1>1, <2>1, StampsKept
  <2>3. StampedStore(local)'
    BY <1>1, <1>7, <2>2, StampedMaps DEF PullWrite, StampInv
  <2>4. SameContents(files)'
    <3>1. files' = Put(files, r.path, <<r.b.lm, r.b.lm>>)
      BY <1>7 DEF PullWrite
    <3>2. \A i : i = <<r.b.lm, r.b.lm>> => SameContent(i)'
      BY <1>5, <2>1 DEF Stamped
    <3> QED BY <1>1, <3>1, <3>2, StampedMaps DEF StampInv
  <2> QED BY <1>4, <1>7, <2>3, <2>4 DEF PullWrite
<1>8. CASE DeleteLocal(c, w)
  <2>1. StampedStore(local)' \/ local' = local
    BY <1>1, <1>8, StampedMaps DEF DeleteLocal, StampInv
  <2> QED BY <1>3, <1>4, <1>8, <2>1 DEF DeleteLocal, stores, snapshot
<1>9. CASE DeleteRemote(c, w)
  <2>1. StampedStore(remote)' \/ remote' = remote
    BY <1>1, <1>9, StampedMaps DEF DeleteRemote, StampInv
  <2>2. SameContents(files)' \/ files' = files
    BY <1>1, <1>9, StampedMaps DEF DeleteRemote, StampInv, snapshot
  <2> QED BY <1>3, <1>4, <1>9, <2>1, <2>2 DEF DeleteRemote, stores, snapshot
<1>10. CASE Unsync(c, w)
  <2>1. StampedStore(local)' \/ local' = local
    BY <1>1, <1>10, StampedMaps DEF Unsync, StampInv
  <2> QED BY <1>3, <1>4, <1>10, <2>1 DEF Unsync, stores
<1> QED BY <1>6, <1>7, <1>8, <1>9, <1>10

\* The writes of a conflict, each with a new stamp, and the faults, which may
\* leave such a write behind.
LEMMA StampConflict ==
  ASSUME TypeOK, StampInv, NEW c \in Slot, NEW w \in Worker,
         CopyLocal(c, w) \/ CopyRemote(c, w) \/ Overwrite(c, w)
  PROVE  StampInv'
<1> DEFINE r == work[c][w]
<1>1. /\ IsWork(r) /\ WorkersOK /\ StampedWork(r)
      /\ hist \in Seq(Nat) /\ r.a.data \in Nat /\ r.b.data \in Nat
  BY DEF TypeOK, StoresOK, WorkersOK, StampInv, IsWork
<1>2. CASE CopyLocal(c, w)
  <2>0. PICK d \in Nat : d = r.b.data /\ hist' = Append(hist, d)
    BY <1>1, <1>2 DEF CopyLocal
  <2>1. /\ Grows /\ \A t : t = Now => IsStamp(t)' /\ hist'[t] = d
        /\ \A t : t = Now => Stamped([lm |-> t, data |-> d])'
    BY <1>1, <2>0, NewStamp
  <2>2. StampedStore(local)'
    BY <1>2, <2>0, <2>1, StampedMaps DEF CopyLocal, StampInv
  <2> DEFINE x == [r EXCEPT !.copyA = Now, !.pc = "copyRemote"]
  <2>3. x.copyA = Now /\ x.pc = "copyRemote" /\ x.a = r.a /\ x.b = r.b
    BY <1>1 DEF IsWork
  <2>4. work' = [work EXCEPT ![c][w] = x]
    BY <1>2 DEF CopyLocal
  <2> HIDE DEF x
  <2>5. Stamped(r.a) /\ Stamped(r.b)
    BY <1>1, <1>2 DEF CopyLocal, StampedWork
  <2>6. \A y : y = x => StampedWork(y)'
    <3>1. \A f : Stamped(f) => Stamped(f)'
      BY <2>1, StampsKept
    <3> QED BY <2>0, <2>1, <2>3, <2>5, <3>1 DEF StampedWork
  <2> QED BY <1>1, <1>2, <2>1, <2>2, <2>4, <2>6, StampWork, StampFrame DEF CopyLocal, snapshot
<1>3. CASE CopyRemote(c, w)
  <2>0. PICK d \in Nat : d = r.b.data /\ hist' = Append(hist, d)
    BY <1>1, <1>3 DEF CopyRemote
  <2>1. /\ Grows /\ \A t : t = Now => IsStamp(t)' /\ hist'[t] = d
        /\ \A t : t = Now => Stamped([lm |-> t, data |-> d])'
    BY <1>1, <2>0, NewStamp
  <2>2. StampedStore(remote)'
    BY <1>3, <2>0, <2>1, StampedMaps DEF CopyRemote, StampInv
  <2> DEFINE x == [r EXCEPT !.copyB = Now, !.pc = "overwrite"]
  <2>3. x.copyB = Now /\ x.pc = "overwrite" /\ x.a = r.a /\ x.b = r.b /\ x.copyA = r.copyA
    BY <1>1 DEF IsWork
  <2>4. work' = [work EXCEPT ![c][w] = x]
    BY <1>3 DEF CopyRemote
  <2> HIDE DEF x
  <2>5. Stamped(r.a) /\ Stamped(r.b) /\ IsStamp(r.copyA) /\ hist[r.copyA] = r.b.data
    BY <1>1, <1>3 DEF CopyRemote, StampedWork
  <2>6. \A y : y = x => StampedWork(y)'
    <3>1. /\ \A f : Stamped(f) => Stamped(f)'
          /\ \A t : IsStamp(t) => IsStamp(t)' /\ hist'[t] = hist[t]
      BY <2>1, StampsKept
    <3> SUFFICES ASSUME NEW y, y = x PROVE StampedWork(y)'
      OBVIOUS
    <3>2. /\ y.pc = "overwrite" /\ Stamped(y.a)' /\ Stamped(y.b)'
          /\ y.copyA = r.copyA /\ y.copyB = Now /\ y.b.data = d
      BY <2>0, <2>3, <2>5, <3>1
    <3>3. IsStamp(y.copyA)' /\ hist'[y.copyA] = y.b.data
      BY <2>0, <2>5, <3>1, <3>2
    <3>4. IsStamp(y.copyB)' /\ hist'[y.copyB] = y.b.data
      BY <2>1, <3>2
    <3> QED BY <3>2, <3>3, <3>4 DEF StampedWork
  <2> QED BY <1>1, <1>3, <2>1, <2>2, <2>4, <2>6, StampWork, StampFrame DEF CopyRemote, snapshot
<1>4. CASE Overwrite(c, w)
  <2>0. PICK d \in Nat : d = r.a.data /\ hist' = Append(hist, d)
    BY <1>1, <1>4 DEF Overwrite
  <2>1. /\ Grows /\ \A t : t = Now => IsStamp(t)' /\ hist'[t] = d
        /\ \A t : t = Now => Stamped([lm |-> t, data |-> d])'
    BY <1>1, <2>0, NewStamp
  <2>2. StampedStore(remote)'
    <3>1. remote' = Put(remote, r.path, [lm |-> Now, data |-> d])
      BY <1>4, <2>0 DEF Overwrite
    <3> QED BY <2>1, <3>1, StampedMaps DEF StampInv
  <2>3. /\ Stamped(r.a) /\ IsStamp(r.copyA) /\ IsStamp(r.copyB)
        /\ hist[r.copyA] = hist[r.copyB]
    BY <1>1, <1>4 DEF Overwrite, StampedWork
  <2> DEFINE copied == Put(files, ConflictPath(r.path, r.b.lm), <<r.copyA, r.copyB>>)
  <2>4. \A m : m = copied => SameContents(m)'
    <3>1. SameContent(<<r.copyA, r.copyB>>)
      BY <2>3 DEF SameContent
    <3>2. \A i : i = <<r.copyA, r.copyB>> => SameContent(i)'
      BY <2>1, <3>1, StampsKept
    <3> QED BY <2>1, <3>2, StampedMaps DEF StampInv
  <2>5. \A i : i = <<r.a.lm, Now>> => SameContent(i)'
    <3>1. IsStamp(r.a.lm) /\ hist[r.a.lm] = r.a.data
      BY <2>3 DEF Stamped
    <3>2. \A t : t = r.a.lm => IsStamp(t)' /\ hist'[t] = r.a.data
      BY <2>1, <3>1, StampsKept
    <3>3. PICK s, n : s = r.a.lm /\ n = Now
      OBVIOUS
    <3>4. IsStamp(s)' /\ IsStamp(n)' /\ hist'[s] = hist'[n]
      BY <2>0, <2>1, <3>2, <3>3
    <3>5. SameContent(<<s, n>>)'
      BY <3>4 DEF SameContent
    <3> QED BY <3>3, <3>5
  <2>6. files' = Put(copied, r.path, <<r.a.lm, Now>>)
    BY <1>4 DEF Overwrite
  <2> HIDE DEF copied
  <2>7. SameContents(files)'
    BY <2>4, <2>5, <2>6 DEF SameContents, Put
  <2> QED
    BY <1>1, <1>4, <2>1, <2>2, <2>7, StampGoto, StampFrame DEF Overwrite
<1> QED BY <1>2, <1>3, <1>4

LEMMA StampFault ==
  ASSUME TypeOK, StampInv, NEW c \in Slot, NEW w \in Worker, RemoteFault(c, w)
  PROVE  StampInv'
<1> DEFINE r == work[c][w]
<1>1. /\ WorkersOK /\ StampedWork(r) /\ hist \in Seq(Nat)
      /\ r.a.data \in Nat /\ r.b.data \in Nat
  BY DEF TypeOK, StoresOK, WorkersOK, StampInv, IsWork
<1>2. Throw(c, w) /\ UNCHANGED <<local, files>>
  BY DEF RemoteFault, snapshot
<1>3. Grows /\ (remote' = remote \/ StampedStore(remote)')
  <2>1. CASE UNCHANGED <<remote, hist>>
    BY <1>1, <2>1 DEF Grows
  <2>2. CASE r.pc = "pushWrite" /\ remote' = Put(remote, r.path, r.a) /\ UNCHANGED hist
    <3>1. Grows
      BY <1>1, <2>2 DEF Grows
    <3>2. \A f : f = r.a => Stamped(f)'
      BY <1>1, <2>2, <3>1, StampsKept DEF StampedWork
    <3> QED BY <2>2, <3>1, <3>2, StampedMaps DEF StampInv
  <2>3. CASE remote' = Drop(remote, r.path) /\ UNCHANGED hist
    <3>1. Grows
      BY <1>1, <2>3 DEF Grows
    <3> QED BY <2>3, <3>1, StampedMaps DEF StampInv
  <2>4. ASSUME NEW p, NEW d \in Nat, remote' = Put(remote, p, [lm |-> Now, data |-> d]),
               hist' = Append(hist, d)
        PROVE  Grows /\ StampedStore(remote)'
    <3>1. Grows /\ \A t : t = Now => Stamped([lm |-> t, data |-> d])'
      BY <1>1, <2>4, NewStamp
    <3> QED BY <2>4, <3>1, StampedMaps DEF StampInv
  <2> QED BY <1>1, <2>1, <2>2, <2>3, <2>4 DEF RemoteFault
<1> QED BY <1>1, <1>2, <1>3, StampThrow, StampFrame

LEMMA StampInvocation ==
  ASSUME TypeOK, StampInv, NEW c \in Slot,
         \/ StartFull(c) \/ \E p \in UserPath : StartSingle(c, p)
         \/ CallStep(c) \/ ListFault(c)
  PROVE  StampInv'
<1>1. Grows /\ WorkersOK
  BY DEF Grows, TypeOK, StoresOK, EnvOK, StampInv, StartFull, StartSingle, CallStep,
     ListLocal, ListRemote, Finish, ListFault, stores, Kind
<1>2. UNCHANGED <<local, remote, files>> /\ (saved' = saved \/ saved' = Snap)
  BY DEF StartFull, StartSingle, CallStep, ListLocal, ListRemote, Finish, ListFault,
     Release, stores, snapshot
<1>3. \A d \in Slot, v \in Worker : work'[d][v] = work[d][v] \/ StampedWork(work[d][v])'
  <2>1. StampedWork(IdleWork)'
    BY StampIdle DEF IdleWork
  <2>2. CASE UNCHANGED work
    BY <2>2
  <2>3. CASE work' = [work EXCEPT ![c] = [w \in Worker |-> IdleWork]]
    <3>1. \A d \in Slot, v \in Worker :
            work'[d][v] = work[d][v] \/ work'[d][v] = IdleWork
      BY <1>1, <2>3 DEF WorkersOK
    <3> QED BY <2>1, <3>1 DEF StampedWork
  <2> QED
    BY <2>2, <2>3 DEF StartFull, StartSingle, CallStep, ListLocal, ListRemote, Finish, ListFault
<1>4. \A d \in Slot : call'[d].slist = call[d].slist \/ StampedList(call[d].slist)'
  <2>1. CallsOK /\ IsCall(call[c])
    BY DEF TypeOK, CallsOK
  <2>2. ASSUME NEW x, call' = [call EXCEPT ![c] = x],
               x.slist = call[c].slist \/ StampedList(x.slist)'
        PROVE  \A d \in Slot : call'[d].slist = call[d].slist \/ StampedList(call[d].slist)'
    <3>1. \A d \in Slot : call'[d] = call[d] \/ (d = c /\ call'[d] = x)
      BY <2>1, <2>2 DEF CallsOK
    <3> QED BY <2>2, <3>1 DEF StampedList
  <2>3. \A l : l = << >> => StampedList(l)'
    BY DEF StampedList
  <2>4. CASE StartFull(c)
    <3> DEFINE x == [IdleCall EXCEPT !.kind = "full", !.phase = "listLocal"]
    <3>1. x.slist = << >>
      BY DEF IdleCall
    <3> QED BY <2>2, <2>3, <2>4, <3>1 DEF StartFull
  <2>5. ASSUME NEW p \in UserPath, StartSingle(c, p)
        PROVE  \A d \in Slot : call'[d].slist = call[d].slist \/ StampedList(call[d].slist)'
    <3> DEFINE x == [IdleCall EXCEPT !.kind = "single", !.phase = "listLocal", !.todo = {p}]
    <3>1. x.slist = << >>
      BY DEF IdleCall
    <3> QED BY <2>2, <2>3, <2>5, <3>1 DEF StartSingle
  <2>6. CASE ListLocal(c)
    <3> DEFINE x == [call[c] EXCEPT !.phase = "listRemote", !.plist = Listing(local)]
    <3>1. x.slist = call[c].slist
      BY <2>1 DEF IsCall
    <3>2. call' = [call EXCEPT ![c] = x]
      BY <2>6 DEF ListLocal
    <3> HIDE DEF x
    <3> QED BY <2>2, <3>1, <3>2
  <2>7. CASE ListRemote(c)
    <3>1. PICK todo, noSync :
            call' = [call EXCEPT ![c] = [call[c] EXCEPT !.phase = "process",
                       !.slist = Listing(remote), !.noSync = noSync, !.todo = todo]]
      BY <2>7 DEF ListRemote
    <3> DEFINE x == [call[c] EXCEPT !.phase = "process",
                       !.slist = Listing(remote), !.noSync = noSync, !.todo = todo]
    <3>2. x.slist = Listing(remote)
      BY <2>1 DEF IsCall
    <3>3. StampedList(Listing(remote))
      BY DEF StampInv, StampedStore, Stamped, StampedList, Listing, Meta
    <3>4. \A l : l = Listing(remote) => StampedList(l)'
      BY <1>1, <3>3, StampsKept
    <3>5. call' = [call EXCEPT ![c] = x]
      BY <3>1
    <3> HIDE DEF x
    <3> QED BY <2>2, <3>2, <3>4, <3>5
  <2>8. CASE Finish(c) \/ ListFault(c)
    <3>1. IdleCall.slist = << >> /\ call' = [call EXCEPT ![c] = IdleCall]
      BY <2>8 DEF IdleCall, Finish, ListFault
    <3> QED BY <2>2, <2>3, <3>1
  <2> QED BY <2>4, <2>5, <2>6, <2>7, <2>8 DEF CallStep
<1> QED BY <1>1, <1>2, <1>3, <1>4, StampFrame

LEMMA StampEnvironment ==
  ASSUME "silent" \notin Troubles, TypeOK, StampInv, NEW p \in UserPath,
         \/ LocalWrite(p) \/ LocalDelete(p) \/ RemoteWrite(p) \/ RemoteDelete(p)
         \/ SilentChange(p)
  PROVE  StampInv'
<1>1. hist \in Seq(Nat) /\ Now \in Nat
  BY LenProperties DEF TypeOK, StoresOK, Now
<1>2. ~SilentChange(p)
  BY DEF SilentChange, Trouble
<1>3. UNCHANGED <<files, saved, call, work>>
  BY <1>2 DEF LocalWrite, LocalDelete, RemoteWrite, RemoteDelete, snapshot, control
<1>4. Grows /\ (local' = local \/ StampedStore(local)')
            /\ (remote' = remote \/ StampedStore(remote)')
  <2>1. CASE LocalDelete(p) \/ RemoteDelete(p)
    <3>1. Grows
      BY <1>1, <2>1 DEF Grows, LocalDelete, RemoteDelete
    <3> QED BY <2>1, <3>1, StampedMaps DEF LocalDelete, RemoteDelete, StampInv
  <2>2. CASE LocalWrite(p) \/ RemoteWrite(p)
    <3>1. hist' = Append(hist, Now)
      BY <2>2 DEF LocalWrite, RemoteWrite
    <3>2. PICK d \in Nat : d = Now /\ hist' = Append(hist, d)
      BY <1>1, <3>1
    <3>3. Grows /\ \A t : t = Now => Stamped([lm |-> t, data |-> d])'
      BY <1>1, <3>2, NewStamp
    <3> QED BY <2>2, <3>2, <3>3, StampedMaps DEF LocalWrite, RemoteWrite, StampInv
  <2> QED BY <1>2, <2>1, <2>2
<1> QED BY <1>3, <1>4, StampFrame

\* What the invariant says, and what follows from it.
LEMMA StampsAgree == StampInv => SnapshotAgreement
<1> SUFFICES ASSUME StampInv, NEW snap, SameContents(snap), NEW p \in DOMAIN snap,
                    p \in DOMAIN local, local[p].lm = snap[p][1],
                    p \in DOMAIN remote, remote[p].lm = snap[p][2]
             PROVE  local[p].data = remote[p].data
  BY DEF StampInv, SnapshotAgreement, Truthful
<1> QED BY DEF StampInv, StampedStore, Stamped, SameContents, SameContent

\* If no file changes behind its stamp, then in every state, with any number of
\* invocations overlapping, failing, and restarting, a snapshot that says two
\* files are in sync is right about it.
THEOREM StampsCorrect ==
  ASSUME "silent" \notin Troubles
  PROVE  Spec => []StampInv
<1>1. Init => StampInv
  BY StampIdle DEF Init, StampInv, StampedStore, SameContents, StampedList, StampedWork,
     Snap, IdleCall, IdleWork
<1>2. TypeOK /\ StampInv /\ [Next]_vars => StampInv'
  <2> SUFFICES ASSUME TypeOK, StampInv, [Next]_vars PROVE StampInv'
    OBVIOUS
  <2>1. ASSUME NEW c \in Slot, NEW w \in Worker, WorkerStep(c, w) PROVE StampInv'
    BY <2>1, StampBegin, StampRead, StampWrite, StampConflict DEF WorkerStep
  <2>2. CASE Restart
    <3>1. Grows
      BY <2>2 DEF Restart, Grows, TypeOK, StoresOK, stores
    <3>2. SameContents(files)'
      BY <2>2, <3>1, StampsKept DEF Restart, StampInv, SameContents
    <3>3. \A l : l = << >> => StampedList(l)'
      BY DEF StampedList
    <3>4. \A d \in Slot : StampedList(call[d].slist)'
      BY <2>2, <3>3 DEF Restart, IdleCall
    <3>5. \A d \in Slot, v \in Worker : StampedWork(work[d][v])'
      BY <2>2 DEF Restart, IdleWork, StampedWork
    <3> QED BY <2>2, <3>1, <3>2, <3>4, <3>5, StampFrame DEF Restart, stores
  <2>3. CASE SetSyncConfig
    <3>1. Grows
      BY <2>3 DEF SetSyncConfig, Grows, TypeOK, StoresOK, stores
    <3> QED BY <2>3, <3>1, StampFrame DEF SetSyncConfig, stores, snapshot, control
  <2>4. CASE UNCHANGED vars
    <3>1. Grows
      BY <2>4 DEF vars, Grows, TypeOK, StoresOK, stores
    <3> QED BY <2>4, <3>1, StampFrame DEF vars, stores, snapshot, control
  <2> QED
    BY <2>1, <2>2, <2>3, <2>4, StampInvocation, StampEnvironment, StampFault
       DEF Next, Environment
<1> QED BY <1>1, <1>2, TypeCorrect, PTL DEF Spec

THEOREM Agreement ==
  ASSUME "silent" \notin Troubles
  PROVE  Spec => []SnapshotAgreement
BY StampsCorrect, StampsAgree, PTL

-----------------------------------------------------------------------------
(* Sync removes no file that nobody deleted: SpaceSync's DeletionsJustified. *)


\* Someone is at work on a file.
Acting(r) == r.pc \notin {"idle", "dead"}

\* A file that exists has a stamp, so it is told from one that does not.
Dated ==
  /\ \A p \in DOMAIN local : local[p].lm # 0
  /\ \A p \in DOMAIN remote : remote[p].lm # 0
  /\ \A c \in Slot : /\ \A p \in DOMAIN call[c].plist : call[c].plist[p] # NoMeta
                     /\ \A p \in DOMAIN call[c].slist : call[c].slist[p] # NoMeta
  /\ \A c \in Slot, w \in Worker :
       /\ work[c][w].pc = "pushWrite" => work[c][w].a.lm # 0
       /\ work[c][w].pc \in {"pullWrite", "stdWrite"} => work[c][w].b.lm # 0

\* No path is in the hands of two workers, or also in the list.
Apart ==
  \A c \in Slot, w \in Worker : Acting(work[c][w]) =>
    /\ work[c][w].path \notin call[c].todo
    /\ \A v \in Worker \ {w} : Acting(work[c][v]) => work[c][v].path # work[c][w].path

\* Only one invocation is under way.
Alone == \A c, d \in Slot : Busy(c) /\ Busy(d) => c = d

\* A file nobody deleted: if the snapshot knows it, the server has it, and the
\* browser has it unless it is marked.  So it is for the snapshot that is
\* persisted, but for a mark that is not persisted yet.
InSnapshot(p) ==
  /\ p \in DOMAIN files => p \in DOMAIN remote /\ (p \in DOMAIN local \/ p \in nonSynced)
  /\ p \in DOMAIN saved.files =>
       /\ p \in DOMAIN remote
       /\ p \in DOMAIN local \/ p \in saved.nonSynced \/ p \in nonSynced

\* What an invocation has listed: a file that was missing when it looked is not
\* one that the snapshot holds to be there.
InLists(p, r) ==
  /\ r.phase = "process" =>
       /\ p \in DOMAIN r.slist => p \in DOMAIN remote
       /\ p \in r.todo /\ p \notin DOMAIN r.slist => p \notin DOMAIN files
  /\ r.phase = "listRemote" \/ (r.phase = "process" /\ p \in r.todo)
       => (p \notin DOMAIN r.plist /\ p \in DOMAIN files => p \in nonSynced)

\* What a worker holds: it is not about to delete the file.
InHand(p, r) ==
  /\ r.pc \notin {"deleteLocal", "deleteRemote"}
  /\ r.pc \in {"pushWrite", "conflictRead", "copyLocal", "copyRemote", "overwrite"}
       => p \in DOMAIN local
  /\ r.pc \in {"pullWrite", "stdWrite"} => p \in DOMAIN remote
  /\ r.pc = "dropStale" => p \in nonSynced

Safe(p) ==
  /\ InSnapshot(p)
  /\ \A c \in Slot : InLists(p, call[c])
  /\ \A c \in Slot, w \in Worker :
       Acting(work[c][w]) /\ work[c][w].path = p => InHand(p, work[c][w])

\* Only files that a configuration leaves out lose their local copy for it.
LeftOut ==
  \A c \in Slot, w \in Worker :
    work[c][w].pc \in {"dropStale", "unsync"} => work[c][w].path \in call[c].noSync

Guarded == overlap \/ (Alone /\ \A p \in UserPath \ deleted : Safe(p))
Kept == Apart /\ LeftOut /\ Guarded
DeletionInv == Dated /\ Kept

\* No user gives a file the name of a conflict copy.
NoCopyNames == \A p, lm : ConflictPath(p, lm) \notin UserPath

-----------------------------------------------------------------------------
(* What syncFile decides, and updates of the records. *)

LEMMA Decided ==
  ASSUME NEW pm, NEW sm, NEW item, NEW marked \in BOOLEAN, NEW syncBack \in BOOLEAN
  PROVE  LET d == Decision(pm, sm, item, marked, syncBack) IN
         /\ d \in Decisions
         /\ d \in {"note", "dropStale"} => sm # NoMeta
         /\ d \in {"forget", "deleteLocal", "forgetBoth"} => item # NoItem /\ sm = NoMeta
         /\ d = "deleteRemote" => item # NoItem /\ pm = NoMeta /\ ~marked
         /\ d \in {"dropStale", "unsync"} => ~syncBack
<1> DEFINE d == Decision(pm, sm, item, marked, syncBack)
<1>1. d \in Decisions /\ (d \in {"note", "dropStale"} => sm # NoMeta)
  BY DecisionRange
<1>2. /\ OnlyHere(item, marked) \in {"push", "forget", "deleteLocal"}
      /\ OnlyHere(item, marked) # "push" => item # NoItem
  BY DEF OnlyHere
<1>3. /\ OnlyThere(item, marked, syncBack) \in {"pull", "deleteRemote", "note", "mark"}
      /\ OnlyThere(item, marked, syncBack) = "deleteRemote" => item # NoItem /\ ~marked
  BY DEF OnlyThere
<1>4. /\ NoStampMoved(pm, sm, syncBack) \in {"unsync", "conflict", "none"}
      /\ NoStampMoved(pm, sm, syncBack) = "unsync" => ~syncBack
  BY DEF NoStampMoved
<1>5. /\ InBoth(pm, sm, item, syncBack)
           \in {"conflict", "push", "pull", "dropStale", "unsync", "none"}
      /\ InBoth(pm, sm, item, syncBack) \in {"dropStale", "unsync"} => ~syncBack
  <2> DEFINE here == pm.lm # item[1]
             there == sm.lm # item[2]
  <2>1. CASE item = NoItem \/ (here /\ there)
    BY <2>1 DEF InBoth
  <2>2. CASE item # NoItem /\ here /\ ~there
    BY <2>2 DEF InBoth
  <2>3. CASE item # NoItem /\ ~here /\ there
    BY <2>3 DEF InBoth
  <2>4. CASE item # NoItem /\ ~here /\ ~there
    BY <2>4, <1>4 DEF InBoth
  <2> QED BY <2>1, <2>2, <2>3, <2>4
<1>6. CASE pm # NoMeta /\ sm = NoMeta
  BY <1>1, <1>2, <1>6 DEF Decision
<1>7. CASE pm = NoMeta /\ sm # NoMeta
  BY <1>1, <1>3, <1>7 DEF Decision
<1>8. CASE pm # NoMeta /\ sm # NoMeta
  BY <1>1, <1>5, <1>8 DEF Decision
<1>9. CASE pm = NoMeta /\ sm = NoMeta
  BY <1>1, <1>9 DEF Decision
<1> QED BY <1>6, <1>7, <1>8, <1>9

\* What an update of one worker, or of one invocation, leaves alone.
LEMMA OneCall ==
  ASSUME TypeOK, NEW c \in Slot, NEW r, call' = [call EXCEPT ![c] = r]
  PROVE  call'[c] = r /\ \A d \in Slot : d # c => call'[d] = call[d]
BY DEF TypeOK, CallsOK

\* The fields of the records.
LEMMA Fields ==
  ASSUME TypeOK
  PROVE  /\ \A c \in Slot : IsCall(call[c])
         /\ \A c \in Slot, w \in Worker : IsWork(work[c][w])
BY DEF TypeOK, CallsOK, WorkersOK

LEMMA Maps ==
  /\ \A f, p, v : DOMAIN Put(f, p, v) = DOMAIN f \cup {p} /\ Put(f, p, v)[p] = v
                  /\ \A q \in DOMAIN f \ {p} : Put(f, p, v)[q] = f[q]
  /\ \A f, p : DOMAIN Drop(f, p) = DOMAIN f \ {p} /\ \A q \in DOMAIN f \ {p} : Drop(f, p)[q] = f[q]
BY DEF Put, Drop

-----------------------------------------------------------------------------
(* Steps of a worker. *)

\* What a step of worker w of c does, with s and r what is in its hands before
\* and after: it changes one path.
Does(c, w, p, r) ==
  /\ work' = [work EXCEPT ![c][w] = r]
  /\ \A d \in Slot : /\ call'[d].phase = call[d].phase
                     /\ call'[d].plist = call[d].plist /\ call'[d].slist = call[d].slist
                     /\ call'[d].noSync = call[d].noSync
                     /\ d # c => call'[d].todo = call[d].todo
  /\ call'[c].todo \in {call[c].todo, call[c].todo \ {p}}
  /\ UNCHANGED <<deleted, overlap>>
  /\ \A q \in UserPath : q # p =>
       /\ q \in DOMAIN local' <=> q \in DOMAIN local
       /\ q \in DOMAIN remote' <=> q \in DOMAIN remote
       /\ q \in DOMAIN files' <=> q \in DOMAIN files
       /\ q \in nonSynced' <=> q \in nonSynced
  /\ saved' \in {saved, Snap, Snap'}

\* Another path than that of the step.
LEMMA Elsewhere ==
  ASSUME TypeOK, NEW c \in Slot, NEW w \in Worker, NEW p, NEW r, Does(c, w, p, r),
         Acting(r) => r.path = p,
         NEW q \in UserPath, q # p, Safe(q)
  PROVE  Safe(q)'
<1>1. /\ q \in DOMAIN local' <=> q \in DOMAIN local
      /\ q \in DOMAIN remote' <=> q \in DOMAIN remote
      /\ q \in DOMAIN files' <=> q \in DOMAIN files
      /\ q \in nonSynced' <=> q \in nonSynced
  BY DEF Does
<1>0. /\ work'[c][w] = r
      /\ \A d \in Slot, v \in Worker : d # c \/ v # w => work'[d][v] = work[d][v]
  <2>1. work' = [work EXCEPT ![c][w] = r]
    BY DEF Does
  <2> QED BY <2>1 DEF TypeOK, WorkersOK
<1>2. InSnapshot(q)'
  <2>1. CASE saved' = saved
    BY <1>1, <2>1 DEF InSnapshot, Safe
  <2>2. CASE saved' = Snap
    BY <1>1, <2>2 DEF InSnapshot, Safe, Snap
  <2>3. CASE saved' = Snap'
    BY <1>1, <2>3 DEF InSnapshot, Safe, Snap
  <2> QED BY <2>1, <2>2, <2>3 DEF Does
<1>3. ASSUME NEW d \in Slot PROVE InLists(q, call[d])'
  <2>1. /\ call'[d].phase = call[d].phase
        /\ call'[d].plist = call[d].plist /\ call'[d].slist = call[d].slist
        /\ q \in call'[d].todo <=> q \in call[d].todo
    BY DEF Does
  <2>2. InLists(q, call[d])
    BY DEF Safe
  <2> QED BY <1>1, <2>1, <2>2 DEF InLists
<1>4. ASSUME NEW d \in Slot, NEW v \in Worker, Acting(work'[d][v]), work'[d][v].path = q
      PROVE  InHand(q, work[d][v])'
  <2>1. d # c \/ v # w
    BY <1>0, <1>4
  <2>2. work'[d][v] = work[d][v]
    BY <1>0, <2>1
  <2>3. InHand(q, work[d][v])
    BY <1>4, <2>2 DEF Safe
  <2> QED BY <1>1, <2>2, <2>3 DEF InHand
<1> QED BY <1>2, <1>3, <1>4 DEF Safe, Acting

\* The path of the step: nobody else has it, and it is not in the list any more.
LEMMA Here ==
  ASSUME TypeOK, MutexInv, Alone, Apart', NEW c \in Slot, NEW w \in Worker, NEW p \in UserPath,
         NEW r, Does(c, w, p, r), call[c].phase = "process", p \notin call'[c].todo,
         \A v \in Worker \ {w} : Acting(work[c][v]) => work[c][v].path # p,
         Safe(p), p \in DOMAIN remote => p \in DOMAIN remote',
         InSnapshot(p)', Acting(r) => InHand(p, r)'
  PROVE  Safe(p)'
<1>0. /\ work'[c][w] = r
      /\ \A d \in Slot, v \in Worker : d # c \/ v # w => work'[d][v] = work[d][v]
  <2>1. work' = [work EXCEPT ![c][w] = r]
    BY DEF Does
  <2> QED BY <2>1 DEF TypeOK, WorkersOK
<1>1. ASSUME NEW d \in Slot PROVE InLists(p, call[d])'
  <2>1. CASE d = c
    <3>1. /\ call'[c].phase = "process" /\ call'[c].slist = call[c].slist
          /\ InLists(p, call[c])
      BY DEF Does, Safe
    <3> QED BY <2>1, <3>1 DEF InLists
  <2>2. CASE d # c
    <3>1. ~Busy(d) /\ Busy(c)
      BY <2>2 DEF Alone, Busy
    <3>2. call'[d].phase = "idle"
      BY <3>1 DEF Busy, Does
    <3> QED BY <3>2 DEF InLists
  <2> QED BY <2>1, <2>2
<1>2. ASSUME NEW d \in Slot, NEW v \in Worker, Acting(work'[d][v]), work'[d][v].path = p
      PROVE  InHand(p, work[d][v])'
  <2>1. CASE d = c /\ v = w
    BY <1>0, <1>2, <2>1 DEF InHand
  <2>2. CASE d = c /\ v # w
    BY <1>0, <1>2, <2>2
  <2>3. CASE d # c
    <3>1. work'[d][v] = work[d][v]
      BY <1>0, <2>3
    <3>2. call[d].phase = "process"
      BY <1>2, <3>1 DEF MutexInv, Acting
    <3> QED BY <2>3, <3>2 DEF Alone, Busy
  <2> QED BY <2>1, <2>2, <2>3
<1> QED BY <1>1, <1>2 DEF Safe, Acting

\* Whose path p is: that of worker w alone, and no longer listed.
Owns(c, w, p, r) ==
  /\ call[c].phase = "process" /\ p \notin call'[c].todo
  /\ \A v \in Worker \ {w} : Acting(work[c][v]) => work[c][v].path # p
  /\ Acting(r) => r.path = p
  /\ r.pc \in {"dropStale", "unsync"} => p \in call[c].noSync

\* A step of a worker keeps the invariant if it does so for the worker's own path.
LEMMA WorkerKeeps ==
  ASSUME TypeOK, MutexInv, Apart, LeftOut, Guarded, NEW c \in Slot, NEW w \in Worker, NEW p,
         NEW r, Does(c, w, p, r), Owns(c, w, p, r),
         p \in UserPath \ deleted /\ Safe(p) =>
           /\ p \in DOMAIN remote => p \in DOMAIN remote'
           /\ InSnapshot(p)' /\ (Acting(r) => InHand(p, r)')
  PROVE  Apart' /\ LeftOut' /\ Guarded'
<1>1. /\ work'[c][w] = r
      /\ \A d \in Slot, v \in Worker : d # c \/ v # w => work'[d][v] = work[d][v]
  <2>1. work' = [work EXCEPT ![c][w] = r]
    BY DEF Does
  <2> QED BY <2>1 DEF TypeOK, WorkersOK
<1>2. Apart'
  <2> SUFFICES ASSUME NEW d \in Slot, NEW v \in Worker, Acting(work'[d][v])
               PROVE  /\ work'[d][v].path \notin call'[d].todo
                      /\ \A u \in Worker \ {v} :
                           Acting(work'[d][u]) => work'[d][u].path # work'[d][v].path
    BY DEF Apart, Acting
  <2>1. CASE d = c /\ v = w
    BY <1>1, <2>1 DEF Owns
  <2>2. CASE d = c /\ v # w
    <3>1. work'[c][v] = work[c][v] /\ work[c][v].path # p
      BY <1>1, <2>2 DEF Owns
    <3>2. work[c][v].path \notin call'[c].todo
      BY <2>2, <3>1 DEF Apart, Does
    <3>3. \A u \in Worker \ {v, w} : Acting(work'[c][u]) => work'[c][u].path # work'[c][v].path
      BY <1>1, <2>2, <3>1 DEF Apart
    <3>4. Acting(work'[c][w]) => work'[c][w].path # work'[c][v].path
      BY <1>1, <3>1 DEF Owns
    <3> QED BY <2>2, <3>1, <3>2, <3>3, <3>4
  <2>3. CASE d # c
    BY <1>1, <2>3 DEF Apart, Does
  <2> QED BY <2>1, <2>2, <2>3
<1>3. LeftOut'
  <2> SUFFICES ASSUME NEW d \in Slot, NEW v \in Worker,
                      work'[d][v].pc \in {"dropStale", "unsync"}
               PROVE  work'[d][v].path \in call'[d].noSync
    BY DEF LeftOut
  <2>1. call'[d].noSync = call[d].noSync
    BY DEF Does
  <2>2. CASE d = c /\ v = w
    BY <1>1, <2>1, <2>2 DEF Owns, Acting
  <2>3. CASE d # c \/ v # w
    BY <1>1, <2>1, <2>3 DEF LeftOut
  <2> QED BY <2>2, <2>3
<1>4. ASSUME ~overlap PROVE Alone' /\ \A q \in UserPath \ deleted' : Safe(q)'
  <2>1. Alone /\ \A q \in UserPath \ deleted : Safe(q)
    BY <1>4 DEF Guarded
  <2>2. Alone'
    BY <2>1 DEF Alone, Busy, Does
  <2>3. ASSUME NEW q \in UserPath \ deleted' PROVE Safe(q)'
    <3>1. q \in UserPath \ deleted /\ Safe(q)
      BY <2>1, <2>3 DEF Does
    <3>2. CASE q # p
      BY <3>1, <3>2, Elsewhere DEF Owns
    <3>3. CASE q = p
      <4>1. /\ p \in DOMAIN remote => p \in DOMAIN remote'
            /\ InSnapshot(p)' /\ (Acting(r) => InHand(p, r)')
        BY <3>1, <3>3
      <4>2. p \in UserPath /\ Safe(p)
        BY <3>1, <3>3
      <4>3. Safe(p)'
        BY <1>2, <2>1, <4>1, <4>2, Here DEF Owns
      <4> QED BY <3>3, <4>3
    <3> QED BY <3>2, <3>3
  <2> QED BY <2>2, <2>3
<1>5. overlap' = overlap
  BY DEF Does
<1> QED BY <1>2, <1>3, <1>4, <1>5 DEF Guarded

\* A worker that has begun a path goes on with it.
LEMMA GoesOn ==
  ASSUME MutexInv, Apart, NEW c \in Slot, NEW w \in Worker, Acting(work[c][w]),
         call'[c].todo = call[c].todo, NEW p, p = work[c][w].path, NEW r, Acting(r) => r.path = p,
         r.pc \notin {"dropStale", "unsync"}
  PROVE  Owns(c, w, p, r)
BY DEF Owns, Apart, MutexInv, Acting

\* The first failure of an invocation, and the others.
LEMMA ThrowDoes ==
  ASSUME TypeOK, MutexInv, Apart, NEW c \in Slot, NEW w \in Worker, Acting(work[c][w]),
         Throw(c, w), NEW p, p = work[c][w].path
  PROVE  \E r : /\ ~Acting(r) /\ Owns(c, w, p, r) /\ r.pc = "dead"
                /\ work' = [work EXCEPT ![c][w] = r]
                /\ \A d \in Slot : /\ call'[d].phase = call[d].phase
                                   /\ call'[d].plist = call[d].plist
                                   /\ call'[d].slist = call[d].slist
                                   /\ call'[d].noSync = call[d].noSync
                                   /\ call'[d].todo = call[d].todo
                /\ saved' \in {saved, Snap}
<1> DEFINE r == [IdleWork EXCEPT !.pc = "dead"]
<1>1. r.pc = "dead" /\ ~Acting(r) /\ work' = [work EXCEPT ![c][w] = r]
  BY DEF Throw, IdleWork, Acting
<1>2. \A d \in Slot : /\ call'[d].phase = call[d].phase
                      /\ call'[d].plist = call[d].plist
                      /\ call'[d].slist = call[d].slist
                      /\ call'[d].noSync = call[d].noSync
                      /\ call'[d].todo = call[d].todo
  <2>1. IsCall(call[c]) /\ call' = [call EXCEPT ![c] = [call[c] EXCEPT !.failed = TRUE]]
    BY Fields DEF Throw
  <2>2. call'[c] = [call[c] EXCEPT !.failed = TRUE] /\ \A d \in Slot : d # c => call'[d] = call[d]
    BY <2>1, OneCall
  <2> QED BY <2>1, <2>2 DEF IsCall
<1>3. saved' \in {saved, Snap}
  BY DEF Throw, Release
<1>4. Owns(c, w, p, r)
  BY <1>1, <1>2, GoesOn
<1> QED BY <1>1, <1>2, <1>3, <1>4

Keeps == Apart' /\ LeftOut' /\ Guarded'

\* A worker that throws has at most made the server's store larger.
LEMMA ThrowKeeps ==
  ASSUME TypeOK, MutexInv, Apart, LeftOut, Guarded, NEW c \in Slot, NEW w \in Worker,
         Acting(work[c][w]), Throw(c, w), UNCHANGED <<local, snapshot, deleted, overlap>>,
         \A q \in UserPath : q # work[c][w].path => (q \in DOMAIN remote' <=> q \in DOMAIN remote),
         work[c][w].pc # "deleteRemote" /\ work[c][w].path \in DOMAIN remote
           => work[c][w].path \in DOMAIN remote'
  PROVE  Keeps
<1>1. PICK p : p = work[c][w].path
  OBVIOUS
<1>2. PICK r : /\ ~Acting(r) /\ Owns(c, w, p, r) /\ r.pc = "dead"
               /\ work' = [work EXCEPT ![c][w] = r]
               /\ \A d \in Slot : /\ call'[d].phase = call[d].phase
                                  /\ call'[d].plist = call[d].plist
                                  /\ call'[d].slist = call[d].slist
                                  /\ call'[d].noSync = call[d].noSync
                                  /\ call'[d].todo = call[d].todo
               /\ saved' \in {saved, Snap}
  BY <1>1, ThrowDoes
<1>3. Does(c, w, p, r)
  BY <1>1, <1>2 DEF Does, snapshot
<1>4. ASSUME p \in UserPath \ deleted, Safe(p)
      PROVE  (p \in DOMAIN remote => p \in DOMAIN remote') /\ InSnapshot(p)'
  <2>1. InHand(p, work[c][w]) /\ InSnapshot(p)
    BY <1>1, <1>4 DEF Safe
  <2>2. p \in DOMAIN remote => p \in DOMAIN remote'
    BY <1>1, <2>1 DEF InHand
  <2>3. InSnapshot(p)'
    <3>1. CASE saved' = saved
      BY <2>1, <2>2, <3>1 DEF InSnapshot, snapshot
    <3>2. CASE saved' = Snap
      BY <2>1, <2>2, <3>2 DEF InSnapshot, snapshot, Snap
    <3> QED BY <1>2, <3>1, <3>2
  <2> QED BY <2>2, <2>3
<1> QED BY <1>2, <1>3, <1>4, WorkerKeeps DEF Keeps

\* A step of a worker that goes on.
LEMMA WorkKeeps ==
  ASSUME TypeOK, MutexInv, Apart, LeftOut, Guarded, NEW c \in Slot, NEW w \in Worker,
         Acting(work[c][w]), NEW p, p = work[c][w].path, NEW r,
         work' = [work EXCEPT ![c][w] = r], Acting(r) => r.path = p,
         r.pc \notin {"dropStale", "unsync"},
         UNCHANGED <<call, saved, deleted, overlap>>,
         \A q \in UserPath : q # p =>
           /\ q \in DOMAIN local' <=> q \in DOMAIN local
           /\ q \in DOMAIN remote' <=> q \in DOMAIN remote
           /\ q \in DOMAIN files' <=> q \in DOMAIN files
           /\ q \in nonSynced' <=> q \in nonSynced,
         p \in UserPath \ deleted /\ InSnapshot(p) /\ InHand(p, work[c][w]) =>
           /\ p \in DOMAIN remote => p \in DOMAIN remote'
           /\ InSnapshot(p)' /\ (Acting(r) => InHand(p, r)')
  PROVE  Keeps
<1>1. Does(c, w, p, r)
  BY DEF Does
<1>2. Owns(c, w, p, r)
  BY GoesOn
<1>3. p \in UserPath \ deleted /\ Safe(p) => InSnapshot(p) /\ InHand(p, work[c][w])
  BY DEF Safe
<1> QED BY <1>1, <1>2, <1>3, WorkerKeeps DEF Keeps

LEMMA ReadKeeps ==
  ASSUME TypeOK, MutexInv, Kept, NEW c \in Slot, NEW w \in Worker,
         ReadLocal(c, w) \/ ReadRemote(c, w)
  PROVE  Keeps
<1> USE DEF Kept
<1>1. PICK p : p = work[c][w].path
  OBVIOUS
<1>2. Acting(work[c][w]) /\ IsWork(work[c][w])
  BY Fields DEF ReadLocal, ReadRemote, Acting
<1>3. CASE ReadLocal(c, w) /\ p \in DOMAIN local
  <2>1. \E r : /\ work' = [work EXCEPT ![c][w] = r]
                /\ r.path = p /\ r.pc \in {"pushWrite", "conflictRead"}
    <3> WITNESS [work[c][w] EXCEPT !.a = local[p],
                   !.pc = IF work[c][w].pc = "push" THEN "pushWrite" ELSE "conflictRead"]
    <3>1. work' = [work EXCEPT ![c][w] = [work[c][w] EXCEPT !.a = local[p],
                     !.pc = IF work[c][w].pc = "push" THEN "pushWrite" ELSE "conflictRead"]]
      BY <1>1, <1>3 DEF ReadLocal
    <3> QED BY <1>1, <1>2, <3>1 DEF IsWork
  <2>2. PICK r : /\ work' = [work EXCEPT ![c][w] = r]
                 /\ r.path = p /\ r.pc \in {"pushWrite", "conflictRead"}
    BY <2>1
  <2>4. UNCHANGED <<call, saved, deleted, overlap, local, remote, files, nonSynced>>
    BY <1>1, <1>3 DEF ReadLocal, stores, snapshot, history
  <2>5. ASSUME InSnapshot(p) PROVE InSnapshot(p)' /\ InHand(p, r)'
    BY <1>3, <2>2, <2>4, <2>5 DEF InSnapshot, InHand
  <2> QED BY <1>1, <1>2, <2>2, <2>4, <2>5, WorkKeeps
<1>4. CASE ReadRemote(c, w) /\ p \in DOMAIN remote
  <2>1. \E r : /\ work' = [work EXCEPT ![c][w] = r]
                /\ r.path = p /\ r.pc \in {"pullWrite", "stdWrite"}
    <3> WITNESS [work[c][w] EXCEPT !.b = remote[p],
                   !.pc = IF work[c][w].pc = "pull" THEN "pullWrite" ELSE "stdWrite"]
    <3>1. work' = [work EXCEPT ![c][w] = [work[c][w] EXCEPT !.b = remote[p],
                     !.pc = IF work[c][w].pc = "pull" THEN "pullWrite" ELSE "stdWrite"]]
      BY <1>1, <1>4 DEF ReadRemote
    <3> QED BY <1>1, <1>2, <3>1 DEF IsWork
  <2>2. PICK r : /\ work' = [work EXCEPT ![c][w] = r]
                 /\ r.path = p /\ r.pc \in {"pullWrite", "stdWrite"}
    BY <2>1
  <2>4. UNCHANGED <<call, saved, deleted, overlap, local, remote, files, nonSynced>>
    BY <1>1, <1>4 DEF ReadRemote, stores, snapshot, history
  <2>5. ASSUME InSnapshot(p) PROVE InSnapshot(p)' /\ InHand(p, r)'
    BY <1>4, <2>2, <2>4, <2>5 DEF InSnapshot, InHand
  <2> QED BY <1>1, <1>2, <2>2, <2>4, <2>5, WorkKeeps
<1>5. CASE \/ ReadLocal(c, w) /\ p \notin DOMAIN local
           \/ ReadRemote(c, w) /\ p \notin DOMAIN remote
  <2>1. Throw(c, w) /\ UNCHANGED <<stores, snapshot, history>>
    BY <1>1, <1>5 DEF ReadLocal, ReadRemote
  <2> QED BY <1>2, <2>1, ThrowKeeps DEF stores, history
<1> QED BY <1>3, <1>4, <1>5

\* The steps that end in a report.
LEMMA ReportsRecord ==
  ASSUME TypeOK, NEW c \in Slot, NEW w \in Worker, NEW pc \in Pc, Goto(c, w, pc)
  PROVE  \E r : /\ work' = [work EXCEPT ![c][w] = r]
                /\ r.pc = pc /\ r.path = work[c][w].path
<1>1. IsWork(work[c][w])
  BY Fields
<1> WITNESS [work[c][w] EXCEPT !.pc = pc]
<1> QED BY <1>1 DEF Goto, IsWork

LEMMA WriteKeeps ==
  ASSUME TypeOK, MutexInv, Kept, NEW c \in Slot, NEW w \in Worker,
         PushWrite(c, w) \/ PullWrite(c, w)
  PROVE  Keeps
<1> USE DEF Kept
<1>1. PICK p : p = work[c][w].path
  OBVIOUS
<1>2. Acting(work[c][w]) /\ Goto(c, w, "report") /\ "report" \in Pc
  BY DEF PushWrite, PullWrite, Acting, Pc
<1>3. PICK r : work' = [work EXCEPT ![c][w] = r] /\ r.pc = "report" /\ r.path = p
  BY <1>1, <1>2, ReportsRecord
<1>4. UNCHANGED <<call, saved, deleted, overlap>>
  BY DEF PushWrite, PullWrite, history
<1>5. CASE PushWrite(c, w)
  <2>1. /\ local' = local /\ nonSynced' = nonSynced \ {p}
        /\ remote' = Put(remote, p, work[c][w].a)
        /\ files' = Put(files, p, Pushed(p, work[c][w].a))
    BY <1>1, <1>5 DEF PushWrite
  <2>2. /\ DOMAIN remote' = DOMAIN remote \cup {p}
        /\ DOMAIN files' = DOMAIN files \cup {p}
    BY <2>1 DEF Put
  <2>3. ASSUME InSnapshot(p), InHand(p, work[c][w]) PROVE InSnapshot(p)' /\ InHand(p, r)'
    <3>1. p \in DOMAIN local
      BY <1>5, <2>3 DEF PushWrite, InHand
    <3> QED BY <1>3, <1>4, <2>1, <2>2, <2>3, <3>1 DEF InSnapshot, InHand
  <2>9. \A q \in UserPath : q # p =>
           /\ q \in DOMAIN local' <=> q \in DOMAIN local
           /\ q \in DOMAIN remote' <=> q \in DOMAIN remote
           /\ q \in DOMAIN files' <=> q \in DOMAIN files
           /\ q \in nonSynced' <=> q \in nonSynced
    BY <2>1, <2>2
  <2> QED BY <1>1, <1>2, <1>3, <1>4, <2>1, <2>2, <2>3, <2>9, WorkKeeps
<1>6. CASE PullWrite(c, w)
  <2>1. /\ remote' = remote /\ nonSynced' \in {nonSynced, nonSynced \ {p}}
        /\ local' = Put(local, p, work[c][w].b)
        /\ files' = Put(files, p, <<work[c][w].b.lm, work[c][w].b.lm>>)
    BY <1>1, <1>6 DEF PullWrite
  <2>2. /\ DOMAIN local' = DOMAIN local \cup {p}
        /\ DOMAIN files' = DOMAIN files \cup {p}
    BY <2>1 DEF Put
  <2>3. ASSUME InSnapshot(p), InHand(p, work[c][w]) PROVE InSnapshot(p)' /\ InHand(p, r)'
    <3>1. p \in DOMAIN remote
      BY <1>6, <2>3 DEF PullWrite, InHand
    <3> QED BY <1>3, <1>4, <2>1, <2>2, <2>3, <3>1 DEF InSnapshot, InHand
  <2>9. \A q \in UserPath : q # p =>
           /\ q \in DOMAIN local' <=> q \in DOMAIN local
           /\ q \in DOMAIN remote' <=> q \in DOMAIN remote
           /\ q \in DOMAIN files' <=> q \in DOMAIN files
           /\ q \in nonSynced' <=> q \in nonSynced
    BY <2>1, <2>2
  <2> QED BY <1>1, <1>2, <1>3, <1>4, <2>1, <2>2, <2>3, <2>9, WorkKeeps
<1> QED BY <1>5, <1>6

LEMMA RemovalKeeps ==
  ASSUME TypeOK, MutexInv, Kept, NEW c \in Slot, NEW w \in Worker,
         DeleteLocal(c, w) \/ DeleteRemote(c, w) \/ DropStale(c, w) \/ Unsync(c, w)
  PROVE  Keeps
<1> USE DEF Kept
<1>1. PICK p : p = work[c][w].path
  OBVIOUS
<1>2. Acting(work[c][w]) /\ IsWork(work[c][w]) /\ "report" \in Pc
  BY Fields DEF DeleteLocal, DeleteRemote, DropStale, Unsync, Acting, Pc
<1>3. CASE Throw(c, w) /\ UNCHANGED <<stores, snapshot, history>>
  BY <1>2, <1>3, ThrowKeeps DEF stores, history
<1>4. CASE DeleteLocal(c, w) /\ p \in DOMAIN local
  <2>1. /\ UNCHANGED <<remote, files, nonSynced, call, saved, deleted, overlap>>
        /\ DOMAIN local' = DOMAIN local \ {p} /\ Goto(c, w, "report")
    BY <1>1, <1>4, Maps DEF DeleteLocal, snapshot, history
  <2>2. PICK r : work' = [work EXCEPT ![c][w] = r] /\ r.pc = "report" /\ r.path = p
    BY <1>1, <1>2, <2>1, ReportsRecord
  <2>3. ~InHand(p, work[c][w])
    BY <1>4 DEF DeleteLocal, InHand
  <2>9. \A q \in UserPath : q # p =>
           /\ q \in DOMAIN local' <=> q \in DOMAIN local
           /\ q \in DOMAIN remote' <=> q \in DOMAIN remote
           /\ q \in DOMAIN files' <=> q \in DOMAIN files
           /\ q \in nonSynced' <=> q \in nonSynced
    BY <2>1, <2>2
  <2> QED BY <1>1, <1>2, <2>1, <2>2, <2>3, <2>9, WorkKeeps
<1>5. CASE DeleteRemote(c, w) /\ p \in DOMAIN remote
  <2>1. /\ UNCHANGED <<local, call, saved, deleted, overlap>>
        /\ DOMAIN remote' = DOMAIN remote \ {p} /\ DOMAIN files' = DOMAIN files \ {p}
        /\ nonSynced' = nonSynced \ {p} /\ Goto(c, w, "report")
    BY <1>1, <1>5, Maps DEF DeleteRemote, history
  <2>2. PICK r : work' = [work EXCEPT ![c][w] = r] /\ r.pc = "report" /\ r.path = p
    BY <1>1, <1>2, <2>1, ReportsRecord
  <2>3. ~InHand(p, work[c][w])
    BY <1>5 DEF DeleteRemote, InHand
  <2>9. \A q \in UserPath : q # p =>
           /\ q \in DOMAIN local' <=> q \in DOMAIN local
           /\ q \in DOMAIN remote' <=> q \in DOMAIN remote
           /\ q \in DOMAIN files' <=> q \in DOMAIN files
           /\ q \in nonSynced' <=> q \in nonSynced
    BY <2>1, <2>2
  <2> QED BY <1>1, <1>2, <2>1, <2>2, <2>3, <2>9, WorkKeeps
<1>6. CASE DropStale(c, w)
  <2>1. /\ UNCHANGED <<remote, files, nonSynced, call, saved, deleted, overlap>>
        /\ DOMAIN local' = DOMAIN local \ {p}
    BY <1>1, <1>6, Maps DEF DropStale, snapshot, history
  <2>2. PICK r : /\ work' = [work EXCEPT ![c][w] = r]
                 /\ r.pc \in {"report", "idle"} /\ (Acting(r) => r.path = p)
    <3>1. PICK r : r = IF p \in DOMAIN local THEN [work[c][w] EXCEPT !.pc = "report"] ELSE IdleWork
      OBVIOUS
    <3>2. work' = [work EXCEPT ![c][w] = r]
      BY <1>1, <1>6, <3>1 DEF DropStale
    <3>3. r.pc \in {"report", "idle"} /\ (Acting(r) => r.path = p)
      BY <1>1, <1>2, <3>1 DEF IdleWork, Acting, IsWork
    <3> QED BY <3>2, <3>3
  <2>3. ASSUME InSnapshot(p), InHand(p, work[c][w]) PROVE InSnapshot(p)' /\ InHand(p, r)'
    <3>1. p \in nonSynced
      BY <1>6, <2>3 DEF DropStale, InHand
    <3> QED BY <2>1, <2>2, <2>3, <3>1 DEF InSnapshot, InHand
  <2>9. \A q \in UserPath : q # p =>
           /\ q \in DOMAIN local' <=> q \in DOMAIN local
           /\ q \in DOMAIN remote' <=> q \in DOMAIN remote
           /\ q \in DOMAIN files' <=> q \in DOMAIN files
           /\ q \in nonSynced' <=> q \in nonSynced
    BY <2>1, <2>2
  <2> QED BY <1>1, <1>2, <2>1, <2>2, <2>3, <2>9, WorkKeeps
<1>7. CASE Unsync(c, w) /\ p \in DOMAIN local
  <2>1. /\ UNCHANGED <<remote, files, call, saved, deleted, overlap>>
        /\ DOMAIN local' = DOMAIN local \ {p} /\ nonSynced' = nonSynced \cup {p}
        /\ Goto(c, w, "report")
    BY <1>1, <1>7, Maps DEF Unsync, history
  <2>2. PICK r : work' = [work EXCEPT ![c][w] = r] /\ r.pc = "report" /\ r.path = p
    BY <1>1, <1>2, <2>1, ReportsRecord
  <2>3. ASSUME InSnapshot(p) PROVE InSnapshot(p)' /\ InHand(p, r)'
    BY <2>1, <2>2, <2>3 DEF InSnapshot, InHand
  <2>9. \A q \in UserPath : q # p =>
           /\ q \in DOMAIN local' <=> q \in DOMAIN local
           /\ q \in DOMAIN remote' <=> q \in DOMAIN remote
           /\ q \in DOMAIN files' <=> q \in DOMAIN files
           /\ q \in nonSynced' <=> q \in nonSynced
    BY <2>1, <2>2
  <2> QED BY <1>1, <1>2, <2>1, <2>2, <2>3, <2>9, WorkKeeps
<1> QED
  BY <1>1, <1>3, <1>4, <1>5, <1>6, <1>7
  DEF DeleteLocal, DeleteRemote, Unsync, stores, snapshot

\* The copies of a conflicting file are nobody's file.
LEMMA ConflictKeeps ==
  ASSUME TypeOK, MutexInv, Kept, NoCopyNames, NEW c \in Slot, NEW w \in Worker,
         ConflictRead(c, w) \/ CopyLocal(c, w) \/ CopyRemote(c, w) \/ Overwrite(c, w)
  PROVE  Keeps
<1> USE DEF Kept
<1>1. PICK p : p = work[c][w].path
  OBVIOUS
<1>2. Acting(work[c][w]) /\ IsWork(work[c][w]) /\ "report" \in Pc
  BY Fields DEF ConflictRead, CopyLocal, CopyRemote, Overwrite, Acting, Pc
<1>3. PICK copy : copy = ConflictPath(p, work[c][w].b.lm)
  OBVIOUS
<1>4. \A q \in UserPath : q # copy
  BY <1>3 DEF NoCopyNames
<1>5. CASE ConflictRead(c, w) /\ p \notin DOMAIN remote
  <2>1. Throw(c, w) /\ UNCHANGED <<stores, snapshot, history>>
    BY <1>1, <1>5 DEF ConflictRead, snapshot
  <2> QED BY <1>2, <2>1, ThrowKeeps DEF stores, history
<1>6. CASE ConflictRead(c, w) /\ p \in DOMAIN remote /\ remote[p].data = work[c][w].a.data
  <2>1. /\ UNCHANGED <<local, remote, nonSynced, call, saved, deleted, overlap>>
        /\ files' = Put(files, p, <<work[c][w].a.lm, remote[p].lm>>)
        /\ work' = [work EXCEPT ![c][w] = IdleWork]
    BY <1>1, <1>6 DEF ConflictRead, stores, history
  <2>2. DOMAIN files' = DOMAIN files \cup {p}
    BY <2>1 DEF Put
  <2>3. ASSUME InSnapshot(p), InHand(p, work[c][w]) PROVE InSnapshot(p)'
    <3>1. p \in DOMAIN local
      BY <1>6, <2>3 DEF ConflictRead, InHand
    <3> QED BY <1>6, <2>1, <2>2, <2>3, <3>1 DEF InSnapshot
  <2>4. PICK r : r = IdleWork
    OBVIOUS
  <2>5. r.pc = "idle" /\ ~Acting(r) /\ work' = [work EXCEPT ![c][w] = r]
    BY <2>1, <2>4 DEF IdleWork, Acting
  <2>9. \A q \in UserPath : q # p =>
           /\ q \in DOMAIN local' <=> q \in DOMAIN local
           /\ q \in DOMAIN remote' <=> q \in DOMAIN remote
           /\ q \in DOMAIN files' <=> q \in DOMAIN files
           /\ q \in nonSynced' <=> q \in nonSynced
    BY <2>1, <2>2
  <2>6. /\ Acting(r) => r.path = p
        /\ r.pc \notin {"dropStale", "unsync"}
    BY <2>5
  <2>7. p \in UserPath \ deleted /\ InSnapshot(p) /\ InHand(p, work[c][w]) =>
           /\ p \in DOMAIN remote => p \in DOMAIN remote'
           /\ InSnapshot(p)' /\ (Acting(r) => InHand(p, r)')
    BY <2>1, <2>3, <2>5
  <2>8. UNCHANGED <<call, saved, deleted, overlap>>
    BY <2>1
  <2> QED BY <1>1, <1>2, <2>5, <2>6, <2>7, <2>8, <2>9, WorkKeeps
<1>7. ASSUME NEW r, work' = [work EXCEPT ![c][w] = r], r.path = p,
             r.pc \in {"copyLocal", "copyRemote", "overwrite"},
             work[c][w].pc \in {"conflictRead", "copyLocal", "copyRemote"},
             UNCHANGED <<call, saved, deleted, overlap, files, nonSynced>>,
             DOMAIN local' \in {DOMAIN local, DOMAIN local \cup {copy}},
             DOMAIN remote' \in {DOMAIN remote, DOMAIN remote \cup {copy}}
      PROVE  Keeps
  <2>1. \A q \in UserPath :
           /\ q \in DOMAIN local' <=> q \in DOMAIN local
           /\ q \in DOMAIN remote' <=> q \in DOMAIN remote
           /\ q \in DOMAIN files' <=> q \in DOMAIN files
           /\ q \in nonSynced' <=> q \in nonSynced
    BY <1>4, <1>7
  <2>2. ASSUME p \in UserPath, InSnapshot(p), InHand(p, work[c][w])
        PROVE  InSnapshot(p)' /\ InHand(p, r)'
    <3>1. p \in DOMAIN local
      BY <1>7, <2>2 DEF InHand
    <3> QED BY <1>7, <2>1, <2>2, <3>1 DEF InSnapshot, InHand
  <2> QED BY <1>1, <1>2, <1>7, <2>1, <2>2, WorkKeeps
<1>8. CASE ConflictRead(c, w) /\ p \in DOMAIN remote /\ remote[p].data # work[c][w].a.data
  <2>1. /\ UNCHANGED <<local, remote, files, nonSynced, call, saved, deleted, overlap>>
        /\ work[c][w].pc = "conflictRead"
    BY <1>1, <1>8 DEF ConflictRead, stores, history
  <2>2. \E r : /\ work' = [work EXCEPT ![c][w] = r]
                /\ r.path = p /\ r.pc = "copyLocal"
    <3> WITNESS [work[c][w] EXCEPT !.b = remote[p], !.pc = "copyLocal"]
    <3>1. work' = [work EXCEPT ![c][w] = [work[c][w] EXCEPT !.b = remote[p], !.pc = "copyLocal"]]
      BY <1>1, <1>8 DEF ConflictRead
    <3> QED BY <1>1, <1>2, <3>1 DEF IsWork
  <2> QED BY <1>7, <2>1, <2>2
<1>9. CASE CopyLocal(c, w)
  <2>1. /\ UNCHANGED <<remote, files, nonSynced, call, saved, deleted, overlap>>
        /\ work[c][w].pc = "copyLocal" /\ DOMAIN local' = DOMAIN local \cup {copy}
    BY <1>1, <1>3, <1>9 DEF CopyLocal, snapshot, history, Put
  <2>2. \E r : /\ work' = [work EXCEPT ![c][w] = r]
                /\ r.path = p /\ r.pc = "copyRemote"
    <3> WITNESS [work[c][w] EXCEPT !.copyA = Now, !.pc = "copyRemote"]
    <3>1. work' = [work EXCEPT ![c][w] = [work[c][w] EXCEPT !.copyA = Now, !.pc = "copyRemote"]]
      BY <1>9 DEF CopyLocal
    <3> QED BY <1>1, <1>2, <3>1 DEF IsWork
  <2> QED BY <1>7, <2>1, <2>2
<1>10. CASE CopyRemote(c, w)
  <2>1. /\ UNCHANGED <<local, files, nonSynced, call, saved, deleted, overlap>>
        /\ work[c][w].pc = "copyRemote" /\ DOMAIN remote' = DOMAIN remote \cup {copy}
    BY <1>1, <1>3, <1>10 DEF CopyRemote, snapshot, history, Put
  <2>2. \E r : /\ work' = [work EXCEPT ![c][w] = r]
                /\ r.path = p /\ r.pc = "overwrite"
    <3> WITNESS [work[c][w] EXCEPT !.copyB = Now, !.pc = "overwrite"]
    <3>1. work' = [work EXCEPT ![c][w] = [work[c][w] EXCEPT !.copyB = Now, !.pc = "overwrite"]]
      BY <1>10 DEF CopyRemote
    <3> QED BY <1>1, <1>2, <3>1 DEF IsWork
  <2> QED BY <1>7, <2>1, <2>2
<1>11. CASE Overwrite(c, w)
  <2>1. /\ UNCHANGED <<local, nonSynced, call, saved, deleted, overlap>>
        /\ DOMAIN remote' = DOMAIN remote \cup {p}
        /\ DOMAIN files' = DOMAIN files \cup {p, copy}
        /\ work[c][w].pc = "overwrite" /\ Goto(c, w, "report")
    BY <1>1, <1>3, <1>11 DEF Overwrite, history, Put
  <2>2. PICK r : work' = [work EXCEPT ![c][w] = r] /\ r.pc = "report" /\ r.path = p
    BY <1>1, <1>2, <2>1, ReportsRecord
  <2>3. ASSUME InSnapshot(p), InHand(p, work[c][w]) PROVE InSnapshot(p)' /\ InHand(p, r)'
    <3>1. p \in DOMAIN local
      BY <2>1, <2>3 DEF InHand
    <3> QED BY <2>1, <2>2, <2>3, <3>1 DEF InSnapshot, InHand
  <2>9. \A q \in UserPath : q # p =>
           /\ q \in DOMAIN local' <=> q \in DOMAIN local
           /\ q \in DOMAIN remote' <=> q \in DOMAIN remote
           /\ q \in DOMAIN files' <=> q \in DOMAIN files
           /\ q \in nonSynced' <=> q \in nonSynced
    BY <1>4, <2>1
  <2> QED BY <1>1, <1>2, <2>1, <2>2, <2>3, <2>9, WorkKeeps
<1> QED BY <1>5, <1>6, <1>8, <1>9, <1>10, <1>11

LEMMA ReportKeeps ==
  ASSUME TypeOK, MutexInv, Kept, NEW c \in Slot, NEW w \in Worker, Report(c, w)
  PROVE  Keeps
<1> USE DEF Kept
<1>1. PICK p : p = work[c][w].path
  OBVIOUS
<1>2. Acting(work[c][w])
  BY DEF Report, Acting
<1>3. PICK r : r = IdleWork
  OBVIOUS
<1>4. r.pc = "idle" /\ ~Acting(r) /\ work' = [work EXCEPT ![c][w] = r]
  BY <1>3 DEF Report, IdleWork, Acting
<1>5. \A d \in Slot : /\ call'[d].phase = call[d].phase
                      /\ call'[d].plist = call[d].plist /\ call'[d].slist = call[d].slist
                      /\ call'[d].noSync = call[d].noSync /\ call'[d].todo = call[d].todo
  <2>1. call' = [call EXCEPT ![c] = [call[c] EXCEPT !.changed = TRUE]]
    BY DEF Report
  <2>2. IsCall(call[c]) /\ call'[c] = [call[c] EXCEPT !.changed = TRUE]
    BY <2>1, Fields DEF TypeOK, CallsOK
  <2>3. \A d \in Slot : d # c => call'[d] = call[d]
    BY <2>1 DEF TypeOK, CallsOK
  <2> QED BY <2>2, <2>3 DEF IsCall
<1>6. UNCHANGED <<local, remote, files, nonSynced, deleted, overlap>> /\ saved' \in {saved, Snap}
  BY DEF Report, stores, snapshot, history
<1>7. Does(c, w, p, r)
  BY <1>4, <1>5, <1>6 DEF Does
<1>8. Owns(c, w, p, r)
  BY <1>1, <1>2, <1>4, <1>5, GoesOn
<1>9. Safe(p) => InSnapshot(p)'
  <2>1. CASE saved' = saved
    BY <1>6, <2>1 DEF Safe, InSnapshot
  <2>2. CASE saved' = Snap
    BY <1>6, <2>2 DEF Safe, InSnapshot, Snap
  <2> QED BY <1>6, <2>1, <2>2
<1> QED BY <1>4, <1>6, <1>7, <1>8, <1>9, WorkerKeeps DEF Keeps

LEMMA FaultKeeps ==
  ASSUME TypeOK, MutexInv, Kept, NoCopyNames, NEW c \in Slot, NEW w \in Worker,
         RemoteFault(c, w)
  PROVE  Keeps
<1> USE DEF Kept
<1>1. PICK p : p = work[c][w].path
  OBVIOUS
<1>2. PICK copy : copy = ConflictPath(p, work[c][w].b.lm)
  OBVIOUS
<1>3. \A q \in UserPath : q # copy
  BY <1>2 DEF NoCopyNames
<1>4. /\ Acting(work[c][w]) /\ Throw(c, w)
      /\ UNCHANGED <<local, snapshot, deleted, overlap>>
  BY DEF RemoteFault, Acting, history
<1>5. \/ DOMAIN remote' \in {DOMAIN remote, DOMAIN remote \cup {p}, DOMAIN remote \cup {copy}}
      \/ work[c][w].pc = "deleteRemote" /\ DOMAIN remote' = DOMAIN remote \ {p}
  BY <1>1, <1>2 DEF RemoteFault, Put, Drop
<1>6. /\ \A q \in UserPath : q # p => (q \in DOMAIN remote' <=> q \in DOMAIN remote)
      /\ work[c][w].pc # "deleteRemote" /\ p \in DOMAIN remote => p \in DOMAIN remote'
  BY <1>3, <1>5
<1> QED BY <1>1, <1>4, <1>6, ThrowKeeps

\* What a worker begins with, by what it has decided.
LEMMA Beginnings ==
  ASSUME NEW d \in Decisions, NEW p
  PROVE  LET r == WorkOn(d, p) IN
         /\ Acting(r) => r.path = p
         /\ r.pc \notin {"pushWrite", "pullWrite", "stdWrite", "conflictRead", "copyLocal",
                         "copyRemote", "overwrite"}
         /\ \A x \in {"deleteLocal", "deleteRemote", "dropStale", "unsync"} : r.pc = x => d = x
BY DEF WorkOn, Decisions, Acting, IdleWork

LEMMA BeginKeeps ==
  ASSUME TypeOK, MutexInv, Dated, Kept, NEW c \in Slot, NEW w \in Worker, Begin(c, w)
  PROVE  Keeps
<1> USE DEF Kept
<1>1. PICK p \in call[c].todo :
        LET sm == Lookup(call[c].slist, p, NoMeta)
            d  == Decision(Lookup(call[c].plist, p, NoMeta), sm,
                           Lookup(files, p, NoItem), p \in nonSynced, p \notin call[c].noSync)
        IN
        /\ call' = [call EXCEPT ![c].todo = @ \ {p}]
        /\ files' = FilesAtOnce(d, p, sm)
        /\ nonSynced' = MarksAtOnce(d, p)
        /\ work' = [work EXCEPT ![c][w] = WorkOn(d, p)]
  BY DEF Begin
<1>2. PICK pm, sm, item : /\ pm = Lookup(call[c].plist, p, NoMeta)
                          /\ sm = Lookup(call[c].slist, p, NoMeta)
                          /\ item = Lookup(files, p, NoItem)
  OBVIOUS
<1>3. PICK d : d = Decision(pm, sm, item, p \in nonSynced, p \notin call[c].noSync)
  OBVIOUS
<1>4. /\ call' = [call EXCEPT ![c].todo = @ \ {p}]
      /\ files' = FilesAtOnce(d, p, sm)
      /\ nonSynced' = MarksAtOnce(d, p)
      /\ work' = [work EXCEPT ![c][w] = WorkOn(d, p)]
  BY <1>1, <1>2, <1>3
<1>5. /\ d \in Decisions
      /\ d \in {"note", "dropStale"} => sm # NoMeta
      /\ d \in {"forget", "deleteLocal", "forgetBoth"} => item # NoItem /\ sm = NoMeta
      /\ d = "deleteRemote" => item # NoItem /\ pm = NoMeta /\ p \notin nonSynced
      /\ d \in {"dropStale", "unsync"} => p \in call[c].noSync
  <2>1. (p \in nonSynced) \in BOOLEAN /\ (p \notin call[c].noSync) \in BOOLEAN
    OBVIOUS
  <2> QED BY <1>3, <2>1, Decided
<1>6. PICK r : r = WorkOn(d, p)
  OBVIOUS
<1>7. /\ work' = [work EXCEPT ![c][w] = r] /\ (Acting(r) => r.path = p)
      /\ r.pc \notin {"pushWrite", "pullWrite", "stdWrite", "conflictRead", "copyLocal",
                      "copyRemote", "overwrite"}
      /\ \A x \in {"deleteLocal", "deleteRemote", "dropStale", "unsync"} : r.pc = x => d = x
  BY <1>4, <1>5, <1>6, Beginnings
<1>8. /\ \A e \in Slot : /\ call'[e].phase = call[e].phase
                         /\ call'[e].plist = call[e].plist /\ call'[e].slist = call[e].slist
                         /\ call'[e].noSync = call[e].noSync
                         /\ e # c => call'[e].todo = call[e].todo
      /\ call'[c].todo = call[c].todo \ {p}
  <2>1. call' = [call EXCEPT ![c] = [call[c] EXCEPT !.todo = call[c].todo \ {p}]]
    BY <1>4
  <2>2. IsCall(call[c]) /\ call'[c] = [call[c] EXCEPT !.todo = call[c].todo \ {p}]
    BY <2>1, Fields DEF TypeOK, CallsOK
  <2>3. \A e \in Slot : e # c => call'[e] = call[e]
    BY <2>1 DEF TypeOK, CallsOK
  <2> QED BY <2>2, <2>3 DEF IsCall
<1>9. UNCHANGED <<local, remote, saved, deleted, overlap>> /\ call[c].phase = "process"
  BY DEF Begin, stores, history
<1>10. /\ d \in {"note", "dropStale"} => DOMAIN files' = DOMAIN files \cup {p}
       /\ d \in {"forget", "deleteLocal", "forgetBoth"} => DOMAIN files' = DOMAIN files \ {p}
       /\ d \notin {"note", "dropStale", "forget", "deleteLocal", "forgetBoth"} => files' = files
       /\ d \in {"note", "mark", "dropStale"} => nonSynced' = nonSynced \cup {p}
       /\ d \in {"forget", "forgetBoth"} => nonSynced' = nonSynced \ {p}
       /\ d \notin {"note", "mark", "dropStale", "forget", "forgetBoth"} => nonSynced' = nonSynced
  BY <1>4, <1>5 DEF FilesAtOnce, MarksAtOnce, Put, Drop, Decisions
<1>11. Does(c, w, p, r)
  BY <1>7, <1>8, <1>9, <1>10 DEF Does
<1>12. Owns(c, w, p, r)
  <2>1. \A v \in Worker \ {w} : Acting(work[c][v]) => work[c][v].path # p
    BY DEF Apart
  <2> QED BY <1>5, <1>7, <1>8, <1>9, <2>1 DEF Owns
<1>13. ASSUME Safe(p) PROVE InSnapshot(p)' /\ InHand(p, r)'
  <2>1. InSnapshot(p) /\ InLists(p, call[c])
    BY <1>13 DEF Safe
  <2>2. sm = NoMeta <=> p \notin DOMAIN call[c].slist
    BY <1>2 DEF Lookup, Dated
  <2>3. pm = NoMeta <=> p \notin DOMAIN call[c].plist
    BY <1>2 DEF Lookup, Dated
  <2>4. item # NoItem => p \in DOMAIN files
    BY <1>2 DEF Lookup
  <2>5. d \notin {"forget", "deleteLocal", "forgetBoth"}
    BY <1>5, <1>9, <2>1, <2>2, <2>4 DEF InLists
  <2>6. d # "deleteRemote"
    BY <1>5, <1>9, <2>1, <2>3, <2>4 DEF InLists
  <2>7. d \in {"note", "dropStale"} => p \in DOMAIN remote
    BY <1>5, <1>9, <2>1, <2>2 DEF InLists
  <2>8. InSnapshot(p)'
    BY <1>9, <1>10, <2>1, <2>5, <2>7 DEF InSnapshot
  <2>9. InHand(p, r)'
    BY <1>7, <1>10, <2>5, <2>6 DEF InHand
  <2> QED BY <2>8, <2>9
<1> QED BY <1>9, <1>11, <1>12, <1>13, WorkerKeeps DEF Keeps

-----------------------------------------------------------------------------
(* Invocations, users, and restarts. *)

\* An invocation goes to its next phase, or is over; it has no workers.
LEMMA CallKeeps ==
  ASSUME TypeOK, Kept, NEW c \in Slot, NEW s, call' = [call EXCEPT ![c] = s],
         UNCHANGED <<local, remote, snapshot, deleted>>,
         saved' \in {saved, Snap}, overlap => overlap',
         \A v \in Worker : work'[c][v].pc = "idle",
         \A d \in Slot, v \in Worker : d # c => work'[d][v] = work[d][v],
         ~overlap' /\ s.phase # "idle" => \A d \in Slot : d # c => ~Busy(d),
         \A p \in UserPath : InSnapshot(p) /\ InLists(p, call[c]) => InLists(p, s)
  PROVE  Keeps
<1> USE DEF Kept
<1>1. call'[c] = s /\ \A d \in Slot : d # c => call'[d] = call[d]
  BY DEF TypeOK, CallsOK
<1>2. \A v \in Worker : ~Acting(work'[c][v])
  BY DEF Acting
<1>3. Apart'
  <2> SUFFICES ASSUME NEW d \in Slot, NEW v \in Worker, Acting(work'[d][v])
               PROVE  /\ work'[d][v].path \notin call'[d].todo
                      /\ \A u \in Worker \ {v} :
                           Acting(work'[d][u]) => work'[d][u].path # work'[d][v].path
    BY DEF Apart, Acting
  <2>1. d # c
    BY <1>2
  <2> QED BY <1>1, <2>1 DEF Apart
<1>4. LeftOut'
  <2> SUFFICES ASSUME NEW d \in Slot, NEW v \in Worker,
                      work'[d][v].pc \in {"dropStale", "unsync"}
               PROVE  work'[d][v].path \in call'[d].noSync
    BY DEF LeftOut
  <2>1. d # c
    OBVIOUS
  <2> QED BY <1>1, <2>1 DEF LeftOut
<1>5. ASSUME ~overlap' PROVE Alone' /\ \A p \in UserPath \ deleted' : Safe(p)'
  <2>1. Alone /\ \A p \in UserPath \ deleted : Safe(p)
    BY <1>5 DEF Guarded
  <2>2. Alone'
    BY <1>1, <1>5, <2>1 DEF Alone, Busy
  <2>3. ASSUME NEW p \in UserPath \ deleted' PROVE Safe(p)'
    <3>1. p \in UserPath /\ Safe(p)
      BY <2>1, <2>3
    <3>2. InSnapshot(p)'
      <4>1. CASE saved' = saved
        BY <3>1, <4>1 DEF Safe, InSnapshot, snapshot
      <4>2. CASE saved' = Snap
        BY <3>1, <4>2 DEF Safe, InSnapshot, snapshot, Snap
      <4> QED BY <4>1, <4>2
    <3>3. ASSUME NEW d \in Slot PROVE InLists(p, call[d])'
      <4>1. InLists(p, call'[d])
        BY <1>1, <3>1 DEF Safe
      <4> QED BY <4>1 DEF InLists, snapshot
    <3>4. ASSUME NEW d \in Slot, NEW v \in Worker, Acting(work'[d][v]), work'[d][v].path = p
          PROVE  InHand(p, work[d][v])'
      <4>1. d # c
        BY <1>2, <3>4
      <4>2. work'[d][v] = work[d][v]
        BY <4>1
      <4>3. InHand(p, work'[d][v])
        BY <3>1, <3>4, <4>2 DEF Safe
      <4> QED BY <4>3 DEF InHand, snapshot
    <3> QED BY <3>2, <3>3, <3>4 DEF Safe, Acting
  <2> QED BY <2>2, <2>3
<1> QED BY <1>3, <1>4, <1>5 DEF Guarded, Keeps

LEMMA InvocationKeeps ==
  ASSUME TypeOK, MutexInv, Kept, NEW c \in Slot,
         \/ StartFull(c) \/ \E p \in UserPath : StartSingle(c, p)
         \/ CallStep(c) \/ ListFault(c)
  PROVE  Keeps
<1>1. \A v \in Worker : call[c].phase # "process" => work[c][v].pc = "idle"
  BY DEF MutexInv
<1>2. ASSUME NEW s, call' = [call EXCEPT ![c] = s], s.phase = "listLocal",
             overlap' = (overlap \/ \E d \in Slot : Busy(d)), Free(c),
             UNCHANGED <<stores, snapshot, saved, work, deleted>>
      PROVE  Keeps
  <2>1. \A v \in Worker : work'[c][v].pc = "idle"
    BY <1>1, <1>2 DEF Free, Busy
  <2>2. \A p \in UserPath : InLists(p, s)
    BY <1>2 DEF InLists
  <2> QED BY <1>2, <2>1, <2>2, CallKeeps DEF stores
<1>3. CASE StartFull(c)
  <2>1. PICK s : s = [IdleCall EXCEPT !.kind = "full", !.phase = "listLocal"]
    OBVIOUS
  <2>2. s.phase = "listLocal" /\ call' = [call EXCEPT ![c] = s]
    BY <1>3, <2>1 DEF StartFull, IdleCall
  <2> QED BY <1>2, <1>3, <2>2 DEF StartFull
<1>4. ASSUME NEW p \in UserPath, StartSingle(c, p) PROVE Keeps
  <2>1. PICK s : s = [IdleCall EXCEPT !.kind = "single", !.phase = "listLocal", !.todo = {p}]
    OBVIOUS
  <2>2. s.phase = "listLocal" /\ call' = [call EXCEPT ![c] = s]
    BY <1>4, <2>1 DEF StartSingle, IdleCall
  <2> QED BY <1>2, <1>4, <2>2 DEF StartSingle
<1>5. ASSUME NEW s, call' = [call EXCEPT ![c] = s], call[c].phase \in {"listLocal", "listRemote"},
             s.phase # "idle", UNCHANGED <<stores, snapshot, saved, work, deleted, overlap>>,
             \A p \in UserPath : InSnapshot(p) /\ InLists(p, call[c]) => InLists(p, s)
      PROVE  Keeps
  <2>1. \A v \in Worker : work'[c][v].pc = "idle"
    BY <1>1, <1>5
  <2>2. ~overlap' => \A d \in Slot : d # c => ~Busy(d)
    BY <1>5 DEF Kept, Guarded, Alone, Busy
  <2> QED BY <1>5, <2>1, <2>2, CallKeeps DEF stores
<1>6. CASE ListLocal(c)
  <2>1. PICK s : s = [call[c] EXCEPT !.phase = "listRemote", !.plist = Listing(local)]
    OBVIOUS
  <2>2. call' = [call EXCEPT ![c] = s]
    BY <1>6, <2>1 DEF ListLocal
  <2>3. s.phase = "listRemote" /\ s.plist = Listing(local)
    BY <2>1, Fields DEF IsCall
  <2>4. DOMAIN s.plist = DOMAIN local
    BY <2>3 DEF Listing
  <2>5. \A p \in UserPath : InSnapshot(p) => InLists(p, s)
    BY <2>3, <2>4 DEF InSnapshot, InLists
  <2> QED BY <1>5, <1>6, <2>2, <2>3, <2>5 DEF ListLocal, history
<1>7. CASE ListRemote(c)
  <2>1. PICK todo, noSync :
          call' = [call EXCEPT ![c] = [call[c] EXCEPT !.phase = "process",
                     !.slist = Listing(remote), !.noSync = noSync, !.todo = todo]]
    BY <1>7 DEF ListRemote
  <2>2. PICK s : s = [call[c] EXCEPT !.phase = "process",
                        !.slist = Listing(remote), !.noSync = noSync, !.todo = todo]
    OBVIOUS
  <2>3. call' = [call EXCEPT ![c] = s]
    BY <2>1, <2>2
  <2>4. s.phase = "process" /\ s.slist = Listing(remote) /\ s.plist = call[c].plist
    BY <2>2, Fields DEF IsCall
  <2>5. DOMAIN s.slist = DOMAIN remote
    BY <2>4 DEF Listing
  <2>6. \A p \in UserPath : InSnapshot(p) /\ InLists(p, call[c]) => InLists(p, s)
    BY <1>7, <2>4, <2>5 DEF InSnapshot, InLists, ListRemote
  <2> QED BY <1>5, <1>7, <2>3, <2>4, <2>6 DEF ListRemote, history
<1>8. CASE ListFault(c) \/ Finish(c)
  <2>1. PICK s : s = IdleCall
    OBVIOUS
  <2>2. /\ call' = [call EXCEPT ![c] = s] /\ s.phase = "idle"
        /\ UNCHANGED <<local, remote, snapshot, deleted, overlap>>
        /\ saved' \in {saved, Snap}
    BY <1>8, <2>1 DEF ListFault, Finish, IdleCall, stores, history, Release
  <2>3. /\ \A v \in Worker : work'[c][v].pc = "idle"
        /\ \A d \in Slot, v \in Worker : d # c => work'[d][v] = work[d][v]
    <3>1. CASE ListFault(c)
      BY <1>1, <3>1 DEF ListFault
    <3>2. CASE Finish(c)
      BY <3>2 DEF Finish, TypeOK, WorkersOK, IdleWork
    <3> QED BY <1>8, <3>1, <3>2
  <2>4. \A p \in UserPath : InLists(p, s)
    BY <2>2 DEF InLists
  <2> QED BY <2>2, <2>3, <2>4, CallKeeps
<1> QED BY <1>3, <1>4, <1>6, <1>7, <1>8 DEF CallStep

\* Users add files, or say that they delete them.
Grown ==
  /\ UNCHANGED <<snapshot, saved, call, work, overlap>>
  /\ deleted \subseteq deleted'
  /\ \A q \in UserPath \ deleted' : /\ q \in DOMAIN local => q \in DOMAIN local'
                                    /\ q \in DOMAIN remote => q \in DOMAIN remote'

LEMMA UsersGrow ==
  ASSUME \/ \E p \in UserPath : \/ LocalWrite(p) \/ LocalDelete(p) \/ RemoteWrite(p)
                                \/ RemoteDelete(p) \/ SilentChange(p)
         \/ SetSyncConfig \/ UNCHANGED vars
  PROVE  Grown
<1>1. ASSUME NEW p \in UserPath, LocalWrite(p) \/ RemoteWrite(p) \/ SilentChange(p) PROVE Grown
  BY <1>1 DEF Grown, LocalWrite, RemoteWrite, SilentChange, control, Put
<1>2. ASSUME NEW p \in UserPath, LocalDelete(p) \/ RemoteDelete(p) PROVE Grown
  BY <1>2 DEF Grown, LocalDelete, RemoteDelete, control, Drop
<1>3. CASE SetSyncConfig \/ UNCHANGED vars
  BY <1>3 DEF Grown, SetSyncConfig, vars, control, stores, history
<1> QED BY <1>1, <1>2, <1>3

\* What users do to the files, and a new configuration.
LEMMA UsersKeep ==
  ASSUME Kept, Grown
  PROVE  Keeps
<1> USE DEF Kept
<1>1. /\ UNCHANGED <<snapshot, saved, call, work, overlap>>
      /\ deleted \subseteq deleted'
      /\ \A q \in UserPath \ deleted' : /\ q \in DOMAIN local => q \in DOMAIN local'
                                        /\ q \in DOMAIN remote => q \in DOMAIN remote'
  BY DEF Grown
<1>2. Apart' /\ LeftOut'
  BY <1>1 DEF Apart, LeftOut, Acting
<1>3. ASSUME ~overlap' PROVE Alone' /\ \A p \in UserPath \ deleted' : Safe(p)'
  <2>1. Alone /\ \A p \in UserPath \ deleted : Safe(p)
    BY <1>1, <1>3 DEF Guarded
  <2>2. Alone'
    BY <1>1, <2>1 DEF Alone, Busy
  <2>3. ASSUME NEW p \in UserPath \ deleted' PROVE Safe(p)'
    <3>1. /\ Safe(p) /\ UNCHANGED <<files, nonSynced, saved, call, work>>
          /\ p \in DOMAIN local => p \in DOMAIN local'
          /\ p \in DOMAIN remote => p \in DOMAIN remote'
      BY <1>1, <2>1, <2>3 DEF snapshot
    <3>2. InSnapshot(p)'
      BY <3>1 DEF Safe, InSnapshot
    <3>3. \A d \in Slot : InLists(p, call[d])'
      BY <3>1 DEF Safe, InLists
    <3>4. \A d \in Slot, v \in Worker :
            (Acting(work[d][v]) /\ work[d][v].path = p => InHand(p, work[d][v]))'
      BY <3>1 DEF Safe, InHand, Acting
    <3> QED BY <3>2, <3>3, <3>4 DEF Safe
  <2> QED BY <2>2, <2>3
<1> QED BY <1>2, <1>3 DEF Guarded, Keeps

\* The snapshot that was persisted is taken up again.
LEMMA RestartKeeps ==
  ASSUME Kept, Restart, "tear" \notin Troubles
  PROVE  Keeps
<1>1. /\ UNCHANGED <<local, remote, saved, deleted, overlap>>
      /\ files' = saved.files /\ nonSynced' = saved.nonSynced /\ ~Torn
      /\ \A c \in Slot : call'[c] = IdleCall
      /\ \A c \in Slot, w \in Worker : work'[c][w] = IdleWork
  BY DEF Restart, stores, history
<1>2. \A c \in Slot, w \in Worker : ~Acting(work[c][w])' /\ work'[c][w].pc = "idle"
  BY <1>1 DEF Acting, IdleWork
<1>3. Apart' /\ LeftOut'
  BY <1>2 DEF Apart, LeftOut
<1>4. Alone'
  BY <1>1 DEF Alone, Busy, IdleCall
<1>5. ASSUME ~overlap, NEW p \in UserPath \ deleted PROVE Safe(p)'
  <2>1. InSnapshot(p)
    BY <1>5 DEF Kept, Guarded, Safe
  <2>2. p \in DOMAIN saved.files => p \in DOMAIN local \/ p \in saved.nonSynced
    BY <1>1, <2>1 DEF InSnapshot, Torn
  <2>3. InSnapshot(p)'
    BY <1>1, <2>1, <2>2 DEF InSnapshot
  <2>4. \A c \in Slot : InLists(p, call[c])'
    BY <1>1 DEF InLists, IdleCall
  <2> QED BY <1>2, <2>3, <2>4 DEF Safe
<1> QED BY <1>1, <1>3, <1>4, <1>5 DEF Guarded, Keeps

-----------------------------------------------------------------------------
(* Stamps. *)

LEMMA Listed ==
  ASSUME NEW store, \A p \in DOMAIN store : store[p].lm # 0
  PROVE  /\ DOMAIN Listing(store) = DOMAIN store
         /\ \A p \in DOMAIN store : Listing(store)[p] # NoMeta
<1>1. \A p \in DOMAIN store : Listing(store)[p] = [lm |-> store[p].lm, size |-> Size(store[p].data)]
  BY DEF Listing, Meta
<1> QED BY <1>1 DEF Listing, NoMeta

DatedStore(store) == \A p \in DOMAIN store : store[p].lm # 0
DatedList(l) == \A p \in DOMAIN l : l[p] # NoMeta
DatedWork(r) ==
  /\ r.pc = "pushWrite" => r.a.lm # 0
  /\ r.pc \in {"pullWrite", "stdWrite"} => r.b.lm # 0

LEMMA DatedParts ==
  Dated <=> /\ DatedStore(local) /\ DatedStore(remote)
            /\ \A c \in Slot : DatedList(call[c].plist) /\ DatedList(call[c].slist)
            /\ \A c \in Slot, w \in Worker : DatedWork(work[c][w])
BY DEF Dated, DatedStore, DatedList, DatedWork

LEMMA DatedPut ==
  ASSUME NEW store, DatedStore(store), NEW p, NEW f
  PROVE  /\ f.lm # 0 => DatedStore(Put(store, p, f))
         /\ DatedStore(Drop(store, p))
BY DEF DatedStore, Put, Drop

SameLists == \A d \in Slot : call'[d].plist = call[d].plist /\ call'[d].slist = call[d].slist

\* A step of a worker, by what it puts into the stores and into its own hands.
LEMMA DatedStep ==
  ASSUME TypeOK, Dated, NEW c \in Slot, NEW w \in Worker, NEW r,
         work' = [work EXCEPT ![c][w] = r], DatedWork(r), SameLists,
         DatedStore(local'), DatedStore(remote')
  PROVE  Dated'
<1>1. \A d \in Slot : DatedList(call'[d].plist) /\ DatedList(call'[d].slist)
  BY DatedParts DEF SameLists
<1>2. \A d \in Slot, v \in Worker : DatedWork(work'[d][v])
  <2>1. /\ work'[c][w] = r
        /\ \A d \in Slot, v \in Worker : d # c \/ v # w => work'[d][v] = work[d][v]
    BY DEF TypeOK, WorkersOK
  <2>2. \A d \in Slot, v \in Worker : DatedWork(work[d][v])
    BY DatedParts
  <2> QED BY <2>1, <2>2
<1> QED BY <1>1, <1>2 DEF Dated, DatedStore, DatedList, DatedWork

LEMMA DatedWorker ==
  ASSUME TypeOK, MutexInv, Dated, Apart, NEW c \in Slot, NEW w \in Worker,
         WorkerStep(c, w) \/ RemoteFault(c, w)
  PROVE  Dated'
<1>1. DatedStore(local) /\ DatedStore(remote) /\ DatedWork(work[c][w])
  BY DatedParts
<1>2. /\ IsWork(work[c][w]) /\ IsCall(call[c]) /\ "report" \in Pc
      /\ Now # 0 /\ \A x : [lm |-> Now, data |-> x].lm # 0
  <2>1. Len(hist) \in Nat
    BY DEF TypeOK, StoresOK
  <2> QED BY <2>1, Fields DEF Now, Pc
<1>3. PICK p : p = work[c][w].path
  OBVIOUS
<1>4. ASSUME Acting(work[c][w]), Throw(c, w), UNCHANGED local, DatedStore(remote') PROVE Dated'
  <2>1. PICK r : /\ r.pc = "dead" /\ work' = [work EXCEPT ![c][w] = r]
                 /\ \A d \in Slot : /\ call'[d].plist = call[d].plist
                                    /\ call'[d].slist = call[d].slist
    BY <1>3, <1>4, ThrowDoes
  <2>2. DatedWork(r)
    BY <2>1 DEF DatedWork
  <2> QED BY <1>1, <1>4, <2>1, <2>2, DatedStep DEF SameLists
<1>5. ASSUME Goto(c, w, "report"), UNCHANGED call, DatedStore(local'), DatedStore(remote')
      PROVE  Dated'
  <2>1. PICK r : work' = [work EXCEPT ![c][w] = r] /\ r.pc = "report"
    BY <1>2, <1>5, ReportsRecord
  <2> QED BY <1>5, <2>1, DatedStep DEF DatedWork, SameLists
<1>6. ASSUME NEW r, work' = [work EXCEPT ![c][w] = r], DatedWork(r), UNCHANGED call,
             DatedStore(local'), DatedStore(remote')
      PROVE  Dated'
  BY <1>6, DatedStep DEF SameLists
<1>7. DatedWork(IdleWork)
  BY DEF DatedWork, IdleWork
<1>8. CASE Begin(c, w)
  <2>0. PICK q \in call[c].todo :
          LET sm == Lookup(call[c].slist, q, NoMeta)
              d  == Decision(Lookup(call[c].plist, q, NoMeta), sm,
                             Lookup(files, q, NoItem), q \in nonSynced, q \notin call[c].noSync)
          IN
          /\ call' = [call EXCEPT ![c].todo = @ \ {q}]
          /\ files' = FilesAtOnce(d, q, sm)
          /\ nonSynced' = MarksAtOnce(d, q)
          /\ work' = [work EXCEPT ![c][w] = WorkOn(d, q)]
    BY <1>8 DEF Begin
  <2>1. PICK todo, pm, sm, item :
          /\ call' = [call EXCEPT ![c] = [call[c] EXCEPT !.todo = todo]]
          /\ work' = [work EXCEPT ![c][w] =
                WorkOn(Decision(pm, sm, item, q \in nonSynced, q \notin call[c].noSync), q)]
    <3>1. PICK pm, sm, item : /\ pm = Lookup(call[c].plist, q, NoMeta)
                              /\ sm = Lookup(call[c].slist, q, NoMeta)
                              /\ item = Lookup(files, q, NoItem)
      OBVIOUS
    <3>2. PICK todo : todo = call[c].todo \ {q}
      OBVIOUS
    <3>3. call' = [call EXCEPT ![c] = [call[c] EXCEPT !.todo = todo]]
      BY <2>0, <3>2
    <3> QED BY <2>0, <3>1, <3>3
  <2>2. PICK d : d = Decision(pm, sm, item, q \in nonSynced, q \notin call[c].noSync)
    OBVIOUS
  <2>3. d \in Decisions
    <3>1. (q \in nonSynced) \in BOOLEAN /\ (q \notin call[c].noSync) \in BOOLEAN
      OBVIOUS
    <3> QED BY <2>2, <3>1, Decided
  <2>4. PICK r : r = WorkOn(d, q)
    OBVIOUS
  <2>5. DatedWork(r)
    BY <2>3, <2>4, Beginnings DEF DatedWork
  <2>6. SameLists
    <3>1. /\ call'[c] = [call[c] EXCEPT !.todo = todo]
          /\ \A e \in Slot : e # c => call'[e] = call[e]
      BY <2>1 DEF TypeOK, CallsOK
    <3> QED BY <1>2, <3>1 DEF IsCall, SameLists
  <2>7. work' = [work EXCEPT ![c][w] = r]
    BY <2>1, <2>2, <2>4
  <2> QED BY <1>1, <1>8, <2>5, <2>6, <2>7, DatedStep DEF Begin, stores
<1>9. CASE Report(c, w)
  <2>1. SameLists
    <3>1. call' = [call EXCEPT ![c] = [call[c] EXCEPT !.changed = TRUE]]
      BY <1>9 DEF Report
    <3>2. /\ call'[c] = [call[c] EXCEPT !.changed = TRUE]
          /\ \A e \in Slot : e # c => call'[e] = call[e]
      BY <3>1 DEF TypeOK, CallsOK
    <3> QED BY <1>2, <3>2 DEF IsCall, SameLists
  <2>2. work' = [work EXCEPT ![c][w] = IdleWork] /\ UNCHANGED <<local, remote>>
    BY <1>9 DEF Report, stores
  <2> QED BY <1>1, <1>7, <2>1, <2>2, DatedStep
<1>10. CASE ReadLocal(c, w)
  <2>1. CASE p \in DOMAIN local
    <3>1. PICK r : r = [work[c][w] EXCEPT !.a = local[p],
                         !.pc = IF work[c][w].pc = "push" THEN "pushWrite" ELSE "conflictRead"]
      OBVIOUS
    <3>2. work' = [work EXCEPT ![c][w] = r] /\ UNCHANGED <<call, local, remote>>
      BY <1>3, <1>10, <2>1, <3>1 DEF ReadLocal, stores
    <3>3. r.a = local[p] /\ r.pc \in {"pushWrite", "conflictRead"}
      BY <1>2, <3>1 DEF IsWork
    <3>4. DatedWork(r)
      BY <1>1, <2>1, <3>3 DEF DatedWork, DatedStore
    <3> QED BY <1>1, <1>6, <3>2, <3>4
  <2>2. CASE p \notin DOMAIN local
    BY <1>1, <1>3, <1>4, <1>10, <2>2 DEF ReadLocal, stores, Acting
  <2> QED BY <2>1, <2>2
<1>11. CASE ReadRemote(c, w)
  <2>1. CASE p \in DOMAIN remote
    <3>1. PICK r : r = [work[c][w] EXCEPT !.b = remote[p],
                         !.pc = IF work[c][w].pc = "pull" THEN "pullWrite" ELSE "stdWrite"]
      OBVIOUS
    <3>2. work' = [work EXCEPT ![c][w] = r] /\ UNCHANGED <<call, local, remote>>
      BY <1>3, <1>11, <2>1, <3>1 DEF ReadRemote, stores
    <3>3. r.b = remote[p] /\ r.pc \in {"pullWrite", "stdWrite"}
      BY <1>2, <3>1 DEF IsWork
    <3>4. DatedWork(r)
      BY <1>1, <2>1, <3>3 DEF DatedWork, DatedStore
    <3> QED BY <1>1, <1>6, <3>2, <3>4
  <2>2. CASE p \notin DOMAIN remote
    BY <1>1, <1>3, <1>4, <1>11, <2>2 DEF ReadRemote, stores, Acting
  <2> QED BY <2>1, <2>2
<1>12. CASE PushWrite(c, w)
  <2>1. work[c][w].a.lm # 0
    BY <1>1, <1>12 DEF PushWrite, DatedWork
  <2> QED BY <1>1, <1>5, <1>12, <2>1, DatedPut DEF PushWrite
<1>13. CASE PullWrite(c, w)
  <2>1. work[c][w].b.lm # 0
    BY <1>1, <1>13 DEF PullWrite, DatedWork
  <2> QED BY <1>1, <1>5, <1>13, <2>1, DatedPut DEF PullWrite
<1>14. CASE DeleteLocal(c, w) \/ DeleteRemote(c, w) \/ Unsync(c, w)
  <2>1. Acting(work[c][w]) /\ DatedStore(local') /\ DatedStore(remote')
    BY <1>1, <1>14, DatedPut DEF DeleteLocal, DeleteRemote, Unsync, Acting
  <2>2. \/ Throw(c, w) /\ UNCHANGED local
        \/ Goto(c, w, "report") /\ UNCHANGED call
    BY <1>14 DEF DeleteLocal, DeleteRemote, Unsync
  <2> QED BY <1>4, <1>5, <2>1, <2>2
<1>15. CASE DropStale(c, w)
  <2>1. DatedStore(local') /\ DatedStore(remote') /\ UNCHANGED call
    BY <1>1, <1>15, DatedPut DEF DropStale
  <2>2. \E r : work' = [work EXCEPT ![c][w] = r] /\ DatedWork(r)
    <3> WITNESS IF work[c][w].path \in DOMAIN local
                THEN [work[c][w] EXCEPT !.pc = "report"] ELSE IdleWork
    <3>1. DatedWork([work[c][w] EXCEPT !.pc = "report"])
      BY <1>2 DEF DatedWork, IsWork
    <3> QED BY <1>7, <1>15, <3>1 DEF DropStale
  <2> QED BY <1>6, <2>1, <2>2
<1>16. CASE ConflictRead(c, w)
  <2>1. UNCHANGED <<local, remote>> /\ Acting(work[c][w])
    BY <1>16 DEF ConflictRead, stores, Acting
  <2>2. CASE Throw(c, w)
    BY <1>1, <1>4, <2>1, <2>2
  <2>3. CASE UNCHANGED call /\ work' = [work EXCEPT ![c][w] = IdleWork]
    BY <1>1, <1>6, <1>7, <2>1, <2>3
  <2>4. CASE UNCHANGED call
             /\ work' = [work EXCEPT ![c][w] =
                           [work[c][w] EXCEPT !.b = remote[p], !.pc = "copyLocal"]]
    <3>1. DatedWork([work[c][w] EXCEPT !.b = remote[p], !.pc = "copyLocal"])
      BY <1>2 DEF DatedWork, IsWork
    <3> QED BY <1>1, <1>6, <2>1, <2>4, <3>1
  <2> QED BY <1>3, <1>16, <2>2, <2>3, <2>4 DEF ConflictRead
<1>17. CASE CopyLocal(c, w)
  <2>1. DatedStore(local') /\ DatedStore(remote') /\ UNCHANGED call
    BY <1>1, <1>2, <1>17, DatedPut DEF CopyLocal
  <2>2. DatedWork([work[c][w] EXCEPT !.copyA = Now, !.pc = "copyRemote"])
    BY <1>2 DEF DatedWork, IsWork
  <2>3. work' = [work EXCEPT ![c][w] = [work[c][w] EXCEPT !.copyA = Now, !.pc = "copyRemote"]]
    BY <1>17 DEF CopyLocal
  <2> QED BY <1>6, <2>1, <2>2, <2>3
<1>18. CASE CopyRemote(c, w)
  <2>1. DatedStore(local') /\ DatedStore(remote') /\ UNCHANGED call
    BY <1>1, <1>2, <1>18, DatedPut DEF CopyRemote
  <2>2. DatedWork([work[c][w] EXCEPT !.copyB = Now, !.pc = "overwrite"])
    BY <1>2 DEF DatedWork, IsWork
  <2>3. work' = [work EXCEPT ![c][w] = [work[c][w] EXCEPT !.copyB = Now, !.pc = "overwrite"]]
    BY <1>18 DEF CopyRemote
  <2> QED BY <1>6, <2>1, <2>2, <2>3
<1>19. CASE Overwrite(c, w)
  BY <1>1, <1>2, <1>5, <1>19, DatedPut DEF Overwrite
<1>20. CASE RemoteFault(c, w)
  <2>1. Acting(work[c][w]) /\ Throw(c, w) /\ UNCHANGED local
    BY <1>20 DEF RemoteFault, Acting
  <2>2. DatedStore(remote')
    <3>1. work[c][w].pc = "pushWrite" => work[c][w].a.lm # 0
      BY <1>1 DEF DatedWork
    <3> QED BY <1>1, <1>2, <1>20, <3>1, DatedPut DEF RemoteFault
  <2> QED BY <1>4, <2>1, <2>2
<1> QED
  BY <1>8, <1>9, <1>10, <1>11, <1>12, <1>13, <1>14, <1>15, <1>16, <1>17, <1>18, <1>19, <1>20
  DEF WorkerStep

\* The other steps.
LEMMA DatedOthers ==
  ASSUME TypeOK, Dated,
         \/ \E c \in Slot : \/ StartFull(c) \/ CallStep(c) \/ ListFault(c)
                            \/ \E p \in UserPath : StartSingle(c, p)
         \/ \E p \in UserPath : \/ LocalWrite(p) \/ LocalDelete(p) \/ RemoteWrite(p)
                                \/ RemoteDelete(p) \/ SilentChange(p)
         \/ SetSyncConfig \/ Restart \/ UNCHANGED vars
  PROVE  Dated'
<1>1. /\ DatedStore(local) /\ DatedStore(remote)
      /\ \A d \in Slot : DatedList(call[d].plist) /\ DatedList(call[d].slist)
      /\ \A d \in Slot, v \in Worker : DatedWork(work[d][v])
  BY DatedParts
<1>2. Now # 0 /\ \A x : [lm |-> Now, data |-> x].lm # 0
  <2>1. Len(hist) \in Nat
    BY DEF TypeOK, StoresOK
  <2> QED BY <2>1 DEF Now
<1>3. ASSUME NEW c \in Slot, NEW s, call' = [call EXCEPT ![c] = s],
             DatedList(s.plist), DatedList(s.slist), UNCHANGED <<local, remote>>,
             \A d \in Slot, v \in Worker : DatedWork(work'[d][v])
      PROVE  Dated'
  <2>1. call'[c] = s /\ \A d \in Slot : d # c => call'[d] = call[d]
    BY <1>3 DEF TypeOK, CallsOK
  <2>2. \A d \in Slot : DatedList(call'[d].plist) /\ DatedList(call'[d].slist)
    BY <1>1, <1>3, <2>1
  <2> QED BY <1>1, <1>3, <2>2 DEF Dated, DatedStore, DatedList, DatedWork
<1>4. DatedList(<< >>) /\ DatedWork(IdleWork)
  BY DEF DatedList, DatedWork, IdleWork
<1>5. ASSUME NEW store, DatedStore(store) PROVE DatedList(Listing(store))
  BY <1>5, Listed DEF DatedStore, DatedList
<1>6. ASSUME NEW c \in Slot, NEW p, StartFull(c) \/ StartSingle(c, p) PROVE Dated'
  <2>1. PICK s : call' = [call EXCEPT ![c] = s] /\ s.plist = << >> /\ s.slist = << >>
    <3>1. CASE StartFull(c)
      <4>1. PICK s : s = [IdleCall EXCEPT !.kind = "full", !.phase = "listLocal"]
        OBVIOUS
      <4>2. s.plist = << >> /\ s.slist = << >>
        BY <4>1 DEF IdleCall
      <4> QED BY <3>1, <4>1, <4>2 DEF StartFull
    <3>2. CASE StartSingle(c, p)
      <4>1. PICK s : s = [IdleCall EXCEPT !.kind = "single", !.phase = "listLocal", !.todo = {p}]
        OBVIOUS
      <4>2. s.plist = << >> /\ s.slist = << >>
        BY <4>1 DEF IdleCall
      <4> QED BY <3>2, <4>1, <4>2 DEF StartSingle
    <3> QED BY <1>6, <3>1, <3>2
  <2>2. UNCHANGED <<local, remote, work>>
    BY <1>6 DEF StartFull, StartSingle, stores
  <2> QED BY <1>1, <1>3, <1>4, <2>1, <2>2
<1>7. ASSUME NEW c \in Slot, ListLocal(c) PROVE Dated'
  <2>1. PICK s : s = [call[c] EXCEPT !.phase = "listRemote", !.plist = Listing(local)]
    OBVIOUS
  <2>2. call' = [call EXCEPT ![c] = s] /\ UNCHANGED <<local, remote, work>>
    BY <1>7, <2>1 DEF ListLocal, stores
  <2>3. s.plist = Listing(local) /\ s.slist = call[c].slist
    BY <2>1, Fields DEF IsCall
  <2> QED BY <1>1, <1>3, <1>5, <2>2, <2>3
<1>8. ASSUME NEW c \in Slot, ListRemote(c) PROVE Dated'
  <2>1. PICK todo, noSync :
          call' = [call EXCEPT ![c] = [call[c] EXCEPT !.phase = "process",
                     !.slist = Listing(remote), !.noSync = noSync, !.todo = todo]]
    BY <1>8 DEF ListRemote
  <2>2. PICK s : s = [call[c] EXCEPT !.phase = "process",
                        !.slist = Listing(remote), !.noSync = noSync, !.todo = todo]
    OBVIOUS
  <2>3. call' = [call EXCEPT ![c] = s] /\ UNCHANGED <<local, remote, work>>
    BY <1>8, <2>1, <2>2 DEF ListRemote, stores
  <2>4. s.slist = Listing(remote) /\ s.plist = call[c].plist
    BY <2>2, Fields DEF IsCall
  <2> QED BY <1>1, <1>3, <1>5, <2>3, <2>4
<1>9. ASSUME NEW c \in Slot, ListFault(c) \/ Finish(c) PROVE Dated'
  <2>1. PICK s : s = IdleCall
    OBVIOUS
  <2>2. /\ call' = [call EXCEPT ![c] = s] /\ s.plist = << >> /\ s.slist = << >>
        /\ UNCHANGED <<local, remote>>
    BY <1>9, <2>1 DEF ListFault, Finish, IdleCall, stores
  <2>3. \A d \in Slot, v \in Worker : DatedWork(work'[d][v])
    <3>1. CASE ListFault(c)
      BY <1>1, <3>1 DEF ListFault
    <3>2. CASE Finish(c)
      BY <1>1, <1>4, <3>2 DEF Finish, TypeOK, WorkersOK
    <3> QED BY <1>9, <3>1, <3>2
  <2> QED BY <1>3, <1>4, <2>2, <2>3
<1>10. ASSUME UNCHANGED <<call, work>>, DatedStore(local'), DatedStore(remote') PROVE Dated'
  BY <1>1, <1>10 DEF Dated, DatedStore, DatedList, DatedWork
<1>11. ASSUME NEW p \in UserPath, \/ LocalWrite(p) \/ LocalDelete(p) \/ RemoteWrite(p)
                                  \/ RemoteDelete(p) \/ SilentChange(p)
       PROVE  Dated'
  <2>1. p \in DOMAIN remote => [lm |-> remote[p].lm, data |-> Now].lm # 0
    BY <1>1 DEF DatedStore
  <2>2. UNCHANGED <<call, work>>
    BY <1>11 DEF LocalWrite, LocalDelete, RemoteWrite, RemoteDelete, SilentChange, control
  <2>3. DatedStore(local') /\ DatedStore(remote')
    BY <1>1, <1>2, <1>11, <2>1, DatedPut
    DEF LocalWrite, LocalDelete, RemoteWrite, RemoteDelete, SilentChange
  <2> QED BY <1>10, <2>2, <2>3
<1>12. CASE SetSyncConfig \/ UNCHANGED vars
  BY <1>1, <1>10, <1>12 DEF SetSyncConfig, vars, stores, control
<1>13. CASE Restart
  <2>1. /\ \A d \in Slot : call'[d].plist = << >> /\ call'[d].slist = << >>
        /\ \A d \in Slot, v \in Worker : work'[d][v] = IdleWork
        /\ UNCHANGED <<local, remote>>
    BY <1>13 DEF Restart, IdleCall, stores
  <2> QED BY <1>1, <1>4, <2>1 DEF Dated, DatedStore, DatedList, DatedWork
<1> QED BY <1>6, <1>7, <1>8, <1>9, <1>11, <1>12, <1>13 DEF CallStep

-----------------------------------------------------------------------------
(* The invariant, and what follows from it. *)

LEMMA DeletionInit == Init => DeletionInv
<1> SUFFICES ASSUME Init PROVE DeletionInv
  OBVIOUS
<1>1. /\ local = << >> /\ remote = << >> /\ files = << >> /\ saved = Snap
      /\ \A c \in Slot : call[c] = IdleCall
      /\ \A c \in Slot, w \in Worker : work[c][w] = IdleWork
  BY DEF Init
<1>2. Dated
  BY <1>1 DEF Dated, IdleCall, IdleWork
<1>3. \A c \in Slot, w \in Worker : ~Acting(work[c][w]) /\ work[c][w].pc = "idle"
  BY <1>1 DEF Acting, IdleWork
<1>4. Apart /\ LeftOut
  BY <1>3 DEF Apart, LeftOut
<1>5. Alone
  BY <1>1 DEF Alone, Busy, IdleCall
<1>6. ASSUME NEW p PROVE Safe(p)
  <2>1. InSnapshot(p)
    BY <1>1 DEF InSnapshot, Snap
  <2>2. \A c \in Slot : InLists(p, call[c])
    BY <1>1 DEF InLists, IdleCall
  <2> QED BY <1>3, <2>1, <2>2 DEF Safe
<1> QED BY <1>2, <1>4, <1>5, <1>6 DEF DeletionInv, Kept, Guarded

LEMMA DeletionStep ==
  ASSUME "tear" \notin Troubles, NoCopyNames, TypeOK, MutexInv, DeletionInv, [Next]_vars
  PROVE  DeletionInv'
<1>1. Dated /\ Kept
  BY DEF DeletionInv
<1>2. ASSUME NEW c \in Slot, NEW w \in Worker, WorkerStep(c, w) \/ RemoteFault(c, w)
      PROVE  Dated' /\ Keeps
  <2>1. Dated'
    BY <1>1, <1>2, DatedWorker DEF Kept
  <2>2. Keeps
    BY <1>1, <1>2, BeginKeeps, ReadKeeps, WriteKeeps, RemovalKeeps, ConflictKeeps, ReportKeeps,
       FaultKeeps DEF WorkerStep
  <2> QED BY <2>1, <2>2
<1>3. ASSUME NEW c \in Slot,
             \/ StartFull(c) \/ \E p \in UserPath : StartSingle(c, p)
             \/ CallStep(c) \/ ListFault(c)
      PROVE  Dated' /\ Keeps
  BY <1>1, <1>3, DatedOthers, InvocationKeeps
<1>4. ASSUME \/ \E p \in UserPath : \/ LocalWrite(p) \/ LocalDelete(p) \/ RemoteWrite(p)
                                    \/ RemoteDelete(p) \/ SilentChange(p)
             \/ SetSyncConfig \/ UNCHANGED vars
      PROVE  Dated' /\ Keeps
  <2>1. Dated'
    BY <1>1, <1>4, DatedOthers
  <2>2. Grown
    BY <1>4, UsersGrow
  <2> QED BY <1>1, <2>1, <2>2, UsersKeep
<1>5. ASSUME Restart PROVE Dated' /\ Keeps
  <2>1. Dated'
    BY <1>1, <1>5, DatedOthers
  <2>2. Keeps
    BY <1>1, <1>5, RestartKeeps
  <2> QED BY <2>1, <2>2
<1>6. Dated' /\ Keeps
  <2>1. CASE UNCHANGED vars
    BY <1>4, <2>1
  <2>2. CASE Environment
    BY <1>2, <1>3, <1>4, <1>5, <2>2 DEF Environment
  <2>3. CASE \E c \in Slot : \/ StartFull(c) \/ \E p \in UserPath : StartSingle(c, p)
                            \/ CallStep(c) \/ \E w \in Worker : WorkerStep(c, w)
    BY <1>2, <1>3, <2>3
  <2> QED BY <2>1, <2>2, <2>3 DEF Next
<1> QED BY <1>6 DEF DeletionInv, Keeps, Kept

\* No step removes p but where it may.
Justified ==
  \A p \in UserPath \ deleted' :
    /\ p \in DOMAIN remote => p \in DOMAIN remote' \/ overlap
    /\ p \in DOMAIN local => \/ p \in DOMAIN local' \/ overlap
                             \/ \E c \in Slot : p \in call[c].noSync

LEMMA DeletionsFollow ==
  ASSUME TypeOK, MutexInv, Kept, [Next]_vars
  PROVE  Justified
<1>1. ASSUME NEW c \in Slot, NEW w \in Worker, WorkerStep(c, w) \/ RemoteFault(c, w)
      PROVE  Justified
  <2> SUFFICES ASSUME NEW p \in UserPath \ deleted', ~overlap
               PROVE  /\ p \in DOMAIN remote => p \in DOMAIN remote'
                      /\ p \in DOMAIN local => \/ p \in DOMAIN local'
                                               \/ \E d \in Slot : p \in call[d].noSync
    BY SMTT(20) DEF Justified
  <2>1. deleted' = deleted
    BY <1>1 DEF WorkerStep, RemoteFault, Begin, ReadLocal, ReadRemote, PushWrite, PullWrite,
       DeleteLocal, DeleteRemote, DropStale, Unsync, ConflictRead, CopyLocal, CopyRemote,
       Overwrite, Report, history
  <2>2. Safe(p)
    BY <2>1 DEF Kept, Guarded
  <2>3. work[c][w].pc \in {"deleteLocal", "deleteRemote"} => work[c][w].path # p
    BY <2>2 DEF Safe, InHand, Acting
  <2>4. CASE Begin(c, w) \/ ReadLocal(c, w) \/ ReadRemote(c, w) \/ ConflictRead(c, w)
             \/ Report(c, w)
    BY <2>4 DEF Begin, ReadLocal, ReadRemote, ConflictRead, Report, stores
  <2>5. \A store, q, f : /\ p \in DOMAIN store => p \in DOMAIN Put(store, q, f)
                         /\ p \in DOMAIN store => p \in DOMAIN Drop(store, q) \/ p = q
    BY DEF Put, Drop
  <2>6. CASE \/ PushWrite(c, w) \/ PullWrite(c, w) \/ CopyLocal(c, w) \/ CopyRemote(c, w)
             \/ Overwrite(c, w)
    <3>1. \E q, f : \/ local' = Put(local, q, f) /\ remote' = remote
                    \/ remote' = Put(remote, q, f) /\ local' = local
      BY <2>6, Zenon DEF PushWrite, PullWrite, CopyLocal, CopyRemote, Overwrite
    <3> QED BY <2>5, <3>1
  <2>7. CASE DeleteLocal(c, w) \/ DeleteRemote(c, w) \/ RemoteFault(c, w)
    <3>1. /\ \/ local' = local
             \/ local' = Drop(local, work[c][w].path) /\ work[c][w].pc = "deleteLocal"
          /\ \/ remote' = remote
             \/ \E q, f : remote' = Put(remote, q, f)
             \/ remote' = Drop(remote, work[c][w].path) /\ work[c][w].pc = "deleteRemote"
      <4>1. CASE DeleteLocal(c, w) \/ DeleteRemote(c, w)
        BY <4>1, Zenon DEF DeleteLocal, DeleteRemote
      <4>2. CASE RemoteFault(c, w)
        BY <4>2, Zenon DEF RemoteFault
      <4> QED BY <2>7, <4>1, <4>2
    <3> QED BY <2>3, <2>5, <3>1
  <2>8. CASE DropStale(c, w) \/ Unsync(c, w)
    <3>1. work[c][w].path \in call[c].noSync
      BY <2>8 DEF DropStale, Unsync, Kept, LeftOut
    <3>2. remote' = remote /\ (local' = local \/ local' = Drop(local, work[c][w].path))
      BY <2>8, Zenon DEF DropStale, Unsync
    <3>3. p \in DOMAIN local => p \in DOMAIN Drop(local, work[c][w].path) \/ p = work[c][w].path
      BY <2>5
    <3>4. CASE p = work[c][w].path
      BY <3>1, <3>2, <3>4
    <3>5. CASE p # work[c][w].path
      BY <3>2, <3>3, <3>5
    <3> QED BY <3>4, <3>5
  <2> QED BY <1>1, <2>4, <2>6, <2>7, <2>8 DEF WorkerStep
<1>2. ASSUME UNCHANGED stores PROVE Justified
  BY <1>2 DEF Justified, stores
<1>3. ASSUME NEW c \in Slot,
             \/ StartFull(c) \/ \E p \in UserPath : StartSingle(c, p)
             \/ CallStep(c) \/ ListFault(c)
      PROVE  Justified
  BY <1>2, <1>3 DEF StartFull, StartSingle, CallStep, ListLocal, ListRemote, Finish, ListFault
<1>4. ASSUME \/ \E p \in UserPath : \/ LocalWrite(p) \/ LocalDelete(p) \/ RemoteWrite(p)
                                    \/ RemoteDelete(p) \/ SilentChange(p)
             \/ SetSyncConfig \/ UNCHANGED vars
      PROVE  Justified
  <2>1. Grown
    BY <1>4, UsersGrow
  <2> QED BY <2>1 DEF Grown, Justified
<1>5. CASE Restart
  BY <1>2, <1>5 DEF Restart
<1> QED BY <1>1, <1>3, <1>4, <1>5 DEF Next, Environment

\* What syncFile, the conflict resolver and the error paths of a cycle do removes a file
\* from the server, or from the browser, only if some user deleted it or the
\* configuration leaves it out: for every number of files, workers, failures and
\* restarts, as long as no restart comes between the removal of an unsynced copy and
\* the persisting of its mark, and no file has the name of a conflict copy.
THEOREM DeletionsCorrect ==
  ASSUME "tear" \notin Troubles, NoCopyNames
  PROVE  Spec => DeletionsJustified
<1>1. TypeOK /\ MutexInv /\ DeletionInv /\ [Next]_vars => DeletionInv'
  BY DeletionStep
<1>2. TypeOK /\ MutexInv /\ DeletionInv /\ [Next]_vars => [Justified]_vars
  BY DeletionsFollow DEF DeletionInv
<1>3. Spec => [][Justified]_vars
  BY <1>1, <1>2, DeletionInit, TypeCorrect, MutexAlways, PTL DEF Spec
<1> QED BY <1>3 DEF DeletionsJustified, Justified

-----------------------------------------------------------------------------
(* Nothing a user wrote is lost: SpaceSync's NoSilentLoss.  The content of a   *)
(* file is in danger when a write of sync covers it or a removal takes it.     *)
(* The invariant says that what is about to be covered or removed is content   *)
(* no user counts on, or is in the other store as well, or in a copy.          *)

Same(p) == p \in DOMAIN local /\ p \in DOMAIN remote /\ local[p].data = remote[p].data

\* The browser's, or the server's, content of p may go.
LocalSpare(p)  == p \in DOMAIN local => <<p, local[p].data>> \notin live \/ Same(p)
RemoteSpare(p) == p \in DOMAIN remote => <<p, remote[p].data>> \notin live \/ Same(p)

\* What a snapshot entry of p makes a later syncFile do: if it says that one side
\* alone has moved, the other side may go; if the browser has no file, and the entry
\* has the stamp of the server's, the snapshot in memory has it too.
Fits(p, item) ==
  p \in DOMAIN remote =>
    /\ p \in DOMAIN local /\ local[p].lm = item[1] /\ remote[p].lm # item[2] => LocalSpare(p)
    /\ p \in DOMAIN local /\ local[p].lm # item[1] /\ remote[p].lm = item[2] => RemoteSpare(p)
    /\ p \notin DOMAIN local /\ remote[p].lm = item[2]
         => p \in DOMAIN files /\ files[p][2] = remote[p].lm

\* Between the entry of a file that is not to be synced and the removal of its
\* local copy the entry does not fit; no restart comes in between (Torn).
Dropping(p) == \E c \in Slot, w \in Worker : work[c][w].pc = "dropStale" /\ work[c][w].path = p

Entries(p) ==
  /\ p \in DOMAIN files /\ ~Dropping(p) => Fits(p, files[p])
  /\ p \in DOMAIN saved.files /\ ~(Dropping(p) /\ p \in saved.nonSynced)
       => Fits(p, saved.files[p])
  /\ p \in StdLib => LocalSpare(p)

\* What a worker has read is still there, and what it is going to write over or
\* to remove may go, or is in a copy.
Holding(p, r) ==
  /\ r.pc \in {"push", "pushWrite"} => RemoteSpare(p)
  /\ r.pc \in {"pull", "std", "pullWrite", "stdWrite", "dropStale", "unsync"} => LocalSpare(p)
  /\ r.pc \in {"dropStale", "unsync"}
       => p \in DOMAIN remote /\ p \in DOMAIN files /\ files[p][2] = remote[p].lm
  /\ r.pc \in {"pushWrite", "conflictRead", "copyLocal", "copyRemote", "overwrite"}
       => p \in DOMAIN local /\ r.a = local[p]
  /\ r.pc \in {"pullWrite", "stdWrite", "copyLocal", "copyRemote", "overwrite"}
       => p \in DOMAIN remote /\ r.b = remote[p]
  /\ r.pc \in {"copyLocal", "copyRemote", "overwrite"} => r.a.data # r.b.data
  /\ r.pc \in {"copyRemote", "overwrite"} => ConflictPath(p, r.b.lm) \in DOMAIN local
  /\ r.pc = "overwrite" => ConflictPath(p, r.b.lm) \in DOMAIN remote

\* What was listed of p still holds, until a worker takes p.
ListedAs(p, l, store) ==
  (p \in DOMAIN l <=> p \in DOMAIN store) /\ (p \in DOMAIN store => l[p] = Meta(store[p]))
ListedNow(p, r) ==
  /\ r.phase = "listRemote" \/ (r.phase = "process" /\ p \in r.todo)
       => ListedAs(p, r.plist, local)
  /\ r.phase = "process" /\ p \in r.todo => ListedAs(p, r.slist, remote)

Hands(p) ==
  /\ \A c \in Slot : ListedNow(p, call[c])
  /\ \A c \in Slot, w \in Worker :
       Acting(work[c][w]) /\ work[c][w].path = p => Holding(p, work[c][w])

\* The contents of p that users count on, in place or in a copy.
InCopy(p, d) ==
  \E lm \in Nat : /\ IsStamp(lm) /\ hist[lm] = d
                  /\ ConflictPath(p, lm) \in DOMAIN local \cup DOMAIN remote
Preserved(p) ==
  \A d : <<p, d>> \in live => d \in Held(local, p) \cup Held(remote, p) \/ InCopy(p, d)

\* A copy has the bytes of the stamp in its name, in both stores, but for one whose
\* making has failed.  Sync takes such a one for a file that was deleted on the
\* server, and removes it from the browser, only when the stamp in its name is over.
Tr == budget["trouble"] > 0
Past(p, lm) ==
  /\ lm <= Len(hist)
  /\ p \in DOMAIN local => local[p].lm # lm
  /\ p \in DOMAIN remote => remote[p].lm # lm
Copying(p, lm) ==
  \E c \in Slot, w \in Worker :
    work[c][w].pc = "copyRemote" /\ work[c][w].path = p /\ work[c][w].b.lm = lm
Both(x) == x \in DOMAIN local /\ x \in DOMAIN remote

CopyStores(p, lm, x) ==
  /\ x \in DOMAIN local \cup DOMAIN remote => IsStamp(lm)
  /\ x \in DOMAIN local => local[x].data = hist[lm]
  /\ x \in DOMAIN remote => remote[x].data = hist[lm]
  /\ x \notin nonSynced /\ x \notin saved.nonSynced
  /\ x \in DOMAIN files => Both(x)
  /\ Tr /\ x \in DOMAIN saved.files => Both(x)
  /\ Tr /\ x \in DOMAIN local \cup DOMAIN remote => Both(x) \/ Copying(p, lm)
  /\ x \in DOMAIN remote /\ x \notin DOMAIN local => Past(p, lm)

CopyLists(p, lm, x, r) ==
  /\ x \notin r.noSync
  /\ r.phase \in {"listLocal", "listRemote"} => x \notin r.todo
  /\ r.phase = "listRemote" => (x \in DOMAIN r.plist <=> x \in DOMAIN local)
  /\ r.phase = "process" /\ x \in r.todo =>
       /\ x \in DOMAIN r.plist \/ x \in DOMAIN r.slist
       /\ x \in DOMAIN r.plist => x \in DOMAIN local
       /\ x \in DOMAIN r.slist => x \in DOMAIN remote
       /\ x \in DOMAIN r.slist /\ x \notin DOMAIN r.plist => Past(p, lm) /\ x \notin DOMAIN files
       /\ x \in DOMAIN r.plist /\ x \notin DOMAIN r.slist /\ x \in DOMAIN files => Past(p, lm)
       /\ Tr => x \in DOMAIN r.plist /\ x \in DOMAIN r.slist

CopyHand(p, lm, x, r) ==
  /\ r.pc \in {"report", "push", "pushWrite", "pull", "pullWrite", "deleteLocal", "conflict",
               "conflictRead"}
  /\ r.pc \in {"push", "pushWrite", "conflict", "conflictRead"} => x \in DOMAIN local
  /\ r.pc \in {"pull", "pullWrite", "conflict", "conflictRead", "deleteLocal"}
       => x \in DOMAIN remote
  /\ r.pc \in {"pushWrite", "conflictRead"} => r.a.data = hist[lm]
  /\ r.pc = "pullWrite" => r.b.data = hist[lm]
  /\ r.pc = "deleteLocal" => ~Tr /\ x \notin DOMAIN files /\ Past(p, lm)

Copies(p, lm, x) ==
  /\ CopyStores(p, lm, x)
  /\ \A c \in Slot : CopyLists(p, lm, x, call[c])
  /\ \A c \in Slot, w \in Worker :
       Acting(work[c][w]) /\ work[c][w].path = x => CopyHand(p, lm, x, work[c][w])

Kin(p) == \A lm \in Nat : Copies(p, lm, ConflictPath(p, lm))

\* Contents are named by stamps, and at most one trouble is left.
Named ==
  /\ live \subseteq UserPath \X Nat
  /\ \A x \in live : IsStamp(x[2])
  /\ \A t \in Nat : IsStamp(t) => hist[t] <= t
  /\ budget["trouble"] <= 1

Spared == overlap \/ \A p \in UserPath \ deleted : Entries(p) /\ Hands(p) /\ Preserved(p) /\ Kin(p)
LossInv == Named /\ Spared

-----------------------------------------------------------------------------
(* One step of a worker, on the path y: what it may change, and what it leaves *)
(* as it is.                                                                   *)

SameAt(f, g, q) == (q \in DOMAIN f <=> q \in DOMAIN g) /\ (q \in DOMAIN g => f[q] = g[q])
Still(q) == /\ SameAt(local', local, q) /\ SameAt(remote', remote, q)
            /\ SameAt(files', files, q) /\ (q \in nonSynced' <=> q \in nonSynced)

\* Worker w of c has r in its hands after the step.
Turn(c, w, y, r) ==
  /\ work' = [work EXCEPT ![c][w] = r]
  /\ \A d \in Slot : /\ call'[d].phase = call[d].phase
                     /\ call'[d].plist = call[d].plist /\ call'[d].slist = call[d].slist
                     /\ call'[d].noSync = call[d].noSync
                     /\ d # c => call'[d].todo = call[d].todo
  /\ call'[c].todo \in {call[c].todo, call[c].todo \ {y}}
  /\ UNCHANGED <<live, deleted, overlap>>
  /\ budget' = budget \/ (Tr /\ ~Tr')
  /\ Grows
  /\ \A q : q # y /\ (\A lm \in Nat : q # ConflictPath(y, lm)) => Still(q)
  /\ saved' = saved \/ (saved' = Snap /\ UNCHANGED snapshot)

\* The path is that of worker w alone, and no longer listed.
Mine(c, w, y, r) ==
  /\ call[c].phase = "process" /\ y \notin call'[c].todo
  /\ \A v \in Worker \ {w} : Acting(work[c][v]) => work[c][v].path # y
  /\ Acting(work[c][w]) => work[c][w].path = y
  /\ Acting(r) => r.path = y

\* A copy is not lost to both stores, nor to the browser while its name is taken.
Lasts(p, lm, x) ==
  /\ x \in DOMAIN local => x \in DOMAIN local' \/ (x \in DOMAIN remote' /\ Past(p, lm))
  /\ x \in DOMAIN remote => x \in DOMAIN remote'
Lasting(p) == \A lm \in Nat : Lasts(p, lm, ConflictPath(p, lm))

\* The stamps the file p has in the stores are over only if it gets a newer one.
Moves(p) ==
  \A store \in {local', remote'} : p \in DOMAIN store =>
    \/ p \in DOMAIN local /\ store[p].lm = local[p].lm
    \/ p \in DOMAIN remote /\ store[p].lm = remote[p].lm
    \/ store[p].lm = Now

\* What a step at p does to the copy x of p that has lm in its name.
Tends(p, lm, x) ==
  /\ CopyStores(p, lm, x)'
  /\ Past(p, lm) => Past(p, lm)'
  /\ x \in DOMAIN local => x \in DOMAIN local'
  /\ x \in DOMAIN remote => x \in DOMAIN remote'
  /\ x \in DOMAIN files' /\ x \notin DOMAIN files => ~Past(p, lm) /\ Past(p, lm)'

LEMMA CopyNames ==
  /\ \A p, q, lm, t : ConflictPath(p, lm) = ConflictPath(q, t) <=> p = q /\ lm = t
BY DEF ConflictPath

LEMMA TurnWork ==
  ASSUME TypeOK, NEW c \in Slot, NEW w \in Worker, NEW r, work' = [work EXCEPT ![c][w] = r]
  PROVE  /\ work'[c][w] = r
         /\ \A d \in Slot, v \in Worker : d # c \/ v # w => work'[d][v] = work[d][v]
BY DEF TypeOK, WorkersOK

\* A file that stays as it is keeps what is said of it.
LEMMA FitsStill ==
  ASSUME NEW q, Still(q), UNCHANGED live, NEW item, Fits(q, item)
  PROVE  Fits(q, item)'
BY DEF Fits, Still, SameAt, LocalSpare, RemoteSpare, Same

LEMMA SpareStill ==
  ASSUME NEW q, SameAt(local', local, q), SameAt(remote', remote, q), UNCHANGED live
  PROVE  /\ LocalSpare(q) => LocalSpare(q)'
         /\ RemoteSpare(q) => RemoteSpare(q)'
BY DEF SameAt, LocalSpare, RemoteSpare, Same

LEMMA CopiesLast ==
  ASSUME NEW p, Lasting(p), Grows, NEW d, InCopy(p, d)
  PROVE  InCopy(p, d)'
<1>1. PICK lm \in Nat : /\ IsStamp(lm) /\ hist[lm] = d
                        /\ ConflictPath(p, lm) \in DOMAIN local \cup DOMAIN remote
  BY DEF InCopy
<1>2. IsStamp(lm)' /\ hist'[lm] = d
  BY <1>1, StampsKept
<1>3. ConflictPath(p, lm) \in DOMAIN local' \cup DOMAIN remote'
  BY <1>1 DEF Lasting, Lasts
<1> QED BY <1>2, <1>3 DEF InCopy

LEMMA PreservedStill ==
  ASSUME NEW p, SameAt(local', local, p), SameAt(remote', remote, p), UNCHANGED live,
         Lasting(p), Grows, Preserved(p)
  PROVE  Preserved(p)'
<1> SUFFICES ASSUME NEW d, <<p, d>> \in live
             PROVE  d \in Held(local', p) \cup Held(remote', p) \/ InCopy(p, d)'
  BY DEF Preserved, Held
<1>1. Held(local', p) = Held(local, p) /\ Held(remote', p) = Held(remote, p)
  BY DEF Held, SameAt
<1>2. InCopy(p, d) => InCopy(p, d)'
  BY CopiesLast
<1> QED BY <1>1, <1>2 DEF Preserved

\* Another user's file than that of the step.
LEMMA UserElsewhere ==
  ASSUME TypeOK, NoCopyNames, NEW c \in Slot, NEW w \in Worker, NEW y, NEW r,
         Turn(c, w, y, r), Mine(c, w, y, r),
         NEW q \in UserPath, q # y, Safe(q), Entries(q), Hands(q), Preserved(q), Lasting(q)
  PROVE  Entries(q)' /\ Hands(q)' /\ Preserved(q)'
<1>1. Still(q) /\ UNCHANGED live /\ Grows
  BY DEF Turn, NoCopyNames
<1>2. /\ work'[c][w] = r
      /\ \A d \in Slot, v \in Worker : d # c \/ v # w => work'[d][v] = work[d][v]
  BY TurnWork DEF Turn
<1>3. Dropping(q)' <=> Dropping(q)
  <2>1. work[c][w].pc = "dropStale" => work[c][w].path # q
    BY DEF Mine, Acting
  <2>2. r.pc = "dropStale" => r.path # q
    BY DEF Mine, Acting
  <2> QED BY <1>2, <2>1, <2>2 DEF Dropping
<1>4. Dropping(q) => q \in nonSynced
  BY DEF Dropping, Safe, InHand, Acting
<1>5. Entries(q)'
  <2>1. ASSUME q \in DOMAIN files', ~Dropping(q)' PROVE Fits(q, files[q])'
    <3>1. PICK item : item = files[q]
      OBVIOUS
    <3>2. q \in DOMAIN files /\ files'[q] = item
      BY <1>1, <2>1, <3>1 DEF Still, SameAt
    <3>3. Fits(q, item)
      BY <1>3, <2>1, <3>1, <3>2 DEF Entries
    <3> QED BY <1>1, <3>2, <3>3, FitsStill
  <2>2. ASSUME q \in DOMAIN saved'.files, ~(Dropping(q)' /\ q \in saved'.nonSynced)
        PROVE  Fits(q, saved.files[q])'
    <3>1. PICK item : item = saved'.files[q]
      OBVIOUS
    <3>2. Fits(q, item)
      <4>1. CASE saved' = saved
        BY <1>3, <2>2, <3>1, <4>1 DEF Entries
      <4>2. CASE saved' = Snap /\ UNCHANGED snapshot
        <5>1. saved'.files = files /\ saved'.nonSynced = nonSynced
          BY <4>2 DEF Snap
        <5> QED BY <1>3, <1>4, <2>2, <3>1, <5>1 DEF Entries
      <4> QED BY <4>1, <4>2 DEF Turn
    <3> QED BY <1>1, <3>1, <3>2, FitsStill
  <2>3. q \in StdLib => LocalSpare(q)'
    BY <1>1, SpareStill DEF Entries, Still
  <2> QED BY <2>1, <2>2, <2>3 DEF Entries
<1>6. ASSUME NEW d \in Slot PROVE ListedNow(q, call[d])'
  <2>1. ListedNow(q, call[d])
    BY DEF Hands
  <2>2. /\ call'[d].phase = call[d].phase
        /\ call'[d].plist = call[d].plist /\ call'[d].slist = call[d].slist
        /\ q \in call'[d].todo => q \in call[d].todo
    BY DEF Turn
  <2> QED BY <1>1, <2>1, <2>2 DEF ListedNow, ListedAs, Still, SameAt, Meta
<1>7. ASSUME NEW d \in Slot, NEW v \in Worker, Acting(work'[d][v]), work'[d][v].path = q
      PROVE  Holding(q, work[d][v])'
  <2>1. work'[d][v] = work[d][v]
    BY <1>2, <1>7 DEF Mine
  <2>2. Holding(q, work[d][v])
    BY <1>7, <2>1 DEF Hands
  <2>3. PICK x : x = work[d][v]
    OBVIOUS
  <2>4. Holding(q, x) /\ x.b.lm \in Nat
    BY <2>2, <2>3, Fields DEF IsWork
  <2>5. x.pc \in {"copyRemote", "overwrite"} => ConflictPath(q, x.b.lm) \in DOMAIN local'
    BY <2>4 DEF Holding, Lasting, Lasts, Past
  <2>6. x.pc = "overwrite" => ConflictPath(q, x.b.lm) \in DOMAIN remote'
    BY <2>4 DEF Holding, Lasting, Lasts
  <2>7. Holding(q, x)'
    BY <1>1, <2>4, <2>5, <2>6, SpareStill DEF Holding, Still, SameAt
  <2> QED BY <2>1, <2>3, <2>7
<1>8. Preserved(q)'
  BY <1>1, PreservedStill DEF Still
<1> QED BY <1>5, <1>6, <1>7, <1>8 DEF Hands, Acting

LEMMA LongerHistory ==
  ASSUME Grows, NEW t \in Nat, t <= Len(hist)
  PROVE  t <= Len(hist')
<1>1. Len(hist) \in Nat
  BY LenProperties DEF Grows
<1>2. CASE hist' = hist
  BY <1>2
<1>3. ASSUME NEW d \in Nat, hist' = Append(hist, d) PROVE t <= Len(hist')
  BY <1>1, <1>3, HistGrows DEF Grows
<1> QED BY <1>2, <1>3 DEF Grows

LEMMA PastStays ==
  ASSUME Grows, NEW p, Moves(p), NEW lm \in Nat, Past(p, lm)
  PROVE  Past(p, lm)'
<1>1. lm <= Len(hist')
  BY LongerHistory DEF Past
<1>2. lm # Now
  BY LenProperties DEF Past, Now, Grows
<1> QED BY <1>1, <1>2 DEF Past, Moves

LEMMA StillMoves ==
  ASSUME NEW p, SameAt(local', local, p), SameAt(remote', remote, p)
  PROVE  Moves(p)
BY DEF Moves, SameAt

LEMMA OtherCalls ==
  ASSUME TypeOK, Alone, MutexInv, NEW c \in Slot, NEW w \in Worker, NEW y, NEW r,
         Turn(c, w, y, r), Mine(c, w, y, r)
  PROVE  /\ call'[c].phase = "process"
         /\ \A d \in Slot : d # c =>
              /\ call'[d].phase = "idle"
              /\ \A v \in Worker : ~Acting(work'[d][v])
<1>1. \A d \in Slot : d # c => call[d].phase = "idle"
  BY DEF Alone, Busy, Mine
<1>2. \A d \in Slot, v \in Worker : d # c => work'[d][v] = work[d][v]
  BY TurnWork DEF Turn
<1> QED BY <1>1, <1>2 DEF Turn, Mine, MutexInv, Acting

\* A copy of another file than that of the step.
LEMMA CopyElsewhere ==
  ASSUME TypeOK, NoCopyNames, NEW c \in Slot, NEW w \in Worker, NEW y, NEW r,
         Turn(c, w, y, r), Mine(c, w, y, r),
         NEW q \in UserPath, q # y, NEW lm \in Nat, NEW x, x = ConflictPath(q, lm), x # y,
         Copies(q, lm, x)
  PROVE  Copies(q, lm, x)' /\ Lasts(q, lm, x)
<1>1. Still(q) /\ Still(x) /\ Grows
  BY CopyNames DEF Turn, NoCopyNames
<1>2. /\ work'[c][w] = r
      /\ \A d \in Slot, v \in Worker : d # c \/ v # w => work'[d][v] = work[d][v]
  BY TurnWork DEF Turn
<1>3. Tr' => Tr
  BY DEF Turn, Tr
<1>4. Past(q, lm) => Past(q, lm)'
  BY <1>1, StillMoves, PastStays DEF Still
<1>5. IsStamp(lm) => IsStamp(lm)' /\ hist'[lm] = hist[lm]
  BY <1>1, StampsKept
<1>6. Copying(q, lm) => Copying(q, lm)'
  <2> SUFFICES ASSUME NEW d \in Slot, NEW v \in Worker, work[d][v].pc = "copyRemote",
                      work[d][v].path = q, work[d][v].b.lm = lm
               PROVE  Copying(q, lm)'
    BY DEF Copying
  <2>1. d # c \/ v # w
    BY DEF Mine, Acting
  <2> QED BY <1>2, <2>1 DEF Copying
<1>7. CopyStores(q, lm, x)'
  <2>1. CASE saved' = saved
    BY <1>1, <1>3, <1>4, <1>5, <1>6, <2>1 DEF Copies, CopyStores, Still, SameAt, Both
  <2>2. CASE saved' = Snap /\ UNCHANGED snapshot
    <3>1. saved'.files = files /\ saved'.nonSynced = nonSynced
      BY <2>2 DEF Snap
    <3> QED BY <1>1, <1>3, <1>4, <1>5, <1>6, <3>1 DEF Copies, CopyStores, Still, SameAt, Both
  <2> QED BY <2>1, <2>2 DEF Turn
<1>8. ASSUME NEW d \in Slot PROVE CopyLists(q, lm, x, call[d])'
  <2>1. CopyLists(q, lm, x, call[d])
    BY DEF Copies
  <2>2. /\ call'[d].phase = call[d].phase /\ call'[d].noSync = call[d].noSync
        /\ call'[d].plist = call[d].plist /\ call'[d].slist = call[d].slist
        /\ x \in call'[d].todo => x \in call[d].todo
    BY DEF Turn
  <2> QED BY <1>1, <1>3, <1>4, <2>1, <2>2 DEF CopyLists, Still, SameAt
<1>9. ASSUME NEW d \in Slot, NEW v \in Worker, Acting(work'[d][v]), work'[d][v].path = x
      PROVE  CopyHand(q, lm, x, work[d][v])'
  <2>1. work'[d][v] = work[d][v]
    BY <1>2, <1>9 DEF Mine
  <2>2. CopyHand(q, lm, x, work[d][v]) /\ CopyStores(q, lm, x)
    BY <1>9, <2>1 DEF Copies
  <2> QED
    BY <1>1, <1>3, <1>4, <1>5, <2>1, <2>2 DEF CopyHand, CopyStores, Still, SameAt
<1> QED BY <1>1, <1>7, <1>8, <1>9 DEF Copies, Acting, Lasts, Still, SameAt

\* A copy of the file of the step.
LEMMA CopyOwner ==
  ASSUME TypeOK, Alone, MutexInv, NoCopyNames, NEW c \in Slot, NEW w \in Worker,
         NEW y \in UserPath, NEW r, Turn(c, w, y, r), Mine(c, w, y, r),
         NEW lm \in Nat, NEW x, x = ConflictPath(y, lm), Copies(y, lm, x), Tends(y, lm, x)
  PROVE  Copies(y, lm, x)'
<1>1. Grows /\ x # y
  BY DEF Turn, NoCopyNames
<1>2. /\ work'[c][w] = r
      /\ \A d \in Slot, v \in Worker : d # c \/ v # w => work'[d][v] = work[d][v]
  BY TurnWork DEF Turn
<1>3. Tr' => Tr
  BY DEF Turn, Tr
<1>4. IsStamp(lm) => IsStamp(lm)' /\ hist'[lm] = hist[lm]
  BY <1>1, StampsKept
<1>5. ASSUME NEW d \in Slot PROVE CopyLists(y, lm, x, call[d])'
  <2>1. CopyLists(y, lm, x, call[d])
    BY DEF Copies
  <2>2. /\ call'[d].phase = call[d].phase /\ call'[d].noSync = call[d].noSync
        /\ call'[d].plist = call[d].plist /\ call'[d].slist = call[d].slist
        /\ x \in call'[d].todo => x \in call[d].todo
    BY DEF Turn
  <2>3. call'[d].phase \in {"process", "idle"}
    BY OtherCalls
  <2> QED BY <1>3, <2>1, <2>2, <2>3 DEF CopyLists, Tends
<1>6. ASSUME NEW d \in Slot, NEW v \in Worker, Acting(work'[d][v]), work'[d][v].path = x
      PROVE  CopyHand(y, lm, x, work[d][v])'
  <2>1. work'[d][v] = work[d][v]
    BY <1>1, <1>2, <1>6 DEF Mine
  <2>2. CopyHand(y, lm, x, work[d][v]) /\ CopyStores(y, lm, x)
    BY <1>6, <2>1 DEF Copies
  <2> QED BY <1>3, <1>4, <2>1, <2>2 DEF CopyHand, CopyStores, Tends
<1> QED BY <1>5, <1>6 DEF Copies, Acting, Tends

\* A copy that the step is on.
LEMMA CopyHere ==
  ASSUME TypeOK, Alone, MutexInv, NEW c \in Slot, NEW w \in Worker,
         NEW q, NEW lm \in Nat, NEW x, NEW r, Turn(c, w, x, r), Mine(c, w, x, r),
         Copies(q, lm, x), CopyStores(q, lm, x)', Acting(r) => CopyHand(q, lm, x, r)'
  PROVE  Copies(q, lm, x)'
<1>2. /\ work'[c][w] = r
      /\ \A d \in Slot, v \in Worker : d # c \/ v # w => work'[d][v] = work[d][v]
  BY TurnWork DEF Turn
<1>5. ASSUME NEW d \in Slot PROVE CopyLists(q, lm, x, call[d])'
  <2>1. CopyLists(q, lm, x, call[d])
    BY DEF Copies
  <2>2. call'[d].noSync = call[d].noSync
    BY DEF Turn
  <2>3. CASE d = c
    BY <2>1, <2>2, <2>3, OtherCalls DEF CopyLists, Mine
  <2>4. CASE d # c
    BY <2>1, <2>2, <2>4, OtherCalls DEF CopyLists
  <2> QED BY <2>3, <2>4
<1>6. ASSUME NEW d \in Slot, NEW v \in Worker, Acting(work'[d][v]), work'[d][v].path = x
      PROVE  CopyHand(q, lm, x, work[d][v])'
  <2>1. d = c
    BY <1>6, OtherCalls
  <2>2. CASE v = w
    BY <1>2, <1>6, <2>1, <2>2 DEF CopyHand
  <2>3. CASE v # w
    BY <1>2, <1>6, <2>1, <2>3 DEF Mine
  <2> QED BY <2>2, <2>3
<1> QED BY <1>5, <1>6 DEF Copies, Acting

\* The file of the step, if it is a user's.
LEMMA UserHere ==
  ASSUME TypeOK, Alone, MutexInv, NEW c \in Slot, NEW w \in Worker, NEW y, NEW r,
         Turn(c, w, y, r), Mine(c, w, y, r), Acting(r) => Holding(y, r)'
  PROVE  Hands(y)'
<1>1. /\ work'[c][w] = r
      /\ \A d \in Slot, v \in Worker : d # c \/ v # w => work'[d][v] = work[d][v]
  BY TurnWork DEF Turn
<1>2. ASSUME NEW d \in Slot PROVE ListedNow(y, call[d])'
  <2>1. CASE d = c
    BY <2>1, OtherCalls DEF ListedNow, Mine
  <2>2. CASE d # c
    BY <2>2, OtherCalls DEF ListedNow
  <2> QED BY <2>1, <2>2
<1>3. ASSUME NEW d \in Slot, NEW v \in Worker, Acting(work'[d][v]), work'[d][v].path = y
      PROVE  Holding(y, work[d][v])'
  <2>1. d = c
    BY <1>3, OtherCalls
  <2>2. CASE v = w
    BY <1>1, <1>3, <2>1, <2>2 DEF Holding
  <2>3. CASE v # w
    BY <1>1, <1>3, <2>1, <2>3 DEF Mine
  <2> QED BY <2>2, <2>3
<1> QED BY <1>2, <1>3 DEF Hands, Acting

\* What is known of a file nobody deleted, and what a step on it must show.
Sure(p) == Safe(p) /\ Entries(p) /\ Hands(p) /\ Preserved(p) /\ Kin(p)
UserServed(y, r) ==
  /\ Entries(y)' /\ (Acting(r) => Holding(y, r)') /\ Preserved(y)'
  /\ \A lm \in Nat : Tends(y, lm, ConflictPath(y, lm))
CopyServed(p, lm, x, r) ==
  CopyStores(p, lm, x)' /\ (Acting(r) => CopyHand(p, lm, x, r)') /\ Lasts(p, lm, x)

LEMMA WorkerSpares ==
  ASSUME TypeOK, MutexInv, Kept, Spared, NoCopyNames, NEW c \in Slot, NEW w \in Worker,
         NEW y, NEW r, Turn(c, w, y, r), Mine(c, w, y, r),
         ~overlap /\ y \in UserPath \ deleted /\ Sure(y) => UserServed(y, r),
         \A p \in UserPath \ deleted, lm \in Nat :
           ~overlap /\ Sure(p) /\ y = ConflictPath(p, lm) => CopyServed(p, lm, y, r)
  PROVE  Spared'
<1> SUFFICES ASSUME ~overlap, NEW p \in UserPath \ deleted
             PROVE  Entries(p)' /\ Hands(p)' /\ Preserved(p)' /\ Kin(p)'
  BY DEF Spared, Turn
<1>1. Sure(p) /\ Alone
  BY DEF Sure, Spared, Kept, Guarded
<1>2. CASE p = y
  <2>1. UserServed(p, r)
    BY <1>1, <1>2
  <2>2. Hands(p)'
    BY <1>1, <1>2, <2>1, UserHere DEF UserServed
  <2>3. ASSUME NEW lm \in Nat PROVE Copies(p, lm, ConflictPath(p, lm))'
    <3>1. PICK x : x = ConflictPath(p, lm)
      OBVIOUS
    <3>2. Copies(p, lm, x) /\ Tends(p, lm, x)
      BY <1>1, <2>1, <3>1 DEF Sure, Kin, UserServed
    <3>3. Copies(p, lm, x)'
      BY <1>1, <1>2, <3>1, <3>2, CopyOwner
    <3> QED BY <3>1, <3>3
  <2> QED BY <2>1, <2>2, <2>3 DEF UserServed, Kin
<1>3. CASE p # y
  <2>1. ASSUME NEW lm \in Nat, NEW x, x = ConflictPath(p, lm)
        PROVE  Copies(p, lm, x)' /\ Lasts(p, lm, x)
    <3>1. Copies(p, lm, x)
      BY <1>1, <2>1 DEF Sure, Kin
    <3>2. CASE x # y
      BY <1>3, <2>1, <3>1, <3>2, CopyElsewhere
    <3>3. CASE x = y
      <4>1. CopyServed(p, lm, x, r)
        BY <1>1, <2>1, <3>3
      <4> QED BY <1>1, <3>1, <3>3, <4>1, CopyHere DEF CopyServed
    <3> QED BY <3>2, <3>3
  <2>2. Lasting(p)
    BY <2>1 DEF Lasting
  <2>3. Kin(p)'
    BY <2>1 DEF Kin
  <2> QED BY <1>1, <1>3, <2>2, <2>3, UserElsewhere DEF Sure
<1> QED BY <1>2, <1>3

-----------------------------------------------------------------------------
(* The parts of such a step. *)

Only(y) == \A q : q # y => Still(q)
Noted == saved' = saved \/ (saved' = Snap /\ UNCHANGED snapshot)

\* A worker that has begun a path goes on with it, or throws.
LEMMA TurnMove ==
  ASSUME TypeOK, MutexInv, Apart, NEW c \in Slot, NEW w \in Worker, Acting(work[c][w]),
         NEW y, y = work[c][w].path, NEW r, work' = [work EXCEPT ![c][w] = r],
         Acting(r) => r.path = y, UNCHANGED <<call, saved, budget, live, deleted, overlap>>, Grows,
         \A q : q # y /\ (\A lm \in Nat : q # ConflictPath(y, lm)) => Still(q)
  PROVE  Turn(c, w, y, r) /\ Mine(c, w, y, r)
<1>1. call[c].phase = "process"
  BY DEF MutexInv, Acting
<1>2. y \notin call[c].todo /\ \A v \in Worker \ {w} : Acting(work[c][v]) => work[c][v].path # y
  BY DEF Apart
<1> QED BY <1>1, <1>2 DEF Turn, Mine

LEMMA TurnThrow ==
  ASSUME TypeOK, MutexInv, Apart, NEW c \in Slot, NEW w \in Worker, Acting(work[c][w]),
         Throw(c, w), NEW y, y = work[c][w].path, UNCHANGED <<snapshot, live, deleted, overlap>>,
         budget' = budget \/ (Tr /\ ~Tr'), Grows,
         \A q : q # y /\ (\A lm \in Nat : q # ConflictPath(y, lm)) => Still(q)
  PROVE  \E r : r.pc = "dead" /\ Turn(c, w, y, r) /\ Mine(c, w, y, r)
<1>1. PICK r : /\ ~Acting(r) /\ Owns(c, w, y, r) /\ r.pc = "dead"
               /\ work' = [work EXCEPT ![c][w] = r]
               /\ \A d \in Slot : /\ call'[d].phase = call[d].phase
                                  /\ call'[d].plist = call[d].plist
                                  /\ call'[d].slist = call[d].slist
                                  /\ call'[d].noSync = call[d].noSync
                                  /\ call'[d].todo = call[d].todo
               /\ saved' \in {saved, Snap}
  BY ThrowDoes
<1>2. Turn(c, w, y, r)
  BY <1>1 DEF Turn
<1>3. Mine(c, w, y, r)
  BY <1>1 DEF Mine, Owns
<1> QED BY <1>1, <1>2, <1>3

LEMMA NotDropping ==
  ASSUME Alone, Apart, MutexInv, NEW c \in Slot, call[c].phase = "process", NEW y,
         \/ y \in call[c].todo
         \/ \E w \in Worker : /\ Acting(work[c][w]) /\ work[c][w].path = y
                              /\ work[c][w].pc # "dropStale"
  PROVE  ~Dropping(y)
<1> SUFFICES ASSUME NEW d \in Slot, NEW v \in Worker, work[d][v].pc = "dropStale",
                    work[d][v].path = y
             PROVE  FALSE
  BY DEF Dropping
<1>1. d = c
  BY DEF Alone, Busy, MutexInv
<1> QED BY <1>1 DEF Apart, Acting

\* Entries of a file that is the same on both sides, that the browser does not hold,
\* or that stays as it is.
LEMMA EntriesSame ==
  ASSUME NEW y, Same(y)' PROVE Entries(y)'
BY DEF Entries, Fits, LocalSpare, RemoteSpare, Same

LEMMA EntriesGone ==
  ASSUME NEW y, y \notin DOMAIN local', y \in DOMAIN remote', y \in DOMAIN files',
         files'[y][2] = remote'[y].lm
  PROVE  Entries(y)'
BY DEF Entries, Fits, LocalSpare

LEMMA EntriesKept ==
  ASSUME NEW y, Entries(y), Still(y), UNCHANGED live, ~Dropping(y), Noted
  PROVE  Entries(y)'
<1>1. ASSUME y \in DOMAIN files' PROVE Fits(y, files[y])'
  <2>1. PICK item : item = files[y]
    OBVIOUS
  <2>2. files'[y] = item /\ Fits(y, item)
    BY <1>1, <2>1 DEF Still, SameAt, Entries
  <2> QED BY <2>2, FitsStill
<1>2. ASSUME y \in DOMAIN saved'.files PROVE Fits(y, saved.files[y])'
  <2>1. PICK item : item = saved'.files[y]
    OBVIOUS
  <2>2. Fits(y, item)
    BY <1>2, <2>1 DEF Noted, Snap, Entries
  <2> QED BY <2>1, <2>2, FitsStill
<1>3. y \in StdLib => LocalSpare(y)'
  BY SpareStill DEF Entries, Still
<1> QED BY <1>1, <1>2, <1>3 DEF Entries

\* Contents that are covered or removed are elsewhere.
LEMMA PreservedMoved ==
  ASSUME NEW y, Preserved(y), Lasting(y), Grows, UNCHANGED live,
         y \in DOMAIN local /\ <<y, local[y].data>> \in live =>
           \/ y \in DOMAIN local' /\ local'[y].data = local[y].data
           \/ y \in DOMAIN remote' /\ remote'[y].data = local[y].data,
         \A d : y \in DOMAIN remote /\ d = remote[y].data /\ <<y, d>> \in live =>
           \/ y \in DOMAIN local' /\ local'[y].data = d
           \/ y \in DOMAIN remote' /\ remote'[y].data = d
           \/ InCopy(y, d)'
  PROVE  Preserved(y)'
<1> SUFFICES ASSUME NEW d, <<y, d>> \in live
             PROVE  d \in Held(local', y) \cup Held(remote', y) \/ InCopy(y, d)'
  BY DEF Preserved, Held
<1>1. CASE InCopy(y, d)
  BY <1>1, CopiesLast
<1>2. CASE y \in DOMAIN local /\ d = local[y].data
  BY <1>2 DEF Held
<1>3. CASE y \in DOMAIN remote /\ d = remote[y].data
  BY <1>3 DEF Held
<1>4. \A store : d \in Held(store, y) => y \in DOMAIN store /\ d = store[y].data
  BY DEF Held
<1> QED BY <1>1, <1>2, <1>3, <1>4 DEF Preserved

\* The copies of a file that the step does not touch.
LEMMA KinOne ==
  ASSUME TypeOK, NoCopyNames, NEW c \in Slot, NEW w \in Worker, NEW y \in UserPath, NEW r,
         Turn(c, w, y, r), Moves(y), NEW lm \in Nat, NEW x, x = ConflictPath(y, lm),
         CopyStores(y, lm, x), Still(x),
         work[c][w].pc # "copyRemote" \/ work[c][w].b.lm # lm \/ ~Tr'
  PROVE  Tends(y, lm, x) /\ Lasts(y, lm, x)
<1>1. x # y /\ Grows /\ Noted
  BY DEF NoCopyNames, Turn, Noted
<1>2. Past(y, lm) => Past(y, lm)'
  BY <1>1, PastStays
<1>3. IsStamp(lm) => IsStamp(lm)' /\ hist'[lm] = hist[lm]
  BY <1>1, StampsKept
<1>4. Copying(y, lm) => Copying(y, lm)' \/ ~Tr'
  <2> SUFFICES ASSUME work[c][w].pc # "copyRemote" \/ work[c][w].b.lm # lm,
                      NEW d \in Slot, NEW v \in Worker,
                      work[d][v].pc = "copyRemote", work[d][v].path = y, work[d][v].b.lm = lm
               PROVE  Copying(y, lm)'
    BY DEF Copying
  <2>1. work'[d][v] = work[d][v]
    BY TurnWork DEF Turn
  <2> QED BY <2>1 DEF Copying
<1>5. Tr' => Tr
  BY DEF Turn, Tr
<1>6. CopyStores(y, lm, x)'
  <2>1. CASE saved' = saved
    BY <1>1, <1>2, <1>3, <1>4, <1>5, <2>1 DEF CopyStores, Still, SameAt, Both
  <2>2. CASE saved' = Snap /\ UNCHANGED snapshot
    <3>1. saved'.files = files /\ saved'.nonSynced = nonSynced
      BY <2>2 DEF Snap
    <3> QED BY <1>1, <1>2, <1>3, <1>4, <1>5, <3>1 DEF CopyStores, Still, SameAt, Both
  <2> QED BY <1>1, <2>1, <2>2 DEF Noted
<1> QED BY <1>1, <1>2, <1>6 DEF Tends, Lasts, Still, SameAt

LEMMA KinStill ==
  ASSUME TypeOK, NoCopyNames, NEW c \in Slot, NEW w \in Worker, NEW y \in UserPath, NEW r,
         Turn(c, w, y, r), Kin(y), Moves(y), Only(y),
         work[c][w].pc # "copyRemote" \/ ~Tr'
  PROVE  (\A lm \in Nat : Tends(y, lm, ConflictPath(y, lm))) /\ Lasting(y)
<1> SUFFICES ASSUME NEW lm \in Nat, NEW x, x = ConflictPath(y, lm)
             PROVE  Tends(y, lm, x) /\ Lasts(y, lm, x)
  BY DEF Lasting
<1>1. Still(x) /\ CopyStores(y, lm, x)
  BY DEF NoCopyNames, Only, Kin, Copies
<1> QED BY <1>1, KinOne

\* Around a copy that the step is on, nothing changes.
LEMMA CopyContext ==
  ASSUME TypeOK, NoCopyNames, NEW c \in Slot, NEW w \in Worker, NEW x, NEW r,
         Turn(c, w, x, r), Mine(c, w, x, r), NEW q \in UserPath, NEW lm \in Nat,
         x = ConflictPath(q, lm)
  PROVE  /\ Past(q, lm) => Past(q, lm)'
         /\ Copying(q, lm) => Copying(q, lm)'
         /\ Tr' => Tr
         /\ IsStamp(lm) => IsStamp(lm)' /\ hist'[lm] = hist[lm]
         /\ Noted
<1>1. q # x /\ Still(q) /\ Grows
  BY DEF Turn, NoCopyNames
<1>2. Past(q, lm) => Past(q, lm)'
  BY <1>1, StillMoves, PastStays DEF Still
<1>3. Copying(q, lm) => Copying(q, lm)'
  <2> SUFFICES ASSUME NEW d \in Slot, NEW v \in Worker, work[d][v].pc = "copyRemote",
                      work[d][v].path = q, work[d][v].b.lm = lm
               PROVE  Copying(q, lm)'
    BY DEF Copying
  <2>1. d # c \/ v # w
    BY <1>1 DEF Mine, Acting
  <2>2. work'[d][v] = work[d][v]
    BY <2>1, TurnWork DEF Turn
  <2> QED BY <2>2 DEF Copying
<1>4. IsStamp(lm) => IsStamp(lm)' /\ hist'[lm] = hist[lm]
  BY <1>1, StampsKept
<1> QED BY <1>2, <1>3, <1>4 DEF Turn, Tr, Noted

\* The copy is in both stores after the step, or the stores and the snapshot are
\* as they were.
LEMMA CopyDone ==
  ASSUME NEW q, NEW lm, NEW x, Both(x)', IsStamp(lm)',
         local'[x].data = hist'[lm], remote'[x].data = hist'[lm],
         x \notin nonSynced', x \notin saved'.nonSynced
  PROVE  CopyStores(q, lm, x)'
BY DEF CopyStores, Both

LEMMA CopyUntouched ==
  ASSUME TypeOK, NoCopyNames, NEW c \in Slot, NEW w \in Worker, NEW x, NEW r,
         Turn(c, w, x, r), Mine(c, w, x, r), NEW q \in UserPath, NEW lm \in Nat,
         x = ConflictPath(q, lm), CopyStores(q, lm, x), Still(x)
  PROVE  CopyStores(q, lm, x)' /\ Lasts(q, lm, x)
<1>1. /\ Past(q, lm) => Past(q, lm)'
      /\ Copying(q, lm) => Copying(q, lm)'
      /\ Tr' => Tr
      /\ IsStamp(lm) => IsStamp(lm)' /\ hist'[lm] = hist[lm]
      /\ Noted
  BY CopyContext
<1>2. CASE saved' = saved
  BY <1>1, <1>2 DEF CopyStores, Still, SameAt, Both, Lasts
<1>3. CASE saved' = Snap /\ UNCHANGED snapshot
  <2>1. saved'.files = files /\ saved'.nonSynced = nonSynced
    BY <1>3 DEF Snap
  <2> QED BY <1>1, <2>1 DEF CopyStores, Still, SameAt, Both, Lasts
<1> QED BY <1>1, <1>2, <1>3 DEF Noted

-----------------------------------------------------------------------------
(* The steps of a worker.                                                      *)

Ready ==
  /\ TypeOK /\ MutexInv /\ StampInv /\ Dated /\ Kept /\ Named /\ Spared /\ NoCopyNames

\* Steps that change neither store nor the snapshot.
LEMMA QuietStep ==
  ASSUME Ready, NEW c \in Slot, NEW w \in Worker, NEW y, NEW r,
         Turn(c, w, y, r), Mine(c, w, y, r), UNCHANGED <<local, remote, files, nonSynced>>,
         Acting(work[c][w]), work[c][w].pc # "dropStale", work[c][w].pc # "copyRemote" \/ ~Tr',
         ~overlap /\ y \in UserPath \ deleted /\ Sure(y) /\ Acting(r) => Holding(y, r),
         \A p \in UserPath \ deleted, lm \in Nat :
           ~overlap /\ Sure(p) /\ y = ConflictPath(p, lm) /\ Acting(r) => CopyHand(p, lm, y, r)
  PROVE  Spared'
<1> USE DEF Ready
<1>1. (\A q : Still(q)) /\ Moves(y) /\ Only(y)
  BY DEF Still, SameAt, Moves, Only
<1>2. Grows /\ Noted /\ UNCHANGED live /\ (Tr' => Tr)
  BY DEF Turn, Noted, Tr
<1>3. ASSUME ~overlap, y \in UserPath \ deleted, Sure(y) PROVE UserServed(y, r)
  <2>1. Alone
    BY <1>3 DEF Kept, Guarded
  <2>2. ~Dropping(y)
    BY <2>1, NotDropping DEF Mine, Kept
  <2>3. Entries(y)'
    BY <1>1, <1>2, <1>3, <2>2, EntriesKept DEF Sure
  <2>4. (\A lm \in Nat : Tends(y, lm, ConflictPath(y, lm))) /\ Lasting(y)
    BY <1>1, <1>3, KinStill DEF Sure
  <2>5. Preserved(y)'
    BY <1>1, <1>2, <1>3, <2>4, PreservedStill DEF Sure, Still
  <2>6. Acting(r) => Holding(y, r)'
    BY <1>2, <1>3 DEF Holding, LocalSpare, RemoteSpare, Same
  <2> QED BY <2>3, <2>4, <2>5, <2>6 DEF UserServed
<1>4. ASSUME ~overlap, NEW p \in UserPath \ deleted, NEW lm \in Nat, Sure(p),
             y = ConflictPath(p, lm)
      PROVE  CopyServed(p, lm, y, r)
  <2>1. CopyStores(p, lm, y)
    BY <1>4 DEF Sure, Kin, Copies
  <2>2. CopyStores(p, lm, y)' /\ Lasts(p, lm, y)
    BY <1>1, <1>4, <2>1, CopyUntouched
  <2>3. /\ Past(p, lm) => Past(p, lm)'
        /\ IsStamp(lm) => hist'[lm] = hist[lm]
    BY <1>4, CopyContext
  <2>4. Acting(r) => CopyHand(p, lm, y, r)'
    BY <1>2, <1>4, <2>1, <2>3 DEF CopyHand, CopyStores
  <2> QED BY <2>2, <2>4 DEF CopyServed
<1> QED BY <1>3, <1>4, WorkerSpares

\* A worker throws, and the server has not done anything.
LEMMA ThrowSpares ==
  ASSUME Ready, NEW c \in Slot, NEW w \in Worker, Throw(c, w),
         Acting(work[c][w]), work[c][w].pc # "dropStale", work[c][w].pc # "copyRemote" \/ ~Tr',
         UNCHANGED <<stores, snapshot, history>>, budget' = budget \/ (Tr /\ ~Tr')
  PROVE  Spared'
<1> USE DEF Ready
<1>1. PICK y : y = work[c][w].path
  OBVIOUS
<1>2. (\A q : Still(q)) /\ Grows
  BY DEF Still, SameAt, stores, snapshot, Grows, TypeOK, StoresOK
<1>3. PICK r : r.pc = "dead" /\ Turn(c, w, y, r) /\ Mine(c, w, y, r)
  BY <1>1, <1>2, TurnThrow DEF Kept, history
<1> QED BY <1>1, <1>3, QuietStep DEF stores, snapshot, Acting

\* What a worker holds, of a user's file and of a copy.
LEMMA InHands ==
  ASSUME NEW c \in Slot, NEW w \in Worker, Acting(work[c][w])
  PROVE  /\ \A y : Sure(y) /\ y = work[c][w].path
              => /\ Holding(y, work[c][w]) /\ InHand(y, work[c][w])
                 /\ InSnapshot(y) /\ Entries(y) /\ Preserved(y) /\ Kin(y)
         /\ \A p, lm : Sure(p) /\ lm \in Nat /\ ConflictPath(p, lm) = work[c][w].path
              => /\ CopyHand(p, lm, ConflictPath(p, lm), work[c][w])
                 /\ CopyStores(p, lm, ConflictPath(p, lm))
BY DEF Sure, Hands, Kin, Copies, Safe

LEMMA ReadSpares ==
  ASSUME Ready, NEW c \in Slot, NEW w \in Worker, ReadLocal(c, w) \/ ReadRemote(c, w)
  PROVE  Spared'
<1> USE DEF Ready
<1>1. PICK y : y = work[c][w].path
  OBVIOUS
<1>2. Acting(work[c][w]) /\ IsWork(work[c][w]) /\ work[c][w].pc \in {"push", "conflict", "pull", "std"}
  BY Fields DEF ReadLocal, ReadRemote, Acting
<1>3. UNCHANGED <<stores, snapshot, budget, history>>
  BY DEF ReadLocal, ReadRemote
<1>4. Grows /\ \A q : Still(q)
  BY <1>3 DEF Still, SameAt, stores, snapshot, Grows, TypeOK, StoresOK
<1>5. CASE Throw(c, w)
  BY <1>2, <1>3, <1>5, ThrowSpares
<1>6. ASSUME ReadLocal(c, w), y \in DOMAIN local PROVE Spared'
  <2>1. PICK r : r = [work[c][w] EXCEPT !.a = local[y],
                   !.pc = IF work[c][w].pc = "push" THEN "pushWrite" ELSE "conflictRead"]
    OBVIOUS
  <2>2. work' = [work EXCEPT ![c][w] = r] /\ UNCHANGED <<call, saved>>
    BY <1>1, <1>6, <2>1 DEF ReadLocal
  <2>3. /\ r.path = y /\ r.a = local[y]
        /\ \/ r.pc = "pushWrite" /\ work[c][w].pc = "push"
           \/ r.pc = "conflictRead" /\ work[c][w].pc = "conflict"
    BY <1>1, <1>2, <1>6, <2>1 DEF IsWork, ReadLocal
  <2>4. Turn(c, w, y, r) /\ Mine(c, w, y, r)
    BY <1>1, <1>2, <1>3, <1>4, <2>2, <2>3, TurnMove DEF Kept, history
  <2>5. Sure(y) => Holding(y, r)
    BY <1>1, <1>2, <1>6, <2>3, InHands DEF Holding
  <2>6. ASSUME NEW p, NEW lm \in Nat, Sure(p), y = ConflictPath(p, lm)
        PROVE  CopyHand(p, lm, y, r)
    <3>1. CopyHand(p, lm, y, work[c][w]) /\ CopyStores(p, lm, y)
      BY <1>1, <1>2, <2>6, InHands
    <3> QED BY <1>6, <2>3, <3>1 DEF CopyHand, CopyStores
  <2> QED BY <1>2, <1>3, <2>4, <2>5, <2>6, QuietStep DEF stores, snapshot
<1>7. ASSUME ReadRemote(c, w), y \in DOMAIN remote PROVE Spared'
  <2>1. PICK r : r = [work[c][w] EXCEPT !.b = remote[y],
                   !.pc = IF work[c][w].pc = "pull" THEN "pullWrite" ELSE "stdWrite"]
    OBVIOUS
  <2>2. work' = [work EXCEPT ![c][w] = r] /\ UNCHANGED <<call, saved>>
    BY <1>1, <1>7, <2>1 DEF ReadRemote
  <2>3. /\ r.path = y /\ r.b = remote[y]
        /\ \/ r.pc = "pullWrite" /\ work[c][w].pc = "pull"
           \/ r.pc = "stdWrite" /\ work[c][w].pc = "std"
    BY <1>1, <1>2, <1>7, <2>1 DEF IsWork, ReadRemote
  <2>4. Turn(c, w, y, r) /\ Mine(c, w, y, r)
    BY <1>1, <1>2, <1>3, <1>4, <2>2, <2>3, TurnMove DEF Kept, history
  <2>5. Sure(y) => Holding(y, r)
    BY <1>1, <1>2, <1>7, <2>3, InHands DEF Holding
  <2>6. ASSUME NEW p, NEW lm \in Nat, Sure(p), y = ConflictPath(p, lm)
        PROVE  CopyHand(p, lm, y, r)
    <3>1. CopyHand(p, lm, y, work[c][w]) /\ CopyStores(p, lm, y)
      BY <1>1, <1>2, <2>6, InHands
    <3> QED BY <1>7, <2>3, <3>1 DEF CopyHand, CopyStores
  <2> QED BY <1>2, <1>3, <2>4, <2>5, <2>6, QuietStep DEF stores, snapshot
<1> QED BY <1>1, <1>5, <1>6, <1>7 DEF ReadLocal, ReadRemote

LEMMA ReportSpares ==
  ASSUME Ready, NEW c \in Slot, NEW w \in Worker, Report(c, w)
  PROVE  Spared'
<1> USE DEF Ready
<1>1. PICK y : y = work[c][w].path
  OBVIOUS
<1>2. Acting(work[c][w]) /\ work[c][w].pc = "report"
  BY DEF Report, Acting
<1>3. PICK r : r = IdleWork
  OBVIOUS
<1>4. r.pc = "idle" /\ ~Acting(r) /\ work' = [work EXCEPT ![c][w] = r]
  BY <1>3 DEF Report, IdleWork, Acting
<1>5. \A d \in Slot : /\ call'[d].phase = call[d].phase
                      /\ call'[d].plist = call[d].plist /\ call'[d].slist = call[d].slist
                      /\ call'[d].noSync = call[d].noSync /\ call'[d].todo = call[d].todo
  <2>1. call' = [call EXCEPT ![c] = [call[c] EXCEPT !.changed = TRUE]]
    BY DEF Report
  <2>2. IsCall(call[c]) /\ call'[c] = [call[c] EXCEPT !.changed = TRUE]
    BY <2>1, Fields DEF TypeOK, CallsOK
  <2>3. \A d \in Slot : d # c => call'[d] = call[d]
    BY <2>1 DEF TypeOK, CallsOK
  <2> QED BY <2>2, <2>3 DEF IsCall
<1>6. /\ UNCHANGED <<stores, snapshot, budget, history>>
      /\ saved' = saved \/ saved' = Snap
  BY DEF Report
<1>7. Grows /\ \A q : Still(q)
  BY <1>6 DEF Still, SameAt, stores, snapshot, Grows, TypeOK, StoresOK
<1>8. Turn(c, w, y, r)
  BY <1>4, <1>5, <1>6, <1>7 DEF Turn, history
<1>9. Mine(c, w, y, r)
  <2>1. Owns(c, w, y, r)
    BY <1>1, <1>2, <1>4, <1>5, GoesOn DEF Kept
  <2> QED BY <1>1, <2>1 DEF Mine, Owns
<1> QED BY <1>2, <1>4, <1>6, <1>8, <1>9, QuietStep DEF stores, snapshot

\* Steps after which both stores hold the same of the path, and the worker has
\* nothing in its hands.
LEMMA LandingStep ==
  ASSUME Ready, NEW c \in Slot, NEW w \in Worker, NEW y, NEW r,
         Turn(c, w, y, r), Mine(c, w, y, r), work[c][w].pc # "copyRemote", Only(y),
         Acting(r) => r.pc = "report",
         ~overlap /\ y \in UserPath \ deleted /\ Sure(y) =>
           /\ Same(y)' /\ Moves(y)
           /\ y \in DOMAIN local /\ <<y, local[y].data>> \in live
                => local'[y].data = local[y].data
           /\ y \in DOMAIN remote /\ <<y, remote[y].data>> \in live
                => local'[y].data = remote[y].data,
         \A p \in UserPath \ deleted, lm \in Nat :
           ~overlap /\ Sure(p) /\ y = ConflictPath(p, lm) =>
             /\ Both(y)' /\ IsStamp(lm) /\ y \notin nonSynced'
             /\ local'[y].data = hist[lm] /\ remote'[y].data = hist[lm]
  PROVE  Spared'
<1> USE DEF Ready
<1>1. Grows /\ Noted /\ UNCHANGED live
  BY DEF Turn, Noted
<1>2. ASSUME ~overlap, y \in UserPath \ deleted, Sure(y) PROVE UserServed(y, r)
  <2>1. Same(y)' /\ Moves(y)
    BY <1>2
  <2>2. Entries(y)'
    BY <2>1, EntriesSame
  <2>3. (\A lm \in Nat : Tends(y, lm, ConflictPath(y, lm))) /\ Lasting(y)
    BY <1>2, <2>1, KinStill DEF Sure
  <2>4. Preserved(y)'
    BY <1>1, <1>2, <2>1, <2>3, PreservedMoved DEF Sure, Same
  <2>5. Acting(r) => Holding(y, r)'
    BY DEF Holding
  <2> QED BY <2>2, <2>3, <2>4, <2>5 DEF UserServed
<1>3. ASSUME ~overlap, NEW p \in UserPath \ deleted, NEW lm \in Nat, Sure(p),
             y = ConflictPath(p, lm)
      PROVE  CopyServed(p, lm, y, r)
  <2>1. CopyStores(p, lm, y)
    BY <1>3 DEF Sure, Kin, Copies
  <2>2. /\ Both(y)' /\ IsStamp(lm) /\ y \notin nonSynced'
        /\ local'[y].data = hist[lm] /\ remote'[y].data = hist[lm]
    BY <1>3
  <2>3. IsStamp(lm)' /\ hist'[lm] = hist[lm]
    BY <1>1, <2>2, StampsKept
  <2>4. y \notin saved'.nonSynced
    BY <1>1, <2>1, <2>2 DEF Noted, CopyStores, Snap
  <2>5. CopyStores(p, lm, y)'
    BY <2>2, <2>3, <2>4, CopyDone
  <2>6. Acting(r) => CopyHand(p, lm, y, r)'
    BY DEF CopyHand
  <2> QED BY <2>2, <2>5, <2>6 DEF CopyServed, Lasts, Both
<1> QED BY <1>2, <1>3, WorkerSpares

LEMMA StillPut ==
  ASSUME NEW y
  PROVE  /\ \A f, v, q : q # y => SameAt(Put(f, y, v), f, q)
         /\ \A f, q : q # y => SameAt(Drop(f, y), f, q)
         /\ \A f, q : SameAt(f, f, q)
BY DEF SameAt, Put, Drop

LEMMA WriteSpares ==
  ASSUME Ready, NEW c \in Slot, NEW w \in Worker, PushWrite(c, w) \/ PullWrite(c, w)
  PROVE  Spared'
<1> USE DEF Ready
<1>1. PICK y : y = work[c][w].path
  OBVIOUS
<1>2. /\ Acting(work[c][w]) /\ Goto(c, w, "report") /\ "report" \in Pc
      /\ work[c][w].pc \in {"pushWrite", "pullWrite", "stdWrite"}
  BY DEF PushWrite, PullWrite, Acting, Pc
<1>3. PICK r : work' = [work EXCEPT ![c][w] = r] /\ r.pc = "report" /\ r.path = y
  BY <1>1, <1>2, ReportsRecord
<1>4. UNCHANGED <<hist, call, saved, budget, live, deleted, overlap>> /\ Grows
  BY DEF PushWrite, PullWrite, history, Grows, TypeOK, StoresOK
<1>5. CASE PushWrite(c, w)
  <2>1. PICK a : a = work[c][w].a
    OBVIOUS
  <2>2. /\ local' = local /\ nonSynced' = nonSynced \ {y} /\ remote' = Put(remote, y, a)
        /\ files' = Put(files, y, Pushed(y, a)) /\ work[c][w].pc = "pushWrite"
    BY <1>1, <1>5, <2>1 DEF PushWrite
  <2>3. Only(y)
    BY <2>2, StillPut DEF Only, Still
  <2>4. Turn(c, w, y, r) /\ Mine(c, w, y, r)
    BY <1>1, <1>2, <1>3, <1>4, <2>3, TurnMove DEF Kept, Only
  <2>5. y \in DOMAIN remote' /\ remote'[y] = a
    BY <2>2 DEF Put
  <2>6. ASSUME Sure(y)
        PROVE  /\ Same(y)' /\ Moves(y)
               /\ y \in DOMAIN remote /\ <<y, remote[y].data>> \in live
                    => local'[y].data = remote[y].data
    <3>1. y \in DOMAIN local /\ a = local[y] /\ RemoteSpare(y)
      BY <1>1, <1>2, <2>1, <2>2, <2>6, InHands DEF Holding
    <3> QED BY <2>2, <2>5, <3>1 DEF Same, Moves, RemoteSpare
  <2>7. ASSUME NEW p, NEW lm \in Nat, Sure(p), y = ConflictPath(p, lm)
        PROVE  /\ Both(y)' /\ IsStamp(lm) /\ y \notin nonSynced'
               /\ local'[y].data = hist[lm] /\ remote'[y].data = hist[lm]
    <3>1. CopyHand(p, lm, y, work[c][w]) /\ CopyStores(p, lm, y)
      BY <1>1, <1>2, <2>7, InHands
    <3> QED BY <2>1, <2>2, <2>5, <3>1 DEF CopyHand, CopyStores, Both
  <2> QED BY <1>2, <1>3, <2>2, <2>3, <2>4, <2>6, <2>7, LandingStep
<1>6. CASE PullWrite(c, w)
  <2>1. PICK b : b = work[c][w].b
    OBVIOUS
  <2>2. /\ remote' = remote /\ nonSynced' \in {nonSynced, nonSynced \ {y}}
        /\ local' = Put(local, y, b) /\ files' = Put(files, y, <<b.lm, b.lm>>)
        /\ work[c][w].pc \in {"pullWrite", "stdWrite"}
    BY <1>1, <1>6, <2>1 DEF PullWrite
  <2>3. Only(y)
    BY <2>2, StillPut DEF Only, Still
  <2>4. Turn(c, w, y, r) /\ Mine(c, w, y, r)
    BY <1>1, <1>2, <1>3, <1>4, <2>3, TurnMove DEF Kept, Only
  <2>5. y \in DOMAIN local' /\ local'[y] = b
    BY <2>2 DEF Put
  <2>6. ASSUME Sure(y)
        PROVE  /\ Same(y)' /\ Moves(y)
               /\ y \in DOMAIN local /\ <<y, local[y].data>> \in live
                    => local'[y].data = local[y].data
               /\ local'[y].data = remote[y].data
    <3>1. y \in DOMAIN remote /\ b = remote[y] /\ LocalSpare(y)
      BY <1>1, <1>2, <2>1, <2>2, <2>6, InHands DEF Holding
    <3> QED BY <2>2, <2>5, <3>1 DEF Same, Moves, LocalSpare
  <2>7. ASSUME NEW p, NEW lm \in Nat, Sure(p), y = ConflictPath(p, lm)
        PROVE  /\ Both(y)' /\ IsStamp(lm) /\ y \notin nonSynced'
               /\ local'[y].data = hist[lm] /\ remote'[y].data = hist[lm]
    <3>1. CopyHand(p, lm, y, work[c][w]) /\ CopyStores(p, lm, y)
      BY <1>1, <1>2, <2>7, InHands
    <3>2. work[c][w].pc = "pullWrite"
      BY <2>2, <3>1 DEF CopyHand
    <3> QED BY <2>1, <2>2, <2>5, <3>1, <3>2 DEF CopyHand, CopyStores, Both
  <2> QED BY <1>2, <1>3, <2>2, <2>3, <2>4, <2>6, <2>7, LandingStep
<1> QED BY <1>5, <1>6

\* The local copy of a file that is not to be synced goes.
LEMMA UnsyncSpares ==
  ASSUME Ready, NEW c \in Slot, NEW w \in Worker, DropStale(c, w) \/ Unsync(c, w)
  PROVE  Spared'
<1> USE DEF Ready
<1>1. PICK y : y = work[c][w].path
  OBVIOUS
<1>2. /\ Acting(work[c][w]) /\ IsWork(work[c][w]) /\ "report" \in Pc
      /\ work[c][w].pc \in {"dropStale", "unsync"}
  BY Fields DEF DropStale, Unsync, Acting, Pc
<1>3. CASE Throw(c, w) /\ Unsync(c, w) /\ y \notin DOMAIN local
  BY <1>1, <1>2, <1>3, ThrowSpares DEF Unsync, stores, snapshot
<1>4. ASSUME DropStale(c, w) \/ (Unsync(c, w) /\ y \in DOMAIN local) PROVE Spared'
  <2>1. \E r : /\ work' = [work EXCEPT ![c][w] = r] /\ r.pc \in {"report", "idle"}
               /\ (Acting(r) => r.path = y)
    <3>1. CASE DropStale(c, w)
      <4>1. PICK r : r = IF y \in DOMAIN local THEN [work[c][w] EXCEPT !.pc = "report"]
                         ELSE IdleWork
        OBVIOUS
      <4>2. work' = [work EXCEPT ![c][w] = r]
        BY <1>1, <3>1, <4>1 DEF DropStale
      <4>3. r.pc \in {"report", "idle"} /\ (Acting(r) => r.path = y)
        BY <1>1, <1>2, <4>1 DEF IdleWork, Acting, IsWork
      <4> QED BY <4>2, <4>3
    <3>2. CASE Unsync(c, w) /\ y \in DOMAIN local
      <4>1. Goto(c, w, "report")
        BY <1>1, <3>2 DEF Unsync
      <4> QED BY <1>1, <1>2, <4>1, ReportsRecord
    <3> QED BY <1>4, <3>1, <3>2
  <2>2. PICK r : /\ work' = [work EXCEPT ![c][w] = r] /\ r.pc \in {"report", "idle"}
                 /\ (Acting(r) => r.path = y)
    BY <2>1
  <2>3. /\ UNCHANGED <<remote, hist, files, call, saved, budget, live, deleted, overlap>>
        /\ local' = Drop(local, y) /\ nonSynced' \in {nonSynced, nonSynced \cup {y}}
    BY <1>1, <1>4 DEF DropStale, Unsync, snapshot, history
  <2>4. Only(y) /\ Grows
    BY <2>3, StillPut DEF Only, Still, Grows, TypeOK, StoresOK
  <2>5. Turn(c, w, y, r) /\ Mine(c, w, y, r)
    BY <1>1, <1>2, <2>2, <2>3, <2>4, TurnMove DEF Kept, Only
  <2>6. y \notin DOMAIN local'
    BY <2>3 DEF Drop
  <2>7. ASSUME y \in UserPath, Sure(y) PROVE UserServed(y, r)
    <3>1. /\ LocalSpare(y) /\ y \in DOMAIN remote /\ y \in DOMAIN files
          /\ files[y][2] = remote[y].lm
      BY <1>1, <1>2, <2>7, InHands DEF Holding
    <3>2. Entries(y)'
      BY <2>3, <2>6, <3>1, EntriesGone
    <3>3. Moves(y)
      BY <2>3, <2>6 DEF Moves
    <3>4. (\A lm \in Nat : Tends(y, lm, ConflictPath(y, lm))) /\ Lasting(y)
      BY <1>2, <2>4, <2>5, <2>7, <3>3, KinStill DEF Sure
    <3>5. Preserved(y)'
      BY <2>3, <2>4, <2>7, <3>1, <3>4, PreservedMoved DEF Sure, LocalSpare, Same
    <3>6. Acting(r) => Holding(y, r)'
      BY <2>2 DEF Holding, Acting
    <3> QED BY <3>2, <3>4, <3>5, <3>6 DEF UserServed
  <2>8. ASSUME NEW p, NEW lm \in Nat, Sure(p), y = ConflictPath(p, lm) PROVE FALSE
    <3>1. CopyHand(p, lm, y, work[c][w])
      BY <1>1, <1>2, <2>8, InHands
    <3> QED BY <1>2, <3>1 DEF CopyHand
  <2> QED BY <2>5, <2>7, <2>8, WorkerSpares
<1> QED BY <1>1, <1>3, <1>4 DEF Unsync

\* A half-made copy goes from the browser.
LEMMA DeleteLocalSpares ==
  ASSUME Ready, NEW c \in Slot, NEW w \in Worker, DeleteLocal(c, w)
  PROVE  Spared'
<1> USE DEF Ready
<1>1. PICK y : y = work[c][w].path
  OBVIOUS
<1>2. /\ Acting(work[c][w]) /\ "report" \in Pc /\ work[c][w].pc = "deleteLocal"
  BY DEF DeleteLocal, Acting, Pc
<1>3. CASE Throw(c, w) /\ y \notin DOMAIN local
  BY <1>1, <1>2, <1>3, ThrowSpares DEF DeleteLocal, stores, snapshot
<1>4. ASSUME y \in DOMAIN local PROVE Spared'
  <2>1. /\ UNCHANGED <<remote, hist, files, nonSynced, call, saved, budget, live, deleted, overlap>>
        /\ local' = Drop(local, y) /\ Goto(c, w, "report")
    BY <1>1, <1>4 DEF DeleteLocal, snapshot, history
  <2>2. PICK r : work' = [work EXCEPT ![c][w] = r] /\ r.pc = "report" /\ r.path = y
    BY <1>1, <1>2, <2>1, ReportsRecord
  <2>4. Only(y) /\ Grows
    BY <2>1, StillPut DEF Only, Still, Grows, TypeOK, StoresOK
  <2>5. Turn(c, w, y, r) /\ Mine(c, w, y, r)
    BY <1>1, <1>2, <2>1, <2>2, <2>4, TurnMove DEF Kept, Only
  <2>6. y \notin DOMAIN local'
    BY <2>1 DEF Drop
  <2>7. ~Sure(y)
    BY <1>1, <1>2, InHands DEF InHand
  <2>8. ASSUME NEW p \in UserPath, NEW lm \in Nat, Sure(p), y = ConflictPath(p, lm)
        PROVE  CopyServed(p, lm, y, r)
    <3>1. CopyHand(p, lm, y, work[c][w]) /\ CopyStores(p, lm, y)
      BY <1>1, <1>2, <2>8, InHands
    <3>2. /\ Past(p, lm) => Past(p, lm)'
          /\ Tr' => Tr
          /\ IsStamp(lm) => IsStamp(lm)' /\ hist'[lm] = hist[lm]
      BY <2>5, <2>8, CopyContext
    <3>3. CopyStores(p, lm, y)'
      BY <1>2, <2>1, <2>6, <3>1, <3>2 DEF CopyHand, CopyStores, Both
    <3>4. Acting(r) => CopyHand(p, lm, y, r)'
      BY <2>2 DEF CopyHand
    <3> QED BY <1>2, <2>1, <3>1, <3>3, <3>4 DEF CopyServed, Lasts, CopyHand
  <2> QED BY <2>5, <2>7, <2>8, WorkerSpares
<1> QED BY <1>1, <1>3, <1>4 DEF DeleteLocal

\* A file goes from the server only if some user deleted it; copies never do.
LEMMA DeleteRemoteSpares ==
  ASSUME Ready, NEW c \in Slot, NEW w \in Worker, DeleteRemote(c, w)
  PROVE  Spared'
<1> USE DEF Ready
<1>1. PICK y : y = work[c][w].path
  OBVIOUS
<1>2. /\ Acting(work[c][w]) /\ "report" \in Pc /\ work[c][w].pc = "deleteRemote"
  BY DEF DeleteRemote, Acting, Pc
<1>3. CASE Throw(c, w) /\ y \notin DOMAIN remote
  BY <1>1, <1>2, <1>3, ThrowSpares DEF DeleteRemote, stores, snapshot
<1>4. ASSUME y \in DOMAIN remote PROVE Spared'
  <2>1. /\ UNCHANGED <<local, hist, call, saved, budget, live, deleted, overlap>>
        /\ remote' = Drop(remote, y) /\ files' = Drop(files, y)
        /\ nonSynced' = nonSynced \ {y} /\ Goto(c, w, "report")
    BY <1>1, <1>4 DEF DeleteRemote, history
  <2>2. PICK r : work' = [work EXCEPT ![c][w] = r] /\ r.pc = "report" /\ r.path = y
    BY <1>1, <1>2, <2>1, ReportsRecord
  <2>4. Only(y) /\ Grows
    BY <2>1, StillPut DEF Only, Still, Grows, TypeOK, StoresOK
  <2>5. Turn(c, w, y, r) /\ Mine(c, w, y, r)
    BY <1>1, <1>2, <2>1, <2>2, <2>4, TurnMove DEF Kept, Only
  <2>6. ~Sure(y)
    BY <1>1, <1>2, InHands DEF InHand
  <2>7. ASSUME NEW p, NEW lm \in Nat, Sure(p), y = ConflictPath(p, lm) PROVE FALSE
    <3>1. CopyHand(p, lm, y, work[c][w])
      BY <1>1, <1>2, <2>7, InHands
    <3> QED BY <1>2, <3>1 DEF CopyHand
  <2> QED BY <2>5, <2>6, <2>7, WorkerSpares
<1> QED BY <1>1, <1>3, <1>4 DEF DeleteRemote

\* The conflict resolver finds equal bytes, or takes up the server's file.
LEMMA ConflictReadSpares ==
  ASSUME Ready, NEW c \in Slot, NEW w \in Worker, ConflictRead(c, w)
  PROVE  Spared'
<1> USE DEF Ready
<1>1. PICK y : y = work[c][w].path
  OBVIOUS
<1>2. /\ Acting(work[c][w]) /\ IsWork(work[c][w]) /\ work[c][w].pc = "conflictRead"
      /\ UNCHANGED <<stores, nonSynced, budget, history>>
  BY Fields DEF ConflictRead, Acting
<1>3. CASE y \notin DOMAIN remote
  BY <1>1, <1>2, <1>3, ThrowSpares DEF ConflictRead, snapshot
<1>4. Grows
  BY <1>2 DEF Grows, TypeOK, StoresOK, stores
<1>5. PICK a : a = work[c][w].a
  OBVIOUS
<1>6. ASSUME y \in DOMAIN remote, remote[y].data = a.data PROVE Spared'
  <2>1. /\ UNCHANGED <<call, saved>>
        /\ files' = Put(files, y, <<a.lm, remote[y].lm>>)
        /\ work' = [work EXCEPT ![c][w] = IdleWork]
    BY <1>1, <1>5, <1>6 DEF ConflictRead
  <2>2. PICK r : r = IdleWork
    OBVIOUS
  <2>3. r.pc = "idle" /\ ~Acting(r) /\ work' = [work EXCEPT ![c][w] = r]
    BY <2>1, <2>2 DEF IdleWork, Acting
  <2>4. Only(y)
    BY <1>2, <2>1, StillPut DEF Only, Still, stores
  <2>5. Turn(c, w, y, r) /\ Mine(c, w, y, r)
    BY <1>1, <1>2, <1>4, <2>1, <2>3, <2>4, TurnMove DEF Kept, Only, history
  <2>6. ASSUME Sure(y) PROVE Same(y)' /\ Moves(y) /\ local'[y].data = remote[y].data
    <3>1. y \in DOMAIN local /\ a = local[y]
      BY <1>1, <1>2, <1>5, <2>6, InHands DEF Holding
    <3> QED BY <1>2, <1>6, <3>1 DEF Same, Moves, stores
  <2>7. ASSUME NEW p, NEW lm \in Nat, Sure(p), y = ConflictPath(p, lm)
        PROVE  /\ Both(y)' /\ IsStamp(lm) /\ y \notin nonSynced'
               /\ local'[y].data = hist[lm] /\ remote'[y].data = hist[lm]
    <3>1. CopyHand(p, lm, y, work[c][w]) /\ CopyStores(p, lm, y)
      BY <1>1, <1>2, <2>7, InHands
    <3> QED BY <1>2, <3>1 DEF CopyHand, CopyStores, Both, stores
  <2> QED BY <1>2, <2>3, <2>4, <2>5, <2>6, <2>7, LandingStep DEF stores
<1>7. ASSUME y \in DOMAIN remote, remote[y].data # a.data PROVE Spared'
  <2>1. PICK r : r = [work[c][w] EXCEPT !.b = remote[y], !.pc = "copyLocal"]
    OBVIOUS
  <2>2. work' = [work EXCEPT ![c][w] = r] /\ UNCHANGED <<call, saved, files>>
    BY <1>1, <1>5, <1>7, <2>1 DEF ConflictRead
  <2>3. r.path = y /\ r.a = a /\ r.b = remote[y] /\ r.pc = "copyLocal"
    BY <1>1, <1>2, <1>5, <2>1 DEF IsWork
  <2>4. \A q : Still(q)
    BY <1>2, <2>2 DEF Still, SameAt, stores
  <2>5. Turn(c, w, y, r) /\ Mine(c, w, y, r)
    BY <1>1, <1>2, <1>4, <2>2, <2>3, <2>4, TurnMove DEF Kept, history
  <2>6. Sure(y) => Holding(y, r)
    BY <1>1, <1>2, <1>5, <1>7, <2>3, InHands DEF Holding
  <2>7. ASSUME NEW p, NEW lm \in Nat, Sure(p), y = ConflictPath(p, lm) PROVE FALSE
    <3>1. CopyHand(p, lm, y, work[c][w]) /\ CopyStores(p, lm, y)
      BY <1>1, <1>2, <2>7, InHands
    <3> QED BY <1>2, <1>5, <1>7, <3>1 DEF CopyHand, CopyStores
  <2> QED BY <1>2, <2>2, <2>5, <2>6, <2>7, QuietStep DEF stores
<1> QED BY <1>3, <1>6, <1>7

\* Making a copy of the server's file, which stays as it is.
LEMMA CopyingStep ==
  ASSUME Ready, NEW c \in Slot, NEW w \in Worker, NEW y, NEW r,
         Turn(c, w, y, r), Mine(c, w, y, r), Acting(work[c][w]), work[c][w].path = y,
         work[c][w].pc \in {"copyLocal", "copyRemote"},
         y \in UserPath => Still(y),
         ~overlap /\ y \in UserPath \ deleted /\ Sure(y) =>
           /\ Acting(r) => Holding(y, r)'
           /\ \A lm \in Nat : /\ Tends(y, lm, ConflictPath(y, lm))
                              /\ Lasts(y, lm, ConflictPath(y, lm))
  PROVE  Spared'
<1> USE DEF Ready
<1>1. Grows /\ Noted /\ UNCHANGED live
  BY DEF Turn, Noted
<1>2. ASSUME ~overlap, y \in UserPath \ deleted, Sure(y) PROVE UserServed(y, r)
  <2>1. ~Dropping(y)
    BY <1>2, NotDropping DEF Kept, Guarded, Mine
  <2>2. Entries(y)'
    BY <1>1, <1>2, <2>1, EntriesKept DEF Sure
  <2>3. Lasting(y) /\ \A lm \in Nat : Tends(y, lm, ConflictPath(y, lm))
    BY <1>2 DEF Lasting
  <2>4. Preserved(y)'
    BY <1>1, <1>2, <2>3, PreservedStill DEF Sure, Still
  <2> QED BY <1>2, <2>2, <2>3, <2>4 DEF UserServed
<1>3. ASSUME NEW p, NEW lm \in Nat, Sure(p), y = ConflictPath(p, lm) PROVE FALSE
  <2>1. CopyHand(p, lm, y, work[c][w])
    BY <1>3, InHands
  <2> QED BY <2>1 DEF CopyHand
<1> QED BY <1>2, <1>3, WorkerSpares

LEMMA CopyLocalSpares ==
  ASSUME Ready, NEW c \in Slot, NEW w \in Worker, CopyLocal(c, w)
  PROVE  Spared'
<1> USE DEF Ready
<1>1. PICK y, b, t, x : /\ y = work[c][w].path /\ b = work[c][w].b /\ t = Now
                        /\ x = ConflictPath(y, b.lm)
  OBVIOUS
<1>2. /\ Acting(work[c][w]) /\ IsWork(work[c][w]) /\ work[c][w].pc = "copyLocal"
      /\ UNCHANGED <<remote, files, nonSynced, saved, call, budget, live, deleted, overlap>>
      /\ local' = Put(local, x, [lm |-> t, data |-> b.data])
      /\ hist' = Append(hist, b.data)
  BY <1>1, Fields DEF CopyLocal, Acting, snapshot, history
<1>3. Grows /\ Stamped(b) /\ b.lm \in Nat /\ b.data \in Nat
  BY <1>1, <1>2, StampInv, SMTT(20) DEF Grows, TypeOK, StoresOK, IsWork, StampInv, StampedWork
<1>4. PICK r : r = [work[c][w] EXCEPT !.copyA = t, !.pc = "copyRemote"]
  OBVIOUS
<1>5. work' = [work EXCEPT ![c][w] = r]
  BY <1>1, <1>4 DEF CopyLocal
<1>6. r.path = y /\ r.pc = "copyRemote" /\ r.a = work[c][w].a /\ r.b = b
  BY <1>1, <1>2, <1>4 DEF IsWork
<1>7. \A q : q # x => Still(q)
  BY <1>2, StillPut DEF Still
<1>8. Turn(c, w, y, r) /\ Mine(c, w, y, r)
  BY <1>1, <1>2, <1>3, <1>5, <1>6, <1>7, TurnMove DEF Kept
<1>9. y \in UserPath => y # x
  BY <1>1 DEF NoCopyNames
<1>10. x \in DOMAIN local' /\ local'[x].data = b.data /\ DOMAIN local \subseteq DOMAIN local'
  BY <1>2 DEF Put
<1>11. ASSUME y \in UserPath, Sure(y) PROVE Holding(y, r)'
  <2>1. Holding(y, work[c][w]) /\ Still(y)
    BY <1>1, <1>2, <1>7, <1>9, <1>11, InHands
  <2>2. /\ y \in DOMAIN local /\ r.a = local[y] /\ y \in DOMAIN remote /\ r.b = remote[y]
        /\ r.a.data # r.b.data
    BY <1>1, <1>2, <1>6, <2>1 DEF Holding
  <2>3. y \in DOMAIN local' /\ r.a = local'[y] /\ y \in DOMAIN remote' /\ r.b = remote'[y]
    BY <2>1, <2>2 DEF Still, SameAt
  <2>4. ConflictPath(y, r.b.lm) \in DOMAIN local'
    BY <1>1, <1>6, <1>10
  <2> QED BY <1>6, <2>2, <2>3, <2>4 DEF Holding
<1>12. ASSUME y \in UserPath, Sure(y), NEW lm \in Nat, NEW z, z = ConflictPath(y, lm)
       PROVE  Tends(y, lm, z) /\ Lasts(y, lm, z)
  <2>1. CopyStores(y, lm, z)
    BY <1>12 DEF Sure, Kin, Copies
  <2>2. Moves(y)
    BY <1>7, <1>9, <1>12, StillMoves DEF Still
  <2>3. CASE z # x
    BY <1>2, <1>7, <1>8, <1>12, <2>1, <2>2, <2>3, KinOne
  <2>4. CASE z = x
    <3>1. lm = b.lm
      BY <1>1, <1>12, <2>4 DEF ConflictPath
    <3>2. IsStamp(lm)' /\ hist'[lm] = hist[lm] /\ hist[lm] = b.data
      BY <1>3, <3>1, StampsKept DEF Stamped
    <3>3. Copying(y, lm)'
      <4>1. work'[c][w] = r
        BY <1>5 DEF TypeOK, WorkersOK
      <4> QED BY <1>6, <3>1, <4>1 DEF Copying
    <3>4. CopyStores(y, lm, z)'
      BY <1>2, <1>10, <2>1, <2>4, <3>2, <3>3 DEF CopyStores, Both, Tr
    <3>5. Past(y, lm) => Past(y, lm)'
      BY <1>3, <2>2, PastStays
    <3> QED BY <1>2, <1>10, <2>4, <3>4, <3>5 DEF Tends, Lasts
  <2> QED BY <2>3, <2>4
<1> QED BY <1>1, <1>2, <1>7, <1>8, <1>9, <1>11, <1>12, CopyingStep

\* The copy reaches the server, whether or not its answer comes back.
LEMMA CopyLands ==
  ASSUME Ready, NEW c \in Slot, NEW w \in Worker, NEW r, NEW y, NEW b, NEW t, NEW x,
         y = work[c][w].path, b = work[c][w].b, x = ConflictPath(y, b.lm),
         work[c][w].pc = "copyRemote", Turn(c, w, y, r), Mine(c, w, y, r),
         UNCHANGED <<local, files, nonSynced>>,
         remote' = Put(remote, x, [lm |-> t, data |-> b.data]),
         hist' = Append(hist, b.data),
         Acting(r) => r.pc = "overwrite" /\ r.a = work[c][w].a /\ r.b = b
  PROVE  Spared'
<1> USE DEF Ready
<1>2. Acting(work[c][w]) /\ IsWork(work[c][w])
  BY Fields DEF Acting
<1>3. Grows /\ Stamped(b) /\ b.lm \in Nat /\ b.data \in Nat /\ Noted /\ UNCHANGED live
  BY <1>2 DEF Turn, Noted, IsWork, StampInv, StampedWork
<1>7. \A q : q # x => Still(q)
  BY StillPut DEF Still
<1>9. y \in UserPath => y # x
  BY DEF NoCopyNames
<1>10. x \in DOMAIN remote' /\ remote'[x].data = b.data /\ DOMAIN remote \subseteq DOMAIN remote'
  BY DEF Put
<1>11. ASSUME y \in UserPath, Sure(y)
       PROVE  (Acting(r) => Holding(y, r)') /\ x \in DOMAIN local
  <2>1. Holding(y, work[c][w]) /\ Still(y)
    BY <1>2, <1>7, <1>9, <1>11, InHands
  <2> QED BY <1>3, <1>10, <2>1, Zenon DEF Holding, Still, SameAt
<1>12. ASSUME y \in UserPath, Sure(y), NEW lm \in Nat, NEW z, z = ConflictPath(y, lm)
       PROVE  Tends(y, lm, z) /\ Lasts(y, lm, z)
  <2>1. CopyStores(y, lm, z)
    BY <1>12 DEF Sure, Kin, Copies
  <2>2. Moves(y)
    BY <1>7, <1>9, <1>12, StillMoves DEF Still
  <2>3. CASE z # x
    <3>1. lm # b.lm
      BY <1>12, <2>3
    <3> QED BY <1>7, <1>12, <2>1, <2>2, <2>3, <3>1, KinOne
  <2>4. CASE z = x
    <3>1. lm = b.lm
      BY <1>12, <2>4 DEF ConflictPath
    <3>2. IsStamp(lm)' /\ hist'[lm] = hist[lm] /\ hist[lm] = b.data
      BY <1>3, <3>1, StampsKept DEF Stamped
    <3>3. Both(z)' /\ local'[z].data = hist'[lm] /\ remote'[z].data = hist'[lm]
      BY <1>10, <1>11, <1>12, <2>1, <2>4, <3>2, Zenon DEF CopyStores, Both
    <3>4. z \notin nonSynced' /\ z \notin saved'.nonSynced
      BY <1>3, <2>1 DEF CopyStores, Noted, Snap
    <3>5. CopyStores(y, lm, z)'
      BY <3>2, <3>3, <3>4, CopyDone, Zenon
    <3>6. Past(y, lm) => Past(y, lm)'
      BY <1>3, <2>2, PastStays
    <3> QED BY <3>3, <3>5, <3>6 DEF Tends, Lasts, Both
  <2> QED BY <2>3, <2>4
<1> QED BY <1>2, <1>7, <1>9, <1>11, <1>12, CopyingStep

LEMMA CopyRemoteSpares ==
  ASSUME Ready, NEW c \in Slot, NEW w \in Worker, CopyRemote(c, w)
  PROVE  Spared'
<1> USE DEF Ready
<1>1. PICK y, b, t, x : /\ y = work[c][w].path /\ b = work[c][w].b /\ t = Now
                        /\ x = ConflictPath(y, b.lm)
  OBVIOUS
<1>2. /\ Acting(work[c][w]) /\ IsWork(work[c][w]) /\ work[c][w].pc = "copyRemote"
      /\ UNCHANGED <<local, files, nonSynced, saved, call, budget, live, deleted, overlap>>
      /\ remote' = Put(remote, x, [lm |-> t, data |-> b.data])
      /\ hist' = Append(hist, b.data)
  BY <1>1, Fields DEF CopyRemote, Acting, snapshot, history
<1>3. Grows /\ b.lm \in Nat
  BY <1>1, <1>2 DEF Grows, TypeOK, StoresOK, IsWork
<1>4. PICK r : r = [work[c][w] EXCEPT !.copyB = t, !.pc = "overwrite"]
  OBVIOUS
<1>5. work' = [work EXCEPT ![c][w] = r]
  BY <1>1, <1>4 DEF CopyRemote
<1>6. r.path = y /\ r.pc = "overwrite" /\ r.a = work[c][w].a /\ r.b = b
  BY <1>1, <1>2, <1>4 DEF IsWork
<1>7. \A q : q # x => Still(q)
  BY <1>2, StillPut DEF Still
<1>8. Turn(c, w, y, r) /\ Mine(c, w, y, r)
  BY <1>1, <1>2, <1>3, <1>5, <1>6, <1>7, TurnMove DEF Kept
<1> QED BY <1>1, <1>2, <1>6, <1>8, CopyLands

\* The file goes on top of the server's, of which there is a copy.
LEMMA CoverSpares ==
  ASSUME Ready, NEW c \in Slot, NEW w \in Worker, NEW r, NEW y, NEW a, NEW b, NEW t, NEW x,
         y = work[c][w].path, a = work[c][w].a, b = work[c][w].b, x = ConflictPath(y, b.lm),
         t = Now, work[c][w].pc = "overwrite", Turn(c, w, y, r), Mine(c, w, y, r),
         UNCHANGED <<local, nonSynced>>,
         remote' = Put(remote, y, [lm |-> t, data |-> a.data]),
         hist' = Append(hist, a.data),
         \A q : q # y /\ q # x => SameAt(files', files, q),
         Acting(r) => r.pc = "report"
  PROVE  Spared'
<1> USE DEF Ready
<1>1. Acting(work[c][w]) /\ IsWork(work[c][w])
  BY Fields DEF Acting
<1>2. /\ Grows /\ Noted /\ UNCHANGED live /\ Stamped(a) /\ Stamped(b) /\ b.lm \in Nat
  BY <1>1 DEF Turn, Noted, IsWork, StampInv, StampedWork
<1>3. y \in DOMAIN remote' /\ remote'[y] = [lm |-> t, data |-> a.data]
  BY DEF Put
<1>4. (\A q : q # y => SameAt(remote', remote, q)) /\ \A f, q : SameAt(f, f, q)
  BY StillPut
<1>5. \A q : q # y /\ q # x => Still(q)
  BY <1>4 DEF Still
<1>6. \A lm : IsStamp(lm) => lm \in Nat /\ lm # t /\ lm <= Len(hist)
  <2>1. Len(hist) \in Nat
    BY <1>2, LenProperties DEF Grows
  <2> QED BY <2>1 DEF IsStamp, Now
<1>7. ASSUME ~overlap, y \in UserPath \ deleted, Sure(y) PROVE UserServed(y, r)
  <2>1. /\ y \in DOMAIN local /\ a = local[y] /\ y \in DOMAIN remote /\ b = remote[y]
        /\ a.data # b.data /\ x \in DOMAIN local /\ x \in DOMAIN remote
    <3>1. Holding(y, work[c][w])
      BY <1>1, <1>7, InHands
    <3> QED BY <3>1 DEF Holding
  <2>2. Same(y)' /\ Moves(y)
    <3>1. remote'[y].lm = t /\ remote'[y].data = a.data
      BY <1>3
    <3>2. Same(y)'
      BY <1>3, <2>1, <3>1 DEF Same
    <3>3. Moves(y)
      BY <2>1, <3>1 DEF Moves
    <3> QED BY <3>2, <3>3
  <2>3. Entries(y)'
    BY <2>2, EntriesSame
  <2>4. x # y /\ SameAt(remote', remote, x)
    BY <1>4, <1>7 DEF NoCopyNames
  <2>5. IsStamp(b.lm)' /\ hist'[b.lm] = hist[b.lm] /\ hist[b.lm] = b.data
    BY <1>2, StampsKept DEF Stamped
  <2>6. ~Past(y, b.lm) /\ Past(y, b.lm)'
    <3>1. a.lm # b.lm
      BY <1>2, <2>1, SMTT(20) DEF Stamped
    <3>2. b.lm # t /\ b.lm <= Len(hist')
      BY <1>2, <1>6, LongerHistory DEF Stamped
    <3> QED BY <1>3, <2>1, <3>1, <3>2 DEF Past
  <2>7. ASSUME NEW lm \in Nat, NEW z, z = ConflictPath(y, lm)
        PROVE  Tends(y, lm, z) /\ Lasts(y, lm, z)
    <3>1. CopyStores(y, lm, z)
      BY <1>7, <2>7 DEF Sure, Kin, Copies
    <3>2. CASE z # x
      <4>1. Still(z)
        BY <1>5, <1>7, <2>7, <3>2, SMTT(20) DEF NoCopyNames
      <4> QED BY <1>7, <2>2, <2>7, <3>1, <4>1, KinOne
    <3>3. CASE z = x
      <4>1. lm = b.lm
        BY <2>7, <3>3 DEF ConflictPath
      <4>2. Both(z)' /\ local'[z].data = hist'[lm] /\ remote'[z].data = hist'[lm]
        BY <2>1, <2>4, <2>5, <3>1, <3>3, <4>1, Zenon DEF CopyStores, Both, SameAt
      <4>3. z \notin nonSynced' /\ z \notin saved'.nonSynced
        BY <1>2, <3>1 DEF CopyStores, Noted, Snap
      <4>4. CopyStores(y, lm, z)'
        BY <2>5, <4>1, <4>2, <4>3, CopyDone, Zenon
      <4> QED BY <2>6, <4>1, <4>2, <4>4 DEF Tends, Lasts, Both
    <3> QED BY <3>2, <3>3
  <2>8. Preserved(y)'
    <3>1. Lasting(y)
      BY <2>7 DEF Lasting
    <3>2. InCopy(y, b.data)'
      BY <1>2, <2>1, <2>5, Zenon DEF InCopy
    <3> QED BY <1>2, <1>7, <2>1, <2>2, <3>1, <3>2, PreservedMoved, Zenon DEF Sure, Same
  <2>9. Acting(r) => Holding(y, r)'
    BY DEF Holding
  <2> QED BY <2>3, <2>7, <2>8, <2>9 DEF UserServed
<1>8. ASSUME NEW p, NEW lm \in Nat, Sure(p), y = ConflictPath(p, lm) PROVE FALSE
  <2>1. CopyHand(p, lm, y, work[c][w])
    BY <1>1, <1>8, InHands
  <2> QED BY <2>1 DEF CopyHand
<1> QED BY <1>7, <1>8, WorkerSpares

LEMMA OverwriteSpares ==
  ASSUME Ready, NEW c \in Slot, NEW w \in Worker, Overwrite(c, w)
  PROVE  Spared'
<1> USE DEF Ready
<1>1. PICK y, a, b, t, x : /\ y = work[c][w].path /\ a = work[c][w].a /\ b = work[c][w].b
                           /\ t = Now /\ x = ConflictPath(y, b.lm)
  OBVIOUS
<1>2. /\ Acting(work[c][w]) /\ IsWork(work[c][w]) /\ work[c][w].pc = "overwrite"
      /\ Goto(c, w, "report") /\ "report" \in Pc
      /\ UNCHANGED <<local, nonSynced, saved, call, budget, live, deleted, overlap>>
      /\ remote' = Put(remote, y, [lm |-> t, data |-> a.data])
      /\ hist' = Append(hist, a.data)
  BY <1>1, Fields DEF Overwrite, Acting, history, Pc
<1>3. PICK r : work' = [work EXCEPT ![c][w] = r] /\ r.pc = "report" /\ r.path = y
  BY <1>1, <1>2, ReportsRecord
<1>4. Grows /\ b.lm \in Nat
  BY <1>1, <1>2 DEF Grows, TypeOK, StoresOK, IsWork
<1>5. \A q : q # y /\ q # x => SameAt(files', files, q)
  <2>1. PICK i, j : files' = Put(Put(files, x, i), y, j)
    BY <1>1 DEF Overwrite
  <2> QED BY <2>1 DEF SameAt, Put
<1>6. \A q : q # y /\ q # x => Still(q)
  BY <1>2, <1>5, StillPut DEF Still
<1>7. Turn(c, w, y, r) /\ Mine(c, w, y, r)
  BY <1>1, <1>2, <1>3, <1>4, <1>6, TurnMove DEF Kept
<1> QED BY <1>1, <1>2, <1>3, <1>5, <1>7, CoverSpares

\* A request fails, and the server has done what was asked, or has not.
LEMMA FaultSpares ==
  ASSUME Ready, NEW c \in Slot, NEW w \in Worker, RemoteFault(c, w)
  PROVE  Spared'
<1> USE DEF Ready
<1>1. PICK y, a, b, t, x : /\ y = work[c][w].path /\ a = work[c][w].a /\ b = work[c][w].b
                           /\ t = Now /\ x = ConflictPath(y, b.lm)
  OBVIOUS
<1>2. /\ Acting(work[c][w]) /\ IsWork(work[c][w]) /\ Throw(c, w)
      /\ work[c][w].pc \in {"pushWrite", "pull", "std", "deleteRemote",
                            "conflictRead", "copyRemote", "overwrite"}
      /\ UNCHANGED <<local, snapshot, history>>
  BY Fields DEF RemoteFault, Acting
<1>3. Tr /\ ~Tr'
  <2>1. budget["trouble"] > 0 /\ budget' = [budget EXCEPT !["trouble"] = @ - 1]
    BY DEF RemoteFault, Trouble, Spend
  <2>2. budget["trouble"] = 1 /\ budget'["trouble"] = 0
    BY <2>1 DEF Named, TypeOK, EnvOK, Kind
  <2> QED BY <2>2 DEF Tr
<1>4. CASE UNCHANGED <<remote, hist>>
  BY <1>2, <1>3, <1>4, ThrowSpares DEF stores
<1>5. b.lm \in Nat /\ a.data \in Nat /\ b.data \in Nat /\ hist \in Seq(Nat)
  BY <1>1, <1>2 DEF IsWork, TypeOK, StoresOK
<1>6. ASSUME Grows, \A q : q # y /\ (\A lm \in Nat : q # ConflictPath(y, lm)) => Still(q)
      PROVE  \E r : r.pc = "dead" /\ ~Acting(r) /\ Turn(c, w, y, r) /\ Mine(c, w, y, r)
  <2>1. PICK r : r.pc = "dead" /\ Turn(c, w, y, r) /\ Mine(c, w, y, r)
    BY <1>1, <1>2, <1>3, <1>6, TurnThrow DEF Kept, history
  <2> QED BY <2>1 DEF Acting
<1>7. CASE work[c][w].pc = "pushWrite" /\ remote' = Put(remote, y, a) /\ UNCHANGED hist
  <2>1. Grows /\ Only(y)
    BY <1>2, <1>5, <1>7, StillPut DEF Grows, Only, Still, snapshot
  <2>2. PICK r : ~Acting(r) /\ Turn(c, w, y, r) /\ Mine(c, w, y, r)
    BY <1>6, <2>1 DEF Only
  <2>3. y \in DOMAIN remote' /\ remote'[y] = a
    BY <1>7 DEF Put
  <2>4. ASSUME Sure(y)
        PROVE  /\ Same(y)' /\ Moves(y)
               /\ y \in DOMAIN remote /\ <<y, remote[y].data>> \in live
                    => local'[y].data = remote[y].data
    <3>1. y \in DOMAIN local /\ a = local[y] /\ RemoteSpare(y)
      BY <1>1, <1>2, <1>7, <2>4, InHands DEF Holding
    <3> QED BY <1>2, <2>3, <3>1 DEF Same, Moves, RemoteSpare
  <2>5. ASSUME NEW p, NEW lm \in Nat, Sure(p), y = ConflictPath(p, lm)
        PROVE  /\ Both(y)' /\ IsStamp(lm) /\ y \notin nonSynced'
               /\ local'[y].data = hist[lm] /\ remote'[y].data = hist[lm]
    <3>1. CopyHand(p, lm, y, work[c][w]) /\ CopyStores(p, lm, y)
      BY <1>1, <1>2, <2>5, InHands
    <3> QED BY <1>1, <1>2, <1>7, <2>3, <3>1 DEF CopyHand, CopyStores, Both, snapshot
  <2> QED BY <1>2, <1>7, <2>1, <2>2, <2>4, <2>5, LandingStep
<1>8. CASE work[c][w].pc = "deleteRemote" /\ remote' = Drop(remote, y) /\ UNCHANGED hist
  <2>1. Grows /\ Only(y)
    BY <1>2, <1>5, <1>8, StillPut DEF Grows, Only, Still, snapshot
  <2>2. PICK r : ~Acting(r) /\ Turn(c, w, y, r) /\ Mine(c, w, y, r)
    BY <1>6, <2>1 DEF Only
  <2>3. ~Sure(y)
    BY <1>1, <1>2, <1>8, InHands DEF InHand
  <2>4. ASSUME NEW p, NEW lm \in Nat, Sure(p), y = ConflictPath(p, lm) PROVE FALSE
    <3>1. CopyHand(p, lm, y, work[c][w])
      BY <1>1, <1>2, <2>4, InHands
    <3> QED BY <1>8, <3>1 DEF CopyHand
  <2> QED BY <2>2, <2>3, <2>4, WorkerSpares
<1>9. CASE /\ work[c][w].pc = "copyRemote"
           /\ remote' = Put(remote, x, [lm |-> t, data |-> b.data])
           /\ hist' = Append(hist, b.data)
  <2>1. Grows /\ \A q : q # x => Still(q)
    BY <1>2, <1>5, <1>9, StillPut DEF Grows, Still, snapshot
  <2>2. PICK r : ~Acting(r) /\ Turn(c, w, y, r) /\ Mine(c, w, y, r)
    BY <1>1, <1>5, <1>6, <2>1
  <2> QED BY <1>1, <1>2, <1>9, <2>2, CopyLands DEF snapshot
<1>10. CASE /\ work[c][w].pc = "overwrite"
            /\ remote' = Put(remote, y, [lm |-> t, data |-> a.data])
            /\ hist' = Append(hist, a.data)
  <2>1. Grows /\ \A q : q # y => Still(q)
    BY <1>2, <1>5, <1>10, StillPut DEF Grows, Still, snapshot
  <2>2. PICK r : ~Acting(r) /\ Turn(c, w, y, r) /\ Mine(c, w, y, r)
    BY <1>6, <2>1
  <2>3. \A q : SameAt(files', files, q)
    BY <1>2 DEF snapshot, SameAt
  <2> QED BY <1>1, <1>2, <1>10, <2>2, <2>3, CoverSpares DEF snapshot
<1> QED BY <1>1, <1>4, <1>7, <1>8, <1>9, <1>10 DEF RemoteFault

\* Why syncFile takes each of its decisions.
Reasons(d, pm, sm, item) ==
  /\ d = "push" => pm # NoMeta
  /\ d = "push" /\ sm # NoMeta => item # NoItem /\ pm.lm # item[1] /\ sm.lm = item[2]
  /\ d = "pull" => sm # NoMeta
  /\ d = "pull" /\ pm # NoMeta => item # NoItem /\ pm.lm = item[1] /\ sm.lm # item[2]
  /\ d = "dropStale" => item # NoItem /\ pm.lm = item[1] /\ sm.lm # item[2]
  /\ d = "unsync" => item # NoItem /\ pm.lm = item[1] /\ sm.lm = item[2]
  /\ d \in {"dropStale", "unsync", "conflict"} => pm # NoMeta /\ sm # NoMeta
  /\ d = "note" => pm = NoMeta /\ sm # NoMeta
  /\ d = "deleteLocal" => pm # NoMeta
  /\ d = "deleteRemote" => sm # NoMeta
  /\ d = "forgetBoth" => pm = NoMeta /\ sm = NoMeta

LEMMA Weighed ==
  ASSUME NEW pm, NEW sm, NEW item, NEW marked \in BOOLEAN, NEW syncBack \in BOOLEAN,
         NEW d, d = Decision(pm, sm, item, marked, syncBack)
  PROVE  /\ Reasons(d, pm, sm, item)
         /\ d = "forget" => marked
         /\ d \in {"note", "mark"} => ~syncBack
<1>1. CASE pm # NoMeta /\ sm = NoMeta
  <2>1. d = OnlyHere(item, marked)
    BY <1>1 DEF Decision
  <2>2. d \in {"push", "forget", "deleteLocal"} /\ (d = "forget" => marked)
    BY <2>1 DEF OnlyHere
  <2> QED BY <1>1, <2>2 DEF Reasons
<1>2. CASE pm = NoMeta /\ sm # NoMeta
  <2>1. d = OnlyThere(item, marked, syncBack)
    BY <1>2 DEF Decision
  <2>2. /\ d \in {"pull", "deleteRemote", "note", "mark"}
        /\ d \in {"note", "mark"} => ~syncBack
    BY <2>1 DEF OnlyThere
  <2> QED BY <1>2, <2>2 DEF Reasons
<1>3. CASE pm # NoMeta /\ sm # NoMeta
  <2>1. d = InBoth(pm, sm, item, syncBack)
    BY <1>3 DEF Decision
  <2>2. \/ d = "conflict" \/ d = "none"
        \/ d = "push" /\ item # NoItem /\ pm.lm # item[1] /\ sm.lm = item[2]
        \/ d \in {"pull", "dropStale"} /\ item # NoItem /\ pm.lm = item[1] /\ sm.lm # item[2]
        \/ d = "unsync" /\ item # NoItem /\ pm.lm = item[1] /\ sm.lm = item[2]
    <3> DEFINE here == pm.lm # item[1]
               there == sm.lm # item[2]
    <3>1. CASE item = NoItem \/ (here /\ there)
      BY <2>1, <3>1 DEF InBoth
    <3>2. CASE item # NoItem /\ here /\ ~there
      BY <2>1, <3>2 DEF InBoth
    <3>3. CASE item # NoItem /\ ~here /\ there
      BY <2>1, <3>3 DEF InBoth
    <3>4. CASE item # NoItem /\ ~here /\ ~there
      <4>1. d = NoStampMoved(pm, sm, syncBack)
        BY <2>1, <3>4 DEF InBoth
      <4>2. d \in {"unsync", "conflict", "none"}
        BY <4>1 DEF NoStampMoved
      <4> QED BY <3>4, <4>2
    <3> QED BY <3>1, <3>2, <3>3, <3>4
  <2> QED BY <1>3, <2>2 DEF Reasons
<1>4. CASE pm = NoMeta /\ sm = NoMeta
  <2>1. d \in {"forgetBoth", "none"}
    BY <1>4 DEF Decision
  <2> QED BY <1>4, <2>1 DEF Reasons
<1> QED BY <1>1, <1>2, <1>3, <1>4

\* What the worker has in its hands then.
LEMMA TakenUp ==
  ASSUME NEW d \in Decisions, NEW y
  PROVE  LET r == WorkOn(d, y) IN
         /\ r.pc \in {"idle", "report", "std"} \/ r.pc = d
         /\ r.pc = "std" => d = "conflict" /\ y \in StdLib
         /\ r.pc = "report" => d \in {"forget", "forgetBoth"}
         /\ r.pc # d /\ r.pc = "idle" => d \in {"note", "mark", "none"}
         /\ d = "dropStale" => r.pc = "dropStale" /\ r.path = y
         /\ r.pc \notin {"note", "mark", "none", "forget", "forgetBoth"}
BY DEF WorkOn, Decisions, IdleWork

\* A worker takes a path, decides, and does to the snapshot what comes at once.
Decides(c, y, pm, sm, item, d) ==
  /\ y \in call[c].todo
  /\ pm = Lookup(call[c].plist, y, NoMeta) /\ sm = Lookup(call[c].slist, y, NoMeta)
  /\ item = Lookup(files, y, NoItem)
  /\ d = Decision(pm, sm, item, y \in nonSynced, y \notin call[c].noSync)
  /\ files' = FilesAtOnce(d, y, sm) /\ nonSynced' = MarksAtOnce(d, y)

LEMMA BeginTurn ==
  ASSUME TypeOK, MutexInv, Apart, NEW c \in Slot, NEW w \in Worker, Begin(c, w)
  PROVE  \E y, pm, sm, item, d, r :
           /\ Decides(c, y, pm, sm, item, d) /\ r = WorkOn(d, y)
           /\ d \in Decisions /\ Turn(c, w, y, r) /\ Mine(c, w, y, r)
<1>1. PICK y \in call[c].todo :
        LET sm == Lookup(call[c].slist, y, NoMeta)
            d  == Decision(Lookup(call[c].plist, y, NoMeta), sm,
                           Lookup(files, y, NoItem), y \in nonSynced, y \notin call[c].noSync)
        IN
        /\ call' = [call EXCEPT ![c].todo = @ \ {y}]
        /\ files' = FilesAtOnce(d, y, sm)
        /\ nonSynced' = MarksAtOnce(d, y)
        /\ work' = [work EXCEPT ![c][w] = WorkOn(d, y)]
  BY DEF Begin
<1>2. PICK pm, sm, item : /\ pm = Lookup(call[c].plist, y, NoMeta)
                          /\ sm = Lookup(call[c].slist, y, NoMeta)
                          /\ item = Lookup(files, y, NoItem)
  OBVIOUS
<1>3. PICK d : d = Decision(pm, sm, item, y \in nonSynced, y \notin call[c].noSync)
  OBVIOUS
<1>4. PICK r : r = WorkOn(d, y)
  OBVIOUS
<1>5. /\ call' = [call EXCEPT ![c].todo = @ \ {y}]
      /\ files' = FilesAtOnce(d, y, sm)
      /\ nonSynced' = MarksAtOnce(d, y)
      /\ work' = [work EXCEPT ![c][w] = r]
  BY <1>1, <1>2, <1>3, <1>4
<1>6. d \in Decisions
  <2>1. (y \in nonSynced) \in BOOLEAN /\ (y \notin call[c].noSync) \in BOOLEAN
    OBVIOUS
  <2> QED BY <1>3, <2>1, Decided
<1>7. Acting(r) => r.path = y
  BY <1>4, <1>6, Beginnings
<1>8. /\ \A e \in Slot : /\ call'[e].phase = call[e].phase
                         /\ call'[e].plist = call[e].plist /\ call'[e].slist = call[e].slist
                         /\ call'[e].noSync = call[e].noSync
                         /\ e # c => call'[e].todo = call[e].todo
      /\ call'[c].todo = call[c].todo \ {y}
  <2>1. call' = [call EXCEPT ![c] = [call[c] EXCEPT !.todo = call[c].todo \ {y}]]
    BY <1>5
  <2>2. IsCall(call[c]) /\ call'[c] = [call[c] EXCEPT !.todo = call[c].todo \ {y}]
    BY <2>1, Fields DEF TypeOK, CallsOK
  <2>3. \A e \in Slot : e # c => call'[e] = call[e]
    BY <2>1 DEF TypeOK, CallsOK
  <2> QED BY <2>2, <2>3 DEF IsCall
<1>9. UNCHANGED <<stores, saved, budget, history>> /\ call[c].phase = "process"
      /\ work[c][w].pc = "idle"
  BY DEF Begin
<1>10. \A q : q # y => Still(q)
  <2>1. \A q : q # y => SameAt(files', files, q)
    BY <1>5, StillPut DEF FilesAtOnce
  <2>2. \A q : q # y => (q \in nonSynced' <=> q \in nonSynced)
    BY <1>5 DEF MarksAtOnce
  <2> QED BY <1>9, <2>1, <2>2, StillPut DEF Still, stores
<1>11. Turn(c, w, y, r)
  <2>1. Grows
    BY <1>9 DEF Grows, TypeOK, StoresOK, stores
  <2> QED BY <1>5, <1>8, <1>9, <1>10, <2>1 DEF Turn, history
<1>12. Mine(c, w, y, r)
  <2>1. \A v \in Worker \ {w} : Acting(work[c][v]) => work[c][v].path # y
    BY DEF Apart
  <2>2. ~Acting(work[c][w])
    BY <1>9 DEF Acting
  <2> QED BY <1>7, <1>8, <1>9, <2>1, <2>2 DEF Mine
<1>13. Decides(c, y, pm, sm, item, d)
  BY <1>2, <1>3, <1>5 DEF Decides
<1> QED BY <1>4, <1>6, <1>11, <1>12, <1>13

\* A decision about a user's file is right to let go what it lets go.
LEMMA BeginUser ==
  ASSUME Ready, NEW c \in Slot, NEW w \in Worker, NEW y, NEW pm, NEW sm, NEW item, NEW d, NEW r,
         Decides(c, y, pm, sm, item, d), r = WorkOn(d, y), d \in Decisions,
         Turn(c, w, y, r), Mine(c, w, y, r), UNCHANGED <<stores, saved>>, work[c][w].pc = "idle",
         ~overlap, y \in UserPath \ deleted, Sure(y)
  PROVE  UserServed(y, r)
<1> USE DEF Ready
<1>1. Alone /\ ~Dropping(y) /\ call[c].phase = "process" /\ y \in call[c].todo
  BY NotDropping DEF Kept, Guarded, Mine, Decides
<1>2. /\ Safe(y) /\ Entries(y) /\ Preserved(y) /\ Kin(y)
      /\ InLists(y, call[c]) /\ ListedNow(y, call[c])
  BY DEF Sure, Safe, Hands
<1>3. /\ local' = local /\ remote' = remote /\ UNCHANGED live /\ Grows
  BY DEF Turn, stores
<1>4. /\ pm = NoMeta <=> y \notin DOMAIN local
      /\ y \in DOMAIN local => pm.lm = local[y].lm
      /\ sm = NoMeta <=> y \notin DOMAIN remote
      /\ y \in DOMAIN remote => sm.lm = remote[y].lm
  <2>1. ListedAs(y, call[c].plist, local) /\ ListedAs(y, call[c].slist, remote)
    BY <1>1, <1>2 DEF ListedNow
  <2>2. pm = NoMeta <=> y \notin DOMAIN call[c].plist
    BY DEF Decides, Lookup, Dated
  <2>3. sm = NoMeta <=> y \notin DOMAIN call[c].slist
    BY DEF Decides, Lookup, Dated
  <2>4. y \in DOMAIN local => pm = Meta(local[y])
    BY <2>1 DEF Decides, Lookup, ListedAs
  <2>5. y \in DOMAIN remote => sm = Meta(remote[y])
    BY <2>1 DEF Decides, Lookup, ListedAs
  <2> QED BY <2>1, <2>2, <2>3, <2>4, <2>5 DEF ListedAs, Meta
<1>5. item # NoItem => y \in DOMAIN files /\ item = files[y] /\ Fits(y, item)
  BY <1>1, <1>2 DEF Decides, Lookup, Entries
<1>6. /\ d = "push" => y \in DOMAIN local
      /\ d = "push" /\ y \in DOMAIN remote => item # NoItem /\ pm.lm # item[1] /\ sm.lm = item[2]
      /\ d = "pull" => y \in DOMAIN remote
      /\ d = "pull" /\ y \in DOMAIN local => item # NoItem /\ pm.lm = item[1] /\ sm.lm # item[2]
      /\ d = "dropStale" => item # NoItem /\ pm.lm = item[1] /\ sm.lm # item[2]
      /\ d = "unsync" => item # NoItem /\ pm.lm = item[1] /\ sm.lm = item[2]
      /\ d \in {"dropStale", "unsync"} => y \in DOMAIN local /\ y \in DOMAIN remote
      /\ d = "note" => y \notin DOMAIN local /\ y \in DOMAIN remote
      /\ d \notin {"forget", "deleteLocal", "forgetBoth"}
  <2>1. (y \in nonSynced) \in BOOLEAN /\ (y \notin call[c].noSync) \in BOOLEAN
    OBVIOUS
  <2>2. d = Decision(pm, sm, item, y \in nonSynced, y \notin call[c].noSync)
    BY DEF Decides
  <2>3. Reasons(d, pm, sm, item)
    BY <2>1, <2>2, Weighed
  <2>4. d \in {"forget", "deleteLocal", "forgetBoth"} => item # NoItem /\ sm = NoMeta
    BY <2>1, <2>2, Decided
  <2>5. sm = NoMeta <=> y \notin DOMAIN call[c].slist
    BY DEF Decides, Lookup, Dated
  <2>6. d \notin {"forget", "deleteLocal", "forgetBoth"}
    BY <1>1, <1>2, <1>5, <2>4, <2>5 DEF InLists
  <2> QED BY <1>4, <2>3, <2>6 DEF Reasons
<1>7. /\ d \in {"note", "dropStale"} => y \in DOMAIN files' /\ files'[y][2] = sm.lm
      /\ d \notin {"note", "dropStale"} => files' = files
  BY <1>6 DEF Decides, FilesAtOnce, Put
<1>8. /\ r.pc \in {"idle", "report", "std"} \/ r.pc = d
      /\ d = "dropStale" => r.pc = "dropStale" /\ r.path = y
      /\ r.pc \notin {"pushWrite", "pullWrite", "stdWrite", "conflictRead", "copyLocal",
                      "copyRemote", "overwrite"}
      /\ r.pc = "std" => y \in StdLib
  BY Beginnings, TakenUp
<1>9. Entries(y)'
  <2>1. LocalSpare(y)' <=> LocalSpare(y)
    BY <1>3 DEF LocalSpare, Same
  <2>2. RemoteSpare(y)' <=> RemoteSpare(y)
    BY <1>3 DEF RemoteSpare, Same
  <2>3. CASE d = "note"
    BY <1>3, <1>4, <1>6, <1>7, <2>3, EntriesGone
  <2>4. CASE d = "dropStale"
    <3>1. Dropping(y)'
      <4>1. work'[c][w] = r
        BY DEF Turn, TypeOK, WorkersOK
      <4> QED BY <1>8, <2>4, <4>1 DEF Dropping
    <3>2. ASSUME y \in DOMAIN saved'.files PROVE Fits(y, saved.files[y])'
      <4>1. PICK i : i = saved.files[y]
        OBVIOUS
      <4>2. Fits(y, i)
        BY <1>1, <1>2, <3>2, <4>1 DEF Entries
      <4>3. Fits(y, i)'
        BY <1>3, <1>6, <2>1, <2>2, <2>4, <4>2 DEF Fits
      <4> QED BY <4>1, <4>3
    <3>3. y \in StdLib => LocalSpare(y)'
      BY <1>2, <2>1 DEF Entries
    <3> QED BY <3>1, <3>2, <3>3 DEF Entries
  <2>5. CASE d \notin {"note", "dropStale"}
    <3>1. \A i : Fits(y, i) => Fits(y, i)'
      BY <1>3, <1>7, <2>1, <2>2, <2>5 DEF Fits
    <3> QED BY <1>1, <1>2, <1>7, <2>1, <2>5, <3>1 DEF Entries
  <2> QED BY <2>3, <2>4, <2>5
<1>10. ASSUME Acting(r) PROVE Holding(y, r)'
  <2>1. LocalSpare(y) => LocalSpare(y)'
    BY <1>3 DEF LocalSpare, Same
  <2>2. RemoteSpare(y) => RemoteSpare(y)'
    BY <1>3 DEF RemoteSpare, Same
  <2>3. r.pc = "push" => RemoteSpare(y)
    <3>1. r.pc = "push" => d = "push"
      BY <1>8
    <3>2. d = "push" => RemoteSpare(y)
      BY <1>4, <1>5, <1>6 DEF Fits, RemoteSpare
    <3> QED BY <3>1, <3>2
  <2>4. r.pc \in {"pull", "std", "dropStale", "unsync"} => LocalSpare(y)
    <3>1. d \in {"pull", "dropStale"} => LocalSpare(y)
      BY <1>4, <1>5, <1>6 DEF Fits, LocalSpare
    <3>2. d = "unsync" => LocalSpare(y)
      <4>1. SUFFICES ASSUME d = "unsync" PROVE Same(y)
        BY DEF LocalSpare
      <4>2. /\ y \in DOMAIN local /\ y \in DOMAIN remote /\ y \in DOMAIN files
            /\ files[y][1] = local[y].lm /\ files[y][2] = remote[y].lm
        BY <1>4, <1>5, <1>6, <4>1
      <4>3. SameContent(files[y]) /\ Stamped(local[y]) /\ Stamped(remote[y])
        BY <4>2 DEF StampInv, SameContents, StampedStore
      <4> QED BY <4>2, <4>3 DEF Same, SameContent, Stamped
    <3>3. r.pc = "std" => LocalSpare(y)
      BY <1>2, <1>8 DEF Entries
    <3> QED BY <1>8, <3>1, <3>2, <3>3
  <2>5. r.pc \in {"dropStale", "unsync"}
          => y \in DOMAIN remote /\ y \in DOMAIN files' /\ files'[y][2] = remote[y].lm
    BY <1>4, <1>5, <1>6, <1>7, <1>8
  <2> QED BY <1>3, <1>8, <2>1, <2>2, <2>3, <2>4, <2>5 DEF Holding
<1>11. Only(y) /\ Moves(y)
  <2>1. SameAt(local', local, y) /\ SameAt(remote', remote, y)
    BY <1>3 DEF SameAt
  <2>2. \A q : q # y => Still(q)
    <3> SUFFICES ASSUME NEW q, q # y PROVE Still(q)
      OBVIOUS
    <3>1. SameAt(local', local, q) /\ SameAt(remote', remote, q)
      BY <1>3 DEF SameAt
    <3>2. SameAt(files', files, q)
      BY StillPut DEF Decides, FilesAtOnce
    <3>3. q \in nonSynced' <=> q \in nonSynced
      BY DEF Decides, MarksAtOnce
    <3> QED BY <3>1, <3>2, <3>3 DEF Still
  <2> QED BY <2>1, <2>2, StillMoves DEF Only
<1>12. (\A lm \in Nat : Tends(y, lm, ConflictPath(y, lm))) /\ Lasting(y)
  BY <1>2, <1>11, KinStill
<1>13. Preserved(y)'
  BY <1>2, <1>3, <1>12, PreservedStill DEF SameAt
<1> QED BY <1>9, <1>10, <1>12, <1>13 DEF UserServed

\* One about a copy.
LEMMA BeginCopy ==
  ASSUME Ready, NEW c \in Slot, NEW w \in Worker, NEW y, NEW pm, NEW sm, NEW item, NEW d, NEW r,
         Decides(c, y, pm, sm, item, d), r = WorkOn(d, y), d \in Decisions,
         Turn(c, w, y, r), Mine(c, w, y, r), UNCHANGED <<stores, saved>>,
         NEW p \in UserPath, NEW lm \in Nat, Sure(p), y = ConflictPath(p, lm)
  PROVE  CopyServed(p, lm, y, r)
<1> USE DEF Ready
<1>1. CopyStores(p, lm, y) /\ CopyLists(p, lm, y, call[c])
  BY DEF Sure, Kin, Copies
<1>2. /\ call[c].phase = "process" /\ y \in call[c].todo
      /\ local' = local /\ remote' = remote /\ UNCHANGED saved
      /\ y \notin nonSynced /\ y \notin call[c].noSync /\ y \notin StdLib
  BY <1>1, SyncConstants DEF Decides, stores, Mine, CopyStores, CopyLists, NoCopyNames
<1>3. /\ pm = NoMeta <=> y \notin DOMAIN call[c].plist
      /\ sm = NoMeta <=> y \notin DOMAIN call[c].slist
      /\ item # NoItem => y \in DOMAIN files
  BY DEF Decides, Lookup, Dated
<1>4. /\ d = "push" => pm # NoMeta
      /\ d = "pull" => sm # NoMeta
      /\ d = "conflict" => pm # NoMeta /\ sm # NoMeta
      /\ d = "deleteLocal" => pm # NoMeta /\ sm = NoMeta /\ item # NoItem
      /\ d \notin {"deleteRemote", "forget", "forgetBoth", "note", "mark", "dropStale", "unsync"}
  <2>1. (y \in nonSynced) \in BOOLEAN /\ (y \notin call[c].noSync) \in BOOLEAN
    OBVIOUS
  <2>2. d = Decision(pm, sm, item, y \in nonSynced, y \notin call[c].noSync)
    BY DEF Decides
  <2>3. /\ Reasons(d, pm, sm, item)
        /\ d = "forget" => y \in nonSynced
        /\ d \in {"note", "mark"} => y \in call[c].noSync
    BY <2>1, <2>2, Weighed
  <2>4. /\ d \in {"forget", "deleteLocal", "forgetBoth"} => item # NoItem /\ sm = NoMeta
        /\ d = "deleteRemote" => item # NoItem /\ pm = NoMeta
        /\ d \in {"dropStale", "unsync"} => y \in call[c].noSync
    BY <2>1, <2>2, Decided
  <2>5. y \in DOMAIN call[c].plist \/ y \in DOMAIN call[c].slist
    BY <1>1, <1>2 DEF CopyLists
  <2>6. d # "deleteRemote"
    BY <1>1, <1>2, <1>3, <2>3, <2>4 DEF CopyLists, Reasons
  <2> QED BY <1>2, <1>3, <2>3, <2>4, <2>5, <2>6 DEF Reasons
<1>5. nonSynced' = nonSynced /\ files' = IF d = "deleteLocal" THEN Drop(files, y) ELSE files
  BY <1>4 DEF Decides, FilesAtOnce, MarksAtOnce, Decisions
<1>6. /\ r.pc \in {"idle", "report", "std"} \/ r.pc = d
      /\ r.pc # "std" /\ r.pc # "report" /\ r.pc # "none"
      /\ d = "deleteLocal" => r.pc = "deleteLocal"
  <2>1. /\ r.pc \in {"idle", "report", "std"} \/ r.pc = d
        /\ r.pc = "std" => y \in StdLib
        /\ r.pc = "report" => d \in {"forget", "forgetBoth"}
        /\ r.pc # d /\ r.pc = "idle" => d \in {"note", "mark", "none"}
        /\ r.pc \notin {"note", "mark", "none", "forget", "forgetBoth"}
    BY TakenUp
  <2> QED BY <1>2, <1>4, <2>1
<1>7. /\ Past(p, lm) => Past(p, lm)'
      /\ Copying(p, lm) => Copying(p, lm)'
      /\ Tr' => Tr
      /\ IsStamp(lm) => IsStamp(lm)' /\ hist'[lm] = hist[lm]
  BY CopyContext
<1>8. d = "deleteLocal" => ~Tr /\ Past(p, lm) /\ Both(y)
  BY <1>1, <1>2, <1>3, <1>4 DEF CopyLists, CopyStores
<1>9. CopyStores(p, lm, y)'
  <2>1. DOMAIN files' \subseteq DOMAIN files
    BY <1>5 DEF Drop
  <2> QED BY <1>1, <1>2, <1>5, <1>7, <1>8, <2>1 DEF CopyStores, Both
<1>10. Lasts(p, lm, y)
  BY <1>2 DEF Lasts
<1>11. ASSUME Acting(r) PROVE CopyHand(p, lm, y, r)'
  <2>1. d = r.pc /\ d \in {"push", "pull", "deleteLocal", "conflict"}
    BY <1>4, <1>6, <1>11 DEF Acting, Decisions
  <2>2. /\ d \in {"push", "conflict"} => y \in DOMAIN local
        /\ d \in {"pull", "conflict"} => y \in DOMAIN remote
    BY <1>1, <1>2, <1>3, <1>4 DEF CopyLists
  <2>3. d = "deleteLocal" => y \in DOMAIN remote /\ ~Tr' /\ y \notin DOMAIN files' /\ Past(p, lm)'
    BY <1>5, <1>7, <1>8 DEF Both, Drop
  <2> QED BY <1>2, <2>1, <2>2, <2>3 DEF CopyHand
<1> QED BY <1>9, <1>10, <1>11 DEF CopyServed

LEMMA BeginSpares ==
  ASSUME Ready, NEW c \in Slot, NEW w \in Worker, Begin(c, w)
  PROVE  Spared'
<1> USE DEF Ready
<1>1. PICK y, pm, sm, item, d, r :
           /\ Decides(c, y, pm, sm, item, d) /\ r = WorkOn(d, y)
           /\ d \in Decisions /\ Turn(c, w, y, r) /\ Mine(c, w, y, r)
  BY BeginTurn DEF Kept
<1>2. UNCHANGED <<stores, saved>> /\ work[c][w].pc = "idle"
  BY DEF Begin
<1>3. ~overlap /\ y \in UserPath \ deleted /\ Sure(y) => UserServed(y, r)
  BY <1>1, <1>2, BeginUser
<1>4. \A p \in UserPath \ deleted, lm \in Nat :
         ~overlap /\ Sure(p) /\ y = ConflictPath(p, lm) => CopyServed(p, lm, y, r)
  BY <1>1, <1>2, BeginCopy
<1> QED BY <1>1, <1>3, <1>4, WorkerSpares

-----------------------------------------------------------------------------
(* Invocations, users, and restarts.                                           *)

\* What is said of files and of copies, where the stores and the snapshot are as
\* they were.
LEMMA Unmoved ==
  ASSUME UNCHANGED <<stores, snapshot, live>>
  PROVE  /\ \A p, i : Fits(p, i) => Fits(p, i)'
         /\ \A p : LocalSpare(p) => LocalSpare(p)'
         /\ \A p : Preserved(p) => Preserved(p)'
         /\ \A p, r : ListedNow(p, r) => ListedNow(p, r)'
         /\ \A p, r : Holding(p, r) => Holding(p, r)'
<1>1. /\ UNCHANGED <<local, remote, hist, files, nonSynced, live>>
  BY DEF stores, snapshot
<1>2. \A p : (LocalSpare(p) => LocalSpare(p)') /\ (RemoteSpare(p) => RemoteSpare(p)')
  BY <1>1 DEF LocalSpare, RemoteSpare, Same
<1>3. \A p, i : Fits(p, i) => Fits(p, i)'
  BY <1>1, <1>2 DEF Fits
<1>4. \A p : Preserved(p) => Preserved(p)'
  BY <1>1 DEF Preserved, Held, InCopy, IsStamp
<1>5. \A p, r : ListedNow(p, r) => ListedNow(p, r)'
  BY <1>1 DEF ListedNow, ListedAs, Meta
<1>6. \A p, r : Holding(p, r) => Holding(p, r)'
  BY <1>1, <1>2 DEF Holding
<1> QED BY <1>2, <1>3, <1>4, <1>5, <1>6

LEMMA UnmovedCopies ==
  ASSUME UNCHANGED <<stores, snapshot>>, Tr' => Tr
  PROVE  /\ \A p, lm, x, r : CopyLists(p, lm, x, r) => CopyLists(p, lm, x, r)'
         /\ \A p, lm, x, r : CopyHand(p, lm, x, r) => CopyHand(p, lm, x, r)'
         /\ \A p, lm, x : /\ CopyStores(p, lm, x) /\ (Copying(p, lm) => Copying(p, lm)')
                          /\ saved' = saved \/ saved' = Snap
                          => CopyStores(p, lm, x)'
<1>1. /\ UNCHANGED <<local, remote, hist, files, nonSynced>>
  BY DEF stores, snapshot
<1>2. \A p, lm : (Past(p, lm) <=> Past(p, lm)') /\ (IsStamp(lm) <=> IsStamp(lm)')
  BY <1>1 DEF Past, IsStamp
<1>3. \A p, lm, x, r : CopyLists(p, lm, x, r) => CopyLists(p, lm, x, r)'
  BY <1>1, <1>2 DEF CopyLists
<1>4. \A p, lm, x, r : CopyHand(p, lm, x, r) => CopyHand(p, lm, x, r)'
  BY <1>1, <1>2 DEF CopyHand
<1>5. ASSUME NEW p, NEW lm, NEW x, CopyStores(p, lm, x), Copying(p, lm) => Copying(p, lm)',
             saved' = saved \/ saved' = Snap
      PROVE  CopyStores(p, lm, x)'
  <2>1. \/ saved' = saved
        \/ saved'.files = files /\ saved'.nonSynced = nonSynced
    BY <1>5 DEF Snap
  <2>2. /\ x \notin saved'.nonSynced
        /\ Tr' /\ x \in DOMAIN saved'.files => Both(x)
    BY <1>5, <2>1 DEF CopyStores
  <2> QED BY <1>1, <1>2, <1>5, <2>2 DEF CopyStores, Both
<1> QED BY <1>3, <1>4, <1>5

\* An invocation goes to its next phase, or is over; it has no workers.
LEMMA CallSpares ==
  ASSUME Ready, NEW c \in Slot, NEW s, call' = [call EXCEPT ![c] = s],
         UNCHANGED <<stores, snapshot, live, deleted>>,
         saved' = saved \/ saved' = Snap, overlap => overlap', Tr' => Tr,
         \A v \in Worker : ~Acting(work[c][v]) /\ ~Acting(work'[c][v]),
         \A d \in Slot, v \in Worker : d # c => work'[d][v] = work[d][v],
         \A p \in UserPath \ deleted : ~overlap /\ Sure(p) =>
           /\ ListedNow(p, s)
           /\ \A lm \in Nat : CopyLists(p, lm, ConflictPath(p, lm), s)
  PROVE  Spared'
<1> USE DEF Ready
<1> SUFFICES ASSUME ~overlap', NEW p \in UserPath \ deleted
             PROVE  Entries(p)' /\ Hands(p)' /\ Preserved(p)' /\ Kin(p)'
  BY DEF Spared
<1>1. ~overlap /\ Alone /\ Sure(p)
  BY DEF Sure, Spared, Kept, Guarded
<1>2. call'[c] = s /\ \A d \in Slot : d # c => call'[d] = call[d]
  BY DEF TypeOK, CallsOK
<1>3. Dropping(p)' <=> Dropping(p)
  BY DEF Dropping, Acting
<1>4. Dropping(p) => p \in nonSynced
  BY <1>1 DEF Sure, Dropping, Safe, InHand, Acting
<1>5. Entries(p)'
  <2>1. UNCHANGED <<files, nonSynced>>
    BY DEF snapshot
  <2>2. ASSUME p \in DOMAIN files', ~Dropping(p)' PROVE Fits(p, files[p])'
    <3>1. PICK i : i = files[p]
      OBVIOUS
    <3>2. Fits(p, i) /\ files'[p] = i
      BY <1>1, <1>3, <2>1, <2>2, <3>1 DEF Sure, Entries
    <3> QED BY <3>2, Unmoved
  <2>3. ASSUME p \in DOMAIN saved'.files, ~(Dropping(p)' /\ p \in saved'.nonSynced)
        PROVE  Fits(p, saved.files[p])'
    <3>1. PICK i : i = saved'.files[p]
      OBVIOUS
    <3>2. Fits(p, i)
      <4>1. CASE saved' = saved
        BY <1>1, <1>3, <2>3, <3>1, <4>1 DEF Sure, Entries
      <4>2. CASE saved' = Snap
        <5>1. saved'.files = files /\ saved'.nonSynced = nonSynced
          BY <4>2 DEF Snap
        <5> QED BY <1>1, <1>3, <1>4, <2>3, <3>1, <5>1 DEF Sure, Entries
      <4> QED BY <4>1, <4>2
    <3> QED BY <3>1, <3>2, Unmoved
  <2>4. p \in StdLib => LocalSpare(p)'
    BY <1>1, Unmoved DEF Sure, Entries
  <2> QED BY <2>2, <2>3, <2>4 DEF Entries
<1>6. Hands(p)'
  <2>1. ASSUME NEW d \in Slot PROVE ListedNow(p, call[d])'
    <3>1. PICK r : r = call'[d]
      OBVIOUS
    <3>2. ListedNow(p, r)
      BY <1>1, <1>2, <3>1 DEF Sure, Hands
    <3> QED BY <3>1, <3>2, Unmoved
  <2>2. ASSUME NEW d \in Slot, NEW v \in Worker, Acting(work'[d][v]), work'[d][v].path = p
        PROVE  Holding(p, work[d][v])'
    <3>1. PICK r : r = work'[d][v]
      OBVIOUS
    <3>2. Holding(p, r)
      BY <1>1, <2>2, <3>1 DEF Sure, Hands
    <3> QED BY <3>1, <3>2, Unmoved
  <2> QED BY <2>1, <2>2 DEF Hands, Acting
<1>7. Preserved(p)'
  BY <1>1, Unmoved DEF Sure
<1>8. ASSUME NEW lm \in Nat, NEW x, x = ConflictPath(p, lm) PROVE Copies(p, lm, x)'
  <2>1. Copies(p, lm, x)
    BY <1>1, <1>8 DEF Sure, Kin
  <2>2. Copying(p, lm) => Copying(p, lm)'
    <3> SUFFICES ASSUME NEW d \in Slot, NEW v \in Worker, work[d][v].pc = "copyRemote",
                        work[d][v].path = p, work[d][v].b.lm = lm
                 PROVE  Copying(p, lm)'
      BY DEF Copying
    <3>1. work'[d][v] = work[d][v]
      BY DEF Acting
    <3> QED BY <3>1 DEF Copying
  <2>3. CopyStores(p, lm, x)'
    BY <2>1, <2>2, UnmovedCopies DEF Copies
  <2>4. ASSUME NEW d \in Slot PROVE CopyLists(p, lm, x, call[d])'
    <3>1. PICK r : r = call'[d]
      OBVIOUS
    <3>2. CopyLists(p, lm, x, r)
      BY <1>1, <1>2, <1>8, <2>1, <3>1 DEF Copies
    <3> QED BY <3>1, <3>2, UnmovedCopies
  <2>5. ASSUME NEW d \in Slot, NEW v \in Worker, Acting(work'[d][v]), work'[d][v].path = x
        PROVE  CopyHand(p, lm, x, work[d][v])'
    <3>1. PICK r : r = work'[d][v]
      OBVIOUS
    <3>2. CopyHand(p, lm, x, r)
      BY <2>1, <2>5, <3>1 DEF Copies
    <3> QED BY <3>1, <3>2, UnmovedCopies
  <2> QED BY <2>3, <2>4, <2>5 DEF Copies, Acting
<1>9. Kin(p)'
  BY <1>8 DEF Kin
<1> QED BY <1>5, <1>6, <1>7, <1>9

LEMMA InvocationSpares ==
  ASSUME Ready, NEW c \in Slot,
         \/ StartFull(c) \/ \E p \in UserPath : StartSingle(c, p)
         \/ CallStep(c) \/ ListFault(c)
  PROVE  Spared'
<1> USE DEF Ready
<1>1. \A v \in Worker : call[c].phase # "process" => ~Acting(work[c][v])
  BY DEF MutexInv, Acting
<1>2. ASSUME NEW s, call' = [call EXCEPT ![c] = s], s.phase = "listLocal", Free(c),
             s.noSync = {}, s.todo \subseteq UserPath, overlap => overlap',
             UNCHANGED <<stores, snapshot, saved, work, budget, live, deleted>>
      PROVE  Spared'
  <2>1. \A v \in Worker : ~Acting(work[c][v]) /\ ~Acting(work'[c][v])
    BY <1>1, <1>2 DEF Free, Busy
  <2>2. \A p : ListedNow(p, s)
    BY <1>2 DEF ListedNow
  <2>3. \A p, lm : CopyLists(p, lm, ConflictPath(p, lm), s)
    BY <1>2 DEF CopyLists, NoCopyNames
  <2> QED BY <1>2, <2>1, <2>2, <2>3, CallSpares DEF Tr
<1>3. CASE StartFull(c)
  <2>1. PICK s : s = [IdleCall EXCEPT !.kind = "full", !.phase = "listLocal"]
    OBVIOUS
  <2>2. /\ s.phase = "listLocal" /\ s.noSync = {} /\ s.todo = {}
        /\ call' = [call EXCEPT ![c] = s]
    BY <1>3, <2>1 DEF StartFull, IdleCall
  <2> QED BY <1>2, <1>3, <2>2 DEF StartFull
<1>4. ASSUME NEW p \in UserPath, StartSingle(c, p) PROVE Spared'
  <2>1. PICK s : s = [IdleCall EXCEPT !.kind = "single", !.phase = "listLocal", !.todo = {p}]
    OBVIOUS
  <2>2. /\ s.phase = "listLocal" /\ s.noSync = {} /\ s.todo = {p}
        /\ call' = [call EXCEPT ![c] = s]
    BY <1>4, <2>1 DEF StartSingle, IdleCall
  <2> QED BY <1>2, <1>4, <2>2 DEF StartSingle
<1>5. CASE ListLocal(c)
  <2>1. PICK s : s = [call[c] EXCEPT !.phase = "listRemote", !.plist = Listing(local)]
    OBVIOUS
  <2>2. /\ call' = [call EXCEPT ![c] = s] /\ call[c].phase = "listLocal"
        /\ UNCHANGED <<stores, snapshot, saved, work, budget, live, deleted, overlap>>
    BY <1>5, <2>1 DEF ListLocal, history
  <2>3. /\ s.phase = "listRemote" /\ s.plist = Listing(local)
        /\ s.noSync = call[c].noSync /\ s.todo = call[c].todo
    BY <2>1, Fields DEF IsCall
  <2>4. \A p : ListedNow(p, s)
    BY <2>3 DEF ListedNow, ListedAs, Listing
  <2>5. ASSUME NEW p, NEW lm \in Nat, Sure(p) PROVE CopyLists(p, lm, ConflictPath(p, lm), s)
    <3>1. CopyLists(p, lm, ConflictPath(p, lm), call[c])
      BY <2>5 DEF Sure, Kin, Copies
    <3> QED BY <2>2, <2>3, <3>1 DEF CopyLists, Listing
  <2> QED BY <1>1, <2>2, <2>4, <2>5, CallSpares DEF Tr
<1>6. CASE ListRemote(c)
  <2>1. PICK todo, noSync :
          /\ call' = [call EXCEPT ![c] = [call[c] EXCEPT !.phase = "process",
                        !.slist = Listing(remote), !.noSync = noSync, !.todo = todo]]
          /\ noSync \subseteq ignored
          /\ \/ todo = call[c].todo
             \/ todo = DOMAIN files \cup DOMAIN call[c].plist \cup DOMAIN Listing(remote)
    <3>2. PICK todo, noSync :
            /\ todo = IF call[c].kind = "full"
                      THEN DOMAIN files \cup DOMAIN call[c].plist \cup DOMAIN Listing(remote)
                      ELSE call[c].todo
            /\ noSync = IF call[c].kind = "full"
                        THEN {q \in DOMAIN Listing(remote) : q \in ignored} ELSE {}
      OBVIOUS
    <3>3. call' = [call EXCEPT ![c] = [call[c] EXCEPT !.phase = "process",
                        !.slist = Listing(remote), !.noSync = noSync, !.todo = todo]]
      BY <1>6, <3>2 DEF ListRemote, IsSyncCandidate
    <3>4. /\ noSync \subseteq ignored
          /\ \/ todo = call[c].todo
             \/ todo = DOMAIN files \cup DOMAIN call[c].plist \cup DOMAIN Listing(remote)
      BY <3>2
    <3> QED BY <3>3, <3>4
  <2>2. PICK s : s = [call[c] EXCEPT !.phase = "process",
                        !.slist = Listing(remote), !.noSync = noSync, !.todo = todo]
    OBVIOUS
  <2>3. /\ call' = [call EXCEPT ![c] = s] /\ call[c].phase = "listRemote"
        /\ UNCHANGED <<stores, snapshot, saved, work, budget, live, deleted, overlap>>
    BY <1>6, <2>1, <2>2 DEF ListRemote, history
  <2>4. /\ s.phase = "process" /\ s.slist = Listing(remote) /\ s.plist = call[c].plist
        /\ s.noSync = noSync /\ s.todo = todo
    BY <2>2, Fields DEF IsCall
  <2>5. \A p : Sure(p) => ListedNow(p, s)
    BY <2>3, <2>4 DEF ListedNow, ListedAs, Listing, Sure, Hands
  <2>6. ASSUME ~overlap, NEW p \in UserPath, NEW lm \in Nat, Sure(p), NEW x, x = ConflictPath(p, lm)
        PROVE  CopyLists(p, lm, x, s)
    <3>1. CopyLists(p, lm, x, call[c]) /\ CopyStores(p, lm, x)
      BY <2>6 DEF Sure, Kin, Copies
    <3>2. x \notin noSync
      BY <2>1, <2>6, SyncConstants DEF TypeOK, EnvOK, NoCopyNames
    <3>3. ~Copying(p, lm)
      <4> SUFFICES ASSUME NEW d \in Slot, NEW v \in Worker, work[d][v].pc = "copyRemote"
                   PROVE  FALSE
        BY DEF Copying
      <4>1. call[d].phase = "process"
        BY DEF MutexInv
      <4> QED BY <2>3, <2>6, <4>1 DEF Kept, Guarded, Alone, Busy
    <3>4. x \notin call[c].todo /\ (x \in DOMAIN call[c].plist <=> x \in DOMAIN local)
      BY <2>3, <3>1 DEF CopyLists
    <3>5. x \in todo => x \in DOMAIN local \cup DOMAIN remote
      BY <2>1, <3>1, <3>4 DEF CopyStores, Both, Listing
    <3>6. x \in DOMAIN s.slist <=> x \in DOMAIN remote
      BY <2>4 DEF Listing
    <3> QED BY <2>4, <3>1, <3>2, <3>3, <3>4, <3>5, <3>6 DEF CopyLists, CopyStores, Both
  <2> QED BY <1>1, <2>3, <2>5, <2>6, CallSpares DEF Tr
<1>7. CASE ListFault(c) \/ Finish(c)
  <2>1. PICK s : s = IdleCall
    OBVIOUS
  <2>2. /\ call' = [call EXCEPT ![c] = s] /\ s.phase = "idle" /\ s.noSync = {}
        /\ UNCHANGED <<stores, snapshot, live, deleted, overlap>>
        /\ saved' = saved \/ saved' = Snap
    BY <1>7, <2>1 DEF ListFault, Finish, IdleCall, history, Release
  <2>3. /\ \A v \in Worker : ~Acting(work[c][v]) /\ ~Acting(work'[c][v])
        /\ \A d \in Slot, v \in Worker : d # c => work'[d][v] = work[d][v]
    <3>1. CASE ListFault(c)
      BY <1>1, <3>1 DEF ListFault
    <3>2. CASE Finish(c)
      BY <3>2 DEF Finish, TypeOK, WorkersOK, IdleWork, Acting
    <3> QED BY <1>7, <3>1, <3>2
  <2>4. Tr' => Tr
    BY <1>7 DEF ListFault, Finish, Trouble, Spend, Tr
  <2>5. \A p : ListedNow(p, s)
    BY <2>2 DEF ListedNow
  <2>6. \A p, lm, x : CopyLists(p, lm, x, s)
    BY <2>2 DEF CopyLists
  <2> QED BY <2>2, <2>3, <2>4, <2>5, <2>6, CallSpares
<1> QED BY <1>3, <1>4, <1>5, <1>6, <1>7 DEF CallStep

\* Users edit the file q between invocations.
Edits(q) ==
  /\ UNCHANGED <<files, nonSynced, saved, call, work, overlap>> /\ deleted \subseteq deleted'
  /\ hist \in Seq(Nat) /\ Grows /\ Tr' = Tr
  /\ \A p : p # q => /\ SameAt(local', local, p) /\ SameAt(remote', remote, p)
                     /\ \A d : <<p, d>> \in live' <=> <<p, d>> \in live
  /\ \A c \in Slot : call[c].phase = "idle"
  /\ \A c \in Slot, w \in Worker : ~Acting(work[c][w])

LEMMA EditsKin ==
  ASSUME NEW q, Edits(q), Moves(q), NEW p, Kin(p), \A lm : ConflictPath(p, lm) # q
  PROVE  Kin(p)' /\ Lasting(p)
<1> SUFFICES ASSUME NEW lm \in Nat, NEW x, x = ConflictPath(p, lm)
             PROVE  Copies(p, lm, x)' /\ Lasts(p, lm, x)
  BY DEF Kin, Lasting
<1>1. Copies(p, lm, x) /\ SameAt(local', local, x) /\ SameAt(remote', remote, x)
  BY DEF Kin, Edits
<1>2. Moves(p)
  BY StillMoves DEF Edits
<1>3. Past(p, lm) => Past(p, lm)'
  BY <1>2, PastStays DEF Edits
<1>4. IsStamp(lm) => IsStamp(lm)' /\ hist'[lm] = hist[lm]
  BY StampsKept DEF Edits
<1>5. ~Copying(p, lm)
  BY DEF Copying, Edits, Acting
<1>6. CopyStores(p, lm, x)'
  BY <1>1, <1>3, <1>4, <1>5 DEF Copies, CopyStores, SameAt, Both, Edits
<1>7. ASSUME NEW c \in Slot PROVE CopyLists(p, lm, x, call[c])'
  BY <1>1 DEF Copies, CopyLists, Edits
<1> QED BY <1>1, <1>6, <1>7 DEF Copies, Edits, Acting, Lasts, SameAt

LEMMA EditsElsewhere ==
  ASSUME NEW q, Edits(q), NEW p, p # q, Sure(p), Lasting(p)
  PROVE  Entries(p)' /\ Hands(p)' /\ Preserved(p)'
<1>1. /\ SameAt(local', local, p) /\ SameAt(remote', remote, p) /\ UNCHANGED <<files, saved>>
      /\ \A d : <<p, d>> \in live' <=> <<p, d>> \in live
  BY DEF Edits
<1>2. (LocalSpare(p) => LocalSpare(p)') /\ (RemoteSpare(p) => RemoteSpare(p)')
  BY <1>1 DEF LocalSpare, RemoteSpare, Same, SameAt
<1>3. \A i : Fits(p, i) => Fits(p, i)'
  BY <1>1, <1>2 DEF Fits, SameAt
<1>4. ~Dropping(p)
  BY DEF Dropping, Edits, Acting
<1>5. Entries(p)'
  BY <1>1, <1>2, <1>3, <1>4 DEF Sure, Entries
<1>6. Hands(p)'
  BY DEF Hands, ListedNow, Edits, Acting
<1>7. Preserved(p)'
  <2> SUFFICES ASSUME NEW d, <<p, d>> \in live'
               PROVE  d \in Held(local', p) \cup Held(remote', p) \/ InCopy(p, d)'
    BY DEF Preserved, Held
  <2>1. Held(local', p) = Held(local, p) /\ Held(remote', p) = Held(remote, p)
    BY <1>1 DEF Held, SameAt
  <2>2. InCopy(p, d) => InCopy(p, d)'
    BY CopiesLast DEF Edits
  <2> QED BY <1>1, <2>1, <2>2 DEF Sure, Preserved
<1> QED BY <1>5, <1>6, <1>7

\* The file that is edited: what must be shown of it.
IsEntry(p, i) == \/ p \in DOMAIN files /\ i = files[p]
                 \/ p \in DOMAIN saved.files /\ i = saved.files[p]

LEMMA EditsHere ==
  ASSUME NEW q, Edits(q), Sure(q), Lasting(q),
         \A i : IsEntry(q, i) /\ Fits(q, i) => Fits(q, i)',
         LocalSpare(q) /\ q \in StdLib => LocalSpare(q)',
         \A d : <<q, d>> \in live' => \/ d \in Held(local', q) \cup Held(remote', q)
                                      \/ <<q, d>> \in live /\ InCopy(q, d)
  PROVE  Entries(q)' /\ Hands(q)' /\ Preserved(q)'
<1>1. ~Dropping(q)
  BY DEF Dropping, Edits, Acting
<1>2. Entries(q)'
  <2>1. ASSUME q \in DOMAIN files' PROVE Fits(q, files[q])'
    <3>1. PICK i : i = files[q]
      OBVIOUS
    <3>2. IsEntry(q, i) /\ Fits(q, i) /\ files'[q] = i
      BY <1>1, <2>1, <3>1 DEF Sure, Entries, Edits, IsEntry
    <3> QED BY <3>2
  <2>2. ASSUME q \in DOMAIN saved'.files PROVE Fits(q, saved.files[q])'
    <3>1. PICK i : i = saved.files[q]
      OBVIOUS
    <3>2. IsEntry(q, i) /\ Fits(q, i) /\ saved'.files[q] = i
      BY <1>1, <2>2, <3>1 DEF Sure, Entries, Edits, IsEntry
    <3> QED BY <3>2
  <2> QED BY <2>1, <2>2 DEF Sure, Entries
<1>3. Hands(q)'
  BY DEF Hands, ListedNow, Edits, Acting
<1>4. Preserved(q)'
  <2> SUFFICES ASSUME NEW d, <<q, d>> \in live'
               PROVE  d \in Held(local', q) \cup Held(remote', q) \/ InCopy(q, d)'
    BY DEF Preserved, Held
  <2>1. InCopy(q, d) => InCopy(q, d)'
    BY CopiesLast DEF Edits
  <2> QED BY <2>1
<1> QED BY <1>2, <1>3, <1>4

LEMMA UserSpares ==
  ASSUME Ready, ~EditsDuringSync, NEW q \in UserPath,
         LocalWrite(q) \/ LocalDelete(q) \/ RemoteWrite(q) \/ RemoteDelete(q)
  PROVE  Spared'
<1> USE DEF Ready
<1>1. PICK t : t = Now
  OBVIOUS
<1>2. t \in Nat /\ hist \in Seq(Nat) /\ \A s : IsStamp(s) => s # t /\ hist[s] # t
  <2>1. hist \in Seq(Nat) /\ Len(hist) \in Nat
    BY LenProperties DEF TypeOK, StoresOK
  <2> QED BY <1>1, <2>1 DEF Now, IsStamp, Named
<1>3. Grows
  BY <1>1, <1>2, Zenon DEF Grows, LocalWrite, LocalDelete, RemoteWrite, RemoteDelete
<1>4. /\ \A c \in Slot : call[c].phase = "idle"
      /\ \A c \in Slot, w \in Worker : ~Acting(work[c][w])
  <2>1. \A c \in Slot : call[c].phase = "idle"
    BY DEF LocalWrite, LocalDelete, RemoteWrite, RemoteDelete, EditsAllowed, Busy
  <2> QED BY <2>1 DEF MutexInv, Acting
<1>5. /\ UNCHANGED <<files, nonSynced, saved, call, work, overlap>> /\ deleted \subseteq deleted'
      /\ \/ LocalWrite(q) \/ RemoteWrite(q)
         \/ q \in deleted'
  BY DEF LocalWrite, LocalDelete, RemoteWrite, RemoteDelete, snapshot, control
<1>6. Tr' = Tr
  <2>1. \E k \in {"write", "delete"} : budget' = [budget EXCEPT ![k] = budget[k] - 1]
    BY DEF LocalWrite, LocalDelete, RemoteWrite, RemoteDelete, Spend
  <2> QED BY <2>1 DEF Tr, TypeOK, EnvOK, Kind
<1>7. ASSUME NEW p, p # q
      PROVE  /\ SameAt(local', local, p) /\ SameAt(remote', remote, p)
             /\ \A d : <<p, d>> \in live' <=> <<p, d>> \in live
  <2>1. SameAt(local', local, p) /\ SameAt(remote', remote, p)
    BY <1>7, StillPut DEF LocalWrite, LocalDelete, RemoteWrite, RemoteDelete
  <2>2. PICK old, new : /\ live' = (live \ {<<q, d>> : d \in old}) \cup new
                        /\ new \in {{}, {<<q, t>>}}
    BY <1>1 DEF LocalWrite, LocalDelete, RemoteWrite, RemoteDelete, Supersede
  <2> QED BY <1>7, <2>1, <2>2
<1>8. Edits(q)
  BY <1>2, <1>3, <1>4, <1>5, <1>6, <1>7 DEF Edits
<1>9. Moves(q)
  BY <1>1 DEF Moves, LocalWrite, LocalDelete, RemoteWrite, RemoteDelete, Put, Drop
<1>10. ASSUME ~overlap, q \notin deleted', Sure(q), Lasting(q)
       PROVE  Entries(q)' /\ Hands(q)' /\ Preserved(q)'
  <2>1. \A i : IsEntry(q, i) => SameContent(i) /\ q \in DOMAIN remote
    BY <1>10 DEF IsEntry, StampInv, SameContents, Sure, Safe, InSnapshot
  <2>2. /\ q \in DOMAIN local => Stamped(local[q])
        /\ q \in DOMAIN remote => Stamped(remote[q])
    BY DEF StampInv, StampedStore
  <2>3. q \in DOMAIN files /\ q \notin DOMAIN local => q \in nonSynced
    BY <1>10 DEF Sure, Safe, InSnapshot
  <2>4. <<q, t>> \notin live
    BY <1>2 DEF Named
  <2>5. CASE LocalWrite(q)
    <3>1. /\ remote' = remote /\ q \in DOMAIN local' /\ local'[q] = [lm |-> t, data |-> t]
          /\ live' = (live \ {<<q, d>> : d \in Seen(q)})
                       \cup (IF q \in StdLib THEN {} ELSE {<<q, t>>})
      BY <1>1, <2>5 DEF LocalWrite, Put, Supersede
    <3>2. \A d : <<q, d>> \in live' <=> \/ <<q, d>> \in live /\ d \notin Seen(q)
                                        \/ q \notin StdLib /\ d = t
      BY <3>1
    <3>3. q \in DOMAIN local => local[q].data \in Seen(q)
      BY DEF Seen, Held
    <3>4. q \in DOMAIN files /\ q \notin DOMAIN local => hist[files[q][2]] \in Seen(q)
      BY <2>3 DEF Seen
    <3>5. ASSUME NEW i, SameContent(i), Fits(q, i) PROVE Fits(q, i)'
      <4>1. SUFFICES ASSUME q \in DOMAIN remote, remote[q].lm = i[2]
                     PROVE  <<q, remote[q].data>> \notin live'
        BY <1>2, <3>1, <3>5 DEF Fits, SameContent, LocalSpare, RemoteSpare
      <4>2. remote[q].data = hist[i[2]] /\ hist[i[1]] = hist[i[2]] /\ remote[q].data # t
        BY <1>2, <2>2, <3>5, <4>1 DEF Stamped, SameContent
      <4>3. CASE q \notin DOMAIN local
        BY <3>2, <3>4, <3>5, <4>1, <4>2, <4>3 DEF Fits
      <4>4. CASE q \in DOMAIN local /\ local[q].lm = i[1]
        BY <2>2, <3>2, <3>3, <4>2, <4>4 DEF Stamped
      <4>5. CASE q \in DOMAIN local /\ local[q].lm # i[1]
        BY <3>2, <3>3, <3>5, <4>1, <4>2, <4>5 DEF Fits, RemoteSpare, Same
      <4> QED BY <4>3, <4>4, <4>5
    <3>6. q \in StdLib => LocalSpare(q)'
      BY <2>4, <3>1, <3>2 DEF LocalSpare
    <3>7. ASSUME NEW d, <<q, d>> \in live'
          PROVE  d \in Held(local', q) \cup Held(remote', q) \/ (<<q, d>> \in live /\ InCopy(q, d))
      <4>1. CASE d = t
        BY <3>1, <4>1 DEF Held
      <4>2. CASE <<q, d>> \in live /\ d \notin Seen(q)
        <5>1. d \in Held(local, q) \cup Held(remote, q) \/ InCopy(q, d)
          BY <1>10, <4>2 DEF Sure, Preserved
        <5>2. d \notin Held(local, q)
          BY <3>3, <4>2 DEF Held
        <5> QED BY <3>1, <4>2, <5>1, <5>2
      <4> QED BY <3>2, <3>7, <4>1, <4>2
    <3>8. \A i : IsEntry(q, i) /\ Fits(q, i) => Fits(q, i)'
      BY <2>1, <3>5
    <3> QED BY <1>8, <1>10, <3>6, <3>7, <3>8, EditsHere
  <2>6. CASE RemoteWrite(q)
    <3>1. /\ local' = local /\ q \in DOMAIN remote' /\ remote'[q] = [lm |-> t, data |-> t]
          /\ live' = (live \ {<<q, d>> : d \in Held(remote, q)}) \cup {<<q, t>>}
      BY <1>1, <2>6 DEF RemoteWrite, Put, Supersede
    <3>2. \A d : <<q, d>> \in live' <=> (<<q, d>> \in live /\ d \notin Held(remote, q)) \/ d = t
      BY <3>1
    <3>3. q \in DOMAIN remote => remote[q].data \in Held(remote, q)
      BY DEF Held
    <3>4. q \in DOMAIN local => local[q].data # t
      BY <1>2, <2>2 DEF Stamped
    <3>5. ASSUME NEW i, SameContent(i), Fits(q, i), q \in DOMAIN remote PROVE Fits(q, i)'
      <4>1. SUFFICES ASSUME q \in DOMAIN local, local[q].lm = i[1]
                     PROVE  <<q, local[q].data>> \notin live'
        BY <1>2, <3>1, <3>5 DEF Fits, SameContent, LocalSpare, RemoteSpare
      <4>2. local[q].data = hist[i[1]] /\ hist[i[1]] = hist[i[2]]
        BY <2>2, <3>5, <4>1 DEF Stamped, SameContent
      <4>3. CASE remote[q].lm = i[2]
        BY <2>2, <3>2, <3>3, <3>4, <3>5, <4>1, <4>2, <4>3 DEF Stamped
      <4>4. CASE remote[q].lm # i[2]
        BY <3>2, <3>3, <3>4, <3>5, <4>1, <4>4 DEF Fits, LocalSpare, Same
      <4> QED BY <4>3, <4>4
    <3>6. LocalSpare(q) => LocalSpare(q)'
      BY <3>1, <3>2, <3>3, <3>4 DEF LocalSpare, Same
    <3>7. ASSUME NEW d, <<q, d>> \in live'
          PROVE  d \in Held(local', q) \cup Held(remote', q) \/ (<<q, d>> \in live /\ InCopy(q, d))
      <4>1. CASE d = t
        BY <3>1, <4>1 DEF Held
      <4>2. CASE <<q, d>> \in live /\ d \notin Held(remote, q)
        <5>1. d \in Held(local, q) \cup Held(remote, q) \/ InCopy(q, d)
          BY <1>10, <4>2 DEF Sure, Preserved
        <5> QED BY <3>1, <4>2, <5>1
      <4> QED BY <3>2, <3>7, <4>1, <4>2
    <3>8. \A i : IsEntry(q, i) /\ Fits(q, i) => Fits(q, i)'
      BY <2>1, <3>5
    <3> QED BY <1>8, <1>10, <3>6, <3>7, <3>8, EditsHere
  <2> QED BY <1>5, <1>10, <2>5, <2>6
<1>11. ASSUME ~overlap, NEW p \in UserPath \ deleted'
       PROVE  Entries(p)' /\ Hands(p)' /\ Preserved(p)' /\ Kin(p)'
  <2>1. Sure(p)
    BY <1>5, <1>11 DEF Sure, Spared, Kept, Guarded
  <2>2. Kin(p)' /\ Lasting(p)
    BY <1>8, <1>9, <2>1, EditsKin DEF Sure, NoCopyNames
  <2>3. CASE p = q
    BY <1>10, <1>11, <2>1, <2>2, <2>3
  <2>4. CASE p # q
    BY <1>8, <2>1, <2>2, <2>4, EditsElsewhere
  <2> QED BY <2>2, <2>3, <2>4
<1> QED BY <1>5, <1>11 DEF Spared

\* Nothing happens, or the configuration changes.
LEMMA ConfigSpares ==
  ASSUME Ready, UNCHANGED <<stores, snapshot, saved, call, work, live, deleted, overlap>>,
         Tr' => Tr
  PROVE  Spared'
<1> USE DEF Ready
<1> SUFFICES ASSUME ~overlap, NEW p \in UserPath \ deleted
             PROVE  Entries(p)' /\ Hands(p)' /\ Preserved(p)' /\ Kin(p)'
  BY DEF Spared
<1>1. Entries(p) /\ Hands(p) /\ Preserved(p) /\ Kin(p) /\ UNCHANGED <<files, nonSynced>>
  BY DEF Spared, snapshot
<1>2. (Dropping(p)' <=> Dropping(p)) /\ \A lm : Copying(p, lm) => Copying(p, lm)'
  BY DEF Dropping, Copying
<1>3. Entries(p)'
  <2>1. ASSUME p \in DOMAIN files', ~Dropping(p)' PROVE Fits(p, files[p])'
    <3>1. PICK i : i = files[p]
      OBVIOUS
    <3>2. Fits(p, i) /\ files'[p] = i
      BY <1>1, <1>2, <2>1, <3>1 DEF Entries
    <3> QED BY <3>2, Unmoved
  <2>2. ASSUME p \in DOMAIN saved'.files, ~(Dropping(p)' /\ p \in saved'.nonSynced)
        PROVE  Fits(p, saved.files[p])'
    <3>1. PICK i : i = saved.files[p]
      OBVIOUS
    <3>2. Fits(p, i) /\ saved'.files[p] = i
      BY <1>1, <1>2, <2>2, <3>1 DEF Entries
    <3> QED BY <3>2, Unmoved
  <2>3. p \in StdLib => LocalSpare(p)'
    BY <1>1, Unmoved DEF Entries
  <2> QED BY <2>1, <2>2, <2>3 DEF Entries
<1>4. Hands(p)'
  <2>1. ASSUME NEW c \in Slot PROVE ListedNow(p, call[c])'
    <3>1. PICK r : r = call[c]
      OBVIOUS
    <3>2. ListedNow(p, r) /\ call'[c] = r
      BY <1>1, <3>1 DEF Hands
    <3> QED BY <3>2, Unmoved
  <2>2. ASSUME NEW c \in Slot, NEW w \in Worker, Acting(work'[c][w]), work'[c][w].path = p
        PROVE  Holding(p, work[c][w])'
    <3>1. PICK r : r = work[c][w]
      OBVIOUS
    <3>2. Holding(p, r) /\ work'[c][w] = r
      BY <1>1, <2>2, <3>1 DEF Hands
    <3> QED BY <3>2, Unmoved
  <2> QED BY <2>1, <2>2 DEF Hands, Acting
<1>5. Preserved(p)'
  BY <1>1, Unmoved
<1>6. ASSUME NEW lm \in Nat, NEW x, x = ConflictPath(p, lm) PROVE Copies(p, lm, x)'
  <2>1. Copies(p, lm, x)
    BY <1>1, <1>6 DEF Kin
  <2>2. CopyStores(p, lm, x)'
    BY <1>2, <2>1, UnmovedCopies DEF Copies
  <2>3. ASSUME NEW c \in Slot PROVE CopyLists(p, lm, x, call[c])'
    <3>1. PICK r : r = call[c]
      OBVIOUS
    <3>2. CopyLists(p, lm, x, r) /\ call'[c] = r
      BY <2>1, <3>1 DEF Copies
    <3> QED BY <3>2, UnmovedCopies
  <2>4. ASSUME NEW c \in Slot, NEW w \in Worker, Acting(work'[c][w]), work'[c][w].path = x
        PROVE  CopyHand(p, lm, x, work[c][w])'
    <3>1. PICK r : r = work[c][w]
      OBVIOUS
    <3>2. CopyHand(p, lm, x, r) /\ work'[c][w] = r
      BY <2>1, <2>4, <3>1 DEF Copies
    <3> QED BY <3>2, UnmovedCopies
  <2> QED BY <2>2, <2>3, <2>4 DEF Copies, Acting
<1> QED BY <1>3, <1>4, <1>5, <1>6 DEF Kin

\* The snapshot that was persisted is taken up again, at the price of the one trouble.
LEMMA RestartSpares ==
  ASSUME Ready, Restart, "tear" \notin Troubles
  PROVE  Spared'
<1> USE DEF Ready
<1>1. /\ UNCHANGED <<local, remote, hist, saved, live, deleted, overlap>>
      /\ files' = saved.files /\ nonSynced' = saved.nonSynced /\ ~Torn
      /\ \A c \in Slot : call'[c] = IdleCall
      /\ \A c \in Slot, w \in Worker : work'[c][w] = IdleWork
  BY DEF Restart, stores, history
<1>2. \A c \in Slot, w \in Worker : ~Acting(work[c][w])' /\ work'[c][w].pc = "idle"
  BY <1>1 DEF Acting, IdleWork
<1>3. \A c \in Slot : call'[c].phase = "idle" /\ call'[c].noSync = {}
  BY <1>1 DEF IdleCall
<1>4. Tr /\ ~Tr'
  <2>1. budget["trouble"] > 0 /\ budget' = [budget EXCEPT !["trouble"] = @ - 1]
    BY DEF Restart, Trouble, Spend
  <2>2. budget["trouble"] = 1 /\ budget'["trouble"] = 0
    BY <2>1 DEF Named, TypeOK, EnvOK, Kind
  <2> QED BY <2>2 DEF Tr
<1> SUFFICES ASSUME ~overlap, NEW p \in UserPath \ deleted
             PROVE  Entries(p)' /\ Hands(p)' /\ Preserved(p)' /\ Kin(p)'
  BY <1>1 DEF Spared
<1>5. Entries(p) /\ Preserved(p) /\ Kin(p)
  BY DEF Spared
<1>6. ~Dropping(p) \/ p \notin saved.nonSynced
  BY <1>1 DEF Dropping, Torn
<1>7. Entries(p)'
  <2>1. /\ LocalSpare(p) => LocalSpare(p)'
        /\ RemoteSpare(p) => RemoteSpare(p)'
    BY <1>1 DEF LocalSpare, RemoteSpare, Same
  <2>2. ASSUME p \in DOMAIN files' PROVE Fits(p, files[p])'
    <3>1. PICK i : i = saved.files[p]
      OBVIOUS
    <3>2. Fits(p, i) /\ files'[p] = i
      BY <1>1, <1>5, <1>6, <2>2, <3>1 DEF Entries
    <3>3. Fits(p, i)'
      BY <1>1, <2>1, <2>2, <3>2 DEF Fits
    <3> QED BY <3>2, <3>3
  <2>3. ASSUME p \in DOMAIN saved'.files PROVE Fits(p, saved.files[p])'
    <3>1. saved'.files[p] = files'[p] /\ p \in DOMAIN files'
      BY <1>1, <2>3
    <3> QED BY <2>2, <3>1
  <2> QED BY <1>5, <2>1, <2>2, <2>3 DEF Entries
<1>8. Hands(p)'
  BY <1>2, <1>3 DEF Hands, ListedNow
<1>9. Preserved(p)'
  BY <1>1, <1>5 DEF Preserved, Held, InCopy, IsStamp
<1>10. ASSUME NEW lm \in Nat, NEW x, x = ConflictPath(p, lm) PROVE Copies(p, lm, x)'
  <2>1. Copies(p, lm, x)
    BY <1>5, <1>10 DEF Kin
  <2>2. (Past(p, lm) <=> Past(p, lm)') /\ (IsStamp(lm) <=> IsStamp(lm)')
    BY <1>1 DEF Past, IsStamp
  <2>3. CopyStores(p, lm, x)'
    BY <1>1, <1>4, <2>1, <2>2 DEF Copies, CopyStores, Both
  <2>4. \A c \in Slot : CopyLists(p, lm, x, call[c])'
    BY <1>3 DEF CopyLists
  <2> QED BY <1>2, <2>3, <2>4 DEF Copies
<1> QED BY <1>7, <1>8, <1>9, <1>10 DEF Kin

-----------------------------------------------------------------------------
(* The contents that users count on.                                           *)

\* What a step adds to the history is new, or has the stamp of an earlier write.
Adds ==
  \/ hist' = hist /\ live' \subseteq live
  \/ \E d \in Nat : /\ d <= Len(hist) + 1 /\ hist' = Append(hist, d)
                    /\ live' \subseteq live \cup (UserPath \X {Len(hist) + 1})

LEMMA NamedAdds ==
  ASSUME TypeOK, Named, Adds, budget'["trouble"] <= budget["trouble"],
         budget'["trouble"] \in Nat
  PROVE  Named'
<1>1. hist \in Seq(Nat) /\ Len(hist) \in Nat
  BY LenProperties DEF TypeOK, StoresOK
<1>2. budget'["trouble"] <= 1
  BY DEF Named, TypeOK, EnvOK, Kind
<1>3. CASE hist' = hist /\ live' \subseteq live
  BY <1>2, <1>3 DEF Named, IsStamp
<1>4. ASSUME NEW d \in Nat, d <= Len(hist) + 1, hist' = Append(hist, d),
             live' \subseteq live \cup (UserPath \X {Len(hist) + 1})
      PROVE  Named'
  <2>1. /\ Len(hist') = Len(hist) + 1 /\ hist'[Len(hist) + 1] = d
        /\ \A t \in 1..Len(hist) : hist'[t] = hist[t]
    BY <1>1, <1>4, AppendProperties
  <2>2. live' \subseteq UserPath \X Nat
    BY <1>1, <1>4 DEF Named
  <2>3. \A x \in live' : IsStamp(x[2])'
    BY <1>1, <1>4, <2>1 DEF Named, IsStamp
  <2>4. \A t \in Nat : IsStamp(t)' => hist'[t] <= t
    BY <1>1, <1>4, <2>1 DEF Named, IsStamp
  <2> QED BY <1>2, <2>2, <2>3, <2>4 DEF Named
<1> QED BY <1>3, <1>4 DEF Adds

LEMMA NamedStep ==
  ASSUME Ready, "silent" \notin Troubles, TypeOK', [Next]_vars
  PROVE  Named'
<1> USE DEF Ready
<1>1. budget'["trouble"] \in Nat
  BY DEF TypeOK, EnvOK, Kind
<1>2. hist \in Seq(Nat) /\ Len(hist) \in Nat /\ Now = Len(hist) + 1
  BY LenProperties DEF TypeOK, StoresOK, Now
<1>3. ASSUME NEW f, Stamped(f) PROVE f.data \in Nat /\ f.data <= Len(hist) + 1
  <2>1. f.lm \in Nat /\ f.lm <= Len(hist) /\ f.data <= f.lm
    BY <1>2, <1>3 DEF Stamped, IsStamp, Named
  <2>2. f.data \in Nat
    BY <1>2, <1>3, ElementOfSeq DEF Stamped, IsStamp
  <2> QED BY <1>2, <2>1, <2>2
<1>4. ASSUME NEW c \in Slot, NEW w \in Worker, WorkerStep(c, w) \/ RemoteFault(c, w)
      PROVE  Named'
  <2>1. live' = live
    BY <1>4 DEF WorkerStep, RemoteFault, Begin, ReadLocal, ReadRemote, PushWrite, PullWrite,
       DeleteLocal, DeleteRemote, DropStale, Unsync, ConflictRead, CopyLocal, CopyRemote,
       Overwrite, Report, history
  <2>2. budget' = budget \/ budget' = [budget EXCEPT !["trouble"] = budget["trouble"] - 1]
    BY <1>4, Zenon DEF WorkerStep, RemoteFault, Begin, ReadLocal, ReadRemote, PushWrite, PullWrite,
       DeleteLocal, DeleteRemote, DropStale, Unsync, ConflictRead, CopyLocal, CopyRemote,
       Overwrite, Report, Trouble, Spend
  <2>3. budget'["trouble"] <= budget["trouble"]
    BY <2>2 DEF TypeOK, EnvOK, Kind
  <2>4. \/ hist' = hist
        \/ /\ work[c][w].pc \in {"copyLocal", "copyRemote"}
           /\ hist' = Append(hist, work[c][w].b.data)
        \/ work[c][w].pc = "overwrite" /\ hist' = Append(hist, work[c][w].a.data)
    <3>1. CASE CopyLocal(c, w) \/ CopyRemote(c, w) \/ Overwrite(c, w)
      BY <3>1 DEF CopyLocal, CopyRemote, Overwrite
    <3>2. CASE RemoteFault(c, w)
      BY <3>2 DEF RemoteFault
    <3>3. CASE \/ Begin(c, w) \/ ReadLocal(c, w) \/ PushWrite(c, w) \/ ReadRemote(c, w)
               \/ PullWrite(c, w) \/ DeleteLocal(c, w) \/ DeleteRemote(c, w)
               \/ DropStale(c, w) \/ Unsync(c, w) \/ ConflictRead(c, w) \/ Report(c, w)
      BY <3>3 DEF Begin, ReadLocal, ReadRemote, PushWrite, PullWrite, DeleteLocal,
         DeleteRemote, DropStale, Unsync, ConflictRead, Report, stores
    <3> QED BY <1>4, <3>1, <3>2, <3>3 DEF WorkerStep
  <2>5. StampedWork(work[c][w])
    BY DEF StampInv
  <2>6. /\ work[c][w].pc \in {"copyLocal", "copyRemote"} => Stamped(work[c][w].b)
        /\ work[c][w].pc = "overwrite" => Stamped(work[c][w].a)
    BY <2>5 DEF StampedWork
  <2>7. Adds
    BY <1>3, <2>1, <2>4, <2>6 DEF Adds
  <2> QED BY <1>1, <2>3, <2>7, NamedAdds
<1>5. ASSUME UNCHANGED <<hist, live>>,
             budget' = budget \/ budget' = [budget EXCEPT !["trouble"] = budget["trouble"] - 1]
      PROVE  Named'
  <2>1. budget'["trouble"] <= budget["trouble"]
    BY <1>5 DEF TypeOK, EnvOK, Kind
  <2> QED BY <1>1, <1>5, <2>1, NamedAdds DEF Adds
<1>6. ASSUME NEW c \in Slot,
             \/ StartFull(c) \/ \E p \in UserPath : StartSingle(c, p)
             \/ CallStep(c) \/ ListFault(c)
      PROVE  Named'
  <2>1. UNCHANGED <<hist, live>>
    BY <1>6 DEF StartFull, StartSingle, CallStep, ListLocal, ListRemote, Finish, ListFault,
       stores, history
  <2>2. budget' = budget \/ budget' = [budget EXCEPT !["trouble"] = budget["trouble"] - 1]
    BY <1>6, Zenon DEF StartFull, StartSingle, CallStep, ListLocal, ListRemote, Finish, ListFault,
       Trouble, Spend
  <2> QED BY <1>5, <2>1, <2>2
<1>7. CASE SetSyncConfig \/ Restart \/ UNCHANGED vars
  <2>1. UNCHANGED <<hist, live>>
    BY <1>7 DEF SetSyncConfig, Restart, vars, stores, history
  <2>2. budget' = budget \/ budget' = [budget EXCEPT !["trouble"] = budget["trouble"] - 1]
    BY <1>7, Zenon DEF SetSyncConfig, Restart, Trouble, Spend, vars
  <2> QED BY <1>5, <2>1, <2>2
<1>8. ASSUME NEW p \in UserPath,
             \/ LocalWrite(p) \/ LocalDelete(p) \/ RemoteWrite(p) \/ RemoteDelete(p)
      PROVE  Named'
  <2>1. \E k \in {"write", "delete"} : budget' = [budget EXCEPT ![k] = budget[k] - 1]
    BY <1>8 DEF LocalWrite, LocalDelete, RemoteWrite, RemoteDelete, Spend
  <2>2. budget'["trouble"] <= budget["trouble"]
    BY <2>1 DEF TypeOK, EnvOK, Kind
  <2>3. Adds
    <3>1. CASE LocalDelete(p) \/ RemoteDelete(p)
      BY <3>1 DEF LocalDelete, RemoteDelete, Supersede, Adds
    <3>2. CASE LocalWrite(p) \/ RemoteWrite(p)
      <4>1. PICK old, new : /\ live' = (live \ {<<p, d>> : d \in old}) \cup new
                            /\ new \in {{}, {<<p, Now>>}} /\ hist' = Append(hist, Now)
        BY <3>2 DEF LocalWrite, RemoteWrite, Supersede
      <4>2. live' \subseteq live \cup (UserPath \X {Len(hist) + 1})
        BY <1>2, <4>1
      <4> QED BY <1>2, <4>1, <4>2 DEF Adds
    <3> QED BY <1>8, <3>1, <3>2
  <2> QED BY <1>1, <2>2, <2>3, NamedAdds
<1>9. ASSUME NEW p \in UserPath PROVE ~SilentChange(p)
  BY DEF SilentChange, Trouble
<1>10. CASE Environment
  BY <1>4, <1>6, <1>7, <1>8, <1>9, <1>10 DEF Environment
<1>11. CASE \E c \in Slot : \/ StartFull(c) \/ \E p \in UserPath : StartSingle(c, p)
                            \/ CallStep(c) \/ \E w \in Worker : WorkerStep(c, w)
  BY <1>4, <1>6, <1>11
<1> QED BY <1>7, <1>10, <1>11 DEF Next

-----------------------------------------------------------------------------
(* The invariant, and what follows from it. *)

LEMMA LossInit ==
  ASSUME Init, MaxBudget["trouble"] <= 1
  PROVE  LossInv
<1>1. /\ local = << >> /\ remote = << >> /\ hist = << >> /\ files = << >> /\ nonSynced = {}
      /\ saved = Snap /\ live = {} /\ budget = MaxBudget
      /\ \A c \in Slot : call[c] = IdleCall
      /\ \A c \in Slot, w \in Worker : work[c][w] = IdleWork
  BY DEF Init
<1>2. /\ \A c \in Slot, w \in Worker : ~Acting(work[c][w])
      /\ \A c \in Slot : call[c].phase = "idle" /\ call[c].noSync = {}
      /\ saved.files = << >> /\ saved.nonSynced = {}
  BY <1>1 DEF Acting, IdleWork, IdleCall, Snap
<1>3. Named
  BY <1>1 DEF Named, IsStamp
<1>4. ASSUME NEW p PROVE Entries(p) /\ Hands(p) /\ Preserved(p) /\ Kin(p)
  <2>1. Entries(p)
    BY <1>1, <1>2 DEF Entries, LocalSpare
  <2>2. Hands(p)
    BY <1>2 DEF Hands, ListedNow
  <2>3. Preserved(p)
    BY <1>1 DEF Preserved
  <2>4. ASSUME NEW lm, NEW x PROVE Copies(p, lm, x)
    <3>1. CopyStores(p, lm, x)
      BY <1>1, <1>2 DEF CopyStores
    <3>2. \A c \in Slot : CopyLists(p, lm, x, call[c])
      BY <1>2 DEF CopyLists
    <3> QED BY <1>2, <3>1, <3>2 DEF Copies
  <2> QED BY <2>1, <2>2, <2>3, <2>4 DEF Kin
<1> QED BY <1>3, <1>4 DEF LossInv, Spared

LEMMA LossStep ==
  ASSUME "tear" \notin Troubles, "silent" \notin Troubles, ~EditsDuringSync, NoCopyNames,
         TypeOK, TypeOK', MutexInv, StampInv, DeletionInv, LossInv, [Next]_vars
  PROVE  LossInv'
<1>1. Ready
  BY DEF Ready, DeletionInv, LossInv
<1>2. Named'
  BY <1>1, NamedStep
<1> SUFFICES Spared'
  BY <1>2 DEF LossInv
<1>3. ASSUME NEW c \in Slot, NEW w \in Worker, WorkerStep(c, w) \/ RemoteFault(c, w)
      PROVE  Spared'
  BY <1>1, <1>3, BeginSpares, ReadSpares, WriteSpares, DeleteLocalSpares, DeleteRemoteSpares,
     UnsyncSpares, ConflictReadSpares, CopyLocalSpares, CopyRemoteSpares, OverwriteSpares,
     ReportSpares, FaultSpares DEF WorkerStep
<1>4. ASSUME NEW c \in Slot,
             \/ StartFull(c) \/ \E p \in UserPath : StartSingle(c, p)
             \/ CallStep(c) \/ ListFault(c)
      PROVE  Spared'
  BY <1>1, <1>4, InvocationSpares
<1>5. ASSUME NEW p \in UserPath,
             \/ LocalWrite(p) \/ LocalDelete(p) \/ RemoteWrite(p) \/ RemoteDelete(p)
      PROVE  Spared'
  BY <1>1, <1>5, UserSpares
<1>6. ASSUME NEW p \in UserPath PROVE ~SilentChange(p)
  BY DEF SilentChange, Trouble
<1>7. CASE SetSyncConfig \/ UNCHANGED vars
  <2>1. UNCHANGED <<stores, snapshot, saved, call, work, live, deleted, overlap>>
    BY <1>7 DEF SetSyncConfig, vars, control, history
  <2>2. Tr' => Tr
    BY <1>7 DEF SetSyncConfig, vars, Trouble, Spend, Tr
  <2> QED BY <1>1, <2>1, <2>2, ConfigSpares
<1>8. CASE Restart
  BY <1>1, <1>8, RestartSpares
<1>9. CASE Environment
  BY <1>3, <1>4, <1>5, <1>6, <1>7, <1>8, <1>9 DEF Environment
<1>10. CASE \E c \in Slot : \/ StartFull(c) \/ \E p \in UserPath : StartSingle(c, p)
                            \/ CallStep(c) \/ \E w \in Worker : WorkerStep(c, w)
  BY <1>3, <1>4, <1>10
<1> QED BY <1>7, <1>9, <1>10 DEF Next

\* What users count on is in place, or in a copy, so it is in one of the stores.
LEMMA NothingGone ==
  ASSUME LossInv
  PROVE  NoSilentLoss
<1> SUFFICES ASSUME ~overlap, NEW x \in live, x[1] \notin deleted
             PROVE  x[2] \in Contents(local) \cup Contents(remote)
  BY DEF NoSilentLoss, ContentKept
<1>1. PICK p, d : p = x[1] /\ d = x[2] /\ x = <<p, d>> /\ p \in UserPath \ deleted
  BY DEF LossInv, Named
<1>2. Preserved(p) /\ Kin(p)
  BY <1>1 DEF LossInv, Spared
<1>3. CASE d \in Held(local, p) \cup Held(remote, p)
  BY <1>1, <1>3 DEF Held, Contents
<1>4. CASE InCopy(p, d)
  <2>1. PICK lm \in Nat : /\ hist[lm] = d
                          /\ ConflictPath(p, lm) \in DOMAIN local \cup DOMAIN remote
    BY <1>4 DEF InCopy
  <2>2. PICK y : y = ConflictPath(p, lm)
    OBVIOUS
  <2>3. CopyStores(p, lm, y)
    BY <1>2, <2>2 DEF Kin, Copies
  <2> QED BY <1>1, <2>1, <2>2, <2>3 DEF CopyStores, Contents
<1> QED BY <1>1, <1>2, <1>3, <1>4 DEF Preserved

\* What a user wrote and nobody replaced or deleted is in one of the two stores: for
\* every number of files, workers and edits, and wherever in a cycle the one fault,
\* restart or change of the configuration comes.
THEOREM NothingLost ==
  ASSUME "tear" \notin Troubles, "silent" \notin Troubles, ~EditsDuringSync,
         MaxBudget["trouble"] <= 1, NoCopyNames
  PROVE  Spec => []NoSilentLoss
<1>1. Init => LossInv
  BY LossInit
<1>2. /\ TypeOK /\ TypeOK' /\ MutexInv /\ StampInv /\ DeletionInv /\ LossInv /\ [Next]_vars
      => LossInv'
  BY LossStep
<1>3. TypeOK /\ MutexInv /\ DeletionInv /\ [Next]_vars => DeletionInv'
  BY DeletionStep
<1>4. Spec => []StampInv
  BY StampsCorrect
<1>5. Spec => []LossInv
  BY <1>1, <1>2, <1>3, <1>4, DeletionInit, TypeCorrect, MutexAlways, PTL DEF Spec
<1> QED BY <1>5, NothingGone, PTL
=============================================================================
