------------------------------ MODULE SpaceSync ------------------------------
(***************************************************************************)
(* The file sync between a browser's local copy of a space (the primary)   *)
(* and the server's copy (the secondary): client/spaces/sync.ts, with the  *)
(* snapshot persistence and the conflict policy that                       *)
(* client/service_worker/sync_engine.ts wraps around it.                   *)
(*                                                                         *)
(* Every await of the code is a step boundary: a listing or a file's       *)
(* metadata is read in one step and acted on in later ones, and up to      *)
(* Cardinality(Worker) files of one cycle are synced at the same time.     *)
(* The user edits the primary and other clients edit the secondary in      *)
(* between.                                                                *)
(*                                                                         *)
(* A store maps a path to a file: the lastModified stamp it carries and    *)
(* its content.  Stamps come from a clock that never repeats (hist), so    *)
(* two writes never share one; content is named by the stamp of the write  *)
(* that produced it.                                                       *)
(***************************************************************************)
EXTENDS Naturals, Sequences, FiniteSets

CONSTANTS
  UserPath,         \* the names users give to files (model values)
  StdLib,           \* those under Library/Std/, whose conflicts the server wins
  IgnoreConfigs,    \* the sets of paths a sync configuration may leave out
  Slot,             \* concurrent syncFiles/syncSingleFile invocations, 1..n
  Worker,           \* the workers of one invocation (syncConcurrency of them)
  Size(_),          \* byte length of a content
  EditsDuringSync,  \* may users edit while an invocation is under way?
  Troubles,         \* what may go wrong, see Trouble
  MaxBudget         \* how often the environment may act, see Kind

Kind == {"write", "delete", "trouble"}

ASSUME SyncConstants ==
  /\ StdLib \subseteq UserPath
  /\ IgnoreConfigs # {} /\ \A c \in IgnoreConfigs : c \subseteq UserPath
  /\ Slot # {} /\ Slot \subseteq Nat
  /\ Worker # {}
  /\ EditsDuringSync \in BOOLEAN
  /\ Troubles \subseteq {"fault", "crash", "tear", "config", "silent"}
  /\ MaxBudget \in [Kind -> Nat]

VARIABLES
  local,      \* primary store: path |-> file
  remote,     \* secondary store: path |-> file
  hist,       \* hist[t] is the content written with stamp t
  files,      \* snapshot.files: path |-> <<primary stamp, secondary stamp>>
  nonSynced,  \* snapshot.nonSyncedFiles, the paths only
  saved,      \* the snapshot persisted in the key-value store
  isSyncing,  \* the mutex of SpaceSync
  ignored,    \* what the current sync configuration leaves out
  call,       \* per slot: an invocation of syncFiles or syncSingleFile
  work,       \* per slot and worker: the syncFile it is executing
  budget,     \* environment steps left
  live,       \* history: contents no user has replaced or deleted
  deleted,    \* history: paths some user deleted
  overlap     \* history: were two invocations ever under way at once?

stores   == <<local, remote, hist>>
snapshot == <<files, nonSynced>>
control  == <<isSyncing, call, work>>
history  == <<live, deleted, overlap>>
vars == <<stores, snapshot, saved, control, ignored, budget, history>>

-----------------------------------------------------------------------------
(* Maps and files. *)

Put(f, p, v) == [q \in DOMAIN f \cup {p} |-> IF q = p THEN v ELSE f[q]]
Drop(f, p)   == [q \in DOMAIN f \ {p} |-> f[q]]

NoFile == [lm |-> 0, data |-> 0]
NoMeta == [lm |-> 0, size |-> 0]
NoItem == <<0, 0>>
Lookup(f, p, none) == IF p \in DOMAIN f THEN f[p] ELSE none
\* Mutant: metadata that lost the size header.
MetaNoSize(f) == [lm |-> f.lm]
Meta(f) == [lm |-> f.lm, size |-> Size(f.data)]
Listing(store) == [p \in DOMAIN store |-> Meta(store[p])]

Now == Len(hist) + 1

\* `base.conflicted:<lm>.ext`, the name of the copy kept of a conflicting file.
ConflictPath(p, lm) == <<p, lm>>

\* Plugs aside (they are ordinary candidates here), a path is synced back to
\* the primary unless the configuration leaves it out.
IsSyncCandidate(p) == p \notin ignored

Snap == [files |-> files, nonSynced |-> nonSynced]

IdleCall == [kind |-> "none", phase |-> "idle", failed |-> FALSE, changed |-> FALSE,
             todo |-> {}, plist |-> << >>, slist |-> << >>, noSync |-> {}]
IdleWork == [pc |-> "idle", path |-> << >>, a |-> NoFile, b |-> NoFile,
             copyA |-> 0, copyB |-> 0]

Busy(c) == call[c].phase # "idle"
Free(c) == ~Busy(c) /\ \A d \in Slot : d < c => Busy(d)

Init ==
  /\ local = << >> /\ remote = << >> /\ hist = << >>
  /\ files = << >> /\ nonSynced = {}
  /\ saved = Snap
  /\ isSyncing = FALSE
  /\ ignored \in IgnoreConfigs
  /\ call = [c \in Slot |-> IdleCall]
  /\ work = [c \in Slot |-> [w \in Worker |-> IdleWork]]
  /\ budget = MaxBudget
  /\ live = {} /\ deleted = {} /\ overlap = FALSE

-----------------------------------------------------------------------------
(* What syncFile decides from the metadata it was given, the snapshot entry *)
(* and the nonSynced mark of the path, both as they are at that moment.     *)

\* Mutant: a file missing there is taken for deleted, known or not.
OnlyHereUnchecked(item, marked) == IF marked THEN "forget" ELSE "deleteLocal"
\* The primary holds the file, the secondary did not when it was listed.
\* (A path missing on the secondary is never a non-candidate, so the code's
\* !syncBack arm of this branch is dead.)
OnlyHere(item, marked) ==
  CASE item = NoItem -> "push"
    [] item # NoItem /\ marked -> "forget"
    [] item # NoItem /\ ~marked -> "deleteLocal"

\* Mutant: forgets that only synced files may be deleted on the secondary.
OnlyThereUnsynced(item, marked, syncBack) ==
  CASE syncBack /\ (item = NoItem \/ marked) -> "pull"
    [] item # NoItem /\ ~(marked /\ syncBack) -> "deleteRemote"
    [] ~syncBack /\ item = NoItem -> "note"
\* The secondary holds the file, the primary did not.
OnlyThere(item, marked, syncBack) ==
  CASE syncBack /\ (item = NoItem \/ marked) -> "pull"
    [] syncBack /\ item # NoItem /\ ~marked  -> "deleteRemote"
    [] ~syncBack /\ item = NoItem            -> "note"
    [] ~syncBack /\ item # NoItem            -> "mark"

\* Both hold the file with the stamps of the snapshot.
\* Mutant: an unsynced copy is left behind.
NoStampMovedKept(pm, sm, syncBack) == IF pm.size # sm.size THEN "conflict" ELSE "none"
NoStampMoved(pm, sm, syncBack) ==
  CASE ~syncBack                     -> "unsync"
    [] syncBack /\ pm.size # sm.size -> "conflict"
    [] syncBack /\ pm.size = sm.size -> "none"

\* Both hold the file: the stamps are compared with the snapshot's.
\* Mutants: the last writer wins; a file the snapshot does not know is pushed.
InBothLastWriter(pm, sm, item, syncBack) ==
  IF pm.lm # item[1] THEN "push" ELSE IF sm.lm # item[2] THEN "pull" ELSE "none"
InBothUnknown(pm, sm, item, syncBack) ==
  IF item # NoItem /\ pm.lm # item[1] /\ sm.lm # item[2] THEN "conflict"
  ELSE InBothLastWriter(pm, sm, item, syncBack)
InBoth(pm, sm, item, syncBack) ==
  LET here  == pm.lm # item[1]
      there == sm.lm # item[2]
  IN CASE item = NoItem \/ (here /\ there)   -> "conflict"
       [] item # NoItem /\ here /\ ~there  -> "push"
       [] item # NoItem /\ ~here /\ there  -> IF syncBack THEN "pull" ELSE "dropStale"
       [] item # NoItem /\ ~here /\ ~there -> NoStampMoved(pm, sm, syncBack)

Decision(pm, sm, item, marked, syncBack) ==
  CASE pm # NoMeta /\ sm = NoMeta -> OnlyHere(item, marked)
    [] pm = NoMeta /\ sm # NoMeta -> OnlyThere(item, marked, syncBack)
    [] pm # NoMeta /\ sm # NoMeta -> InBoth(pm, sm, item, syncBack)
    [] pm = NoMeta /\ sm = NoMeta -> IF item # NoItem THEN "forgetBoth" ELSE "none"

-----------------------------------------------------------------------------
(* Starting and ending an invocation. *)

\* syncFiles: only one sync at a time, else -1 and nothing happens.
StartFull(c) ==
  /\ Free(c) /\ ~isSyncing
  /\ isSyncing' = TRUE
  /\ call' = [call EXCEPT ![c] = [IdleCall EXCEPT !.kind = "full", !.phase = "listLocal"]]
  /\ overlap' = (overlap \/ \E d \in Slot : Busy(d))
  /\ UNCHANGED <<stores, snapshot, saved, work, ignored, budget, live, deleted>>

\* syncSingleFile(p), on a save, on the poll of the open page or on demand.
StartSingle(c, p) ==
  /\ Free(c) /\ ~isSyncing
  /\ p \notin nonSynced
  /\ isSyncing' = TRUE
  /\ call' = [call EXCEPT ![c] = [IdleCall EXCEPT !.kind = "single",
                                     !.phase = "listLocal", !.todo = {p}]]
  /\ overlap' = (overlap \/ \E d \in Slot : Busy(d))
  /\ UNCHANGED <<stores, snapshot, saved, work, ignored, budget, live, deleted>>

\* primary.fetchFileList() or primary.getFileMeta(p).
ListLocal(c) ==
  /\ call[c].phase = "listLocal"
  /\ call' = [call EXCEPT ![c].phase = "listRemote", ![c].plist = Listing(local)]
  /\ UNCHANGED <<stores, snapshot, saved, isSyncing, work, ignored, budget, history>>

\* secondary.fetchFileList() or secondary.getFileMeta(p); then everything
\* known on either side or in the snapshot is queued for the workers.
ListRemote(c) ==
  LET slist == Listing(remote)
      full  == call[c].kind = "full"
  IN
  /\ call[c].phase = "listRemote"
  /\ call' = [call EXCEPT
       ![c].phase  = "process",
       ![c].slist  = slist,
       ![c].noSync = IF full THEN {p \in DOMAIN slist : ~IsSyncCandidate(p)} ELSE {},
       ![c].todo   = IF full THEN DOMAIN files \cup DOMAIN call[c].plist \cup DOMAIN slist
                     ELSE @]
  /\ UNCHANGED <<stores, snapshot, saved, isSyncing, work, ignored, budget, history>>

\* Mutant: no finally, the mutex stays locked.
\* The finally clause: the mutex is released and the snapshot is persisted,
\* always after a full cycle, after a single file only if it did something.
ReleaseForgotten(c) ==
  /\ UNCHANGED isSyncing
  /\ saved' = IF call[c].kind = "full" \/ call[c].changed THEN Snap ELSE saved
Release(c) ==
  /\ isSyncing' = FALSE
  /\ saved' = IF call[c].kind = "full" \/ call[c].changed THEN Snap ELSE saved

\* One of the things that may go wrong does, as often as the budget allows.
Spend(k) == budget[k] > 0 /\ budget' = [budget EXCEPT ![k] = @ - 1]
Trouble(kind) == kind \in Troubles /\ Spend("trouble")

\* The HTTP request for the listing or the metadata fails.
ListFault(c) ==
  /\ call[c].phase = "listRemote"
  /\ Trouble("fault")
  /\ Release(c)
  /\ call' = [call EXCEPT ![c] = IdleCall]
  /\ UNCHANGED <<stores, snapshot, work, ignored, history>>

\* Every worker is out of work, or has thrown.
Finish(c) ==
  /\ call[c].phase = "process"
  /\ \A w \in Worker : work[c][w].pc \in {"idle", "dead"}
  /\ call[c].todo = {} \/ \A w \in Worker : work[c][w].pc = "dead"
  /\ IF call[c].failed THEN UNCHANGED <<isSyncing, saved>> ELSE Release(c)
  /\ call' = [call EXCEPT ![c] = IdleCall]
  /\ work' = [work EXCEPT ![c] = [w \in Worker |-> IdleWork]]
  /\ UNCHANGED <<stores, snapshot, ignored, budget, history>>

-----------------------------------------------------------------------------
(* One worker's syncFile(path), one action per await. *)

Goto(c, w, pc) == work' = [work EXCEPT ![c][w].pc = pc]

\* An exception ends the worker.  The first one of an invocation rejects
\* Promise.all, and with it the whole cycle: the mutex is released while the
\* other workers carry on through the rest of the list.
Throw(c, w) ==
  /\ work' = [work EXCEPT ![c][w] = [IdleWork EXCEPT !.pc = "dead"]]
  /\ call' = [call EXCEPT ![c].failed = TRUE]
  /\ IF call[c].failed THEN UNCHANGED <<isSyncing, saved>> ELSE Release(c)

\* What syncFile does to the snapshot before its first await.
FilesAtOnce(d, p, sm) ==
  CASE d \in {"note", "dropStale"} -> Put(files, p, <<sm.lm, sm.lm>>)
    [] d \in {"forget", "deleteLocal", "forgetBoth"} -> Drop(files, p)
    [] OTHER -> files
MarksAtOnce(d, p) ==
  CASE d \in {"note", "mark", "dropStale"} -> nonSynced \cup {p}
    [] d \in {"forget", "forgetBoth"} -> nonSynced \ {p}
    [] OTHER -> nonSynced
WorkOn(d, p) ==
  IF d \in {"note", "mark", "none"} THEN IdleWork
  ELSE [IdleWork EXCEPT !.path = p,
                        !.pc = CASE d \in {"forget", "forgetBoth"} -> "report"
                                 [] d = "conflict" /\ p \in StdLib -> "std"
                                 [] OTHER -> d]

\* The worker takes the next path and runs syncFile up to its first await.
Begin(c, w) ==
  /\ call[c].phase = "process"
  /\ work[c][w].pc = "idle"
  /\ \E p \in call[c].todo :
       LET sm == Lookup(call[c].slist, p, NoMeta)
           d  == Decision(Lookup(call[c].plist, p, NoMeta), sm,
                          Lookup(files, p, NoItem), p \in nonSynced, p \notin call[c].noSync)
       IN
       /\ call' = [call EXCEPT ![c].todo = @ \ {p}]
       /\ files' = FilesAtOnce(d, p, sm)
       /\ nonSynced' = MarksAtOnce(d, p)
       /\ work' = [work EXCEPT ![c][w] = WorkOn(d, p)]
  /\ UNCHANGED <<stores, saved, isSyncing, ignored, budget, history>>

\* primary.readFile(path), which throws if the file has gone.
ReadLocal(c, w) ==
  LET p == work[c][w].path IN
  /\ work[c][w].pc \in {"push", "conflict"}
  /\ IF p \in DOMAIN local
     THEN /\ work' = [work EXCEPT ![c][w] = [@ EXCEPT !.a = local[p],
                        !.pc = IF work[c][w].pc = "push" THEN "pushWrite" ELSE "conflictRead"]]
          /\ UNCHANGED <<call, isSyncing, saved>>
     ELSE Throw(c, w)
  /\ UNCHANGED <<stores, snapshot, ignored, budget, history>>

\* The snapshot entry of a pushed file: the stamp that was read, the one written.
\* Mutant: the primary's stamp is looked up again once the write is done.
PushedRelooked(p, a) == <<Lookup(local, p, a).lm, a.lm>>
Pushed(p, a) == <<a.lm, a.lm>>

\* secondary.writeFile(path, data, meta): the server keeps the given stamp.
PushWrite(c, w) ==
  LET p == work[c][w].path  a == work[c][w].a IN
  /\ work[c][w].pc = "pushWrite"
  /\ remote' = Put(remote, p, a)
  /\ files' = Put(files, p, Pushed(p, a))
  /\ nonSynced' = nonSynced \ {p}
  /\ Goto(c, w, "report")
  /\ UNCHANGED <<local, hist, saved, isSyncing, call, ignored, budget, history>>

\* secondary.readFile(path), for a copy to the primary.
ReadRemote(c, w) ==
  LET p == work[c][w].path IN
  /\ work[c][w].pc \in {"pull", "std"}
  /\ IF p \in DOMAIN remote
     THEN /\ work' = [work EXCEPT ![c][w] = [@ EXCEPT !.b = remote[p],
                        !.pc = IF work[c][w].pc = "pull" THEN "pullWrite" ELSE "stdWrite"]]
          /\ UNCHANGED <<call, isSyncing, saved>>
     ELSE Throw(c, w)
  /\ UNCHANGED <<stores, snapshot, ignored, budget, history>>

\* primary.writeFile(path, data, meta).  The Library/Std/ resolver does the
\* same but leaves the nonSynced mark alone.
PullWrite(c, w) ==
  LET p == work[c][w].path  b == work[c][w].b IN
  /\ work[c][w].pc \in {"pullWrite", "stdWrite"}
  /\ local' = Put(local, p, b)
  /\ files' = Put(files, p, <<b.lm, b.lm>>)
  /\ nonSynced' = IF work[c][w].pc = "pullWrite" THEN nonSynced \ {p} ELSE nonSynced
  /\ Goto(c, w, "report")
  /\ UNCHANGED <<remote, hist, saved, isSyncing, call, ignored, budget, history>>

\* Deleted on the secondary: primary.deleteFile(path), unguarded.
DeleteLocal(c, w) ==
  LET p == work[c][w].path IN
  /\ work[c][w].pc = "deleteLocal"
  /\ IF p \in DOMAIN local
     THEN /\ local' = Drop(local, p)
          /\ Goto(c, w, "report")
          /\ UNCHANGED <<call, isSyncing, saved>>
     ELSE Throw(c, w) /\ UNCHANGED local
  /\ UNCHANGED <<remote, hist, snapshot, ignored, budget, history>>

\* Deleted on the primary: secondary.deleteFile(path), then the snapshot.
DeleteRemote(c, w) ==
  LET p == work[c][w].path IN
  /\ work[c][w].pc = "deleteRemote"
  /\ IF p \in DOMAIN remote
     THEN /\ remote' = Drop(remote, p)
          /\ files' = Drop(files, p)
          /\ nonSynced' = nonSynced \ {p}
          /\ Goto(c, w, "report")
          /\ UNCHANGED <<call, isSyncing, saved>>
     ELSE Throw(c, w) /\ UNCHANGED <<remote, snapshot>>
  /\ UNCHANGED <<local, hist, ignored, budget, history>>

\* Not a candidate and out of date: the local copy goes, if there is one.
DropStale(c, w) ==
  LET p == work[c][w].path IN
  /\ work[c][w].pc = "dropStale"
  /\ local' = Drop(local, p)
  /\ work' = [work EXCEPT ![c][w] =
                IF p \in DOMAIN local THEN [@ EXCEPT !.pc = "report"] ELSE IdleWork]
  /\ UNCHANGED <<remote, hist, snapshot, saved, isSyncing, call, ignored, budget, history>>

\* No longer a candidate: the local copy goes, unguarded, then the mark.
Unsync(c, w) ==
  LET p == work[c][w].path IN
  /\ work[c][w].pc = "unsync"
  /\ IF p \in DOMAIN local
     THEN /\ local' = Drop(local, p)
          /\ nonSynced' = nonSynced \cup {p}
          /\ Goto(c, w, "report")
          /\ UNCHANGED <<call, isSyncing, saved>>
     ELSE Throw(c, w) /\ UNCHANGED <<local, nonSynced>>
  /\ UNCHANGED <<remote, hist, files, ignored, budget, history>>

\* The conflict resolver reads the secondary's file.  Equal bytes are no
\* conflict; else a conflicting copy is going to be made.
ConflictRead(c, w) ==
  LET p == work[c][w].path  a == work[c][w].a IN
  /\ work[c][w].pc = "conflictRead"
  /\ IF p \notin DOMAIN remote
     THEN Throw(c, w) /\ UNCHANGED files
     ELSE /\ UNCHANGED <<call, isSyncing, saved>>
          /\ IF remote[p].data = a.data
             THEN /\ files' = Put(files, p, <<a.lm, remote[p].lm>>)
                  /\ work' = [work EXCEPT ![c][w] = IdleWork]
             ELSE /\ work' = [work EXCEPT ![c][w] = [@ EXCEPT !.b = remote[p],
                                                            !.pc = "copyLocal"]]
                  /\ UNCHANGED files
  /\ UNCHANGED <<stores, nonSynced, ignored, budget, history>>

\* primary.writeFile(revision, data): no metadata given, so a new stamp.
CopyLocal(c, w) ==
  LET b == work[c][w].b IN
  /\ work[c][w].pc = "copyLocal"
  /\ local' = Put(local, ConflictPath(work[c][w].path, b.lm), [lm |-> Now, data |-> b.data])
  /\ hist' = Append(hist, b.data)
  /\ work' = [work EXCEPT ![c][w] = [@ EXCEPT !.copyA = Now, !.pc = "copyRemote"]]
  /\ UNCHANGED <<remote, snapshot, saved, isSyncing, call, ignored, budget, history>>

\* secondary.writeFile(revision, data), likewise.
CopyRemote(c, w) ==
  LET b == work[c][w].b IN
  /\ work[c][w].pc = "copyRemote"
  /\ remote' = Put(remote, ConflictPath(work[c][w].path, b.lm), [lm |-> Now, data |-> b.data])
  /\ hist' = Append(hist, b.data)
  /\ work' = [work EXCEPT ![c][w] = [@ EXCEPT !.copyB = Now, !.pc = "overwrite"]]
  /\ UNCHANGED <<local, snapshot, saved, isSyncing, call, ignored, budget, history>>

\* The primary wins: its data goes on top, and the snapshot learns of both.
Overwrite(c, w) ==
  LET x == work[c][w]
      copied == Put(files, ConflictPath(x.path, x.b.lm), <<x.copyA, x.copyB>>)
  IN
  /\ x.pc = "overwrite"
  /\ remote' = Put(remote, x.path, [lm |-> Now, data |-> x.a.data])
  /\ hist' = Append(hist, x.a.data)
  /\ files' = Put(copied, x.path, <<x.a.lm, Now>>)
  /\ Goto(c, w, "report")
  /\ UNCHANGED <<local, nonSynced, saved, isSyncing, call, ignored, budget, history>>

\* syncFile returned a positive count: a full cycle persists the snapshot.
Report(c, w) ==
  /\ work[c][w].pc = "report"
  /\ work' = [work EXCEPT ![c][w] = IdleWork]
  /\ call' = [call EXCEPT ![c].changed = TRUE]
  /\ saved' = IF call[c].kind = "full" THEN Snap ELSE saved
  /\ UNCHANGED <<stores, snapshot, isSyncing, ignored, budget, history>>

\* The request fails on its way to the server, or its answer on the way back
\* when the server has already done what was asked.
RemoteFault(c, w) ==
  LET x == work[c][w]  copy == ConflictPath(x.path, x.b.lm) IN
  /\ x.pc \in {"pushWrite", "pull", "std", "deleteRemote",
               "conflictRead", "copyRemote", "overwrite"}
  /\ Trouble("fault")
  /\ Throw(c, w)
  /\ \/ UNCHANGED <<remote, hist>>
     \/ x.pc = "pushWrite" /\ remote' = Put(remote, x.path, x.a) /\ UNCHANGED hist
     \/ x.pc = "deleteRemote" /\ remote' = Drop(remote, x.path) /\ UNCHANGED hist
     \/ /\ x.pc = "copyRemote"
        /\ remote' = Put(remote, copy, [lm |-> Now, data |-> x.b.data])
        /\ hist' = Append(hist, x.b.data)
     \/ /\ x.pc = "overwrite"
        /\ remote' = Put(remote, x.path, [lm |-> Now, data |-> x.a.data])
        /\ hist' = Append(hist, x.a.data)
  /\ UNCHANGED <<local, snapshot, ignored, history>>

-----------------------------------------------------------------------------
(* The environment: the user, other clients, the browser, the network. *)

EditsAllowed == EditsDuringSync \/ \A c \in Slot : ~Busy(c)

\* A user's write or deletion supersedes the content it replaces.
Supersede(p, old, new) == live' = (live \ {<<p, d>> : d \in old}) \cup new
Held(store, p) == {store[q].data : q \in DOMAIN store \cap {p}}

\* What the user who writes p in the browser has in front of them: the local
\* copy, or of a file that lives on the server only, the version listed last.
Seen(p) == IF p \in (nonSynced \cap DOMAIN files) \ DOMAIN local
           THEN {hist[files[p][2]]} ELSE Held(local, p)

\* handlePut: the local write, from which the sync of the file is separate.
LocalWrite(p) ==
  /\ EditsAllowed /\ Spend("write")
  /\ local' = Put(local, p, [lm |-> Now, data |-> Now])
  /\ hist' = Append(hist, Now)
  /\ Supersede(p, Seen(p), IF p \in StdLib THEN {} ELSE {<<p, Now>>})
  /\ UNCHANGED <<remote, snapshot, saved, control, ignored, deleted, overlap>>

\* handleDelete of a sync candidate.
LocalDelete(p) ==
  /\ EditsAllowed /\ Spend("delete")
  /\ p \in DOMAIN local /\ IsSyncCandidate(p)
  /\ local' = Drop(local, p)
  /\ Supersede(p, Held(local, p), {})
  /\ deleted' = deleted \cup {p}
  /\ UNCHANGED <<remote, hist, snapshot, saved, control, ignored, overlap>>

\* Another client, or a program on the server, writes or deletes a file.
RemoteWrite(p) ==
  /\ EditsAllowed /\ Spend("write")
  /\ remote' = Put(remote, p, [lm |-> Now, data |-> Now])
  /\ hist' = Append(hist, Now)
  /\ Supersede(p, Held(remote, p), {<<p, Now>>})
  /\ UNCHANGED <<local, snapshot, saved, control, ignored, deleted, overlap>>

RemoteDelete(p) ==
  /\ EditsAllowed /\ Spend("delete")
  /\ p \in DOMAIN remote
  /\ remote' = Drop(remote, p)
  /\ Supersede(p, Held(remote, p), {})
  /\ deleted' = deleted \cup {p}
  /\ UNCHANGED <<local, hist, snapshot, saved, control, ignored, overlap>>

\* The content on the server changes while its modification time does not.
SilentChange(p) ==
  /\ EditsAllowed /\ Trouble("silent")
  /\ p \in DOMAIN remote
  /\ remote' = Put(remote, p, [lm |-> remote[p].lm, data |-> Now])
  /\ hist' = Append(hist, Now)
  /\ Supersede(p, Held(remote, p), {<<p, Now>>})
  /\ UNCHANGED <<local, snapshot, saved, control, ignored, deleted, overlap>>

\* setSyncConfig, on a config message from a client.
SetSyncConfig ==
  /\ Trouble("config")
  /\ ignored' \in IgnoreConfigs \ {ignored}
  /\ UNCHANGED <<stores, snapshot, saved, control, history>>

\* A file that is not to be synced any longer has lost its local copy, but the mark
\* that says why is not persisted; or the other way round.
Torn ==
  \/ \E p \in DOMAIN saved.files :
       p \in nonSynced \ saved.nonSynced /\ p \notin DOMAIN local
  \/ \E c \in Slot, w \in Worker :
       work[c][w].pc = "dropStale" /\ work[c][w].path \in saved.nonSynced

\* The browser ends the service worker; the next one loads the snapshot.  The
\* code does not stand it ("tear") with a file torn like that.
Restart ==
  /\ Trouble("crash")
  /\ "tear" \in Troubles \/ ~Torn
  /\ files' = saved.files /\ nonSynced' = saved.nonSynced
  /\ isSyncing' = FALSE
  /\ call' = [c \in Slot |-> IdleCall]
  /\ work' = [c \in Slot |-> [w \in Worker |-> IdleWork]]
  /\ UNCHANGED <<stores, saved, ignored, history>>

-----------------------------------------------------------------------------
WorkerStep(c, w) ==
  \/ Begin(c, w) \/ ReadLocal(c, w) \/ PushWrite(c, w) \/ ReadRemote(c, w)
  \/ PullWrite(c, w) \/ DeleteLocal(c, w) \/ DeleteRemote(c, w) \/ DropStale(c, w)
  \/ Unsync(c, w) \/ ConflictRead(c, w) \/ CopyLocal(c, w) \/ CopyRemote(c, w)
  \/ Overwrite(c, w) \/ Report(c, w)

CallStep(c) == ListLocal(c) \/ ListRemote(c) \/ Finish(c)

Environment ==
  \/ \E p \in UserPath : \/ LocalWrite(p) \/ LocalDelete(p)
                         \/ RemoteWrite(p) \/ RemoteDelete(p) \/ SilentChange(p)
  \/ SetSyncConfig \/ Restart
  \/ \E c \in Slot : ListFault(c) \/ \E w \in Worker : RemoteFault(c, w)

Next ==
  \/ \E c \in Slot : \/ StartFull(c)
                     \/ \E p \in UserPath : StartSingle(c, p)
                     \/ CallStep(c)
                     \/ \E w \in Worker : WorkerStep(c, w)
  \/ Environment

Spec == Init /\ [][Next]_vars

\* Every await of an invocation returns, and the loop of SyncEngine.run comes
\* back for a full cycle however often the open page is synced in between.
Fairness ==
  /\ SF_vars(\E c \in Slot : StartFull(c))
  /\ \A c \in Slot : /\ WF_vars(CallStep(c))
                     /\ \A w \in Worker : WF_vars(WorkerStep(c, w))

FairSpec == Spec /\ Fairness

-----------------------------------------------------------------------------
(* Properties. *)

IsFile(f) == f \in [lm : Nat, data : Nat]
IsStore(store) == store \in [DOMAIN store -> [lm : Nat, data : Nat]]
IsFiles(f) == f \in [DOMAIN f -> Nat \X Nat]
IsMetas(l) == /\ l = [p \in DOMAIN l |-> l[p]]
              /\ \A p \in DOMAIN l : DOMAIN l[p] = {"lm", "size"} /\ l[p].lm \in Nat
Pc == {"idle", "dead", "report", "push", "pushWrite", "pull", "pullWrite", "std",
       "stdWrite", "deleteLocal", "deleteRemote", "dropStale", "unsync",
       "conflict", "conflictRead", "copyLocal", "copyRemote", "overwrite"}

IsCall(r) ==
  /\ r \in [kind : {"none", "full", "single"},
            phase : {"idle", "listLocal", "listRemote", "process"},
            failed : BOOLEAN, changed : BOOLEAN,
            todo : {r.todo}, plist : {r.plist}, slist : {r.slist}, noSync : {r.noSync}]
  /\ IsMetas(r.plist) /\ IsMetas(r.slist)
IsWork(r) ==
  r \in [pc : Pc, path : {r.path}, a : [lm : Nat, data : Nat], b : [lm : Nat, data : Nat],
         copyA : Nat, copyB : Nat]

StoresOK   == IsStore(local) /\ IsStore(remote) /\ hist \in Seq(Nat)
SnapshotOK == IsFiles(files) /\ IsFiles(saved.files)
              /\ saved = [files |-> saved.files, nonSynced |-> saved.nonSynced]
CallsOK    == call = [c \in Slot |-> call[c]] /\ \A c \in Slot : IsCall(call[c])
WorkersOK  == /\ work = [c \in Slot |-> [w \in Worker |-> work[c][w]]]
              /\ \A c \in Slot, w \in Worker : IsWork(work[c][w])
EnvOK      == /\ isSyncing \in BOOLEAN /\ overlap \in BOOLEAN
              /\ ignored \in IgnoreConfigs /\ budget \in [Kind -> Nat]

\* Every variable holds a value of its kind: stores and snapshots are maps
\* with well-formed entries, invocations and workers are in a known phase.
TypeOK == StoresOK /\ SnapshotOK /\ CallsOK /\ WorkersOK /\ EnvOK

\* A snapshot that says a file is in sync on both sides tells the truth: if
\* both stores still carry the stamps it recorded, they hold the same bytes.
\* So it is for the snapshot in memory and for the one a restart would load.
Truthful(snap) ==
  \A p \in DOMAIN snap :
    (/\ p \in DOMAIN local  /\ local[p].lm = snap[p][1]
     /\ p \in DOMAIN remote /\ remote[p].lm = snap[p][2])
      => local[p].data = remote[p].data
SnapshotAgreement == Truthful(files) /\ Truthful(saved.files)

\* Why that is so, as an inductive invariant: as long as nothing changes a file
\* behind its stamp, every file in a store or in a worker's hands holds what was
\* written with its stamp, and the two stamps of every snapshot entry, in memory,
\* persisted or about to be made, were given to the same content.
IsStamp(t) == t \in 1..Len(hist)
Stamped(f) == IsStamp(f.lm) /\ hist[f.lm] = f.data
SameContent(item) == IsStamp(item[1]) /\ IsStamp(item[2]) /\ hist[item[1]] = hist[item[2]]

SameContents(map)   == \A p \in DOMAIN map : SameContent(map[p])
StampedStore(store) == \A p \in DOMAIN store : Stamped(store[p])
StampedList(l)      == \A p \in DOMAIN l : IsStamp(l[p].lm)
StampedWork(r) ==
  /\ r.pc \in {"pushWrite", "conflictRead", "copyLocal", "copyRemote", "overwrite"}
       => Stamped(r.a)
  /\ r.pc \in {"pullWrite", "stdWrite", "copyLocal", "copyRemote", "overwrite"}
       => Stamped(r.b)
  /\ r.pc \in {"copyRemote", "overwrite"} => IsStamp(r.copyA) /\ hist[r.copyA] = r.b.data
  /\ r.pc = "overwrite" => IsStamp(r.copyB) /\ hist[r.copyB] = r.b.data

StampInv ==
  /\ StampedStore(local) /\ StampedStore(remote)
  /\ SameContents(files) /\ SameContents(saved.files)
  /\ \A c \in Slot : StampedList(call[c].slist)
  /\ \A c \in Slot, w \in Worker : StampedWork(work[c][w])

\* The mutex: isSyncing is set exactly while one invocation that has not
\* thrown is under way, and there is never a second one.
Holds(c) == Busy(c) /\ ~call[c].failed
MutexHeld ==
  /\ isSyncing <=> \E c \in Slot : Holds(c)
  /\ \A c, d \in Slot : Holds(c) /\ Holds(d) => c = d

\* No content a user wrote disappears from both stores unless a user replaced
\* or deleted it: a conflict leaves a copy.  (Files some user deleted are
\* exempt: a deletion wins over a concurrent edit.)
Contents(store) == {store[p].data : p \in DOMAIN store}
ContentKept ==
  \A x \in live : x[1] \in deleted \/ x[2] \in Contents(local) \cup Contents(remote)

\* That is so, wherever a request fails, the worker restarts or the configuration
\* changes, if this happens once, users edit between invocations, and these never
\* run two at a time.
NoSilentLoss == overlap \/ ContentKept

\* Sync removes a file from the server only if some user deleted that path,
\* and from the browser only if that, or if its configuration leaves it out.
\* This holds as long as two invocations have never run at once, and not for
\* conflict copies: one left half-made by a crash is removed again by the
\* worker that meets it while another worker remakes it.
DeletionsJustified ==
  [][\A p \in UserPath \ deleted' :
       /\ p \in DOMAIN remote => p \in DOMAIN remote' \/ overlap
       /\ p \in DOMAIN local => \/ p \in DOMAIN local' \/ overlap
                                \/ \E c \in Slot : p \in call[c].noSync]_vars

\* Both sides agree: candidates are the same everywhere, the rest is on the
\* server only.
Converged ==
  \A p \in DOMAIN local \cup DOMAIN remote :
    IF IsSyncCandidate(p)
    THEN p \in DOMAIN local \cap DOMAIN remote /\ local[p].data = remote[p].data
    ELSE p \notin DOMAIN local

\* Once users, network and browser leave it alone, sync reaches agreement and
\* stays there.
EventuallyConverged == <>[]Converged
=============================================================================
