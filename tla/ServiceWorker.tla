---------------------------- MODULE ServiceWorker ----------------------------
(***************************************************************************)
(* Who answers a page: the service worker (client/service_worker.ts), its  *)
(* proxy router (service_worker/proxy_router.ts) and the engines that it   *)
(* starts and stops (service_worker/sync_engine.ts).                       *)
(*                                                                         *)
(* The router passes a request on to the server or answers it from the     *)
(* worker's own store, by flags that may be out of date.  A sync lists the *)
(* versions of both sides and then handles file by file, on what it listed *)
(* and with the contents that are there by then.                           *)
(***************************************************************************)
EXTENDS Integers, FiniteSets

CONSTANTS
  Path,        \* the files
  Synced,      \* those that are sync candidates
  Engine,      \* identities for sync engines
  None,        \* no engine
  MaxChanges,  \* bound: files written or deleted, by the page or by others
  MaxTroubles, \* bound: things that go wrong
  Troubles     \* which of them may

\* What may go wrong without harm: the worker is killed and started again, the
\* server is out of reach for a while, it tells the worker that it has another
\* space, the data is wiped, a configuration hangs.
Ordinary == {"restart", "network", "reset", "wipe", "hang"}

\* What the code does not stand:
\*   partial  the worker is killed, or reset, before the store is filled
\*   through  a write passes the router by, whose store has been filled already
\*   mixed    a file that is not to be synced gets into the store: it is written
\*            while offline, or synced before it is marked
\*   unsaved  the worker is killed, or reset, before a mark is saved
\*   busy     an engine is stopped in the middle of a cycle
\*   late     an engine is asked for a sync after it was stopped
\*   joined   a configuration begins while another one is under way, since the
\*            timeout of this one, or of one before it, has opened the mutex
Races == {"partial", "through", "mixed", "unsaved", "busy", "late", "joined"}

ASSUME WorkerConstants ==
  /\ Path # {} /\ IsFiniteSet(Path) /\ Synced \subseteq Path
  /\ IsFiniteSet(Engine) /\ None \notin Engine
  /\ MaxChanges \in Nat /\ MaxTroubles \in Nat
  /\ Troubles \subseteq Ordinary \cup Races

VARIABLES
  server,      \* per path: the version on the server; 0 if there is none
  reachable,   \* the server can be reached
  local,       \* per path: the version in the store of the worker
  saved,       \* the snapshot in its database
  engine,      \* per Engine: its state, snapshot and cycle
  plugged,     \* proxyRouter.syncEngine
  confirmed,   \* fullSyncConfirmed
  online,      \* online
  configuring, \* the configuration mutex is closed
  request,     \* the request of the page that is being handled
  clock,       \* the last version written, counting deletions
  acked,       \* history: per path the last version acknowledged to the page
  complete,    \* history: files that a listing has to have: the page has not deleted them
  cycled,      \* history: a cycle over this store was completed
  overrun,     \* history: files of which a sync replaced what came after it had listed them
  troubles     \* troubles that may still happen

router  == <<plugged, confirmed, online, configuring>>
history == <<clock, acked, complete, cycled, overrun>>
vars    == <<server, reachable, local, saved, engine, router, request, history, troubles>>

\* A snapshot: per file the version that both sides had, 0 if none; and the
\* marks of files that are not synced.
NoFiles == [p \in Path |-> 0]
Empty   == [files |-> NoFiles, marks |-> {}]

\* What an engine has listed is kept only of files that it has still to handle.
Fresh   == [state |-> "none", snap |-> Empty, pc |-> "idle", todo |-> {},
            here |-> NoFiles, there |-> NoFiles]
Nothing == [kind |-> "none", path |-> None, ver |-> 0, via |-> "none"]

May(t) == t \in Troubles
Suffer == troubles > 0 /\ troubles' = troubles - 1

\* The worker has just been installed; every file is on the server.
Init ==
  /\ server = [p \in Path |-> 1] /\ reachable = TRUE
  /\ local = NoFiles /\ saved = Empty
  /\ engine = [e \in Engine |-> Fresh]
  /\ plugged = None /\ confirmed = FALSE /\ online = TRUE
  /\ configuring = FALSE
  /\ request = Nothing
  /\ clock = 1 /\ acked = NoFiles /\ complete = Path /\ cycled = FALSE /\ overrun = {}
  /\ troubles = MaxTroubles

-----------------------------------------------------------------------------
(* Configuration. *)

\* The mutex is open, but a configuration is under way.
Joins == ~configuring /\ \E f \in Engine : engine[f].state = "loading"

\* Mutant: a configuration under way does not keep another from starting.
ConfigureAgain(e) ==
  /\ plugged = None
  /\ engine[e].state = "none" /\ (Joins => May("joined"))
  /\ configuring' = TRUE
  /\ engine' = [engine EXCEPT ![e].state = "loading"]
  /\ UNCHANGED <<server, reachable, local, saved, plugged, confirmed, online, request,
                 history, troubles>>
\* Mutant: the router does not wait for the engine to start.
ConfigureEarly(e) ==
  /\ plugged = None /\ ~configuring
  /\ engine[e].state = "none" /\ (Joins => May("joined"))
  /\ configuring' = TRUE
  /\ engine' = [engine EXCEPT ![e].state = "loading"] /\ plugged' = e
  /\ UNCHANGED <<server, reachable, local, saved, confirmed, online, request,
                 history, troubles>>
\* A config message arrives while the worker is not configured.
Configure(e) ==
  /\ plugged = None /\ ~configuring
  /\ engine[e].state = "none" /\ (Joins => May("joined"))
  /\ configuring' = TRUE
  /\ engine' = [engine EXCEPT ![e].state = "loading"]
  /\ UNCHANGED <<server, reachable, local, saved, plugged, confirmed, online, request,
                 history, troubles>>

\* The engine has loaded its snapshot and starts its loop; configure(), and the
\* finally clause.
Plug(e) ==
  /\ engine[e].state = "loading"
  /\ engine' = [engine EXCEPT ![e].state = "running", ![e].snap = saved]
  /\ plugged' = e
  /\ confirmed' = (confirmed \/ \E p \in Path : saved.files[p] # 0)
  /\ configuring' = FALSE
  /\ UNCHANGED <<server, reachable, local, saved, online, request, history, troubles>>

\* The browser never answers the engine, say about its database.
Hang(e) ==
  /\ engine[e].state = "loading" /\ May("hang") /\ Suffer
  /\ engine' = [engine EXCEPT ![e].state = "hung"]
  /\ UNCHANGED <<server, reachable, local, saved, router, request, history>>

\* A timeout opens the mutex: that of the configuration that has closed it, which
\* may hang or only take long, or, as nothing cancels it, that of an earlier one.
\* Either may come at any time, so whose it was need not be kept.
Unlock ==
  /\ configuring /\ configuring' = FALSE
  /\ UNCHANGED <<server, reachable, local, saved, engine, plugged, confirmed, online,
                 request, history, troubles>>

Running(e) == engine[e].state = "running"
Listing(e) == engine[e].pc = "cycle"
Syncing(e) == engine[e].pc # "idle"

\* The loop of an engine that was stopped ends; its cycle does not.
Stopped(e) == [engine EXCEPT ![e].state = "stopped"]

\* No cycle was cut short, but perhaps a later one; and every mark is saved.
Whole    == cycled \/ saved = Empty
Recorded == \A e \in Engine : Running(e) => engine[e].snap.marks = saved.marks

\* The server answers that it has another space: reset().  fullSyncConfirmed
\* stays as it is.
Reset ==
  /\ plugged # None /\ May("reset") /\ Suffer
  /\ May("busy") \/ ~Syncing(plugged)
  /\ May("partial") \/ (Whole /\ (confirmed => saved # Empty))
  /\ May("unsaved") \/ Recorded
  /\ engine' = Stopped(plugged)
  /\ plugged' = None
  /\ UNCHANGED <<server, reachable, local, saved, confirmed, online, configuring, request, history>>

\* wipe-data: the engine stays where it is, with its snapshot.
Wipe ==
  /\ plugged # None /\ May("wipe") /\ Suffer
  /\ May("busy") \/ ~Syncing(plugged)
  /\ May("late") \/ request.via # "sync"
  /\ engine' = Stopped(plugged)
  /\ local' = NoFiles /\ saved' = Empty
  /\ acked' = NoFiles /\ cycled' = FALSE /\ overrun' = {}
  /\ complete' = {p \in complete : server[p] # 0}
  /\ UNCHANGED <<server, reachable, router, request, clock>>

\* The browser ends the worker and starts it again.
Restart ==
  /\ May("restart") /\ Suffer
  /\ May("partial") \/ Whole
  /\ May("unsaved") \/ Recorded
  /\ engine' = [e \in Engine |-> Fresh]
  /\ plugged' = None /\ confirmed' = FALSE /\ online' = TRUE
  /\ configuring' = FALSE
  /\ request' = Nothing
  /\ UNCHANGED <<server, reachable, local, saved, history>>

-----------------------------------------------------------------------------
(* Sync. *)

\* A file as a sync has listed it: the versions l in the store and r on the
\* server, s in the snapshot, marked as not synced or not, to be synced or not.
Listed(e, p, l, r, back) ==
  [l |-> l, r |-> r, s |-> engine[e].snap.files[p], marked |-> p \in engine[e].snap.marks,
   back |-> back]

\* What sync decides on that.
Decision(f) ==
  CASE f.l # 0 /\ f.l # f.s /\ f.r = f.s                      -> "push"
    [] f.l # 0 /\ f.l # f.s /\ f.r # 0 /\ f.r # f.s           -> "resolve"
    [] f.r # 0 /\ f.back /\ f.l = 0 /\ (f.s = 0 \/ f.marked)  -> "pull"
    [] f.r # 0 /\ f.back /\ f.l # 0 /\ f.l = f.s /\ f.r # f.s -> "pull"
    [] f.r # 0 /\ ~f.back /\ (f.l = 0 \/ f.l = f.s)           -> "mark"
    [] f.l # 0 /\ f.r = 0 /\ f.s # 0                          -> "remove"
    [] f.l = 0 /\ f.r # 0 /\ f.s # 0 /\ f.back /\ ~f.marked   -> "delete"
    [] f.l = 0 /\ f.r = 0 /\ f.s # 0                          -> "forget"
    [] OTHER                                                  -> "nothing"

\* What comes of it: it copies the contents that are here and there by then, and
\* removes them, whatever they are by then.
Settled(f, here, there) ==
  LET do == Decision(f)
  IN
  CASE do = "push"    -> [l |-> here, r |-> here, s |-> here, marked |-> FALSE]
    [] do = "resolve" -> [l |-> here, r |-> here, s |-> here, marked |-> f.marked]
    [] do = "pull"    -> [l |-> there, r |-> there, s |-> there, marked |-> FALSE]
    [] do = "mark"    -> [l |-> IF f.l = 0 THEN here ELSE 0, r |-> there,
                          s |-> IF f.l = 0 /\ f.s # 0 THEN f.s ELSE f.r, marked |-> TRUE]
    [] do = "remove"  -> [l |-> IF f.marked THEN here ELSE 0, r |-> there,
                          s |-> 0, marked |-> FALSE]
    [] do = "delete"  -> [l |-> here, r |-> 0, s |-> 0, marked |-> FALSE]
    [] do = "forget"  -> [l |-> here, r |-> there, s |-> 0, marked |-> FALSE]
    [] OTHER          -> [l |-> here, r |-> there, s |-> f.s, marked |-> f.marked]

\* It throws if what it is to read or remove is not there any more.
Absent(f, here, there) ==
  LET do == Decision(f)
  IN
  \/ here = 0 /\ \/ do \in {"push", "resolve"} \/ (do = "remove" /\ ~f.marked)
                 \/ do = "mark" /\ f.l # 0 /\ f.l = f.r
  \/ there = 0 /\ do \in {"resolve", "pull", "delete"}

\* The snapshot with p as settled, and the engine done with p.
Noted(snap, p, to) ==
  [files |-> [snap.files EXCEPT ![p] = to.s],
   marks |-> IF to.marked THEN snap.marks \cup {p} ELSE snap.marks \ {p}]
Beyond(r, p, snap) ==
  [r EXCEPT !.snap = snap, !.todo = @ \ {p}, !.here[p] = 0, !.there[p] = 0,
            !.pc = IF @ = "file" THEN "idle" ELSE @]

\* Engine e syncs p.  The snapshot is saved if anything was done.
SyncPath(e, p, f) ==
  LET snap == engine[e].snap
      to   == Settled(f, local[p], server[p])
      new  == Noted(snap, p, to)
  IN
  /\ ~Absent(f, local[p], server[p])
  /\ local' = [local EXCEPT ![p] = to.l] /\ server' = [server EXCEPT ![p] = to.r]
  /\ overrun' = IF \/ local[p] # f.l /\ to.l # local[p]
                   \/ server[p] # f.r /\ f.marked /\ ~to.marked
                THEN overrun \cup {p} ELSE overrun
  /\ engine' = [engine EXCEPT ![e] = Beyond(@, p, new)]
  /\ saved' = IF <<to.l, to.r>> # <<local[p], server[p]>> \/ (to.s = 0 /\ snap.files[p] # 0)
              THEN new ELSE saved

\* Mutant: only the files of the server are gone through.
StartCycleThere(e) ==
  /\ Running(e) /\ ~Syncing(e) /\ reachable
  /\ engine' = [engine EXCEPT ![e].pc = "cycle", ![e].todo = {p \in Path : server[p] # 0},
                              ![e].here = local, ![e].there = server]
  /\ UNCHANGED <<server, reachable, local, saved, router, request, history, troubles>>
\* The loop, or perform-space-sync, starts a cycle: both sides are listed.
StartCycle(e) ==
  /\ Running(e) \/ (plugged = e /\ May("late"))
  /\ ~Syncing(e) /\ reachable
  /\ engine' = [engine EXCEPT
       ![e].pc = "cycle",
       ![e].todo = {p \in Path : server[p] # 0 \/ local[p] # 0
                                       \/ engine[e].snap.files[p] # 0},
       ![e].here = local, ![e].there = server]
  /\ UNCHANGED <<server, reachable, local, saved, router, request, history, troubles>>

\* syncSingleFile, of the file that is open or that has changed on the server,
\* asks both sides for it.  An engine that was stopped still hears of it.  One
\* that finds nothing to do is left out: it only makes others wait.
StartFile(e, p) ==
  /\ Decision(Listed(e, p, local[p], server[p], TRUE)) # "nothing"
  /\ (plugged = e /\ Running(e)) \/ (engine[e].state = "stopped" /\ May("late"))
  /\ ~Syncing(e) /\ p \notin engine[e].snap.marks /\ reachable
  /\ p \in Synced \/ May("mixed")
  /\ engine' = [engine EXCEPT ![e].pc = "file", ![e].todo = {p},
                              ![e].here[p] = local[p], ![e].there[p] = server[p]]
  /\ UNCHANGED <<server, reachable, local, saved, router, request, history, troubles>>

\* A file that a cycle, or syncSingleFile, has listed.
OnList(e, p) ==
  LET r == engine[e]
  IN Listed(e, p, r.here[p], r.there[p], p \in Synced \/ r.there[p] = 0 \/ r.pc = "file")

SyncNext(e, p) ==
  /\ Syncing(e) /\ p \in engine[e].todo /\ reachable
  /\ SyncPath(e, p, OnList(e, p))
  /\ UNCHANGED <<reachable, router, request, clock, acked, complete, cycled, troubles>>

\* It throws, and what is left is given up; a cycle saves its snapshot even so.
Throw(e, snap) ==
  /\ engine' = [engine EXCEPT ![e].snap = snap, ![e].pc = "idle", ![e].todo = {},
                              ![e].here = NoFiles, ![e].there = NoFiles]
  /\ saved' = IF Listing(e) THEN snap ELSE saved
  /\ UNCHANGED <<server, reachable, local, router, request, history, troubles>>

\* A request fails, or a file is gone.
SyncFails(e) ==
  /\ Syncing(e)
  /\ \/ ~reachable /\ Throw(e, engine[e].snap)
     \/ \E p \in engine[e].todo :
          LET f == OnList(e, p)
          IN
          /\ Absent(f, local[p], server[p])
          /\ Throw(e, IF Decision(f) = "remove" THEN Noted(engine[e].snap, p, Settled(f, 0, 0))
                      ELSE engine[e].snap)

\* Mutant: a cycle that was cut short counts as well.
CycleEndsAnyway(e) ==
  /\ Listing(e) /\ (engine[e].todo = {} \/ ~reachable)
  /\ engine' = [engine EXCEPT ![e].pc = "idle", ![e].todo = {},
                              ![e].here = NoFiles, ![e].there = NoFiles]
  /\ saved' = engine[e].snap
  /\ confirmed' = TRUE /\ cycled' = TRUE
  /\ UNCHANGED <<server, reachable, local, plugged, online, configuring, request,
                 clock, acked, complete, overrun, troubles>>
\* spaceSyncComplete, to which the router listens whoever is plugged in.
CycleEnds(e) ==
  /\ Listing(e) /\ engine[e].todo = {}
  /\ engine' = [engine EXCEPT ![e].pc = "idle"]
  /\ saved' = engine[e].snap
  /\ confirmed' = TRUE
  /\ cycled' = TRUE
  /\ UNCHANGED <<server, reachable, local, plugged, online, configuring, request,
                 clock, acked, complete, overrun, troubles>>

-----------------------------------------------------------------------------
(* Requests of the page. *)

Done == request' = Nothing

\* onFetch: who is to handle a request.
Route == IF plugged = None THEN "server"
         ELSE IF ~confirmed /\ online THEN "first" ELSE "router"

\* The page writes a file or deletes one; to read one changes nothing.
Ask(kind, p) ==
  /\ request = Nothing
  /\ clock < MaxChanges + 1 /\ clock' = clock + 1
  /\ request' = [kind |-> kind, path |-> p, ver |-> clock', via |-> Route]
  /\ IF kind = "delete" THEN acked' = [acked EXCEPT ![p] = 0] /\ complete' = complete \ {p}
     ELSE UNCHANGED <<acked, complete>>
  /\ UNCHANGED <<server, reachable, local, saved, engine, router, cycled, overrun, troubles>>

\* A file that is answered by the server, or on its behalf.
Effect(store_, p, kind, ver) ==
  CASE kind = "put" -> [store_ EXCEPT ![p] = ver]
    [] kind = "delete" -> [store_ EXCEPT ![p] = 0]
    [] OTHER -> store_

\* History: the page has been told that its write was done.
Acknowledge ==
  IF request.kind = "put"
  THEN acked' = [acked EXCEPT ![request.path] = request.ver]
       /\ complete' = complete \cup {request.path}
  ELSE UNCHANGED <<acked, complete>>

\* The store has been filled, or is about to be, from before the request; or it
\* has the file from while the page was offline.
Overtaken ==
  confirmed \/ cycled \/ saved # Empty \/ local[request.path] # 0 \/ \E e \in Engine : Listing(e)

\* The server has the request.  A file it took for the router is marked; if the
\* router was reset in the meantime, that fails and the page gets an error.
Served ==
  LET p == request.path IN
  /\ request.via \in {"server", "first", "proxy"} /\ reachable
  /\ May("through") \/ request.via = "proxy" \/ ~Overtaken
  /\ server' = Effect(server, p, request.kind, request.ver)
  /\ IF request.via = "proxy" /\ request.kind = "put"
     THEN IF plugged = None THEN UNCHANGED <<engine, acked, complete>>
          ELSE engine' = [engine EXCEPT ![plugged].snap.marks = @ \cup {p}] /\ Acknowledge
     ELSE UNCHANGED engine /\ Acknowledge
  /\ Done
  /\ UNCHANGED <<reachable, local, saved, router, clock, cycled, overrun, troubles>>

\* The server does not answer.  Before the first cycle the router goes on
\* alone; it cannot read the body of a write once more.  Otherwise the page
\* gets an error, of which onFetch sees only what it awaits.
Unserved ==
  /\ request.via \in {"server", "first", "proxy"} /\ ~reachable
  /\ online' = (online /\ request.via = "proxy")
  /\ request' = IF request.via = "first" /\ request.kind # "put"
                THEN [request EXCEPT !.via = "router"] ELSE Nothing
  /\ UNCHANGED <<server, reachable, local, saved, engine, plugged, confirmed,
                 configuring, history, troubles>>

\* Mutant: while online every write goes to the server.
ProxiedOnline == (request.kind = "put" /\ online) \/ request.path \notin Synced
\* handlePut, handleDelete: what is not the router's goes on to the
\* server; the rest is answered from the store.
Proxied == \/ request.kind = "put" /\ request.path \notin Synced /\ online
           \/ request.kind = "delete" /\ request.path \notin Synced

Pass ==
  /\ request.via = "router" /\ plugged # None /\ Proxied
  /\ request' = [request EXCEPT !.via = "proxy"]
  /\ engine' = IF request.kind = "delete"
               THEN [engine EXCEPT ![plugged].snap.marks = @ \ {request.path}] ELSE engine
  /\ UNCHANGED <<server, reachable, local, saved, router, history, troubles>>

\* The store has the write or the deletion; a write is then synced.
Store ==
  /\ request.via = "router" /\ plugged # None /\ ~Proxied
  /\ May("mixed") \/ request.kind # "put" \/ request.path \in Synced
  /\ local' = Effect(local, request.path, request.kind, request.ver)
  /\ IF request.kind = "put" THEN request' = [request EXCEPT !.via = "sync"]
                                  /\ UNCHANGED <<acked, complete>>
     ELSE Acknowledge /\ Done
  /\ overrun' = overrun \ {request.path}
  /\ UNCHANGED <<server, reachable, saved, engine, router, clock, cycled, troubles>>

\* The answer to a write: synced, or delayed since a sync is under way, the
\* server is out of reach, or there is no engine any more.
Stored ==
  LET p == request.path IN
  /\ request.via = "sync"
  /\ plugged # None => Running(plugged) \/ May("late")
  /\ IF plugged # None /\ reachable /\ ~Syncing(plugged) /\ p \notin engine[plugged].snap.marks
     THEN SyncPath(plugged, p, Listed(plugged, p, local[p], server[p], TRUE))
     ELSE UNCHANGED <<server, local, saved, engine, overrun>>
  /\ Acknowledge /\ Done
  /\ UNCHANGED <<reachable, router, clock, cycled, troubles>>

\* The router was reset while it had a request: an error.
Dropped ==
  /\ request.via = "router" /\ plugged = None
  /\ Done
  /\ UNCHANGED <<server, reachable, local, saved, engine, router, history, troubles>>

\* Mutant: once offline, always offline.
PingDown ==
  /\ plugged # None
  /\ online' = (online /\ reachable)
  /\ UNCHANGED <<server, reachable, local, saved, engine, plugged, confirmed,
                 configuring, request, history, troubles>>
\* checkOnline
Ping ==
  /\ plugged # None
  /\ online' = reachable
  /\ UNCHANGED <<server, reachable, local, saved, engine, plugged, confirmed,
                 configuring, request, history, troubles>>

-----------------------------------------------------------------------------
(* The rest of the world. *)

Network ==
  /\ \/ reachable /\ May("network") /\ Suffer
     \/ ~reachable /\ UNCHANGED troubles
  /\ reachable' = ~reachable
  /\ UNCHANGED <<server, local, saved, engine, router, request, history>>

\* Another client writes a file.
OthersWrite(p) ==
  /\ clock < MaxChanges + 1
  /\ clock' = clock + 1 /\ server' = [server EXCEPT ![p] = clock']
  /\ UNCHANGED <<reachable, local, saved, engine, router, request, acked, complete, cycled,
                 overrun, troubles>>

-----------------------------------------------------------------------------
EngineStep(e) == StartCycle(e) \/ SyncFails(e) \/ CycleEnds(e) \/ \E p \in Path : SyncNext(e, p)
Handle == Served \/ Unserved \/ Pass \/ Store \/ Stored \/ Dropped

Next ==
  \/ \E e \in Engine : Configure(e) \/ Plug(e) \/ Hang(e) \/ EngineStep(e)
  \/ \E e \in Engine, p \in Path : StartFile(e, p)
  \/ \E kind \in {"put", "delete"}, p \in Path : Ask(kind, p)
  \/ Unlock \/ Handle \/ Ping \/ Reset \/ Wipe \/ Restart \/ Network
  \/ \E p \in Path : OthersWrite(p)

Spec == Init /\ [][Next]_vars

\* What need not happen for ever: pages send their configuration when the worker
\* asks for it, its timers run, requests are answered, the network comes back.
Timely ==
  \/ \E e \in Engine : Configure(e) \/ Plug(e)
  \/ Unlock \/ Handle \/ Ping \/ (~reachable /\ Network)

\* It does in the end, and the loops of the engines go on.
Fairness == WF_vars(Timely) /\ WF_vars(\E e \in Engine : EngineStep(e))

FairSpec == Spec /\ Fairness

-----------------------------------------------------------------------------
(* Properties. *)

Version == 0..MaxChanges + 1
Files    == [Path -> Version]
Snapshot == [files : Files, marks : SUBSET Path]

\* The type of every variable; an engine is plugged in once it has its snapshot.
TypeOK ==
  /\ {server, local, acked} \subseteq Files /\ saved \in Snapshot
  /\ {reachable, confirmed, online, configuring, cycled} \subseteq BOOLEAN
  /\ overrun \subseteq Path
  /\ engine \in [Engine -> [state : {"none", "loading", "hung", "running", "stopped"}, snap : Snapshot,
                            pc : {"idle", "cycle", "file"}, todo : SUBSET Path,
                            here : Files, there : Files]]
  /\ plugged # None => plugged \in Engine /\ engine[plugged].state \in {"running", "stopped"}
  /\ complete \subseteq Path
  /\ request \in [kind : {"none", "put", "delete"}, path : Path \cup {None},
                  ver : Version, via : {"none", "server", "first", "router", "proxy", "sync"}]
  /\ clock \in Version /\ troubles \in 0..MaxTroubles

\* The router answers from the store.  After a wipe, nothing is promised until
\* the worker starts again.
Serving == plugged # None /\ confirmed /\ Running(plugged)

\* handleFileListing
FileListing == {p \in Path : local[p] # 0} \cup engine[plugged].snap.marks

\* When the router answers for the server, no file is missing from its listing
\* that the page knows or that was there when a cycle began.
ListingComplete == Serving => complete \subseteq FileListing \cup overrun

\* handleGet
Get(p) == IF local[p] # 0 THEN local[p] ELSE server[p]

\* What the page wrote is in the store or on the server, or something newer is,
\* and that is what it reads, whoever answers.
WritesKept ==
  \A p \in Path :
    \/ p \in overrun
    \/ /\ acked[p] # 0 => local[p] >= acked[p] \/ server[p] >= acked[p]
       /\ Serving /\ reachable /\ online => Get(p) >= acked[p]

\* At most one engine's loop is running, so that no two sync the same store
\* with snapshots of their own.
OneEngine == \A e, f \in Engine : Running(e) /\ Running(f) => e = f

\* The worker is configured in the end, finds that the server can be reached and
\* answers for it: after restarts, resets, and requests that failed, unless its
\* data were wiped.
EventuallyServing ==
  <>[]((Serving /\ online) \/ (plugged # None /\ ~Running(plugged)))

\* What the page wrote reaches the server in the end, whoever took it, or
\* something newer does.
EventuallyThere == <>[](\A p \in Path : server[p] >= acked[p] \/ p \in overrun)
=============================================================================
