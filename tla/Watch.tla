------------------------------- MODULE Watch -------------------------------
(***************************************************************************)
(* How a change on the server's disk reaches an open page: the watcher     *)
(* (server/src/watcher.rs), the event stream (handlers/events.rs), and the *)
(* client's end of it (client/realtime_events.ts, with the hooks that      *)
(* client.ts gives it).                                                    *)
(*                                                                         *)
(* Polling finds every change in the end.  The stream is there to be       *)
(* faster; this module is about what it carries, and what it leaves to     *)
(* polling.                                                                *)
(***************************************************************************)
EXTENDS Integers, FiniteSets, Sequences, SequencesExt

CONSTANTS
  Path,        \* the files of the space; all of them are listable
  None,        \* no file
  Flood,       \* FLOOD_THRESHOLD
  Capacity,    \* CHANNEL_CAPACITY
  Batch,       \* BATCH_THRESHOLD
  MaxEdits,    \* bound: changes on disk
  MaxTroubles, \* bound: things that go wrong
  Troubles     \* which of them may: see Trouble

\* A kernel that drops notifications, a file that cannot be read, a hook
\* without effect, a broken connection, a server that stops, a proxy that
\* answers in its place, a client that is wiped.
Trouble == {"overflow", "stat", "hook", "break", "crash", "refuse", "wipe"}

ASSUME WatchConstants ==
  /\ Path # {} /\ IsFiniteSet(Path) /\ None \notin Path
  /\ Flood \in Nat \ {0} /\ Capacity \in Nat \ {0} /\ Batch \in Nat \ {0}
  /\ MaxEdits \in Nat /\ MaxTroubles \in Nat
  /\ Troubles \subseteq Trouble

VARIABLES
  disk,      \* per path: its version on the server; odd if the file exists
  local,     \* per path: the version in the service worker's store
  seen,      \* per path: the version in the snapshot of the evented space
  sw,        \* serviceWorkerActive()
  up,        \* the server runs
  raw,       \* paths in the mpsc channel
  pending,   \* pending, in debounce_loop
  inbox,     \* the subscriber's part of the broadcast channel
  lagged,    \* ... the oldest of which were overwritten
  conn,      \* state of the EventSource
  ever,      \* everConnected
  catchup,   \* the refreshFileList of onopen is under way
  queue,     \* pending, in RealtimeEvents: per name the action
  timer,     \* flushTimer is set
  due,       \* timeouts that will call runFlush
  flushes,   \* calls of runFlush under way
  stopped,   \* stop() was called
  missed,    \* history: paths that are left to polling
  edits,     \* changes that may still happen
  troubles   \* troubles that may still happen

server == <<up, raw, pending, inbox, lagged>>
link   == <<conn, ever, catchup>>
client == <<queue, timer, due, flushes, stopped>>
limits == <<edits, troubles>>
vars   == <<disk, local, seen, sw, server, link, client, missed, limits>>

Exists(v)  == v % 2 = 1
Same(v, w) == v = w \/ (~Exists(v) /\ ~Exists(w))
Stale(p)   == ~Same(seen[p], disk[p])

May(t) == t \in Troubles
Suffer == troubles > 0 /\ troubles' = troubles - 1

\* FsEvent.  A resync has no name.
Resync   == [name |-> None, action |-> "resync"]
Event(p) == [name |-> p, action |-> IF Exists(disk[p]) THEN "change" ELSE "delete"]
Name     == Path \cup {None}

Init ==
  /\ disk = [p \in Path |-> 1] /\ local = disk /\ seen = disk
  /\ sw \in BOOLEAN
  /\ up = TRUE /\ raw = {} /\ pending = {} /\ inbox = << >> /\ lagged = FALSE
  /\ conn = "connecting" /\ ever = FALSE /\ catchup = FALSE
  /\ queue = [n \in Name |-> "none"] /\ timer = FALSE /\ due = 0 /\ flushes = << >>
  /\ stopped = FALSE
  /\ missed = {} /\ edits = MaxEdits /\ troubles = MaxTroubles

\* History: the stream will not bring the news of the paths in lost.
Lose(lost) == missed' = missed \cup lost

\* A gap in the stream is made up for when it is open again, if it was open
\* before.  With a service worker that list is of the worker's own store.
CatchesUp == ever /\ ~sw /\ conn # "off" /\ ~stopped
LoseUnlessCaught(lost) == Lose(IF CatchesUp THEN {} ELSE lost)

-----------------------------------------------------------------------------
(* The disk and the watcher. *)

\* A file is written, created or deleted, and the kernel tells the watcher.
Edit(p) ==
  /\ edits > 0 /\ edits' = edits - 1
  /\ \E v \in {disk[p] + 1, disk[p] + 2} :
       (v = disk[p] + 2 => Exists(v)) /\ disk' = [disk EXCEPT ![p] = v]
  /\ \/ /\ raw' = IF up THEN raw \cup {p} ELSE raw
        /\ LoseUnlessCaught(IF up THEN {} ELSE {p})
        /\ UNCHANGED troubles
     \/ /\ up /\ May("overflow") /\ Suffer
        /\ Lose({p})
        /\ UNCHANGED raw
  /\ UNCHANGED <<local, seen, sw, up, pending, inbox, lagged, link, client>>

\* debounce_loop receives a path.
Receive(p) ==
  /\ p \in raw
  /\ raw' = raw \ {p} /\ pending' = pending \cup {p}
  /\ UNCHANGED <<disk, local, seen, sw, up, inbox, lagged, link, client, missed, limits>>

Subscribed == conn \in {"subscribed", "open"}

\* Mutant: a slow subscriber is not told that it has missed something.
BroadcastQuietly(events) ==
  LET over == Len(inbox \o events) - Capacity IN
  /\ inbox' = IF over > 0 THEN SubSeq(inbox \o events, over + 1, Len(inbox \o events))
                          ELSE inbox \o events
  /\ UNCHANGED lagged
\* Mutant: the channel grows with a slow subscriber.
BroadcastUnbounded(events) == inbox' = inbox \o events /\ UNCHANGED lagged
\* Events are sent to the subscriber; those that do not fit displace the
\* oldest ones.
Broadcast(events) ==
  LET over == Len(inbox \o events) - Capacity IN
  /\ inbox' = IF over > 0 THEN SubSeq(inbox \o events, over + 1, Len(inbox \o events))
                          ELSE inbox \o events
  /\ lagged' = (lagged \/ over > 0)

\* Paths are announced one by one, or all together when there are too many.
Events(ready) ==
  LET paths == SetToSeq(ready) IN
  IF Cardinality(ready) > Flood THEN <<Resync>> ELSE [i \in DOMAIN paths |-> Event(paths[i])]

\* Paths have been quiet for a while.  They are announced by what is on disk now.
Debounce(ready) ==
  /\ ready # {}
  /\ pending' = pending \ ready
  /\ IF Subscribed THEN Broadcast(Events(ready)) /\ UNCHANGED missed
     ELSE LoseUnlessCaught(ready) /\ UNCHANGED <<inbox, lagged>>
  /\ UNCHANGED <<disk, local, seen, sw, up, raw, link, client, limits>>

\* A path whose file cannot be looked at is skipped.
StatFails(p) ==
  /\ p \in pending
  /\ May("stat") /\ Suffer
  /\ pending' = pending \ {p}
  /\ Lose({p})
  /\ UNCHANGED <<disk, local, seen, sw, up, raw, inbox, lagged, link, client, edits>>

-----------------------------------------------------------------------------
(* The connection. *)

InTransit == IF lagged \/ Resync \in Range(inbox) THEN Path
             ELSE {e.name : e \in Range(inbox)}

\* The server stops, on request or not, with all that it had in memory.
Stop ==
  /\ up /\ May("crash") /\ Suffer
  /\ up' = FALSE /\ raw' = {} /\ pending' = {} /\ inbox' = << >> /\ lagged' = FALSE
  /\ conn' = IF Subscribed THEN "broken" ELSE conn
  /\ LoseUnlessCaught(raw \cup pending \cup InTransit)
  /\ UNCHANGED <<disk, local, seen, sw, ever, catchup, client, edits>>

Start ==
  /\ ~up /\ up' = TRUE
  /\ UNCHANGED <<disk, local, seen, sw, raw, pending, inbox, lagged, link, client, missed,
                 limits>>

\* The connection breaks, with the events on their way.
Break ==
  /\ Subscribed /\ May("break") /\ Suffer
  /\ conn' = "broken" /\ inbox' = << >> /\ lagged' = FALSE
  /\ LoseUnlessCaught(InTransit)
  /\ UNCHANGED <<disk, local, seen, sw, up, raw, pending, ever, catchup, client, edits>>

\* handle_events: a subscription starts empty.
Subscribe ==
  /\ conn = "connecting" /\ up
  /\ conn' = "subscribed"
  /\ UNCHANGED <<disk, local, seen, sw, server, ever, catchup, client, missed, limits>>

\* onopen
Opened ==
  /\ conn = "subscribed"
  /\ conn' = "open" /\ ever' = TRUE
  /\ catchup' = (catchup \/ ever)
  /\ UNCHANGED <<disk, local, seen, sw, server, client, missed, limits>>

\* onerror.  Something else than the stream answers, fatal for an EventSource:
\* a client that was never connected takes that for a server without a stream.
Refused ==
  /\ conn = "connecting" /\ May("refuse") /\ Suffer
  /\ conn' = IF ever THEN "waiting" ELSE "off"
  /\ UNCHANGED <<disk, local, seen, sw, server, ever, catchup, client, missed, edits>>

\* onerror: the connection broke, or cannot be made.
Onerror ==
  /\ conn = "broken" \/ (conn = "connecting" /\ ~up)
  /\ conn' = "waiting"
  /\ UNCHANGED <<disk, local, seen, sw, server, ever, catchup, client, missed, limits>>

Connect ==
  /\ conn = "waiting"
  /\ conn' = "connecting"
  /\ UNCHANGED <<disk, local, seen, sw, server, ever, catchup, client, missed, limits>>

-----------------------------------------------------------------------------
(* The client. *)

\* stop(): the client is being wiped.
Wipe ==
  /\ ~stopped /\ May("wipe") /\ Suffer
  /\ stopped' = TRUE
  /\ conn' = "closed" /\ inbox' = << >> /\ lagged' = FALSE
  /\ timer' = FALSE /\ due' = IF timer /\ flushes = << >> THEN 0 ELSE due
  /\ UNCHANGED <<disk, local, seen, sw, up, raw, pending, ever, catchup, queue, flushes,
                 missed, edits>>

\* The next event of the stream, or the news that some were lost, is queued
\* under its name.
Message ==
  LET e == IF lagged THEN Resync ELSE Head(inbox) IN
  /\ conn = "open" /\ (lagged \/ inbox # << >>)
  /\ IF lagged THEN lagged' = FALSE /\ UNCHANGED inbox
               ELSE inbox' = Tail(inbox) /\ UNCHANGED lagged
  /\ queue' = [queue EXCEPT ![e.name] = e.action]
  /\ timer' = TRUE /\ due' = IF timer THEN due ELSE due + 1
  /\ UNCHANGED <<disk, local, seen, sw, up, raw, pending, link, flushes, stopped, missed,
                 limits>>

Named(action) == {n \in Name : queue[n] = action}

\* flush up to the first await: the batch is taken from the queue.
TakeBatch ==
  LET many == Named("resync") # {} \/ Cardinality(Named("change")) >= Batch IN
  /\ due > 0 /\ due' = due - 1
  /\ flushes' = Append(flushes,
       [pc   |-> IF ~many THEN "files" ELSE IF sw THEN "sync" ELSE "list",
        todo |-> IF many THEN {} ELSE Named("change"), file |-> None,
        gone |-> IF many THEN Path ELSE Named("delete")])
  /\ queue' = [n \in Name |-> "none"]
  /\ UNCHANGED <<disk, local, seen, sw, server, link, stopped, missed, limits>>

\* Mutant: flushTimer is unset as soon as the timer has fired.
FlushTwice == TakeBatch /\ timer' = FALSE
\* The timer fires: runFlush.  flushTimer stays set.
Flush == TakeBatch /\ UNCHANGED timer

Goes(i, f) == flushes' = [flushes EXCEPT ![i] = f]

\* The evented space has compared its snapshot with news, and announced what
\* differs.  A path is left to polling until the service worker has it, too.
See(news, lost) ==
  /\ seen' = news
  /\ missed' = {p \in missed \cup lost :
                  ~Same(news[p], disk[p]) \/ (sw /\ ~Same(local[p], disk[p]))}

\* A hook that fails, or that finds what it wants to do under way (a sync, or
\* an operation of the evented space), has no effect.
NoEffect(lost) == May("hook") /\ Suffer /\ Lose(lost) /\ UNCHANGED <<local, seen>>

\* syncFile
SyncFile(i, p) ==
  LET f == flushes[i] IN
  /\ sw /\ f.pc = "files" /\ p \in f.todo
  /\ Goes(i, [f EXCEPT !.pc = "probe", !.todo = @ \ {p}, !.file = p])
  /\ \/ local' = [local EXCEPT ![p] = disk[p]] /\ UNCHANGED <<seen, missed, troubles>>
     \/ NoEffect({p})
  /\ UNCHANGED <<disk, sw, server, link, queue, timer, due, stopped, edits>>

Source == IF sw THEN local ELSE disk

\* probeFile, which throws if there is no such file.
Probe(i, p) ==
  LET f == flushes[i] IN
  /\ IF sw THEN f.pc = "probe" /\ p = f.file ELSE f.pc = "files" /\ p \in f.todo
  /\ Goes(i, [f EXCEPT !.pc = "files", !.todo = @ \ {p}, !.file = None])
  /\ \/ /\ See(IF Exists(Source[p]) THEN [seen EXCEPT ![p] = Source[p]] ELSE seen, {})
        /\ UNCHANGED <<local, troubles>>
     \/ NoEffect({p})
  /\ UNCHANGED <<disk, sw, server, link, queue, timer, due, stopped, edits>>

\* syncSpace
SyncSpace(i) ==
  LET f == flushes[i] IN
  /\ f.pc = "sync"
  /\ Goes(i, [f EXCEPT !.pc = "list"])
  /\ \/ local' = disk /\ UNCHANGED <<seen, missed, troubles>>
     \/ NoEffect(Path)
  /\ UNCHANGED <<disk, sw, server, link, queue, timer, due, stopped, edits>>

\* refreshFileList
List(i) ==
  LET f == flushes[i] IN
  /\ f.pc = "list" \/ (f.pc = "files" /\ f.todo = {} /\ f.gone # {})
  /\ Goes(i, [f EXCEPT !.pc = "files", !.gone = {}])
  /\ \/ See(Source, f.gone) /\ UNCHANGED <<local, troubles>>
     \/ NoEffect(Path)
  /\ UNCHANGED <<disk, sw, server, link, queue, timer, due, stopped, edits>>

\* runFlush goes on.
FlushDone(i, again) ==
  LET f == flushes[i] IN
  /\ f.pc = "files" /\ f.todo = {} /\ f.gone = {}
  /\ flushes' = RemoveAt(flushes, i)
  /\ timer' = again /\ due' = IF again THEN due + 1 ELSE due
  /\ UNCHANGED <<disk, local, seen, sw, server, link, queue, stopped, missed, limits>>

Waiting == \E n \in Name : queue[n] # "none"

\* Mutant: events that arrived in the meantime wait for the next one.
FlushEndsIdle(i) == FlushDone(i, FALSE)
\* What has arrived in the meantime is the next batch.
FlushEnds(i) == FlushDone(i, Waiting /\ ~stopped)

\* The list that onopen has asked for.
CatchUp ==
  /\ catchup /\ catchup' = FALSE
  /\ \/ See(Source, {}) /\ UNCHANGED <<local, troubles>>
     \/ NoEffect(Path)
  /\ UNCHANGED <<disk, sw, server, conn, ever, client, edits>>

\* Polling: the sync loop of the service worker, the file list of the client.
Poll ==
  /\ \/ sw /\ local' = disk /\ UNCHANGED <<seen, missed>>
     \/ See(Source, {}) /\ UNCHANGED local
  /\ UNCHANGED <<disk, sw, server, link, client, limits>>

-----------------------------------------------------------------------------
FlushStep == \E i \in DOMAIN flushes :
  \/ SyncSpace(i) \/ List(i) \/ FlushEnds(i)
  \/ \E p \in Path : SyncFile(i, p) \/ Probe(i, p)

Next ==
  \/ \E p \in Path : Edit(p) \/ Receive(p) \/ StatFails(p)
  \/ \E ready \in SUBSET pending : Debounce(ready)
  \/ Stop \/ Start \/ Break \/ Subscribe \/ Opened \/ Refused \/ Onerror \/ Connect
  \/ Wipe \/ Message \/ Flush \/ FlushStep \/ CatchUp \/ Poll

Spec == Init /\ [][Next]_vars

\* Threads and timers run, the stream is read, hooks return, and a server that
\* stopped is started again.  Nothing is asked of polling.
Fairness ==
  /\ WF_vars(\E p \in Path : Receive(p)) /\ WF_vars(Debounce(pending))
  /\ WF_vars(Start) /\ WF_vars(Subscribe \/ Onerror) /\ WF_vars(Connect) /\ WF_vars(Opened)
  /\ WF_vars(Message) /\ WF_vars(Flush) /\ WF_vars(FlushStep) /\ WF_vars(CatchUp)

FairSpec == Spec /\ Fairness

-----------------------------------------------------------------------------
(* Properties. *)

\* The type of every variable; what is queued and sent is bounded.
TypeOK ==
  /\ {disk, local, seen} \subseteq [Path -> Nat]
  /\ {sw, up, lagged, ever, catchup, timer, stopped} \subseteq BOOLEAN
  /\ {raw, pending, missed} \subseteq SUBSET Path
  /\ Len(inbox) <= Capacity
  /\ \A e \in Range(inbox) : e \in [name : Name, action : {"change", "delete", "resync"}]
  /\ conn \in {"connecting", "subscribed", "open", "broken", "waiting", "off", "closed"}
  /\ queue \in [Name -> {"none", "change", "delete", "resync"}]
  /\ due \in Nat
  /\ \A f \in Range(flushes) :
       f \in [pc : {"files", "probe", "sync", "list"}, todo : SUBSET Path, file : Name,
              gone : SUBSET Path]
  /\ edits \in 0..MaxEdits /\ troubles \in 0..MaxTroubles

Listening == conn # "off" /\ ~stopped

OnTheWay(p) ==
  \/ p \in raw \cup pending
  \/ p \in InTransit
  \/ queue[p] # "none" \/ queue[None] # "none"
  \/ catchup \/ (CatchesUp /\ conn # "open")
  \/ \E f \in Range(flushes) :
       \/ p \in f.todo \/ p = f.file \/ f.pc = "sync"
       \/ f.gone # {} /\ (p \in f.gone \/ ~sw)

\* Every change that the page has not seen is on its way to it, or was given
\* up at one of the places that leave it to polling: no step of the chain
\* drops a path that nobody else carries.
NothingUnannounced == Listening => \A p \in Path : Stale(p) => p \in missed \/ OnTheWay(p)

\* The flushes of a page never overlap, there is a timer or a flush exactly as
\* long as flushTimer says so, and after stop() the flush under way is the last.
OneFlush ==
  /\ due + Len(flushes) <= 1
  /\ IF stopped THEN due = 0 /\ conn = "closed" ELSE timer <=> due + Len(flushes) = 1

\* Without polling, too, a page sees a change in the end.
EventuallySeen == \A p \in Path : Stale(p) ~> ~Stale(p) \/ p \in missed \/ ~Listening
=============================================================================
