----------------------------- MODULE ChromePool -----------------------------
(***************************************************************************)
(* One headless browser for all spaces (server-runtime-chrome): the pool   *)
(* that launches and retires it, and the supervisor of each transport that *)
(* keeps a page open in it (pool.rs, supervisor.rs).                       *)
(*                                                                         *)
(* A supervisor is a task: it may be aborted wherever it awaits, that is   *)
(* between any two of its steps here.                                      *)
(***************************************************************************)
EXTENDS Integers, FiniteSets

CONSTANTS
  Transport,   \* registrations; a space that is rebuilt has two for a while
  None,        \* no transport, no page
  MaxTroubles, \* bound: things that go wrong
  Troubles     \* which of them may

\* What may go wrong: the browser dies, a page dies, a launch fails or times
\* out, a client does not get ready.  What the code does not stand: a supervisor
\* that is aborted inside new_page may leave a tab that nobody knows of.
Ordinary == {"browser", "page", "launch", "client"}
Races    == {"inside"}

ASSUME PoolConstants ==
  /\ IsFiniteSet(Transport) /\ None \notin Transport /\ None \notin Int \X Transport \X Int
  /\ MaxTroubles \in Nat /\ Troubles \subseteq Ordinary \cup Races

VARIABLES
  slot,        \* the generation of the browser in the slot, 0 if there is none
  next,        \* next_generation
  lock,        \* launch_lock: who holds it
  up,          \* the browser processes that run
  tabs,        \* the pages that are open in them
  broken,      \* those that do not answer any more
  closing,     \* those that somebody is closing
  pc,          \* per transport: where its supervisor is
  page,        \* per transport: the page in the hands of its supervisor
  uses,        \* per transport: the generation its supervisor has a handle of
  live,        \* per transport: live
  ready,       \* per transport: ready
  trigger,     \* per transport: trigger, notified
  caller,      \* per transport: the request that is evaluated
  held,        \* the transports that exist
  troubles     \* troubles that may still happen

browser == <<slot, next, lock, up>>
pages   == <<tabs, broken, closing>>
super   == <<pc, page, uses>>
client  == <<trigger, caller, held>>
vars    == <<browser, pages, super, live, ready, client, troubles>>

May(t) == t \in Troubles
Suffer == troubles > 0 /\ troubles' = troubles - 1

Init ==
  /\ slot = 0 /\ next = 1 /\ lock = None /\ up = {}
  /\ tabs = {} /\ broken = {} /\ closing = {}
  /\ pc = [t \in Transport |-> "none"]
  /\ page = [t \in Transport |-> None] /\ uses = [t \in Transport |-> 0]
  /\ live = [t \in Transport |-> None] /\ ready = [t \in Transport |-> FALSE]
  /\ trigger = [t \in Transport |-> FALSE] /\ caller = [t \in Transport |-> "idle"]
  /\ held = {} /\ troubles = MaxTroubles

-----------------------------------------------------------------------------
(* Transports. *)

\* transport_for, with an identity that nobody had before.
Register(t) ==
  /\ pc[t] = "none"
  /\ pc' = [pc EXCEPT ![t] = "parked"] /\ held' = held \cup {t}
  /\ UNCHANGED <<browser, pages, page, uses, live, ready, trigger, caller, troubles>>

\* eval_js wakes the supervisor up, if it still sleeps, and has the lock of the page
\* for as long as it evaluates.  To wait for the lock is to come later.
Ask(t) ==
  /\ t \in held /\ caller[t] = "idle"
  /\ trigger' = [trigger EXCEPT ![t] = pc[t] = "parked"]
  /\ caller' = [caller EXCEPT ![t] = IF live[t] = None THEN "idle" ELSE "running"]
  /\ UNCHANGED <<browser, pages, super, live, ready, held, troubles>>

Answer(t) ==
  /\ caller[t] = "running" /\ caller' = [caller EXCEPT ![t] = "idle"]
  /\ UNCHANGED <<browser, pages, super, live, ready, trigger, held, troubles>>

\* The transport is dropped: it leaves the registrations, a task tears it down.
Drop(t) ==
  /\ t \in held /\ caller[t] = "idle"
  /\ held' = held \ {t}
  /\ UNCHANGED <<browser, pages, super, live, ready, trigger, caller, troubles>>

\* Mutant: an abort that forgets the lock.
AbortHolding(t) ==
  /\ pc[t] \notin {"none", "aborted", "gone"} /\ t \notin held
  /\ pc' = [pc EXCEPT ![t] = "aborted"]
  /\ page' = [page EXCEPT ![t] = None] /\ uses' = [uses EXCEPT ![t] = 0]
  /\ closing' = IF page[t] \in tabs THEN closing \cup {page[t]} ELSE closing
  /\ UNCHANGED <<browser, tabs, broken, live, ready, client, troubles>>

\* The task aborts the supervisor.  Its guard closes the page it has in hand,
\* its lock and its handle of the browser are let go; a launch is cut short.
Abort(t) ==
  /\ pc[t] \notin {"none", "aborted", "gone"} /\ t \notin held
  /\ pc' = [pc EXCEPT ![t] = "aborted"]
  /\ page' = [page EXCEPT ![t] = None] /\ uses' = [uses EXCEPT ![t] = 0]
  /\ closing' = IF page[t] \in tabs THEN closing \cup {page[t]} ELSE closing
  /\ lock' = IF lock = t THEN None ELSE lock
  /\ tabs' \in {tabs} \cup IF May("inside") /\ pc[t] = "new page" /\ uses[t] \in up
                            THEN {tabs \cup {<<uses[t], t, 0>>}} ELSE {}
  /\ UNCHANGED <<slot, next, up, broken, live, ready, client, troubles>>

\* Mutant: what is there now is closed without waiting for the end of the supervisor.
TearDownAtOnce(t) ==
  /\ t \notin held /\ pc[t] \notin {"none", "gone"}
  /\ closing' = IF live[t] \in tabs THEN closing \cup {live[t]} ELSE closing
  /\ live' = [live EXCEPT ![t] = None] /\ pc' = [pc EXCEPT ![t] = "gone"]
  /\ UNCHANGED <<browser, tabs, broken, page, uses, ready, client, troubles>>

\* Once the supervisor is gone, the task closes the page it has left.
TearDown(t) ==
  /\ pc[t] = "aborted" /\ pc' = [pc EXCEPT ![t] = "gone"]
  /\ live' = [live EXCEPT ![t] = None]
  /\ closing' = IF live[t] \in tabs THEN closing \cup {live[t]} ELSE closing
  /\ UNCHANGED <<browser, tabs, broken, page, uses, ready, client, troubles>>

-----------------------------------------------------------------------------
(* supervise_space *)

Go(t, to) == pc' = [pc EXCEPT ![t] = to]

\* Nothing is launched before the first request.
Wake(t) ==
  /\ pc[t] = "parked" /\ trigger[t]
  /\ trigger' = [trigger EXCEPT ![t] = FALSE] /\ Go(t, "probe")
  /\ UNCHANGED <<browser, pages, page, uses, live, ready, caller, held, troubles>>

\* page_is_alive, and the locks that it and the rest have to wait for.
Alive(t) == live[t] \in tabs \ broken
Unlocked(t) == caller[t] # "running"

\* There is no page, or it does not answer.
FindDead(t) ==
  /\ pc[t] = "probe" /\ Unlocked(t) /\ ~Alive(t)
  /\ ready' = [ready EXCEPT ![t] = FALSE] /\ Go(t, "take")
  /\ UNCHANGED <<browser, pages, page, uses, live, client, troubles>>

\* What is there is taken and closed.
Take(t) ==
  /\ pc[t] = "take" /\ Unlocked(t)
  /\ live' = [live EXCEPT ![t] = None]
  /\ closing' = IF live[t] \in tabs THEN closing \cup {live[t]} ELSE closing
  /\ Go(t, "ensure")
  /\ UNCHANGED <<browser, tabs, broken, page, uses, ready, client, troubles>>

\* ensure_browser: the browser that is there, or the wait for the lock.
Ensure(t) ==
  /\ pc[t] = "ensure"
  /\ uses' = [uses EXCEPT ![t] = slot]
  /\ Go(t, IF slot = 0 THEN "lock" ELSE "new page")
  /\ UNCHANGED <<browser, pages, page, live, ready, client, troubles>>

\* Somebody may have launched it in the meantime.
Lock(t) ==
  /\ pc[t] = "lock" /\ lock = None
  /\ IF slot = 0 THEN lock' = t /\ Go(t, "launch") /\ UNCHANGED uses
     ELSE uses' = [uses EXCEPT ![t] = slot] /\ Go(t, "new page") /\ UNCHANGED lock
  /\ UNCHANGED <<slot, next, up, pages, page, live, ready, client, troubles>>

Launched(t) ==
  /\ pc[t] = "launch"
  /\ slot' = next /\ next' = next + 1 /\ up' = up \cup {next} /\ lock' = None
  /\ uses' = [uses EXCEPT ![t] = next] /\ Go(t, "new page")
  /\ UNCHANGED <<pages, page, live, ready, client, troubles>>

\* Mutant: the lock is kept after a failure.
LaunchFailsHolding(t) ==
  /\ pc[t] = "launch" /\ May("launch") /\ Suffer
  /\ Go(t, "probe")
  /\ UNCHANGED <<browser, pages, page, uses, live, ready, client>>
LaunchFails(t) ==
  /\ pc[t] = "launch" /\ May("launch") /\ Suffer
  /\ lock' = None /\ Go(t, "probe")
  /\ UNCHANGED <<slot, next, up, pages, page, uses, live, ready, client>>

\* launch_page: a guard has the page from the moment it is open.
NewPage(t) ==
  LET new == <<uses[t], t, CHOOSE n \in 1..Cardinality(tabs) + 1 :
                             <<uses[t], t, n>> \notin tabs>> IN
  /\ pc[t] = "new page"
  /\ IF uses[t] \in up
     THEN tabs' = tabs \cup {new} /\ page' = [page EXCEPT ![t] = new] /\ Go(t, "open")
     ELSE UNCHANGED <<tabs, page>> /\ Go(t, "failed")
  /\ UNCHANGED <<browser, broken, closing, uses, live, ready, client, troubles>>

\* The cookie, the console, the navigation, or the client that is to get ready
\* fails: the guard closes the page.
OpenFails(t) ==
  /\ pc[t] = "open"
  /\ IF page[t] \in tabs \ broken THEN May("client") /\ Suffer ELSE UNCHANGED troubles
  /\ closing' = IF page[t] \in tabs THEN closing \cup {page[t]} ELSE closing
  /\ page' = [page EXCEPT ![t] = None] /\ Go(t, "failed")
  /\ UNCHANGED <<browser, tabs, broken, uses, live, ready, client>>

\* The client is ready: the page is published, the guard disarmed.
Publish(t) ==
  /\ pc[t] = "open" /\ page[t] \in tabs \ broken /\ Unlocked(t)
  /\ live' = [live EXCEPT ![t] = page[t]] /\ ready' = [ready EXCEPT ![t] = TRUE]
  /\ page' = [page EXCEPT ![t] = None] /\ uses' = [uses EXCEPT ![t] = 0]
  /\ Go(t, "probe")
  /\ UNCHANGED <<browser, pages, client, troubles>>

\* Is it the browser?  Then it is to be retired.  To back off is to probe later.
Failed(t) ==
  /\ pc[t] = "failed"
  /\ Go(t, IF uses[t] \in up THEN "probe" ELSE "discard")
  /\ uses' = IF uses[t] \in up THEN [uses EXCEPT ![t] = 0] ELSE uses
  /\ UNCHANGED <<browser, pages, page, live, ready, client, troubles>>

\* Mutant: whatever is in the slot is retired.
DiscardAny(t) ==
  /\ pc[t] = "discard" /\ lock = None
  /\ slot' = 0 /\ uses' = [uses EXCEPT ![t] = 0] /\ Go(t, "probe")
  /\ UNCHANGED <<next, lock, up, pages, page, live, ready, client, troubles>>
\* discard_browser: only the generation that was seen dead.
Discard(t) ==
  /\ pc[t] = "discard" /\ lock = None
  /\ slot' = IF slot = uses[t] THEN 0 ELSE slot
  /\ uses' = [uses EXCEPT ![t] = 0] /\ Go(t, "probe")
  /\ UNCHANGED <<next, lock, up, pages, page, live, ready, client, troubles>>

-----------------------------------------------------------------------------
(* The browser. *)

\* It dies, with all its pages.
BrowserDies(g) ==
  /\ g \in up /\ May("browser") /\ Suffer
  /\ up' = up \ {g}
  /\ tabs' = {x \in tabs : x[1] # g}
  /\ broken' = broken \cap tabs' /\ closing' = closing \cap tabs'
  /\ UNCHANGED <<slot, next, lock, super, live, ready, client>>

PageDies(x) ==
  /\ x \in tabs \ broken /\ May("page") /\ Suffer
  /\ broken' = broken \cup {x}
  /\ UNCHANGED <<browser, tabs, closing, super, live, ready, client>>

Closed(x) ==
  /\ x \in closing
  /\ tabs' = tabs \ {x} /\ broken' = broken \ {x} /\ closing' = closing \ {x}
  /\ UNCHANGED <<browser, super, live, ready, client, troubles>>

-----------------------------------------------------------------------------
Supervise(t) ==
  \/ Wake(t) \/ FindDead(t) \/ Take(t) \/ Ensure(t) \/ Lock(t) \/ Launched(t) \/ LaunchFails(t)
  \/ NewPage(t) \/ OpenFails(t) \/ Publish(t) \/ Failed(t) \/ Discard(t)

Next ==
  \/ \E t \in Transport : \/ Register(t) \/ Ask(t) \/ Answer(t) \/ Drop(t)
                          \/ Abort(t) \/ TearDown(t) \/ Supervise(t)
  \/ \E g \in up : BrowserDies(g)
  \/ \E x \in tabs : PageDies(x) \/ Closed(x)

Spec == Init /\ [][Next]_vars

\* The runtime runs its tasks, every wait of theirs has a timeout, and a mutex of
\* tokio lets those that wait for it in one after the other.
Fairness ==
  /\ \A t \in Transport : SF_vars(Supervise(t)) /\ WF_vars(Answer(t))
                          /\ WF_vars(Abort(t)) /\ WF_vars(TearDown(t))
                          /\ WF_vars(\E x \in closing : x[2] = t /\ Closed(x))

FairSpec == Spec /\ Fairness

-----------------------------------------------------------------------------
(* Properties. *)

Tab == Int \X Transport \X Int
Step == {"none", "parked", "probe", "take", "ensure", "lock", "launch", "new page", "open",
         "failed", "discard", "aborted", "gone"}

\* The type of every variable; who has the lock is launching, who has a page is
\* opening it, nobody has a handle of the browser without a use for it; and a
\* browser is launched only for the first time or after a trouble.
TypeOK ==
  /\ slot \in 0..next - 1 /\ next \in 1..MaxTroubles + 2 /\ up \subseteq 1..next - 1
  /\ tabs \subseteq Tab /\ broken \subseteq tabs /\ closing \subseteq tabs
  /\ pc \in [Transport -> Step]
  /\ lock \in Transport \cup {None}
  /\ held \subseteq Transport /\ troubles \in 0..MaxTroubles
  /\ caller \in [Transport -> {"idle", "running"}]
  /\ ready \in [Transport -> BOOLEAN] /\ trigger \in [Transport -> BOOLEAN]
  /\ live \in [Transport -> Tab \cup {None}]
  /\ \A t \in Transport :
       /\ page[t] # None <=> pc[t] = "open"
       /\ uses[t] # 0 <=> pc[t] \in {"new page", "open", "failed", "discard"}
       /\ lock = t <=> pc[t] = "launch"

\* At most one browser runs or is being launched, and if one runs that was not
\* seen dead, everybody finds it in the slot: only a dead one is retired, however
\* late its supervisors are.
OneBrowser ==
  /\ Cardinality(up) + Cardinality({t \in Transport : pc[t] = "launch"}) <= 1
  /\ up \subseteq {slot}

\* There is no tab that nobody is going to close.
NoTabLost ==
  \A x \in tabs : \/ x \in closing
                  \/ \E t \in Transport : pc[t] # "gone" /\ x \in {live[t], page[t]}

\* A space that was asked for comes up, again after crashes, unless it is dropped.
EventuallyReady ==
  \A t \in Transport :
    (t \in held /\ (trigger[t] \/ pc[t] # "parked")) ~> (ready[t] /\ Alive(t)) \/ t \notin held
=============================================================================
