-------------------------- MODULE ChromePool_proofs --------------------------
(* Theorems about ChromePool, for any number of transports and troubles.    *)
EXTENDS ChromePool, FiniteSetTheorems, TLAPS

-----------------------------------------------------------------------------
(* The inductive invariant. *)

BrowserTypes ==
  /\ slot \in Nat /\ next \in Nat \ {0} /\ up \subseteq Nat \ {0}
  /\ lock \in Transport \cup {None}
  /\ uses \in [Transport -> Nat] /\ pc \in [Transport -> Step]

PageTypes ==
  /\ tabs \subseteq Tab /\ IsFiniteSet(tabs) /\ broken \subseteq tabs /\ closing \subseteq tabs
  /\ live \in [Transport -> Tab \cup {None}] /\ page \in [Transport -> Tab \cup {None}]

ClientTypes ==
  /\ held \subseteq Transport /\ caller \in [Transport -> {"idle", "running"}]
  /\ ready \in [Transport -> BOOLEAN] /\ trigger \in [Transport -> BOOLEAN]

\* What a supervisor has in hand.
Handles == \A t \in Transport :
  /\ page[t] # None <=> pc[t] = "open"
  /\ uses[t] # 0 <=> pc[t] \in {"new page", "open", "failed", "discard"}
  /\ lock = t <=> pc[t] = "launch"

\* Nothing runs but what is in the slot, nobody launches unless it is empty, and
\* nobody retires what runs.
Generations ==
  /\ slot < next /\ up \subseteq {slot}
  /\ \A t \in Transport : /\ uses[t] < next
                          /\ pc[t] = "launch" => slot = 0
                          /\ pc[t] = "discard" => uses[t] \notin up

\* Each browser but the first one replaces one that died.
Launches ==
  /\ troubles \in 0..MaxTroubles
  /\ next + troubles <= MaxTroubles + IF up = {} THEN 1 ELSE 2

IInv == BrowserTypes /\ PageTypes /\ ClientTypes /\ Handles /\ Generations /\ Launches

\* Nothing is published where it is about to be replaced.
Unpublished == \A t \in Transport :
  pc[t] \in {"ensure", "lock", "launch", "new page", "open"} => live[t] = None

-----------------------------------------------------------------------------
(* Types. *)

\* NewPage finds a name for a page that no other page has.
LEMMA FreshName ==
  ASSUME NEW T, IsFiniteSet(T), NEW g, NEW t
  PROVE  \E n \in 1..Cardinality(T) + 1 : <<g, t, n>> \notin T
<1> DEFINE c == Cardinality(T)
           f == [n \in 1..c + 1 |-> <<g, t, n>>]
<1>1. c \in Nat
  BY FS_CardinalityType
<1>2. IsFiniteSet(1..c + 1) /\ Cardinality(1..c + 1) = c + 1
  BY <1>1, FS_Interval
<1>3. ASSUME \A n \in 1..c + 1 : <<g, t, n>> \in T PROVE FALSE
  <2>1. f \in [1..c + 1 -> T]
    BY <1>3
  <2>2. \A x, y \in 1..c + 1 : x # y => f[x] # f[y]
    OBVIOUS
  <2>3. Cardinality(T) < Cardinality(1..c + 1)
    BY <1>1, <1>2
  <2> HIDE DEF f
  <2>4. \E x, y \in 1..c + 1 : x # y /\ f[x] = f[y]
    BY <2>1, <2>3, <1>2, FS_PigeonHole
  <2> QED BY <2>2, <2>4
<1> QED BY <1>3

LEMMA InitInv == ASSUME Init PROVE IInv
<1>1. MaxTroubles \in Nat /\ None \notin Transport
  BY PoolConstants
<1>2. BrowserTypes /\ ClientTypes
  BY <1>1 DEF Init, BrowserTypes, ClientTypes, Step
<1>3. PageTypes
  BY FS_EmptySet DEF Init, PageTypes
<1>4. Handles /\ Generations /\ Launches
  BY <1>1 DEF Init, Handles, Generations, Launches
<1> QED BY <1>2, <1>3, <1>4 DEF IInv

LEMMA Numbers ==
  ASSUME BrowserTypes, Generations
  PROVE  /\ next \in Nat /\ next + 1 \in Nat \ {0} /\ next < next + 1 /\ slot \in Nat
         /\ \A t \in Transport : uses[t] \in Nat /\ uses[t] < next /\ uses[t] < next + 1
<1>1. next \in Nat /\ next + 1 \in Nat \ {0} /\ next < next + 1 /\ slot \in Nat
  BY DEF BrowserTypes
<1>2. ASSUME NEW t \in Transport PROVE uses[t] \in Nat /\ uses[t] < next
  BY DEF BrowserTypes, Generations
<1> QED BY <1>1, <1>2

LEMMA BrowserTypesStep ==
  ASSUME IInv, [Next]_vars
  PROVE  BrowserTypes'
<1> USE DEF BrowserTypes, browser, pages, super, client, Go, Step
<1>0. BrowserTypes
  BY DEF IInv
<1>1. ASSUME NEW t \in Transport, Register(t) \/ Ask(t) \/ Answer(t) \/ Drop(t) PROVE BrowserTypes'
  BY <1>0, <1>1 DEF Register, Ask, Answer, Drop
<1>2. ASSUME NEW t \in Transport, Abort(t) \/ TearDown(t) PROVE BrowserTypes'
  <2>1. CASE Abort(t)
    <3>1. /\ pc' = [pc EXCEPT ![t] = "aborted"] /\ uses' = [uses EXCEPT ![t] = 0]
          /\ lock' \in {lock, None} /\ slot' = slot /\ next' = next /\ up' = up
      BY <2>1 DEF Abort
    <3> QED BY <1>0, <3>1
  <2>2. CASE TearDown(t)
    BY <1>0, <2>2 DEF TearDown
  <2> QED BY <1>2, <2>1, <2>2
<1>3. ASSUME NEW t \in Transport, Wake(t) \/ FindDead(t) \/ Take(t) \/ Ensure(t) \/ Lock(t)
      PROVE BrowserTypes'
  BY <1>0, <1>3 DEF Wake, FindDead, Take, Ensure, Lock
<1>4. ASSUME NEW t \in Transport, Launched(t) \/ LaunchFails(t) PROVE BrowserTypes'
  <2>1. CASE Launched(t)
    <3>1. /\ slot' = next /\ next' = next + 1 /\ up' = up \cup {next} /\ lock' = None
          /\ uses' = [uses EXCEPT ![t] = next] /\ pc' = [pc EXCEPT ![t] = "new page"]
      BY <2>1 DEF Launched
    <3>2. next + 1 \in Nat \ {0} /\ next \in Nat
      BY Numbers DEF IInv
    <3>3. slot' \in Nat /\ next' \in Nat \ {0} /\ lock' \in Transport \cup {None}
      BY <3>1, <3>2
    <3>4. up' \subseteq Nat \ {0}
      BY <1>0, <3>1
    <3>5. uses' \in [Transport -> Nat]
      BY <1>0, <3>1, <3>2
    <3>6. pc' \in [Transport -> Step]
      BY <1>0, <3>1
    <3> QED BY <3>3, <3>4, <3>5, <3>6
  <2>2. CASE LaunchFails(t)
    BY <1>0, <2>2 DEF LaunchFails
  <2> QED BY <1>4, <2>1, <2>2
<1>5. ASSUME NEW t \in Transport, NewPage(t) \/ OpenFails(t) \/ Publish(t) \/ Failed(t) \/ Discard(t)
      PROVE BrowserTypes'
  <2>1. /\ slot' = slot \/ slot' = 0
        /\ UNCHANGED <<next, lock, up>>
        /\ uses' = uses \/ uses' = [uses EXCEPT ![t] = 0]
    BY <1>5 DEF NewPage, OpenFails, Publish, Failed, Discard
  <2>2. \E to \in {"open", "failed", "probe", "discard"} : pc' = [pc EXCEPT ![t] = to]
    BY <1>5 DEF NewPage, OpenFails, Publish, Failed, Discard
  <2>3. pc' \in [Transport -> Step]
    BY <1>0, <2>2
  <2>4. uses \in [Transport -> Nat] /\ slot \in Nat
    BY <1>0
  <2>5. uses' \in [Transport -> Nat] /\ slot' \in Nat
    BY <2>1, <2>4
  <2>6. next' \in Nat \ {0} /\ up' \subseteq Nat \ {0} /\ lock' \in Transport \cup {None}
    BY <1>0, <2>1
  <2> QED BY <2>3, <2>5, <2>6
<1>6. ASSUME NEW g \in up, BrowserDies(g) PROVE BrowserTypes'
  BY <1>0, <1>6 DEF BrowserDies
<1>7. ASSUME NEW x \in tabs, PageDies(x) \/ Closed(x) PROVE BrowserTypes'
  BY <1>0, <1>7 DEF PageDies, Closed
<1>8. CASE UNCHANGED vars
  BY <1>0, <1>8 DEF vars
<1> QED BY <1>1, <1>2, <1>3, <1>4, <1>5, <1>6, <1>7, <1>8 DEF Next, Supervise

LEMMA ClientTypesStep ==
  ASSUME IInv, [Next]_vars
  PROVE  ClientTypes'
<1> USE DEF ClientTypes, browser, pages, super, client, Go
<1>0. ClientTypes
  BY DEF IInv
<1>1. ASSUME NEW t \in Transport, Register(t) \/ Ask(t) \/ Answer(t) \/ Drop(t) PROVE ClientTypes'
  BY <1>0, <1>1 DEF Register, Ask, Answer, Drop
<1>2. ASSUME NEW t \in Transport, Abort(t) \/ TearDown(t) PROVE ClientTypes'
  BY <1>0, <1>2 DEF Abort, TearDown
<1>3. ASSUME NEW t \in Transport, Wake(t) \/ FindDead(t) \/ Take(t) \/ Ensure(t) \/ Lock(t)
      PROVE ClientTypes'
  BY <1>0, <1>3 DEF Wake, FindDead, Take, Ensure, Lock
<1>4. ASSUME NEW t \in Transport, Launched(t) \/ LaunchFails(t) \/ NewPage(t) PROVE ClientTypes'
  BY <1>0, <1>4 DEF Launched, LaunchFails, NewPage
<1>5. ASSUME NEW t \in Transport, OpenFails(t) \/ Publish(t) \/ Failed(t) \/ Discard(t)
      PROVE ClientTypes'
  BY <1>0, <1>5 DEF OpenFails, Publish, Failed, Discard
<1>6. ASSUME NEW g \in up, BrowserDies(g) PROVE ClientTypes'
  BY <1>0, <1>6 DEF BrowserDies
<1>7. ASSUME NEW x \in tabs, PageDies(x) \/ Closed(x) PROVE ClientTypes'
  BY <1>0, <1>7 DEF PageDies, Closed
<1>8. CASE UNCHANGED vars
  BY <1>0, <1>8 DEF vars
<1> QED BY <1>1, <1>2, <1>3, <1>4, <1>5, <1>6, <1>7, <1>8 DEF Next, Supervise

LEMMA PageTypesStep ==
  ASSUME IInv, [Next]_vars
  PROVE  PageTypes'
<1> USE DEF PageTypes, browser, pages, super, client, Go
<1>0. PageTypes /\ uses \in [Transport -> Nat]
  BY DEF IInv, BrowserTypes
<1>1. ASSUME NEW t \in Transport, Register(t) \/ Ask(t) \/ Answer(t) \/ Drop(t) PROVE PageTypes'
  BY <1>0, <1>1 DEF Register, Ask, Answer, Drop
<1>2. ASSUME NEW t \in Transport, Abort(t) PROVE PageTypes'
  <2> DEFINE x == <<uses[t], t, 0>>
  <2>1. x \in Tab
    BY <1>0 DEF Tab
  <2>2. IsFiniteSet(tabs \cup {x})
    BY <1>0, FS_AddElement
  <2>3. tabs' \in {tabs, tabs \cup {x}} /\ closing' \subseteq tabs
    BY <1>0, <1>2 DEF Abort
  <2>4. broken' = broken /\ live' = live /\ page' = [page EXCEPT ![t] = None]
    BY <1>2 DEF Abort
  <2> HIDE DEF x
  <2>5. tabs' \subseteq Tab /\ IsFiniteSet(tabs') /\ tabs \subseteq tabs'
    BY <1>0, <2>1, <2>2, <2>3
  <2> QED BY <1>0, <2>3, <2>4, <2>5
<1>3. ASSUME NEW t \in Transport, NewPage(t) PROVE PageTypes'
  <2> DEFINE n   == CHOOSE n \in 1..Cardinality(tabs) + 1 : <<uses[t], t, n>> \notin tabs
             new == <<uses[t], t, n>>
  <2>1. n \in 1..Cardinality(tabs) + 1
    BY <1>0, FreshName
  <2>2. new \in Tab
    <3>1. Cardinality(tabs) \in Nat
      BY <1>0, FS_CardinalityType
    <3>2. n \in Int
      BY <2>1, <3>1
    <3> HIDE DEF n
    <3> QED BY <1>0, <3>2 DEF Tab
  <2>3. IsFiniteSet(tabs \cup {new})
    BY <1>0, FS_AddElement
  <2>4. \/ tabs' = tabs \cup {new} /\ page' = [page EXCEPT ![t] = new]
        \/ tabs' = tabs /\ page' = page
    BY <1>3 DEF NewPage
  <2>5. broken' = broken /\ closing' = closing /\ live' = live
    BY <1>3 DEF NewPage
  <2> HIDE DEF new
  <2> QED BY <1>0, <2>2, <2>3, <2>4, <2>5
<1>4. ASSUME NEW t \in Transport, Wake(t) \/ FindDead(t) \/ Take(t) \/ Ensure(t) \/ Lock(t)
      PROVE PageTypes'
  BY <1>0, <1>4 DEF Wake, FindDead, Take, Ensure, Lock
<1>5. ASSUME NEW t \in Transport, Launched(t) \/ LaunchFails(t) \/ TearDown(t) PROVE PageTypes'
  BY <1>0, <1>5 DEF Launched, LaunchFails, TearDown
<1>6. ASSUME NEW t \in Transport, OpenFails(t) \/ Publish(t) \/ Failed(t) \/ Discard(t)
      PROVE PageTypes'
  BY <1>0, <1>6 DEF OpenFails, Publish, Failed, Discard
<1>7. ASSUME NEW g \in up, BrowserDies(g) PROVE PageTypes'
  <2>1. tabs' \subseteq tabs /\ broken' \subseteq tabs' /\ closing' \subseteq tabs'
        /\ live' = live /\ page' = page
    BY <1>7 DEF BrowserDies
  <2>2. IsFiniteSet(tabs')
    BY <1>0, <2>1, FS_Subset
  <2> QED BY <1>0, <2>1, <2>2
<1>8. ASSUME NEW x \in tabs, PageDies(x) PROVE PageTypes'
  BY <1>0, <1>8 DEF PageDies
<1>9. ASSUME NEW x \in tabs, Closed(x) PROVE PageTypes'
  <2>1. tabs' \subseteq tabs /\ broken' \subseteq tabs' /\ closing' \subseteq tabs'
        /\ live' = live /\ page' = page
    BY <1>0, <1>9 DEF Closed
  <2>2. IsFiniteSet(tabs')
    BY <1>0, <2>1, FS_Subset
  <2> QED BY <1>0, <2>1, <2>2
<1>10. CASE UNCHANGED vars
  BY <1>0, <1>10 DEF vars
<1> QED BY <1>1, <1>2, <1>3, <1>4, <1>5, <1>6, <1>7, <1>8, <1>9, <1>10 DEF Next, Supervise

-----------------------------------------------------------------------------
(* What supervisors have in hand. *)

LEMMA HandlesStep ==
  ASSUME IInv, [Next]_vars
  PROVE  Handles'
<1> USE DEF Handles, browser, pages, super, client, Go
<1>0. /\ Handles /\ slot \in Nat /\ next \in Nat \ {0}
      /\ uses \in [Transport -> Nat] /\ pc \in [Transport -> Step]
      /\ page \in [Transport -> Tab \cup {None}] /\ lock \in Transport \cup {None}
      /\ None \notin Transport
  BY PoolConstants DEF IInv, BrowserTypes, PageTypes
<1>1. ASSUME NEW t \in Transport, Register(t) \/ Ask(t) \/ Answer(t) \/ Drop(t) PROVE Handles'
  BY <1>0, <1>1 DEF Register, Ask, Answer, Drop
<1>2. ASSUME NEW t \in Transport, Abort(t) \/ TearDown(t) PROVE Handles'
  BY <1>0, <1>2 DEF Abort, TearDown
<1>3. ASSUME NEW t \in Transport, Wake(t) \/ FindDead(t) \/ Take(t) \/ Ensure(t) PROVE Handles'
  BY <1>0, <1>3 DEF Wake, FindDead, Take, Ensure
<1>4. ASSUME NEW t \in Transport, Lock(t) PROVE Handles'
  <2>1. /\ pc[t] = "lock" /\ lock = None /\ page' = page
        /\ \/ lock' = t /\ pc' = [pc EXCEPT ![t] = "launch"] /\ uses' = uses
           \/ /\ slot # 0 /\ lock' = lock /\ pc' = [pc EXCEPT ![t] = "new page"]
              /\ uses' = [uses EXCEPT ![t] = slot]
    BY <1>4 DEF Lock
  <2>2. \A s \in Transport : lock # s /\ pc[s] # "launch"
    BY <1>0, <2>1
  <2>3. CASE lock' = t /\ pc' = [pc EXCEPT ![t] = "launch"] /\ uses' = uses
    <3>1. \A s \in Transport \ {t} : pc'[s] = pc[s] /\ lock' # s
      BY <1>0, <2>3
    <3>2. pc'[t] = "launch" /\ uses'[t] = 0
      BY <1>0, <2>1, <2>3
    <3> QED BY <1>0, <2>1, <2>2, <2>3, <3>1, <3>2
  <2>4. CASE /\ slot # 0 /\ lock' = lock /\ pc' = [pc EXCEPT ![t] = "new page"]
             /\ uses' = [uses EXCEPT ![t] = slot]
    <3>1. \A s \in Transport \ {t} : pc'[s] = pc[s] /\ uses'[s] = uses[s]
      BY <1>0, <2>4
    <3>2. pc'[t] = "new page" /\ uses'[t] # 0
      BY <1>0, <2>4
    <3> QED BY <1>0, <2>1, <2>2, <2>4, <3>1, <3>2
  <2> QED BY <2>1, <2>3, <2>4
<1>5. ASSUME NEW t \in Transport, Launched(t) \/ LaunchFails(t) PROVE Handles'
  BY <1>0, <1>5 DEF Launched, LaunchFails
<1>6. ASSUME NEW t \in Transport, NewPage(t) PROVE Handles'
  <2> DEFINE new == <<uses[t], t, CHOOSE n \in 1..Cardinality(tabs) + 1 :
                                    <<uses[t], t, n>> \notin tabs>>
  <2>1. new # None
    <3> DEFINE n == CHOOSE n \in 1..Cardinality(tabs) + 1 : <<uses[t], t, n>> \notin tabs
    <3>1. IsFiniteSet(tabs)
      BY DEF IInv, PageTypes
    <3>2. n \in Int
      <4>1. Cardinality(tabs) \in Nat
        BY <3>1, FS_CardinalityType
      <4>2. n \in 1..Cardinality(tabs) + 1
        BY <3>1, FreshName
      <4> HIDE DEF n
      <4> QED BY <4>1, <4>2
    <3> HIDE DEF n
    <3>3. <<uses[t], t, n>> \in Int \X Transport \X Int
      <4>1. uses[t] \in Nat
        <5>1. BrowserTypes
          BY DEF IInv
        <5> QED BY <5>1 DEF BrowserTypes
      <4>2. uses[t] \in Int
        BY <4>1
      <4> QED BY <3>2, <4>2
    <3> QED BY <3>3, PoolConstants DEF n
  <2>2. /\ pc[t] = "new page" /\ uses' = uses /\ lock' = lock
        /\ \/ page' = [page EXCEPT ![t] = new] /\ pc' = [pc EXCEPT ![t] = "open"]
           \/ page' = page /\ pc' = [pc EXCEPT ![t] = "failed"]
    BY <1>6 DEF NewPage
  <2> HIDE DEF new
  <2> QED BY <1>0, <2>1, <2>2
<1>7. ASSUME NEW t \in Transport, OpenFails(t) \/ Publish(t) PROVE Handles'
  BY <1>0, <1>7 DEF OpenFails, Publish
<1>8. ASSUME NEW t \in Transport, Failed(t) \/ Discard(t) PROVE Handles'
  BY <1>0, <1>8 DEF Failed, Discard
<1>9. ASSUME NEW g \in up, BrowserDies(g) PROVE Handles'
  BY <1>0, <1>9 DEF BrowserDies
<1>10. ASSUME NEW x \in tabs, PageDies(x) \/ Closed(x) PROVE Handles'
  BY <1>0, <1>10 DEF PageDies, Closed
<1>11. CASE UNCHANGED vars
  BY <1>0, <1>11 DEF vars
<1> QED BY <1>1, <1>2, <1>3, <1>4, <1>5, <1>6, <1>7, <1>8, <1>9, <1>10, <1>11 DEF Next, Supervise

-----------------------------------------------------------------------------
(* The browser and its generations. *)

LEMMA GenerationsStep ==
  ASSUME IInv, [Next]_vars
  PROVE  Generations'
<1> USE DEF Generations, browser, pages, super, client, Go
<1>0. /\ Generations /\ slot \in Nat /\ next \in Nat \ {0} /\ up \subseteq Nat \ {0}
      /\ uses \in [Transport -> Nat] /\ pc \in [Transport -> Step]
  BY DEF IInv, BrowserTypes
<1>1. ASSUME NEW t \in Transport, Register(t) \/ Ask(t) \/ Answer(t) \/ Drop(t) PROVE Generations'
  BY <1>0, <1>1 DEF Register, Ask, Answer, Drop
<1>2. ASSUME NEW t \in Transport, Abort(t) \/ TearDown(t) PROVE Generations'
  <2>1. /\ UNCHANGED <<slot, next, up>>
        /\ \E to \in {"aborted", "gone"} : pc' = [pc EXCEPT ![t] = to]
        /\ uses' = uses \/ uses' = [uses EXCEPT ![t] = 0]
    BY <1>2 DEF Abort, TearDown
  <2> QED BY <1>0, <2>1
<1>3. ASSUME NEW t \in Transport, Wake(t) \/ FindDead(t) \/ Take(t) \/ Ensure(t) PROVE Generations'
  BY <1>0, <1>3 DEF Wake, FindDead, Take, Ensure
<1>4. ASSUME NEW t \in Transport, Lock(t) PROVE Generations'
  BY <1>0, <1>4 DEF Lock
<1>5. ASSUME NEW t \in Transport, Launched(t) PROVE Generations'
  <2>1. /\ slot' = next /\ next' = next + 1 /\ up' = up \cup {next}
        /\ uses' = [uses EXCEPT ![t] = next] /\ pc' = [pc EXCEPT ![t] = "new page"]
        /\ pc[t] = "launch"
    BY <1>5 DEF Launched
  <2>2. up = {}
    BY <1>0, <2>1
  <2>3. \A s \in Transport : pc[s] = "launch" => s = t
    BY <2>1 DEF IInv, Handles
  <2>4. slot' < next' /\ up' \subseteq {slot'}
    <3>1. next < next + 1
      BY Numbers DEF IInv
    <3> QED BY <2>1, <2>2, <3>1
  <2>5. \A s \in Transport : uses'[s] < next'
    <3>1. next < next + 1 /\ \A s \in Transport : uses[s] < next + 1
      BY Numbers DEF IInv
    <3> QED BY <1>0, <2>1, <3>1
  <2>6. \A s \in Transport : pc'[s] # "launch"
    BY <1>0, <2>1, <2>3
  <2>7. ASSUME NEW s \in Transport, pc'[s] = "discard" PROVE uses'[s] \notin up'
    <3>1. s # t /\ pc[s] = "discard" /\ uses'[s] = uses[s]
      BY <1>0, <2>1, <2>7
    <3>2. uses[s] < next /\ up' = {next}
      BY <1>0, <2>1, <2>2
    <3> QED BY <1>0, <3>1, <3>2
  <2> QED BY <2>4, <2>5, <2>6, <2>7
<1>6. ASSUME NEW t \in Transport, LaunchFails(t) \/ NewPage(t) \/ OpenFails(t) \/ Publish(t)
      PROVE Generations'
  <2>1. /\ UNCHANGED <<slot, next, up>>
        /\ \E to \in {"probe", "open", "failed"} : pc' = [pc EXCEPT ![t] = to]
        /\ uses' = uses \/ uses' = [uses EXCEPT ![t] = 0]
    BY <1>6 DEF LaunchFails, NewPage, OpenFails, Publish
  <2> QED BY <1>0, <2>1
<1>7. ASSUME NEW t \in Transport, Failed(t) PROVE Generations'
  BY <1>0, <1>7 DEF Failed
<1>8. ASSUME NEW t \in Transport, Discard(t) PROVE Generations'
  BY <1>0, <1>8 DEF Discard
<1>9. ASSUME NEW g \in up, BrowserDies(g) PROVE Generations'
  BY <1>0, <1>9 DEF BrowserDies
<1>10. ASSUME NEW x \in tabs, PageDies(x) \/ Closed(x) PROVE Generations'
  BY <1>0, <1>10 DEF PageDies, Closed
<1>11. CASE UNCHANGED vars
  BY <1>0, <1>11 DEF vars
<1> QED BY <1>1, <1>2, <1>3, <1>4, <1>5, <1>6, <1>7, <1>8, <1>9, <1>10, <1>11 DEF Next, Supervise

LEMMA LaunchesStep ==
  ASSUME IInv, [Next]_vars
  PROVE  Launches'
<1> USE DEF Launches, browser
<1>0. /\ Launches /\ next \in Nat /\ MaxTroubles \in Nat
      /\ up \subseteq {slot} /\ up \subseteq Nat \ {0}
  BY PoolConstants DEF IInv, BrowserTypes, Generations
<1>1. ASSUME NEW t \in Transport, Launched(t) PROVE Launches'
  <2>1. next' = next + 1 /\ troubles' = troubles /\ up' # {} /\ slot = 0
    BY <1>1 DEF Launched, IInv, Generations
  <2>2. up = {}
    BY <1>0, <2>1
  <2> QED BY <1>0, <2>1, <2>2
<1>2. ASSUME NEW g \in up, BrowserDies(g) PROVE Launches'
  <2>1. next' = next /\ troubles > 0 /\ troubles' = troubles - 1 /\ up # {}
    BY <1>2 DEF BrowserDies, Suffer
  <2> QED BY <1>0, <2>1
<1>3. ASSUME next' = next, up' = up,
             troubles' = troubles \/ (troubles > 0 /\ troubles' = troubles - 1)
      PROVE  Launches'
  BY <1>0, <1>3
<1>4. ASSUME NEW t \in Transport, Register(t) \/ Ask(t) \/ Answer(t) \/ Drop(t) \/ Abort(t) \/ TearDown(t)
      PROVE Launches'
  BY <1>3, <1>4 DEF Register, Ask, Answer, Drop, Abort, TearDown
<1>5. ASSUME NEW t \in Transport, Wake(t) \/ FindDead(t) \/ Take(t) \/ Ensure(t) \/ Lock(t)
      PROVE Launches'
  BY <1>3, <1>5 DEF Wake, FindDead, Take, Ensure, Lock
<1>6. ASSUME NEW t \in Transport, LaunchFails(t) \/ NewPage(t) \/ OpenFails(t) PROVE Launches'
  BY <1>3, <1>6 DEF LaunchFails, NewPage, OpenFails, Suffer
<1>7. ASSUME NEW t \in Transport, Publish(t) \/ Failed(t) \/ Discard(t) PROVE Launches'
  BY <1>3, <1>7 DEF Publish, Failed, Discard
<1>8. ASSUME NEW x \in tabs, PageDies(x) \/ Closed(x) PROVE Launches'
  BY <1>3, <1>8 DEF PageDies, Closed, Suffer
<1>9. CASE UNCHANGED vars
  BY <1>3, <1>9 DEF vars
<1> QED BY <1>1, <1>2, <1>4, <1>5, <1>6, <1>7, <1>8, <1>9 DEF Next, Supervise

LEMMA InvStep == IInv /\ [Next]_vars => IInv'
<1> SUFFICES ASSUME IInv, [Next]_vars PROVE IInv'
  OBVIOUS
<1> QED
  BY BrowserTypesStep, PageTypesStep, ClientTypesStep, HandlesStep, GenerationsStep, LaunchesStep
  DEF IInv

LEMMA Invariance == Spec => []IInv
BY InitInv, InvStep, PTL DEF Spec

-----------------------------------------------------------------------------
\* The type invariant, for any number of transports: with it, that a browser is launched
\* only for the first time or after a trouble (ensure_browser, discard_browser).
THEOREM PoolTypes == Spec => []TypeOK
<1>1. IInv => TypeOK
  <2> SUFFICES ASSUME IInv PROVE TypeOK
    OBVIOUS
  <2>1. MaxTroubles \in Nat /\ slot \in Nat /\ next \in Nat \ {0} /\ troubles \in 0..MaxTroubles
        /\ up \subseteq Nat \ {0} /\ up \subseteq {slot} /\ slot < next
    BY PoolConstants DEF IInv, BrowserTypes, Generations, Launches
  <2>2. next <= MaxTroubles + 2
    BY <2>1 DEF IInv, Launches
  <2>3. slot \in 0..next - 1 /\ next \in 1..MaxTroubles + 2 /\ up \subseteq 1..next - 1
    BY <2>1, <2>2
  <2> QED BY <2>1, <2>3 DEF TypeOK, IInv, BrowserTypes, PageTypes, ClientTypes, Handles
<1> QED BY <1>1, Invariance, PTL

\* At most one browser runs or is being launched, whatever dies and whoever is aborted in
\* the middle of a launch; a browser that runs is the one in the slot (discard_browser).
THEOREM BrowserUnique == Spec => []OneBrowser
<1>1. IInv => OneBrowser
  <2> DEFINE L == {t \in Transport : pc[t] = "launch"}
  <2> SUFFICES ASSUME IInv PROVE OneBrowser
    OBVIOUS
  <2>1. up \subseteq {slot} /\ up \subseteq Nat \ {0}
    BY DEF IInv, Generations, BrowserTypes
  <2>2. L \subseteq {lock}
    BY DEF IInv, Handles
  <2>3. \A S, x : S \subseteq {x} => Cardinality(S) \in {0, 1}
    <3> SUFFICES ASSUME NEW S, NEW x, S \subseteq {x} PROVE Cardinality(S) \in {0, 1}
      OBVIOUS
    <3>1. S = {} \/ S = {x}
      OBVIOUS
    <3> QED BY <3>1, FS_EmptySet, FS_Singleton
  <2>4. up = {} \/ L = {}
    BY <2>1 DEF IInv, Generations
  <2>5. Cardinality(up) \in {0, 1} /\ Cardinality(L) \in {0, 1}
    BY <2>1, <2>2, <2>3
  <2>6. Cardinality(up) = 0 \/ Cardinality(L) = 0
    BY <2>4, FS_EmptySet
  <2> HIDE DEF L
  <2>7. Cardinality(up) + Cardinality(L) <= 1
    BY <2>5, <2>6
  <2> QED BY <2>1, <2>7 DEF OneBrowser, L
<1> QED BY <1>1, Invariance, PTL

-----------------------------------------------------------------------------
(* Tabs. *)

LEMMA UnpublishedStep ==
  ASSUME IInv, Unpublished, [Next]_vars
  PROVE  Unpublished'
<1> USE DEF Unpublished, browser, pages, super, client, Go
<1>0. /\ Unpublished /\ pc \in [Transport -> Step]
      /\ live \in [Transport -> Tab \cup {None}]
  BY DEF IInv, BrowserTypes, PageTypes
<1>1. ASSUME NEW t \in Transport, Register(t) \/ Ask(t) \/ Answer(t) \/ Drop(t) PROVE Unpublished'
  BY <1>0, <1>1 DEF Register, Ask, Answer, Drop
<1>2. ASSUME NEW t \in Transport, Abort(t) \/ TearDown(t) PROVE Unpublished'
  BY <1>0, <1>2 DEF Abort, TearDown
<1>3. ASSUME NEW t \in Transport, Wake(t) \/ FindDead(t) \/ Take(t) \/ Ensure(t) \/ Lock(t)
      PROVE Unpublished'
  BY <1>0, <1>3 DEF Wake, FindDead, Take, Ensure, Lock
<1>4. ASSUME NEW t \in Transport, Launched(t) \/ LaunchFails(t) \/ NewPage(t) PROVE Unpublished'
  BY <1>0, <1>4 DEF Launched, LaunchFails, NewPage
<1>5. ASSUME NEW t \in Transport, OpenFails(t) \/ Publish(t) \/ Failed(t) \/ Discard(t)
      PROVE Unpublished'
  BY <1>0, <1>5 DEF OpenFails, Publish, Failed, Discard
<1>6. ASSUME NEW g \in up, BrowserDies(g) PROVE Unpublished'
  BY <1>0, <1>6 DEF BrowserDies
<1>7. ASSUME NEW x \in tabs, PageDies(x) \/ Closed(x) PROVE Unpublished'
  BY <1>0, <1>7 DEF PageDies, Closed
<1>8. CASE UNCHANGED vars
  BY <1>0, <1>8 DEF vars
<1> QED BY <1>1, <1>2, <1>3, <1>4, <1>5, <1>6, <1>7, <1>8 DEF Next, Supervise

\* One step: a tab that its transport lets go is being closed.
LEMMA TabStep ==
  ASSUME IInv, Unpublished, NoTabLost, [Next]_vars, "inside" \notin Troubles
  PROVE  NoTabLost'
<1> USE DEF NoTabLost, browser, pages, super, client, Go
<1>0. /\ NoTabLost /\ Unpublished /\ pc \in [Transport -> Step]
      /\ page \in [Transport -> Tab \cup {None}] /\ live \in [Transport -> Tab \cup {None}]
      /\ tabs \subseteq Tab /\ None \notin Tab /\ closing \subseteq tabs
      /\ \A t \in Transport : page[t] # None <=> pc[t] = "open"
  BY PoolConstants DEF IInv, BrowserTypes, PageTypes, Handles, Tab
<1>1. ASSUME NEW t \in Transport, Register(t) \/ Ask(t) \/ Answer(t) \/ Drop(t) PROVE NoTabLost'
  BY <1>0, <1>1 DEF Register, Ask, Answer, Drop
<1>2. ASSUME NEW t \in Transport, Abort(t) PROVE NoTabLost'
  BY <1>0, <1>2 DEF Abort, May
<1>3. ASSUME NEW t \in Transport, TearDown(t) PROVE NoTabLost'
  BY <1>0, <1>3 DEF TearDown
<1>4. ASSUME NEW t \in Transport, Wake(t) \/ FindDead(t) \/ Ensure(t) \/ Lock(t) PROVE NoTabLost'
  BY <1>0, <1>4 DEF Wake, FindDead, Ensure, Lock
<1>5. ASSUME NEW t \in Transport, Take(t) PROVE NoTabLost'
  BY <1>0, <1>5 DEF Take
<1>6. ASSUME NEW t \in Transport, Launched(t) \/ LaunchFails(t) PROVE NoTabLost'
  BY <1>0, <1>6 DEF Launched, LaunchFails
<1>7. ASSUME NEW t \in Transport, NewPage(t) PROVE NoTabLost'
  <2> DEFINE new == <<uses[t], t, CHOOSE n \in 1..Cardinality(tabs) + 1 :
                                    <<uses[t], t, n>> \notin tabs>>
  <2>1. /\ pc[t] = "new page" /\ live' = live /\ closing' = closing
        /\ \/ /\ page' = [page EXCEPT ![t] = new] /\ pc' = [pc EXCEPT ![t] = "open"]
              /\ tabs' = tabs \cup {new}
           \/ page' = page /\ pc' = [pc EXCEPT ![t] = "failed"] /\ tabs' = tabs
    BY <1>7 DEF NewPage
  <2> HIDE DEF new
  <2>2. page[t] = None /\ pc'[t] # "gone" /\ pc[t] # "gone"
    BY <1>0, <2>1
  <2>3. \A s \in Transport : pc'[s] = "gone" <=> pc[s] = "gone"
    BY <1>0, <2>1, <2>2
  <2>4. ASSUME NEW x \in tabs PROVE \/ x \in closing'
                                   \/ \E s \in Transport : pc'[s] # "gone" /\ x \in {live'[s], page'[s]}
    <3>1. CASE x \in closing
      BY <2>1, <3>1
    <3>2. ASSUME NEW s \in Transport, pc[s] # "gone", x \in {live[s], page[s]}
          PROVE  pc'[s] # "gone" /\ x \in {live'[s], page'[s]}
      <4>1. x # None
        BY <1>0
      <4>2. page'[s] = page[s] \/ page[s] = None
        BY <1>0, <2>1, <2>2
      <4> QED BY <2>1, <2>3, <3>2, <4>1, <4>2
    <3> QED BY <1>0, <3>1, <3>2
  <2>5. tabs' = tabs \/ (tabs' = tabs \cup {new} /\ page'[t] = new)
    BY <1>0, <2>1
  <2> QED BY <2>2, <2>4, <2>5
<1>8. ASSUME NEW t \in Transport, OpenFails(t) PROVE NoTabLost'
  BY <1>0, <1>8 DEF OpenFails
<1>9. ASSUME NEW t \in Transport, Publish(t) PROVE NoTabLost'
  <2>1. live[t] = None
    BY <1>0, <1>9 DEF Publish, Unpublished
  <2> QED BY <1>0, <1>9, <2>1 DEF Publish
<1>10. ASSUME NEW t \in Transport, Failed(t) \/ Discard(t) PROVE NoTabLost'
  BY <1>0, <1>10 DEF Failed, Discard
<1>11. ASSUME NEW g \in up, BrowserDies(g) PROVE NoTabLost'
  BY <1>0, <1>11 DEF BrowserDies
<1>12. ASSUME NEW x \in tabs, PageDies(x) \/ Closed(x) PROVE NoTabLost'
  BY <1>0, <1>12 DEF PageDies, Closed
<1>13. CASE UNCHANGED vars
  BY <1>0, <1>13 DEF vars
<1> QED BY <1>1, <1>2, <1>3, <1>4, <1>5, <1>6, <1>7, <1>8, <1>9, <1>10, <1>11, <1>12, <1>13
        DEF Next, Supervise

\* No renderer is abandoned: wherever a supervisor is aborted, but inside new_page, the page
\* it has opened is closed by its guard, or was published and is closed by the teardown.
THEOREM TabsKept ==
  ASSUME "inside" \notin Troubles
  PROVE  Spec => []NoTabLost
<1>1. Init => Unpublished /\ NoTabLost
  BY DEF Init, Unpublished, NoTabLost
<1>2. IInv /\ Unpublished /\ NoTabLost /\ [Next]_vars => (Unpublished /\ NoTabLost)'
  BY UnpublishedStep, TabStep
<1> QED BY <1>1, <1>2, Invariance, PTL DEF Spec
=============================================================================
