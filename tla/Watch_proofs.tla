---------------------------- MODULE Watch_proofs ----------------------------
(* Theorems about Watch, for any number of files, changes and troubles, and *)
(* any thresholds.                                                         *)
EXTENDS Watch, FiniteSetTheorems, SequenceTheorems, TLAPS

\* There is no flush, one that waits for its timer, or one that is under way.
Idle == due = 0 /\ flushes = << >>
Due  == due = 1 /\ flushes = << >>
Busy == due = 0 /\ \E f : flushes = <<f>>

FlushInv ==
  /\ Idle \/ Due \/ Busy
  /\ timer \in BOOLEAN /\ stopped \in BOOLEAN
  /\ IF stopped THEN due = 0 /\ conn = "closed" ELSE timer <=> ~Idle

LEMMA InitFlush == Init => FlushInv
BY DEF Init, FlushInv, Idle

\* A step that leaves the flushes alone, and a connection that was closed.
LEMMA Quiet ==
  ASSUME FlushInv, UNCHANGED client, conn = "closed" => conn' = "closed"
  PROVE  FlushInv'
BY DEF FlushInv, Idle, Due, Busy, client

\* A step of a flush that goes on, or ends.
LEMMA FlushGoes ==
  ASSUME FlushInv, NEW i \in DOMAIN flushes, NEW g, Goes(i, g),
         UNCHANGED <<timer, due, stopped, conn>>
  PROVE  FlushInv'
<1>1. PICK f : flushes = <<f>>
  BY DEF FlushInv, Idle, Due, Busy
<1>2. i = 1
  BY <1>1
<1>3. flushes' = <<g>>
  BY <1>1, <1>2 DEF Goes
<1>4. due = 0 /\ flushes # << >> /\ flushes' # << >>
  BY <1>1, <1>3 DEF FlushInv, Idle, Due, Busy
<1> QED BY <1>3, <1>4 DEF FlushInv, Idle, Due, Busy

LEMMA FlushOver ==
  ASSUME FlushInv, NEW i \in DOMAIN flushes, FlushEnds(i)
  PROVE  FlushInv'
<1> DEFINE again == Waiting /\ ~stopped
<1>1. PICK f : flushes = <<f>>
  BY DEF FlushInv, Idle, Due, Busy
<1>2. i = 1
  BY <1>1
<1>3. flushes' = << >>
  <2>1. flushes' = RemoveAt(<<f>>, 1)
    BY <1>1, <1>2 DEF FlushEnds, FlushDone
  <2>2. RemoveAt(<<f>>, 1) = << >>
    BY DEF RemoveAt
  <2> QED BY <2>1, <2>2
<1>4. due = 0
  BY <1>1 DEF FlushInv, Idle, Due, Busy
<1>5. /\ timer' = again /\ due' = IF again THEN 1 ELSE 0
      /\ UNCHANGED <<stopped, conn>>
  BY <1>4 DEF FlushEnds, FlushDone, link
<1>6. again \in BOOLEAN /\ (again => ~stopped)
  OBVIOUS
<1> HIDE DEF again
<1> QED BY <1>3, <1>5, <1>6 DEF FlushInv, Idle, Due, Busy

LEMMA FlushInvStep == FlushInv /\ [Next]_vars => FlushInv'
<1> SUFFICES ASSUME FlushInv, [Next]_vars PROVE FlushInv'
  OBVIOUS
<1>1. ASSUME NEW p \in Path, Edit(p) \/ Receive(p) \/ StatFails(p) PROVE FlushInv'
  BY <1>1, Quiet DEF Edit, Receive, StatFails, link
<1>2. ASSUME NEW ready \in SUBSET pending, Debounce(ready) PROVE FlushInv'
  BY <1>2, Quiet DEF Debounce, link
<1>3. CASE Stop \/ Start \/ Break
  BY <1>3, Quiet DEF Stop, Start, Break, Subscribed, link
<1>4. CASE Subscribe \/ Opened \/ Refused \/ Onerror \/ Connect
  BY <1>4, Quiet DEF Subscribe, Opened, Refused, Onerror, Connect
<1>5. CASE Wipe
  <2>1. /\ ~stopped /\ stopped' = TRUE /\ conn' = "closed" /\ timer' = FALSE /\ flushes' = flushes
        /\ due' = IF timer /\ flushes = << >> THEN 0 ELSE due
    BY <1>5 DEF Wipe
  <2>2. due' = 0
    BY <2>1 DEF FlushInv, Idle, Due, Busy
  <2>3. Idle' \/ Busy'
    BY <2>1, <2>2 DEF FlushInv, Idle, Due, Busy
  <2> QED BY <2>1, <2>2, <2>3 DEF FlushInv
<1>6. CASE Message
  <2>1. /\ conn = "open" /\ timer' = TRUE /\ due' = (IF timer THEN due ELSE due + 1)
        /\ UNCHANGED <<flushes, stopped, conn>>
    BY <1>6 DEF Message, link
  <2>2. ~stopped
    BY <2>1 DEF FlushInv
  <2>3. CASE timer
    <3>1. due' = due /\ ~Idle
      BY <2>1, <2>2, <2>3 DEF FlushInv
    <3> QED BY <2>1, <2>2, <3>1 DEF FlushInv, Idle, Due, Busy
  <2>4. CASE ~timer
    <3>1. due = 0 /\ flushes = << >>
      BY <2>2, <2>4 DEF FlushInv, Idle
    <3>2. Due' /\ ~Idle'
      BY <2>1, <2>4, <3>1 DEF Due, Idle
    <3> QED BY <2>1, <2>2, <3>2 DEF FlushInv
  <2> QED BY <2>3, <2>4 DEF FlushInv
<1>7. CASE Flush
  <2>1. /\ due > 0 /\ due' = due - 1 /\ (\E f : flushes' = Append(flushes, f))
        /\ UNCHANGED <<timer, stopped, conn>>
    BY <1>7 DEF Flush, TakeBatch, link
  <2>2. due = 1 /\ flushes = << >>
    BY <2>1 DEF FlushInv, Idle, Due, Busy
  <2>3. PICK f : flushes' = <<f>>
    BY <2>1, <2>2
  <2>4. Busy' /\ ~Idle'
    <3>1. due' = 0 /\ flushes' # << >>
      BY <2>1, <2>2, <2>3
    <3> QED BY <2>3, <3>1 DEF Busy, Idle
  <2>5. ~Idle /\ ~stopped
    BY <2>2 DEF FlushInv, Idle
  <2> QED BY <2>1, <2>4, <2>5 DEF FlushInv
<1>8. ASSUME NEW i \in DOMAIN flushes, SyncSpace(i) \/ List(i) PROVE FlushInv'
  <2>1. PICK g : Goes(i, g)
    BY <1>8 DEF SyncSpace, List
  <2> QED BY <1>8, <2>1, FlushGoes DEF SyncSpace, List, link
<1>9. ASSUME NEW i \in DOMAIN flushes, NEW p \in Path, SyncFile(i, p) \/ Probe(i, p) PROVE FlushInv'
  <2>1. PICK g : Goes(i, g)
    BY <1>9 DEF SyncFile, Probe
  <2> QED BY <1>9, <2>1, FlushGoes DEF SyncFile, Probe, link
<1>10. CASE CatchUp
  BY <1>10, Quiet DEF CatchUp
<1>11. CASE Poll \/ UNCHANGED vars
  BY <1>11, Quiet DEF Poll, vars, link
<1> QED
  BY <1>1, <1>2, <1>3, <1>4, <1>5, <1>6, <1>7, <1>8, <1>9, <1>10, <1>11, FlushOver
  DEF Next, FlushStep

\* The flushes of a page never overlap, flushTimer tells whether there is one, and stop()
\* leaves at most the one under way (handleEvent, runFlush).
THEOREM FlushesApart == Spec => []OneFlush
<1>1. FlushInv => OneFlush
  <2> SUFFICES ASSUME FlushInv PROVE OneFlush
    OBVIOUS
  <2>1. /\ Idle => due + Len(flushes) = 0
        /\ Due => due + Len(flushes) = 1
        /\ Busy => due + Len(flushes) = 1
    <3>1. Len(<< >>) = 0 /\ \A f : Len(<<f>>) = 1
      OBVIOUS
    <3>2. CASE Idle
      BY <3>1, <3>2 DEF Idle, Due, Busy
    <3>3. CASE Due
      BY <3>1, <3>3 DEF Idle, Due, Busy
    <3>4. CASE Busy
      <4>1. PICK f : flushes = <<f>>
        BY <3>4 DEF Busy
      <4> QED BY <3>1, <3>4, <4>1 DEF Idle, Due, Busy
    <3> QED BY <3>2, <3>3, <3>4
  <2>2. Idle \/ Due \/ Busy
    BY DEF FlushInv
  <2>3. due + Len(flushes) \in {0, 1} /\ (due + Len(flushes) = 1 <=> ~Idle)
    BY <2>1, <2>2
  <2>4. IF stopped THEN due = 0 /\ conn = "closed" ELSE timer <=> ~Idle
    BY DEF FlushInv
  <2>5. due + Len(flushes) <= 1
    BY <2>3
  <2> QED BY <2>3, <2>4, <2>5 DEF OneFlush
<1> QED BY <1>1, InitFlush, FlushInvStep, PTL DEF Spec
-----------------------------------------------------------------------------
(* Types. *)

Ev     == {Resync} \cup [name : Path, action : {"change", "delete"}]
Flight == [pc : {"files", "probe", "sync", "list"}, todo : SUBSET Path, file : Name,
           gone : SUBSET Path]

Copies == disk \in [Path -> Nat] /\ local \in [Path -> Nat] /\ seen \in [Path -> Nat]
Flags  == /\ sw \in BOOLEAN /\ up \in BOOLEAN /\ lagged \in BOOLEAN /\ ever \in BOOLEAN
          /\ catchup \in BOOLEAN
Stream == /\ raw \subseteq Path /\ pending \subseteq Path
          /\ inbox \in Seq(Ev) /\ Len(inbox) <= Capacity
Work   == /\ queue \in [Name -> {"none", "change", "delete", "resync"}]
          /\ queue[None] \in {"none", "resync"} /\ \A p \in Path : queue[p] # "resync"
          /\ flushes \in Seq(Flight)
Limits == missed \subseteq Path /\ edits \in 0..MaxEdits /\ troubles \in 0..MaxTroubles
Link   == conn \in {"connecting", "subscribed", "open", "broken", "waiting", "off", "closed"}

Types == Copies /\ Flags /\ Stream /\ Work /\ Limits /\ Link

\* SetToSeq lists every path once.
LEMMA Ordered ==
  ASSUME NEW S \in SUBSET Path
  PROVE  /\ Cardinality(S) \in Nat
         /\ SetToSeq(S) \in [1..Cardinality(S) -> S]
         /\ \A p \in S : \E i \in 1..Cardinality(S) : SetToSeq(S)[i] = p
<1> DEFINE n == Cardinality(S)
           f == SetToSeq(S)
<1>1. IsFiniteSet(S) /\ n \in Nat
  BY WatchConstants, FS_Subset, FS_CardinalityType
<1>2. \E g \in [1..n -> S] : IsInjective(g)
  <2>1. ExistsBijection(1..n, S)
    BY <1>1, FS_CardinalityType
  <2> QED BY <2>1 DEF ExistsBijection, Bijection, Injection, IsInjective
<1>3. f \in [1..n -> S] /\ IsInjective(f)
  BY <1>2 DEF SetToSeq
<1>4. f \in Surjection(1..n, S)
  <2>1. f \in Injection(1..n, S)
    BY <1>3 DEF Injection
  <2>2. Cardinality(1..n) = n
    BY <1>1, FS_Interval
  <2> HIDE DEF f, n
  <2> QED BY <1>1, <2>1, <2>2, FS_Injection DEF n
<1> QED BY <1>1, <1>3, <1>4 DEF Surjection

LEMMA EventTypes ==
  /\ Resync \in Ev /\ Resync.name = None /\ Resync.action = "resync"
  /\ \A p \in Path : Event(p) \in Ev
  /\ \A e \in Ev : e # Resync => e.name \in Path /\ e.action \in {"change", "delete"}
  /\ \A p \in Path : Event(p).name = p /\ Event(p).action \in {"change", "delete"}
BY DEF Resync, Event, Ev, Name

\* What is announced: a resync, or every path by what is on disk.
LEMMA Announced ==
  ASSUME NEW ready \in SUBSET Path
  PROVE  /\ Events(ready) \in Seq(Ev)
         /\ \/ Events(ready) = <<Resync>>
            \/ /\ \A i \in DOMAIN Events(ready) :
                    \E p \in ready : Events(ready)[i] = Event(p)
               /\ \A p \in ready : \E i \in DOMAIN Events(ready) : Events(ready)[i] = Event(p)
<1> DEFINE n == Cardinality(ready)
           f == SetToSeq(ready)
           e == [i \in DOMAIN f |-> Event(f[i])]
<1>1. n \in Nat /\ f \in [1..n -> ready] /\ \A p \in ready : \E i \in 1..n : f[i] = p
  BY Ordered
<1>2. e \in Seq(Ev)
  <2>1. e \in [1..n -> Ev]
    BY <1>1, EventTypes
  <2> HIDE DEF e
  <2> QED BY <1>1, <2>1
<1>3. \A i \in DOMAIN e : \E p \in ready : e[i] = Event(p)
  BY <1>1
<1>4. \A p \in ready : \E i \in DOMAIN e : e[i] = Event(p)
  BY <1>1
<1>5. <<Resync>> \in Seq(Ev)
  BY EventTypes
<1>6. Events(ready) = IF n > Flood THEN <<Resync>> ELSE e
  BY DEF Events
<1> HIDE DEF e
<1> QED BY <1>2, <1>3, <1>4, <1>5, <1>6

LEMMA EmptyFits == << >> \in Seq(Ev) /\ Len(<< >>) <= Capacity
BY WatchConstants

LEMMA InitTypes == Init => Types
<1> SUFFICES ASSUME Init PROVE Types
  OBVIOUS
<1>1. Copies /\ Flags /\ Link
  BY DEF Init, Copies, Flags, Link
<1>2. Limits
  BY WatchConstants DEF Init, Limits
<1>3. Stream
  <2>1. inbox = << >> /\ raw = {} /\ pending = {}
    BY DEF Init
  <2> QED BY <2>1, EmptyFits DEF Stream
<1>4. Work
  <2>1. queue = [n \in Name |-> "none"] /\ flushes = << >>
    BY DEF Init
  <2>2. << >> \in Seq(Flight)
    OBVIOUS
  <2> QED BY <2>1, <2>2 DEF Work, Name
<1> QED BY <1>1, <1>2, <1>3, <1>4 DEF Types

\* What a step may do to the stream: it gets events, or it is empty.
LEMMA BroadcastTypes ==
  ASSUME Stream, lagged \in BOOLEAN, NEW events \in Seq(Ev), Broadcast(events)
  PROVE  inbox' \in Seq(Ev) /\ Len(inbox') <= Capacity /\ lagged' \in BOOLEAN
<1> DEFINE t == inbox \o events
           over == Len(t) - Capacity
<1>1. t \in Seq(Ev) /\ Len(t) \in Nat /\ Capacity \in Nat /\ Capacity > 0
  BY WatchConstants DEF Stream
<1>2. /\ inbox' = IF over > 0 THEN SubSeq(t, over + 1, Len(t)) ELSE t
      /\ lagged' = (lagged \/ over > 0)
  BY DEF Broadcast
<1> HIDE DEF t
<1>3. CASE over > 0
  <2>1. SubSeq(t, over + 1, Len(t)) \in Seq(Ev)
    BY <1>1, <1>3
  <2>2. Len(SubSeq(t, over + 1, Len(t))) = Capacity
    BY <1>1, <1>3
  <2> QED BY <1>2, <1>3, <2>1, <2>2, <1>1
<1>4. CASE ~(over > 0)
  BY <1>1, <1>2, <1>4
<1> QED BY <1>3, <1>4

LEMMA ServerTypes ==
  ASSUME Types,
         \/ \E p \in Path : Edit(p) \/ Receive(p) \/ StatFails(p)
         \/ \E ready \in SUBSET pending : Debounce(ready)
         \/ Stop \/ Start \/ Break
  PROVE  Types'
<1> USE DEF Types
<1>1. ASSUME NEW p \in Path, Edit(p) PROVE Types'
  <2>1. disk' \in [Path -> Nat]
    BY <1>1 DEF Edit, Copies
  <2>2. missed' \subseteq Path /\ raw' \subseteq Path
    BY <1>1 DEF Edit, Lose, LoseUnlessCaught, Limits, Stream
  <2>3. edits' \in 0..MaxEdits /\ troubles' \in 0..MaxTroubles
    BY <1>1, WatchConstants DEF Edit, Suffer, Limits
  <2> QED BY <1>1, <2>1, <2>2, <2>3 DEF Edit, Copies, Flags, Stream, Work, Limits, Link, link, client
<1>2. ASSUME NEW p \in Path, Receive(p) PROVE Types'
  BY <1>2 DEF Receive, Copies, Flags, Stream, Work, Limits, Link, link, client, limits
<1>3. ASSUME NEW p \in Path, StatFails(p) PROVE Types'
  <2>1. missed' \subseteq Path /\ pending' \subseteq Path
    BY <1>3 DEF StatFails, Lose, Limits, Stream
  <2>2. troubles' \in 0..MaxTroubles
    BY <1>3, WatchConstants DEF StatFails, Suffer, Limits
  <2> QED BY <1>3, <2>1, <2>2 DEF StatFails, Copies, Flags, Stream, Work, Limits, Link, link, client
<1>4. ASSUME NEW ready \in SUBSET pending, Debounce(ready) PROVE Types'
  <2>1. Events(ready) \in Seq(Ev)
    BY Announced DEF Stream
  <2>2. inbox' \in Seq(Ev) /\ Len(inbox') <= Capacity /\ lagged' \in BOOLEAN
    BY <1>4, <2>1, BroadcastTypes DEF Debounce, Stream, Flags
  <2>3. missed' \subseteq Path /\ pending' \subseteq Path
    BY <1>4 DEF Debounce, Lose, LoseUnlessCaught, Limits, Stream
  <2> QED BY <1>4, <2>2, <2>3 DEF Debounce, Copies, Flags, Stream, Work, Limits, Link, link, client, limits
<1>5. CASE Stop \/ Break
  <2>1. << >> \in Seq(Ev) /\ Len(<< >>) <= Capacity
    BY EmptyFits
  <2>2. inbox' = << >> /\ raw' \subseteq raw /\ pending' \subseteq pending
    BY <1>5 DEF Stop, Break
  <2>5. Stream'
    BY <2>1, <2>2 DEF Stream
  <2>6. lagged' \in BOOLEAN /\ up' \in BOOLEAN /\ Link'
    BY <1>5 DEF Stop, Break, Flags, Link
  <2>3. missed' \subseteq Path
    <3>1. \A e \in Range(inbox) : e \in Ev
      BY DEF Range, Stream
    <3>2. InTransit \subseteq Path
      BY <3>1, EventTypes DEF InTransit
    <3> QED BY <1>5, <3>2 DEF Stop, Break, Lose, LoseUnlessCaught, Limits, Stream
  <2>4. troubles' \in 0..MaxTroubles
    BY <1>5, WatchConstants DEF Stop, Break, Suffer, Limits
  <2> QED BY <1>5, <2>3, <2>4, <2>5, <2>6 DEF Stop, Break, Copies, Flags, Work, Limits, link, client
<1>6. CASE Start
  BY <1>6 DEF Start, Copies, Flags, Stream, Work, Limits, Link, link, client, limits
<1> QED BY <1>1, <1>2, <1>3, <1>4, <1>5, <1>6

LEMMA LinkTypes ==
  ASSUME Types, Subscribe \/ Opened \/ Refused \/ Onerror \/ Connect \/ Wipe \/ Message
  PROVE  Types'
<1> USE DEF Types
<1>1. CASE Subscribe \/ Opened \/ Onerror \/ Connect
  BY <1>1 DEF Subscribe, Opened, Onerror, Connect, Copies, Flags, Stream, Work, Limits, Link,
              server, client, limits
<1>2. CASE Refused
  <2>1. troubles' \in 0..MaxTroubles
    BY <1>2, WatchConstants DEF Refused, Suffer, Limits
  <2> QED BY <1>2, <2>1 DEF Refused, Copies, Flags, Stream, Work, Limits, Link, server, client
<1>3. CASE Wipe
  <2>1. << >> \in Seq(Ev) /\ Len(<< >>) <= Capacity
    BY EmptyFits
  <2>2. troubles' \in 0..MaxTroubles
    BY <1>3, WatchConstants DEF Wipe, Suffer, Limits
  <2>3. inbox' = << >> /\ raw' = raw /\ pending' = pending
    BY <1>3 DEF Wipe
  <2>4. Stream'
    BY <2>1, <2>3 DEF Stream
  <2> QED BY <1>3, <2>2, <2>4 DEF Wipe, Copies, Flags, Work, Limits, Link
<1>4. CASE Message
  <2> DEFINE e == IF lagged THEN Resync ELSE Head(inbox)
  <2>1. e \in Ev
    BY <1>4, EventTypes DEF Message, Stream
  <2>2. e = Resync \/ (e.name \in Path /\ e.action \in {"change", "delete"})
    BY <2>1, EventTypes
  <2>3. queue' = [queue EXCEPT ![e.name] = e.action]
    BY <1>4 DEF Message
  <2>4. Stream' /\ lagged' \in BOOLEAN
    <3>1. CASE lagged
      BY <1>4, <3>1 DEF Message, Stream
    <3>2. CASE ~lagged
      <4>1. inbox # << >> /\ inbox' = Tail(inbox) /\ lagged' = lagged
        BY <1>4, <3>2 DEF Message
      <4>2. Tail(inbox) \in Seq(Ev) /\ Len(Tail(inbox)) = Len(inbox) - 1 /\ Len(inbox) \in Nat
        BY <4>1 DEF Stream
      <4>3. Len(inbox') <= Capacity
        BY <4>1, <4>2, WatchConstants DEF Stream
      <4> QED BY <1>4, <4>1, <4>2, <4>3 DEF Message, Stream, Flags
    <3> QED BY <3>1, <3>2
  <2> HIDE DEF e
  <2>5. None \notin Path
    BY WatchConstants
  <2>6. Work'
    <3>1. CASE e = Resync
      <4>1. e.name = None /\ e.action = "resync"
        BY <3>1, EventTypes
      <4>2. queue' = [queue EXCEPT ![None] = "resync"]
        BY <2>3, <4>1
      <4>3. flushes' = flushes
        BY <1>4 DEF Message
      <4> QED BY <2>5, <4>2, <4>3 DEF Work, Name
    <3>2. CASE e # Resync
      <4>1. e.name \in Path /\ e.name # None /\ e.action \in {"change", "delete"}
        BY <2>2, <2>5, <3>2
      <4>2. queue' \in [Name -> {"none", "change", "delete", "resync"}]
        BY <2>3, <4>1 DEF Work
      <4>3. \A n \in Name : queue'[n] = IF n = e.name THEN e.action ELSE queue[n]
        BY <2>3 DEF Work
      <4>4. flushes' = flushes
        BY <1>4 DEF Message
      <4> QED BY <4>1, <4>2, <4>3, <4>4 DEF Work, Name
    <3> QED BY <3>1, <3>2
  <2> QED BY <1>4, <2>4, <2>6 DEF Message, Copies, Flags, Limits, Link, link, limits
<1> QED BY <1>1, <1>2, <1>3, <1>4

LEMMA NamedPaths ==
  ASSUME Work
  PROVE  Named("change") \in SUBSET Path /\ Named("delete") \in SUBSET Path
         /\ (Named("resync") # {} <=> queue[None] # "none")
BY WatchConstants DEF Named, Work, Name

LEMMA SeeTypes ==
  ASSUME Types, NEW news \in [Path -> Nat], NEW lost \in SUBSET Path, See(news, lost)
  PROVE  seen' \in [Path -> Nat] /\ missed' \subseteq Path
BY DEF Types, Limits, See

\* A step of a flush: what it makes of the copies, and of the flush.
LEMMA FlightTypes ==
  ASSUME Types, NEW i \in DOMAIN flushes, NEW g \in Flight, Goes(i, g)
  PROVE  flushes' \in Seq(Flight)
BY DEF Types, Work, Goes

LEMMA NoEffectTypes ==
  ASSUME Types, NEW lost \in SUBSET Path, NoEffect(lost)
  PROVE  /\ missed' \subseteq Path /\ troubles' \in 0..MaxTroubles
         /\ local' = local /\ seen' = seen
BY WatchConstants DEF Types, Limits, NoEffect, Suffer, Lose

LEMMA SourceType == Types => Source \in [Path -> Nat]
BY DEF Types, Copies, Source

LEMMA PageTypes ==
  ASSUME Types, Flush \/ CatchUp \/ Poll
  PROVE  Types'
<1> USE DEF Types
<1>1. CASE Flush
  <2> DEFINE many == Named("resync") # {} \/ Cardinality(Named("change")) >= Batch
             g == [pc   |-> IF ~many THEN "files" ELSE IF sw THEN "sync" ELSE "list",
                   todo |-> IF many THEN {} ELSE Named("change"), file |-> None,
                   gone |-> IF many THEN Path ELSE Named("delete")]
  <2>1. g \in Flight
    BY NamedPaths DEF Flight, Name
  <2>2. flushes' = Append(flushes, g) /\ queue' = [n \in Name |-> "none"]
    BY <1>1 DEF Flush, TakeBatch
  <2> HIDE DEF g
  <2>3. Work'
    BY <2>1, <2>2 DEF Work, Name
  <2> QED BY <1>1, <2>3 DEF Flush, TakeBatch, Copies, Flags, Stream, Limits, Link, server, link, limits
<1>2. CASE CatchUp
  <2>1. seen' \in [Path -> Nat] /\ missed' \subseteq Path /\ local' = local /\ troubles' \in 0..MaxTroubles
    <3>1. CASE See(Source, {}) /\ UNCHANGED <<local, troubles>>
      BY <3>1, SeeTypes, SourceType DEF Limits
    <3>2. CASE NoEffect(Path)
      BY <3>2, NoEffectTypes DEF Copies
    <3> QED BY <1>2, <3>1, <3>2 DEF CatchUp
  <2> QED BY <1>2, <2>1 DEF CatchUp, Copies, Flags, Stream, Work, Limits, Link, server, client
<1>3. CASE Poll
  <2>1. seen' \in [Path -> Nat] /\ missed' \subseteq Path /\ local' \in [Path -> Nat]
    <3>1. CASE See(Source, {}) /\ UNCHANGED local
      BY <3>1, SeeTypes, SourceType DEF Copies
    <3>2. CASE local' = disk /\ UNCHANGED <<seen, missed>>
      BY <3>2 DEF Copies, Limits
    <3> QED BY <1>3, <3>1, <3>2 DEF Poll
  <2> QED BY <1>3, <2>1 DEF Poll, Copies, Flags, Stream, Work, Limits, Link, server, link, client, limits
<1> QED BY <1>1, <1>2, <1>3

LEMMA FlushStepTypes ==
  ASSUME Types, NEW i \in DOMAIN flushes,
         \/ SyncSpace(i) \/ List(i) \/ FlushEnds(i)
         \/ \E p \in Path : SyncFile(i, p) \/ Probe(i, p)
  PROVE  Types'
<1> USE DEF Types
<1> DEFINE f == flushes[i]
<1>0. f \in Flight
  BY DEF Work
<1>1. CASE SyncSpace(i)
  <2>1. [f EXCEPT !.pc = "list"] \in Flight
    BY <1>0 DEF Flight
  <2>2. flushes' \in Seq(Flight)
    BY <1>1, <2>1, FlightTypes DEF SyncSpace
  <2>3. seen' = seen /\ missed' \subseteq Path /\ local' \in [Path -> Nat] /\ troubles' \in 0..MaxTroubles
    BY <1>1, NoEffectTypes DEF SyncSpace, Copies, Limits
  <2> QED BY <1>1, <2>2, <2>3 DEF SyncSpace, Copies, Flags, Stream, Work, Limits, Link, server, link
<1>2. CASE List(i)
  <2>1. [f EXCEPT !.pc = "files", !.gone = {}] \in Flight
    BY <1>0 DEF Flight
  <2>2. flushes' \in Seq(Flight)
    BY <1>2, <2>1, FlightTypes DEF List
  <2>3. f.gone \in SUBSET Path
    BY <1>0 DEF Flight
  <2>4. seen' \in [Path -> Nat] /\ missed' \subseteq Path /\ local' = local /\ troubles' \in 0..MaxTroubles
    BY <1>2, <2>3, SeeTypes, SourceType, NoEffectTypes DEF List, Copies, Limits
  <2> QED BY <1>2, <2>2, <2>4 DEF List, Copies, Flags, Stream, Work, Limits, Link, server, link
<1>3. CASE FlushEnds(i)
  <2>1. RemoveAt(flushes, i) \in Seq(Flight)
    BY DEF Work, RemoveAt
  <2> QED BY <1>3, <2>1 DEF FlushEnds, FlushDone, Copies, Flags, Stream, Work, Limits, Link, server, link, limits
<1>4. ASSUME NEW p \in Path, SyncFile(i, p) PROVE Types'
  <2>1. [f EXCEPT !.pc = "probe", !.todo = @ \ {p}, !.file = p] \in Flight
    BY <1>0 DEF Flight, Name
  <2>2. flushes' \in Seq(Flight)
    BY <1>4, <2>1, FlightTypes DEF SyncFile
  <2>3. seen' = seen /\ missed' \subseteq Path /\ local' \in [Path -> Nat] /\ troubles' \in 0..MaxTroubles
    BY <1>4, NoEffectTypes DEF SyncFile, Copies, Limits
  <2> QED BY <1>4, <2>2, <2>3 DEF SyncFile, Copies, Flags, Stream, Work, Limits, Link, server, link
<1>5. ASSUME NEW p \in Path, Probe(i, p) PROVE Types'
  <2>1. [f EXCEPT !.pc = "files", !.todo = @ \ {p}, !.file = None] \in Flight
    BY <1>0 DEF Flight, Name
  <2>2. flushes' \in Seq(Flight)
    BY <1>5, <2>1, FlightTypes DEF Probe
  <2>3. (IF Exists(Source[p]) THEN [seen EXCEPT ![p] = Source[p]] ELSE seen) \in [Path -> Nat]
    BY SourceType DEF Copies
  <2>4. seen' \in [Path -> Nat] /\ missed' \subseteq Path /\ local' = local /\ troubles' \in 0..MaxTroubles
    <3> DEFINE news == IF Exists(Source[p]) THEN [seen EXCEPT ![p] = Source[p]] ELSE seen
    <3>1. (See(news, {}) /\ UNCHANGED <<local, troubles>>) \/ NoEffect({p})
      BY <1>5 DEF Probe
    <3>2. news \in [Path -> Nat] /\ {} \in SUBSET Path /\ {p} \in SUBSET Path
      BY <2>3
    <3> HIDE DEF news
    <3>3. CASE See(news, {}) /\ UNCHANGED <<local, troubles>>
      BY <3>2, <3>3, SeeTypes DEF Limits
    <3>4. CASE NoEffect({p})
      BY <3>2, <3>4, NoEffectTypes DEF Copies
    <3> QED BY <3>1, <3>3, <3>4
  <2> QED BY <1>5, <2>2, <2>4 DEF Probe, Copies, Flags, Stream, Work, Limits, Link, server, link
<1> QED BY <1>1, <1>2, <1>3, <1>4, <1>5

LEMMA StepTypes == Types /\ [Next]_vars => Types'
<1> SUFFICES ASSUME Types, [Next]_vars PROVE Types'
  OBVIOUS
<1>1. CASE UNCHANGED vars
  BY <1>1 DEF vars, server, link, client, limits, Types, Copies, Flags, Stream, Work, Limits, Link
<1> QED BY <1>1, ServerTypes, LinkTypes, PageTypes, FlushStepTypes DEF Next, FlushStep

LEMMA Typed == Spec => []Types
BY InitTypes, StepTypes, PTL DEF Spec

\* Every variable has its type (Watch).
THEOREM WatchTypes == Spec => []TypeOK
<1>1. Types /\ FlushInv => TypeOK
  <2> SUFFICES ASSUME Types, FlushInv PROVE TypeOK
    OBVIOUS
  <2>1. \A e \in Range(inbox) : e \in [name : Name, action : {"change", "delete", "resync"}]
    <3>1. \A e \in Ev : e \in [name : Name, action : {"change", "delete", "resync"}]
      BY DEF Ev, Resync, Name
    <3> QED BY <3>1 DEF Range, Types, Stream
  <2>2. \A f \in Range(flushes) : f \in Flight
    BY DEF Range, Types, Work
  <2>3. due \in Nat /\ timer \in BOOLEAN /\ stopped \in BOOLEAN
    BY DEF FlushInv, Idle, Due, Busy
  <2>4. queue \in [Name -> {"none", "change", "delete", "resync"}]
    BY DEF Types, Work
  <2>5. {disk, local, seen} \subseteq [Path -> Nat]
    BY DEF Types, Copies
  <2>6. {sw, up, lagged, ever, catchup, timer, stopped} \subseteq BOOLEAN
    BY <2>3 DEF Types, Flags
  <2>7. {raw, pending, missed} \subseteq SUBSET Path /\ Len(inbox) <= Capacity
    BY DEF Types, Stream, Limits
  <2>8. /\ conn \in {"connecting", "subscribed", "open", "broken", "waiting", "off", "closed"}
        /\ edits \in 0..MaxEdits /\ troubles \in 0..MaxTroubles
    BY DEF Types, Link, Limits
  <2> QED BY <2>1, <2>2, <2>3, <2>4, <2>5, <2>6, <2>7, <2>8 DEF TypeOK, Flight
<1> QED BY <1>1, Typed, InitFlush, FlushInvStep, PTL DEF Spec

-----------------------------------------------------------------------------
(***************************************************************************)
(* What carries the news of a path.  NothingUnannounced is not inductive:   *)
(* news that is on its way must also be the right news when it arrives.  A  *)
(* "change" of a file that is gone by then tells the page nothing (a probe  *)
(* that finds no file leaves the snapshot alone), and a file the service    *)
(* worker has not got cannot be seen.  So: a page is behind with a path     *)
(* also when its store is, and of what is queued for the path, the word     *)
(* that comes last is good.                                                 *)
(***************************************************************************)
Behind(p) == Stale(p) \/ (sw /\ ~Same(local[p], disk[p]))

About(p, e) == e.name \in {p, None}
Good(p, action) == action # "change" \/ Exists(disk[p])
LastGood(p, s) ==
  \A i \in DOMAIN s :
    About(p, s[i]) /\ (\A j \in DOMAIN s : j > i => ~About(p, s[j])) => Good(p, s[i].action)

Brings(p, f) ==
  \/ p \in f.todo /\ Exists(disk[p])
  \/ f.pc = "sync" \/ p \in f.gone \/ (f.gone # {} /\ ~sw)
  \/ f.pc = "probe" /\ p = f.file /\ local[p] = disk[p] /\ Exists(disk[p])

InWatcher(p) == p \in raw \cup pending
InStream(p)  == lagged \/ \E i \in DOMAIN inbox : About(p, inbox[i])
InQueue(p)   == queue[None] # "none" \/ (queue[p] # "none" /\ Good(p, queue[p]))
InGap        == (~sw /\ catchup) \/ (CatchesUp /\ conn # "open")
InFlight(p)  == \E i \in DOMAIN flushes : Brings(p, flushes[i])

Carried(p) == InWatcher(p) \/ InStream(p) \/ InQueue(p) \/ InGap \/ InFlight(p)
Told(p)    == Behind(p) /\ p \notin missed
                => Carried(p) /\ (InWatcher(p) \/ LastGood(p, inbox))

Shaped(f) ==
  /\ f.pc \in {"sync", "list"} => f.gone = Path /\ f.todo = {}
  /\ f.pc \in {"sync", "probe"} => sw
  /\ f.file \notin f.todo
  /\ f.file = None <=> f.pc # "probe"
Shape ==
  /\ ~up => ~Subscribed
  /\ ~Subscribed => inbox = << >> /\ ~lagged
  /\ \A i \in DOMAIN flushes : Shaped(flushes[i])

Words == Listening => \A p \in Path : Told(p)

\* What a step leaves alone goes on carrying the news.
LEMMA Still ==
  ASSUME NEW p \in Path, disk'[p] = disk[p], UNCHANGED sw
  PROVE  /\ UNCHANGED <<inbox, lagged>> =>
              /\ InStream(p) => InStream(p)'
              /\ LastGood(p, inbox) => LastGood(p, inbox)'
         /\ UNCHANGED queue => (InQueue(p) => InQueue(p)')
         /\ UNCHANGED <<flushes>> /\ local'[p] \in {local[p], disk[p]} => (InFlight(p) => InFlight(p)')
         /\ UNCHANGED <<catchup, ever, conn, stopped>> => (InGap => InGap')
<1>1. UNCHANGED <<inbox, lagged>> =>
              /\ InStream(p) => InStream(p)'
              /\ LastGood(p, inbox) => LastGood(p, inbox)'
  BY DEF InStream, LastGood, About, Good
<1>2. UNCHANGED queue => (InQueue(p) => InQueue(p)')
  BY DEF InQueue, Good
<1>3. UNCHANGED <<flushes>> /\ local'[p] \in {local[p], disk[p]} => (InFlight(p) => InFlight(p)')
  BY DEF InFlight, Brings
<1>4. UNCHANGED <<catchup, ever, conn, stopped>> => (InGap => InGap')
  BY DEF InGap, CatchesUp
<1> QED BY <1>1, <1>2, <1>3, <1>4

LEMMA StillShaped ==
  ASSUME Shape, UNCHANGED <<up, conn, inbox, lagged, flushes, sw>>
  PROVE  Shape'
BY DEF Shape, Shaped, Subscribed

\* Sequences of events.
LEMMA SuffixGood ==
  ASSUME NEW p \in Path, NEW s \in Seq(Ev), NEW k \in Nat, k <= Len(s), LastGood(p, s)
  PROVE  LastGood(p, SubSeq(s, k + 1, Len(s)))
<1> DEFINE t == SubSeq(s, k + 1, Len(s))
<1>1. /\ Len(s) \in Nat /\ DOMAIN s = 1..Len(s) /\ DOMAIN t = 1..(Len(s) - k)
      /\ \A i \in DOMAIN t : t[i] = s[i + k] /\ i + k \in DOMAIN s
  OBVIOUS
<1> HIDE DEF t
<1>2. ASSUME NEW i \in DOMAIN t, About(p, t[i]), \A j \in DOMAIN t : j > i => ~About(p, t[j])
      PROVE  Good(p, t[i].action)
  <2>1. ASSUME NEW j \in DOMAIN s, j > i + k PROVE ~About(p, s[j])
    <3>1. j - k \in DOMAIN t /\ j - k > i
      BY <1>1, <2>1
    <3>2. t[j - k] = s[j]
      BY <1>1, <3>1
    <3> QED BY <1>2, <3>1, <3>2
  <2>2. i + k \in DOMAIN s /\ t[i] = s[i + k]
    BY <1>1
  <2> QED BY <1>2, <2>1, <2>2 DEF LastGood
<1>3. LastGood(p, t)
  BY <1>2 DEF LastGood
<1> QED BY <1>3 DEF t

LEMMA ConcatGood ==
  ASSUME NEW p \in Path, NEW s \in Seq(Ev), NEW e \in Seq(Ev), LastGood(p, e),
         LastGood(p, s) \/ \E i \in DOMAIN e : About(p, e[i])
  PROVE  LastGood(p, s \o e)
<1> DEFINE t == s \o e
           n == Len(s)
<1>1. /\ n \in Nat /\ Len(e) \in Nat /\ DOMAIN s = 1..n /\ DOMAIN e = 1..Len(e)
      /\ DOMAIN t = 1..(n + Len(e))
      /\ \A i \in DOMAIN s : t[i] = s[i]
      /\ \A i \in DOMAIN e : t[n + i] = e[i]
  OBVIOUS
<1> HIDE DEF t, n
<1>2. ASSUME NEW i \in DOMAIN t, About(p, t[i]), \A j \in DOMAIN t : j > i => ~About(p, t[j])
      PROVE  Good(p, t[i].action)
  <2>1. CASE i <= n
    <3>1. i \in DOMAIN s /\ t[i] = s[i]
      BY <1>1, <2>1
    <3>2. \A j \in DOMAIN s : j > i => ~About(p, s[j])
      <4>1. \A j \in DOMAIN s : j \in DOMAIN t /\ t[j] = s[j]
        BY <1>1
      <4> QED BY <1>2, <4>1
    <3>3. \A j \in DOMAIN e : ~About(p, e[j])
      <4>1. \A j \in DOMAIN e : n + j \in DOMAIN t /\ t[n + j] = e[j] /\ n + j > i
        BY <1>1, <2>1
      <4> QED BY <1>2, <4>1
    <3> QED BY <1>2, <3>1, <3>2, <3>3 DEF LastGood
  <2>2. CASE ~(i <= n)
    <3>1. i - n \in DOMAIN e /\ t[i] = e[i - n]
      BY <1>1, <2>2
    <3>2. \A j \in DOMAIN e : j > i - n => ~About(p, e[j])
      <4>1. \A j \in DOMAIN e : n + j \in DOMAIN t /\ t[n + j] = e[j] /\ (j > i - n => n + j > i)
        BY <1>1
      <4> QED BY <1>2, <4>1
    <3> QED BY <1>2, <3>1, <3>2 DEF LastGood
  <2> QED BY <2>1, <2>2
<1>3. LastGood(p, t)
  BY <1>2 DEF LastGood
<1> QED BY <1>3 DEF t

\* A broadcast: what was to come before still comes, or the subscriber is told
\* that it has missed something.
LEMMA BroadcastTold ==
  ASSUME Stream, lagged \in BOOLEAN, NEW p \in Path, NEW events \in Seq(Ev),
         Broadcast(events), UNCHANGED disk
  PROVE  /\ InStream(p) => InStream(p)'
         /\ (\E i \in DOMAIN events : About(p, events[i])) => InStream(p)'
         /\ LastGood(p, events) /\ (LastGood(p, inbox) \/ \E i \in DOMAIN events : About(p, events[i]))
              => LastGood(p, inbox)'
<1> DEFINE t == inbox \o events
           over == Len(t) - Capacity
<1>1. /\ t \in Seq(Ev) /\ Len(t) \in Nat /\ Capacity \in Nat /\ Capacity > 0
      /\ \A i \in DOMAIN inbox : i \in DOMAIN t /\ t[i] = inbox[i]
      /\ \A i \in DOMAIN events : Len(inbox) + i \in DOMAIN t /\ t[Len(inbox) + i] = events[i]
  BY WatchConstants DEF Stream
<1>2. /\ inbox' = IF over > 0 THEN SubSeq(t, over + 1, Len(t)) ELSE t
      /\ lagged' = (lagged \/ over > 0)
  BY DEF Broadcast
<1>0. over \in Int
  BY <1>1
<1>3. /\ \A e : About(p, e)' <=> About(p, e)
      /\ \A a : Good(p, a)' <=> Good(p, a)
  BY DEF About, Good
<1>4. LastGood(p, events) /\ (LastGood(p, inbox) \/ \E i \in DOMAIN events : About(p, events[i]))
        => LastGood(p, t)
  <2>1. inbox \in Seq(Ev)
    BY DEF Stream
  <2>2. ASSUME LastGood(p, events), LastGood(p, inbox) PROVE LastGood(p, t)
    BY <2>1, <2>2, ConcatGood
  <2>3. ASSUME LastGood(p, events), \E i \in DOMAIN events : About(p, events[i]) PROVE LastGood(p, t)
    BY <2>1, <2>3, ConcatGood
  <2>4. CASE LastGood(p, inbox)
    BY <2>2, <2>4
  <2>5. CASE \E i \in DOMAIN events : About(p, events[i])
    BY <2>3, <2>5
  <2> QED BY <2>4, <2>5
<1> HIDE DEF t
<1>5. CASE over > 0
  <2>1. lagged' /\ inbox' = SubSeq(t, over + 1, Len(t)) /\ over \in Nat /\ over <= Len(t)
    <3>1. over \in Nat /\ over <= Len(t)
      BY <1>1, <1>5
    <3> HIDE DEF over
    <3> QED BY <1>2, <1>5, <3>1
  <2>2. LastGood(p, t) => LastGood(p, SubSeq(t, over + 1, Len(t)))
    BY <1>1, <2>1, SuffixGood
  <2>3. LastGood(p, inbox') => LastGood(p, inbox)'
    BY <1>3 DEF LastGood
  <2> QED BY <1>4, <2>1, <2>2, <2>3 DEF InStream
<1>6. CASE ~(over > 0)
  <2>1. inbox' = t /\ lagged' = lagged
    <3> HIDE DEF over
    <3> QED BY <1>2, <1>6
  <2>2. LastGood(p, inbox') => LastGood(p, inbox)'
    BY <1>3 DEF LastGood
  <2>3. \A i \in DOMAIN t : About(p, t[i]) => InStream(p)'
    BY <1>3, <2>1 DEF InStream
  <2> QED BY <1>1, <1>4, <2>1, <2>2, <2>3 DEF InStream
<1> QED BY <1>5, <1>6

-----------------------------------------------------------------------------
(* The server. *)

LEMMA InitWatch == Init => Shape /\ Words
<1> SUFFICES ASSUME Init PROVE Shape /\ Words
  OBVIOUS
<1>1. Shape
  BY DEF Init, Shape, Subscribed
<1>2. \A p \in Path : ~Behind(p)
  BY DEF Init, Behind, Stale, Same
<1> QED BY <1>1, <1>2 DEF Words, Told

\* A path that changes.
LEMMA EditTold ==
  ASSUME Types, Shape, Words, NEW q \in Path, Edit(q)
  PROVE  Shape' /\ Words'
<1>1. Shape'
  BY StillShaped DEF Edit, link, client
<1>2. ASSUME Listening', NEW p \in Path, Behind(p)', p \notin missed'
      PROVE  Carried(p)' /\ (InWatcher(p)' \/ LastGood(p, inbox)')
  <2>1. Told(p) /\ Listening
    BY <1>2 DEF Edit, Words, Listening, link, client
  <2>2. CASE p # q
    <3>1. disk'[p] = disk[p] /\ local' = local /\ seen' = seen /\ sw' = sw
      BY <2>2 DEF Edit, Types, Copies
    <3>2. Behind(p)
      BY <1>2, <3>1 DEF Behind, Stale
    <3>3. p \notin missed /\ (InWatcher(p) => InWatcher(p)')
      BY <1>2 DEF Edit, Lose, LoseUnlessCaught, InWatcher
    <3>4. UNCHANGED <<inbox, lagged, queue, flushes, catchup, ever, conn, stopped>>
      BY DEF Edit, link, client
    <3> QED BY <2>1, <3>1, <3>2, <3>3, <3>4, Still DEF Told, Carried
  <2>3. CASE p = q /\ p \in raw'
    BY <2>3 DEF Carried, InWatcher
  <2>4. CASE p = q /\ p \notin raw'
    <3>1. ~up /\ CatchesUp
      BY <1>2, <2>4 DEF Edit, Lose, LoseUnlessCaught
    <3>2. conn # "open" /\ inbox = << >>
      BY <3>1 DEF Shape, Subscribed
    <3>3. UNCHANGED <<sw, inbox, ever, conn, stopped>>
      BY DEF Edit, link, client
    <3>4. InGap'
      BY <3>1, <3>2, <3>3 DEF InGap, CatchesUp
    <3>5. LastGood(p, inbox)'
      BY <3>2, <3>3 DEF LastGood
    <3> QED BY <3>4, <3>5 DEF Carried
  <2> QED BY <2>2, <2>3, <2>4
<1> QED BY <1>1, <1>2 DEF Words, Told

LEMMA DebounceTold ==
  ASSUME Types, Shape, Words, NEW ready \in SUBSET pending, Debounce(ready)
  PROVE  Shape' /\ Words'
<1> DEFINE events == Events(ready)
<1>0. UNCHANGED <<disk, local, seen, sw, up, raw, queue, flushes, catchup, ever, conn, stopped>>
  BY DEF Debounce, link, client
<1>1. Shape'
  <2>1. ~Subscribed => UNCHANGED <<inbox, lagged>>
    BY DEF Debounce
  <2> QED BY <1>0, <2>1 DEF Shape, Shaped, Subscribed
<1>2. ASSUME Listening', NEW p \in Path, Behind(p)', p \notin missed'
      PROVE  Carried(p)' /\ (InWatcher(p)' \/ LastGood(p, inbox)')
  <2>1. Told(p) /\ Behind(p) /\ p \notin missed
    <3>1. Listening /\ Behind(p)
      BY <1>0, <1>2 DEF Listening, Behind, Stale
    <3>2. p \notin missed
      BY <1>2 DEF Debounce, Lose, LoseUnlessCaught
    <3> QED BY <3>1, <3>2 DEF Words
  <2>2. Carried(p) /\ (InWatcher(p) \/ LastGood(p, inbox))
    BY <2>1 DEF Told
  <2>3. /\ InQueue(p) => InQueue(p)'
        /\ InFlight(p) => InFlight(p)'
        /\ InGap => InGap'
    BY <1>0, Still
  <2>4. p \notin ready => (InWatcher(p) => InWatcher(p)')
    BY <1>0 DEF Debounce, InWatcher
  <2>5. CASE ~Subscribed
    <3>1. UNCHANGED <<inbox, lagged>> /\ LoseUnlessCaught(ready)
      BY <2>5 DEF Debounce
    <3>2. inbox = << >> /\ inbox' = << >> /\ conn # "open"
      BY <2>5, <3>1 DEF Shape, Subscribed
    <3>3. LastGood(p, inbox)'
      BY <3>2 DEF LastGood
    <3>4. p \in ready => InGap'
      <4>1. p \in ready => CatchesUp
        BY <1>2, <3>1 DEF Lose, LoseUnlessCaught
      <4> QED BY <1>0, <3>2, <4>1 DEF InGap, CatchesUp
    <3>5. InStream(p) => InStream(p)'
      BY <1>0, <3>1, Still
    <3> QED BY <2>2, <2>3, <2>4, <3>3, <3>4, <3>5 DEF Carried
  <2>6. CASE Subscribed
    <3>1. Broadcast(events) /\ events \in Seq(Ev) /\ ready \in SUBSET Path
      BY <2>6, Announced DEF Debounce, Types, Stream
    <3>2. \/ events = <<Resync>>
          \/ /\ \A i \in DOMAIN events : \E r \in ready : events[i] = Event(r)
             /\ \A r \in ready : \E i \in DOMAIN events : events[i] = Event(r)
      BY <3>1, Announced
    <3>3. LastGood(p, events)
      <4>1. Good(p, Resync.action) /\ Good(p, Event(p).action)
        BY EventTypes DEF Good, Event
      <4>2. \A r \in Path : About(p, Event(r)) => r = p
        BY EventTypes, WatchConstants DEF About
      <4>3. CASE events = <<Resync>>
        <5>1. \A i \in DOMAIN events : events[i] = Resync
          BY <4>3
        <5> QED BY <4>1, <5>1 DEF LastGood
      <4>4. CASE \A i \in DOMAIN events : \E r \in ready : events[i] = Event(r)
        BY <3>1, <4>1, <4>2, <4>4 DEF LastGood
      <4> QED BY <3>2, <4>3, <4>4
    <3>4. p \in ready => \E i \in DOMAIN events : About(p, events[i])
      <4>1. About(p, Resync) /\ About(p, Event(p))
        BY EventTypes DEF About
      <4>2. CASE events = <<Resync>>
        <5>1. 1 \in DOMAIN events /\ events[1] = Resync
          BY <4>2
        <5> QED BY <4>1, <5>1
      <4>3. CASE \A r \in ready : \E i \in DOMAIN events : events[i] = Event(r)
        BY <4>1, <4>3
      <4> QED BY <3>2, <4>2, <4>3
    <3> HIDE DEF events
    <3>5. /\ InStream(p) => InStream(p)'
          /\ p \in ready => InStream(p)'
          /\ p \in ready \/ LastGood(p, inbox) => LastGood(p, inbox)'
      BY <1>0, <3>1, <3>3, <3>4, BroadcastTold DEF Types, Flags
    <3>6. CASE p \notin ready
      BY <2>2, <2>3, <2>4, <3>5, <3>6 DEF Carried
    <3>7. CASE p \in ready
      BY <3>5, <3>7 DEF Carried
    <3> QED BY <3>6, <3>7
  <2> QED BY <2>5, <2>6
<1> QED BY <1>1, <1>2 DEF Words, Told


\* The watcher goes on, or a file cannot be looked at; the server starts.
LEMMA WatcherTold ==
  ASSUME Types, Shape, Words, Start \/ \E q \in Path : Receive(q) \/ StatFails(q)
  PROVE  Shape' /\ Words'
<1>0. UNCHANGED <<disk, local, seen, sw, inbox, lagged, queue, flushes, catchup, ever, conn, stopped>>
  BY DEF Start, Receive, StatFails, link, client
<1>1. Shape'
  <2>1. up' \in {up, TRUE}
    BY DEF Start, Receive, StatFails
  <2> QED BY <1>0, <2>1 DEF Shape, Shaped, Subscribed
<1>2. ASSUME Listening', NEW p \in Path, Behind(p)', p \notin missed'
      PROVE  Carried(p)' /\ (InWatcher(p)' \/ LastGood(p, inbox)')
  <2>1. Listening /\ Behind(p)
    BY <1>0, <1>2 DEF Listening, Behind, Stale
  <2>2. p \notin missed /\ (InWatcher(p) => InWatcher(p)')
    BY <1>2 DEF Start, Receive, StatFails, Lose, InWatcher
  <2> QED BY <1>0, <2>1, <2>2, Still DEF Words, Told, Carried
<1> QED BY <1>1, <1>2 DEF Words, Told

\* The server stops, or the connection breaks: what was on its way is lost, or made up for.
LEMMA CutTold ==
  ASSUME Types, Shape, Words, Stop \/ Break
  PROVE  Shape' /\ Words'
<1>0. UNCHANGED <<disk, local, seen, sw, queue, flushes, catchup, ever, stopped>>
  BY DEF Stop, Break, client
<1>1. /\ inbox' = << >> /\ ~lagged' /\ conn' # "open" /\ conn' # "subscribed"
      /\ conn' \in {conn, "broken"} /\ (conn' # conn => Subscribed)
  BY DEF Stop, Break, Subscribed
<1>2. Shape'
  BY <1>0, <1>1 DEF Shape, Shaped, Subscribed
<1>3. ASSUME Listening', NEW p \in Path, Behind(p)', p \notin missed'
      PROVE  Carried(p)' /\ (InWatcher(p)' \/ LastGood(p, inbox)')
  <2>1. Listening /\ Behind(p)
    BY <1>0, <1>1, <1>3 DEF Listening, Behind, Stale, Subscribed
  <2>2. LastGood(p, inbox)'
    BY <1>1 DEF LastGood
  <2>3. CASE CatchesUp
    <3>1. InGap'
      BY <1>0, <1>1, <2>3 DEF InGap, CatchesUp
    <3> QED BY <2>2, <3>1 DEF Carried
  <2>4. CASE ~CatchesUp
    <3>1. p \notin missed /\ p \notin InTransit /\ (InWatcher(p) => InWatcher(p)')
      BY <1>3, <2>4 DEF Stop, Break, Lose, LoseUnlessCaught, InWatcher
    <3>2. ~InStream(p)
      <4>1. ~lagged /\ Resync \notin Range(inbox)
        BY <3>1 DEF InTransit
      <4>2. \A i \in DOMAIN inbox : inbox[i] \in Ev /\ inbox[i] \in Range(inbox)
        BY DEF Types, Stream, Range
      <4>3. \A i \in DOMAIN inbox : inbox[i].name # p
        BY <3>1, <4>1, <4>2 DEF InTransit
      <4>4. \A i \in DOMAIN inbox : inbox[i].name # None
        BY <4>1, <4>2, EventTypes, WatchConstants
      <4> QED BY <4>1, <4>3, <4>4 DEF InStream, About
    <3>3. /\ InQueue(p) => InQueue(p)'
          /\ InFlight(p) => InFlight(p)'
      BY <1>0, Still
    <3>4. InGap => InGap'
      BY <1>0, <1>1, <2>4 DEF InGap
    <3> QED BY <2>1, <2>2, <3>1, <3>2, <3>3, <3>4 DEF Words, Told, Carried
  <2> QED BY <2>3, <2>4
<1> QED BY <1>2, <1>3 DEF Words, Told

-----------------------------------------------------------------------------
(* The connection. *)

\* A subscription that starts, is open, or is not to be had.
LEMMA LinkTold ==
  ASSUME Types, Shape, Words, Subscribe \/ Opened \/ Refused \/ Onerror \/ Connect
  PROVE  Shape' /\ Words'
<1>0. UNCHANGED <<disk, local, seen, sw, up, raw, pending, inbox, lagged, queue, flushes, stopped, missed>>
  BY DEF Subscribe, Opened, Refused, Onerror, Connect, server, client
<1>1. Shape'
  <2>1. /\ ~up' => ~Subscribed'
        /\ ~Subscribed' => ~Subscribed
    BY <1>0 DEF Shape, Subscribe, Opened, Refused, Onerror, Connect, Subscribed
  <2> QED BY <1>0, <2>1 DEF Shape, Shaped
<1>2. ASSUME Listening', NEW p \in Path, Behind(p)', p \notin missed'
      PROVE  Carried(p)' /\ (InWatcher(p)' \/ LastGood(p, inbox)')
  <2>1. Listening /\ Behind(p) /\ p \notin missed
    <3>1. conn' # "off" => conn # "off"
      BY DEF Subscribe, Opened, Refused, Onerror, Connect
    <3> QED BY <1>0, <1>2, <3>1 DEF Listening, Behind, Stale
  <2>2. InWatcher(p) => InWatcher(p)'
    BY <1>0 DEF InWatcher
  <2>3. InGap => InGap'
    <3>1. CASE Opened
      BY <1>0, <3>1 DEF Opened, InGap, CatchesUp, Types, Flags
    <3>2. CASE Subscribe \/ Refused \/ Onerror \/ Connect
      <4>1. UNCHANGED <<ever, catchup>> /\ conn' # "open" /\ conn' # "off"
        BY <1>2, <3>2 DEF Subscribe, Refused, Onerror, Connect, Listening
      <4> QED BY <1>0, <4>1 DEF InGap, CatchesUp
    <3> QED BY <3>1, <3>2
  <2>4. /\ InStream(p) => InStream(p)'
        /\ LastGood(p, inbox) => LastGood(p, inbox)'
        /\ InQueue(p) => InQueue(p)'
        /\ InFlight(p) => InFlight(p)'
    BY <1>0, Still
  <2> QED BY <2>1, <2>2, <2>3, <2>4 DEF Words, Told, Carried
<1> QED BY <1>1, <1>2 DEF Words, Told

LEMMA WipeTold ==
  ASSUME Types, Shape, Words, Wipe
  PROVE  Shape' /\ Words'
<1>1. ~Listening'
  BY DEF Wipe, Listening
<1>2. Shape'
  BY DEF Wipe, Shape, Shaped, Subscribed
<1> QED BY <1>1, <1>2 DEF Words

\* An event is queued over the one before: the last is good.
LEMMA MessageTold ==
  ASSUME Types, Shape, Words, Message
  PROVE  Shape' /\ Words'
<1> DEFINE e == IF lagged THEN Resync ELSE Head(inbox)
<1>0. /\ UNCHANGED <<disk, local, seen, sw, up, raw, pending, catchup, ever, conn, flushes, stopped, missed>>
      /\ queue' = [queue EXCEPT ![e.name] = e.action]
      /\ conn = "open" /\ (lagged \/ inbox # << >>)
  BY DEF Message, link
<1>1. Shape'
  BY <1>0 DEF Shape, Shaped, Subscribed
<1>2. \A n \in Name : queue'[n] = IF n = e.name THEN e.action ELSE queue[n]
  BY <1>0 DEF Types, Work
<1>3. ASSUME Listening', NEW p \in Path, Behind(p)', p \notin missed'
      PROVE  Carried(p)' /\ (InWatcher(p)' \/ LastGood(p, inbox)')
  <2>1. Listening /\ Behind(p) /\ p \notin missed
    BY <1>0, <1>3 DEF Listening, Behind, Stale
  <2>2. Carried(p) /\ (InWatcher(p) \/ LastGood(p, inbox))
    BY <2>1 DEF Words, Told
  <2>3. /\ InWatcher(p) => InWatcher(p)'
        /\ InFlight(p) => InFlight(p)'
        /\ InGap => InGap'
    BY <1>0, Still DEF InWatcher
  <2>4. CASE lagged
    <3>1. inbox' = inbox /\ queue'[None] = "resync"
      BY <1>2, <2>4, EventTypes DEF Message, Name
    <3>2. InQueue(p)'
      BY <3>1 DEF InQueue
    <3>3. LastGood(p, inbox) => LastGood(p, inbox)'
      BY <1>0, <3>1 DEF LastGood, About, Good
    <3> QED BY <2>2, <2>3, <3>2, <3>3 DEF Carried
  <2>5. CASE ~lagged
    <3>1. /\ inbox # << >> /\ inbox' = Tail(inbox) /\ ~lagged' /\ e = inbox[1] /\ e \in Ev
          /\ inbox \in Seq(Ev)
      BY <1>0, <2>5 DEF Message, Types, Stream
    <3>2. /\ DOMAIN inbox' = 1..(Len(inbox) - 1) /\ Len(inbox) \in Nat /\ DOMAIN inbox = 1..Len(inbox)
          /\ \A i \in DOMAIN inbox' : inbox'[i] = inbox[i + 1]
      BY <3>1
    <3>3. LastGood(p, inbox) => LastGood(p, inbox)'
      <4>1. LastGood(p, inbox) => LastGood(p, SubSeq(inbox, 2, Len(inbox)))
        <5>1. 1 \in Nat /\ 1 <= Len(inbox) /\ 1 + 1 = 2
          BY <3>1, <3>2
        <5> QED BY <3>1, <5>1, SuffixGood
      <4>2. SubSeq(inbox, 2, Len(inbox)) = Tail(inbox)
        BY <3>1
      <4>3. LastGood(p, inbox') => LastGood(p, inbox)'
        BY <1>0 DEF LastGood, About, Good
      <4> QED BY <3>1, <4>1, <4>2, <4>3
    <3> HIDE DEF e
    <3>4. CASE InWatcher(p)
      BY <2>3, <3>4 DEF Carried
    <3>5. CASE ~InWatcher(p) /\ \E i \in DOMAIN inbox' : About(p, inbox'[i])
      <4>1. InStream(p)'
        BY <3>5 DEF InStream, About
      <4> QED BY <2>2, <3>3, <3>5, <4>1 DEF Carried
    <3>6. CASE ~InWatcher(p) /\ ~(\E i \in DOMAIN inbox' : About(p, inbox'[i]))
      <4>1. \A j \in DOMAIN inbox : j > 1 => ~About(p, inbox[j])
        <5>1. \A j \in DOMAIN inbox : j > 1 => j - 1 \in DOMAIN inbox' /\ inbox'[j - 1] = inbox[j]
          BY <3>2
        <5> QED BY <3>6, <5>1
      <4>2. 1 \in DOMAIN inbox
        BY <3>1
      <4>3. CASE About(p, e)
        <5>1. Good(p, e.action) /\ e.action # "none"
          BY <2>2, <3>1, <3>6, <4>1, <4>2, <4>3, EventTypes DEF LastGood
        <5>2. e.name = p \/ e.name = None
          BY <4>3 DEF About
        <5>3. InQueue(p)'
          BY <1>0, <1>2, <5>1, <5>2 DEF InQueue, Good, Name
        <5> QED BY <2>2, <3>3, <3>6, <5>3 DEF Carried
      <4>4. CASE ~About(p, e)
        <5>1. ~InStream(p)
          <6>1. \A j \in DOMAIN inbox : j = 1 \/ j > 1
            BY <3>2
          <6> QED BY <2>5, <3>1, <4>1, <4>4, <6>1 DEF InStream
        <5>2. InQueue(p) => InQueue(p)'
          <6>1. queue'[p] = queue[p] /\ queue'[None] = queue[None]
            BY <1>2, <4>4 DEF About, Name
          <6> QED BY <1>0, <6>1 DEF InQueue, Good
        <5> QED BY <2>2, <2>3, <3>3, <3>6, <5>1, <5>2 DEF Carried
      <4> QED BY <4>3, <4>4
    <3> QED BY <3>4, <3>5, <3>6
  <2> QED BY <2>4, <2>5
<1> QED BY <1>1, <1>3 DEF Words, Told

-----------------------------------------------------------------------------
(* The client. *)

\* The evented space compares: a path with which the page is still behind was
\* not lost, and is no news to it.
LEMMA SeeBehind ==
  ASSUME NEW p \in Path, NEW news, NEW lost, See(news, lost), UNCHANGED <<disk, local, sw>>,
         Behind(p)', p \notin missed'
  PROVE  p \notin missed /\ p \notin lost
BY DEF See, Behind, Stale

\* A hook without effect leaves what it was for to polling.
LEMMA NoEffectBehind ==
  ASSUME NEW p \in Path, NEW lost, NoEffect(lost), UNCHANGED <<disk, sw>>,
         Behind(p)', p \notin missed'
  PROVE  p \notin missed /\ p \notin lost /\ Behind(p) /\ UNCHANGED <<local, seen>>
BY DEF NoEffect, Lose, Behind, Stale

\* All of the source is compared.
LEMMA SeeAll ==
  ASSUME NEW p \in Path, NEW lost, See(Source, lost), UNCHANGED <<disk, local, sw>>,
         Behind(p)', p \notin missed'
  PROVE  sw /\ Behind(p) /\ p \notin missed /\ p \notin lost
<1>1. p \notin missed /\ p \notin lost
  BY SeeBehind
<1>2. seen' = Source
  BY DEF See
<1>3. sw
  BY <1>2 DEF Behind, Stale, Source, Same
<1>4. ~Same(local[p], disk[p])
  BY <1>2, <1>3 DEF Behind, Stale, Source
<1> QED BY <1>1, <1>3, <1>4 DEF Behind

\* What the service worker syncs is what is on disk.
LEMMA SyncedBehind ==
  ASSUME NEW p \in Path, UNCHANGED <<disk, seen, missed, sw>>, local'[p] \in {local[p], disk[p]},
         Behind(p)', p \notin missed'
  PROVE  Behind(p) /\ p \notin missed
BY DEF Behind, Stale, Same

LEMMA FlushTold ==
  ASSUME Types, Shape, Words, FlushInv, Flush
  PROVE  Shape' /\ Words'
<1> DEFINE many == Named("resync") # {} \/ Cardinality(Named("change")) >= Batch
           g == [pc   |-> IF ~many THEN "files" ELSE IF sw THEN "sync" ELSE "list",
                 todo |-> IF many THEN {} ELSE Named("change"), file |-> None,
                 gone |-> IF many THEN Path ELSE Named("delete")]
<1>0. /\ UNCHANGED <<disk, local, seen, sw, up, raw, pending, inbox, lagged, conn, ever, catchup, stopped, missed>>
      /\ flushes' = Append(flushes, g) /\ queue' = [n \in Name |-> "none"]
  BY DEF Flush, TakeBatch, server, link
<1>1. /\ g.pc \in {"sync", "list"} => g.gone = Path /\ g.todo = {}
      /\ g.pc = "sync" => sw
      /\ g.pc # "probe" /\ g.file = None
      /\ many => g.gone = Path
      /\ ~many => g.todo = Named("change") /\ g.gone = Named("delete")
  OBVIOUS
<1>2. None \notin g.todo
  <2>1. Named("change") \in SUBSET Path
    BY NamedPaths DEF Types
  <2> QED BY <2>1, WatchConstants
<1> HIDE DEF g
<1>3. PICK k \in DOMAIN flushes' :
        /\ DOMAIN flushes' = DOMAIN flushes \cup {k}
        /\ \A i \in DOMAIN flushes : flushes'[i] = flushes[i]
        /\ flushes'[k] = g
  <2>1. /\ DOMAIN flushes' = DOMAIN flushes \cup {Len(flushes) + 1}
        /\ \A i \in DOMAIN flushes : flushes'[i] = flushes[i]
        /\ flushes'[Len(flushes) + 1] = g
    BY <1>0 DEF Types, Work
  <2> QED BY <2>1
<1>4. Shape'
  <2>1. Shaped(g)
    BY <1>1, <1>2 DEF Shaped
  <2>2. \A i \in DOMAIN flushes' : Shaped(flushes'[i])
    BY <1>3, <2>1 DEF Shape
  <2> QED BY <1>0, <2>2 DEF Shape, Shaped, Subscribed
<1>5. ASSUME Listening', NEW p \in Path, Behind(p)', p \notin missed'
      PROVE  Carried(p)' /\ (InWatcher(p)' \/ LastGood(p, inbox)')
  <2>1. Listening /\ Behind(p) /\ p \notin missed
    BY <1>0, <1>5 DEF Listening, Behind, Stale
  <2>2. /\ InWatcher(p) => InWatcher(p)'
        /\ InStream(p) => InStream(p)'
        /\ LastGood(p, inbox) => LastGood(p, inbox)'
        /\ InGap => InGap'
    BY <1>0, Still DEF InWatcher
  <2>3. InFlight(p) => InFlight(p)'
    BY <1>0, <1>3 DEF InFlight, Brings
  <2>4. InQueue(p) => InFlight(p)'
    <3>1. InQueue(p) => Brings(p, g)
      <4>1. queue[None] # "none" => many
        BY NamedPaths DEF Types
      <4>2. queue[p] = "change" => p \in Named("change")
        BY DEF Named, Name
      <4>3. queue[p] \in {"none", "change", "delete"}
        BY DEF Types, Work, Name
      <4>4. queue[p] = "delete" => p \in Named("delete")
        BY DEF Named, Name
      <4> HIDE DEF many
      <4> QED BY <1>1, <4>1, <4>2, <4>3, <4>4 DEF InQueue, Good, Brings
    <3>2. Brings(p, g) => Brings(p, flushes[k])'
      BY <1>0, <1>3 DEF Brings
    <3> QED BY <1>3, <3>1, <3>2 DEF InFlight
  <2> QED BY <2>1, <2>2, <2>3, <2>4 DEF Words, Told, Carried
<1> QED BY <1>4, <1>5 DEF Words, Told

LEMMA CatchUpTold ==
  ASSUME Types, Shape, Words, CatchUp \/ Poll
  PROVE  Shape' /\ Words'
<1>0. /\ UNCHANGED <<disk, sw, up, raw, pending, inbox, lagged, queue, flushes, conn, ever, stopped>>
      /\ \/ See(Source, {}) /\ UNCHANGED local
         \/ NoEffect(Path)
         \/ local' = disk /\ UNCHANGED <<seen, missed, catchup>>
  BY DEF CatchUp, Poll, server, link, client
<1>1. Shape'
  BY <1>0, StillShaped
<1>2. ASSUME Listening', NEW p \in Path, Behind(p)', p \notin missed'
      PROVE  Carried(p)' /\ (InWatcher(p)' \/ LastGood(p, inbox)')
  <2>1. Behind(p) /\ p \notin missed /\ (sw \/ UNCHANGED catchup)
    <3>1. CASE See(Source, {}) /\ UNCHANGED local
      BY <1>0, <1>2, <3>1, SeeAll
    <3>2. CASE NoEffect(Path)
      BY <1>0, <1>2, <3>2, NoEffectBehind
    <3>3. CASE local' = disk /\ UNCHANGED <<seen, missed, catchup>>
      BY <1>0, <1>2, <3>3, SyncedBehind
    <3> QED BY <1>0, <3>1, <3>2, <3>3
  <2>2. Listening
    BY <1>0, <1>2 DEF Listening
  <2>3. local'[p] \in {local[p], disk[p]}
    BY <1>0 DEF NoEffect
  <2>4. InGap => InGap'
    BY <1>0, <2>1 DEF InGap, CatchesUp
  <2>5. /\ InWatcher(p) => InWatcher(p)'
        /\ InStream(p) => InStream(p)'
        /\ LastGood(p, inbox) => LastGood(p, inbox)'
        /\ InQueue(p) => InQueue(p)'
        /\ InFlight(p) => InFlight(p)'
    BY <1>0, <2>3, Still DEF InWatcher
  <2> QED BY <2>1, <2>2, <2>4, <2>5 DEF Words, Told, Carried
<1> QED BY <1>1, <1>2 DEF Words, Told

\* A step of a flush changes nothing else: what it has to show is that the flush
\* still brings what it did, unless the page has it or it was given up.
LEMMA FlightTold ==
  ASSUME Types, Shape, Words, NEW i \in DOMAIN flushes, NEW g, Goes(i, g), Shaped(g),
         UNCHANGED <<disk, sw, server, link, queue, stopped>>,
         \A p \in Path : Behind(p)' /\ p \notin missed' =>
           /\ Behind(p) /\ p \notin missed /\ local'[p] \in {local[p], disk[p]}
           /\ Brings(p, flushes[i]) => Brings(p, g)'
  PROVE  Shape' /\ Words'
<1>1. /\ DOMAIN flushes' = DOMAIN flushes /\ flushes'[i] = g
      /\ \A j \in DOMAIN flushes : j # i => flushes'[j] = flushes[j]
  BY DEF Goes, Types, Work
<1>2. Shape'
  <2>1. \A j \in DOMAIN flushes' : Shaped(flushes'[j])
    BY <1>1 DEF Shape
  <2> QED BY <2>1 DEF Shape, Shaped, Subscribed, server, link
<1>3. ASSUME Listening', NEW p \in Path, Behind(p)', p \notin missed'
      PROVE  Carried(p)' /\ (InWatcher(p)' \/ LastGood(p, inbox)')
  <2>1. Told(p) /\ Behind(p) /\ p \notin missed
    BY <1>3 DEF Words, Listening, link
  <2>2. /\ InWatcher(p) => InWatcher(p)'
        /\ InStream(p) => InStream(p)'
        /\ LastGood(p, inbox) => LastGood(p, inbox)'
        /\ InQueue(p) => InQueue(p)'
        /\ InGap => InGap'
    BY Still DEF InWatcher, server, link
  <2>3. InFlight(p) => InFlight(p)'
    <3>1. ASSUME NEW j \in DOMAIN flushes, j # i, Brings(p, flushes[j]) PROVE Brings(p, flushes[j])'
      <4>1. local'[p] \in {local[p], disk[p]} /\ flushes'[j] = flushes[j]
        BY <1>1, <1>3, <3>1
      <4> QED BY <3>1, <4>1 DEF Brings
    <3>2. Brings(p, flushes[i]) => Brings(p, flushes[i])'
      <4>1. Brings(p, g)' => Brings(p, flushes[i])'
        BY <1>1 DEF Brings
      <4> QED BY <1>3, <4>1
    <3> QED BY <1>1, <3>1, <3>2 DEF InFlight
  <2> QED BY <2>1, <2>2, <2>3 DEF Told, Carried
<1> QED BY <1>2, <1>3 DEF Words, Told

LEMMA SyncSpaceTold ==
  ASSUME Types, Shape, Words, NEW i \in DOMAIN flushes, SyncSpace(i)
  PROVE  Shape' /\ Words'
<1>1. PICK f, g : f = flushes[i] /\ g = [f EXCEPT !.pc = "list"]
  OBVIOUS
<1>2. f \in Flight /\ Shaped(f) /\ f.pc = "sync"
  BY <1>1 DEF Types, Work, Shape, SyncSpace
<1>3. /\ Goes(i, g) /\ UNCHANGED <<disk, sw, server, link, queue, stopped>>
      /\ (local' = disk /\ UNCHANGED <<seen, missed>>) \/ NoEffect(Path)
  BY <1>1 DEF SyncSpace
<1>4. Shaped(g) /\ g.gone = Path
  BY <1>1, <1>2, WatchConstants DEF Shaped, Flight
<1>5. ASSUME NEW p \in Path, Behind(p)', p \notin missed'
      PROVE  /\ Behind(p) /\ p \notin missed /\ local'[p] \in {local[p], disk[p]}
             /\ Brings(p, flushes[i]) => Brings(p, g)'
  <2>1. local'[p] \in {local[p], disk[p]}
    BY <1>3 DEF NoEffect
  <2>2. Behind(p) /\ p \notin missed
    BY <1>3, <1>5, <2>1, SyncedBehind, NoEffectBehind
  <2>3. Brings(p, g)'
    BY <1>4 DEF Brings
  <2> QED BY <2>1, <2>2, <2>3
<1> QED BY <1>3, <1>4, <1>5, FlightTold

LEMMA ListTold ==
  ASSUME Types, Shape, Words, NEW i \in DOMAIN flushes, List(i)
  PROVE  Shape' /\ Words'
<1>1. PICK f, g : f = flushes[i] /\ g = [f EXCEPT !.pc = "files", !.gone = {}]
  OBVIOUS
<1>2. f \in Flight /\ Shaped(f) /\ f.pc \in {"list", "files"} /\ f.todo = {}
  BY <1>1 DEF Types, Work, Shape, List, Shaped
<1>3. /\ Goes(i, g) /\ UNCHANGED <<disk, sw, server, link, queue, stopped>>
      /\ (See(Source, f.gone) /\ UNCHANGED local) \/ NoEffect(Path)
  BY <1>1 DEF List
<1>4. Shaped(g)
  BY <1>1, <1>2, WatchConstants DEF Shaped, Flight
<1>5. ASSUME NEW p \in Path, Behind(p)', p \notin missed'
      PROVE  /\ Behind(p) /\ p \notin missed /\ local'[p] \in {local[p], disk[p]}
             /\ Brings(p, flushes[i]) => Brings(p, g)'
  <2>1. CASE See(Source, f.gone) /\ UNCHANGED local
    <3>1. sw /\ Behind(p) /\ p \notin missed /\ p \notin f.gone
      BY <1>3, <1>5, <2>1, SeeAll
    <3>2. ~Brings(p, f)
      BY <1>2, <3>1 DEF Brings
    <3> QED BY <1>1, <2>1, <3>1, <3>2
  <2>2. CASE NoEffect(Path)
    BY <1>3, <1>5, <2>2, NoEffectBehind
  <2> QED BY <1>3, <2>1, <2>2
<1> QED BY <1>3, <1>4, <1>5, FlightTold

LEMMA SyncFileTold ==
  ASSUME Types, Shape, Words, NEW i \in DOMAIN flushes, NEW q \in Path, SyncFile(i, q)
  PROVE  Shape' /\ Words'
<1>1. PICK f, g : f = flushes[i] /\ g = [f EXCEPT !.pc = "probe", !.todo = @ \ {q}, !.file = q]
  OBVIOUS
<1>2. f \in Flight /\ Shaped(f) /\ sw /\ f.pc = "files" /\ q \in f.todo
  BY <1>1 DEF Types, Work, Shape, SyncFile
<1>3. /\ Goes(i, g) /\ UNCHANGED <<disk, sw, server, link, queue, stopped>>
      /\ (local' = [local EXCEPT ![q] = disk[q]] /\ UNCHANGED <<seen, missed>>) \/ NoEffect({q})
  BY <1>1 DEF SyncFile
<1>4. /\ g.pc = "probe" /\ g.todo = f.todo \ {q} /\ g.file = q /\ g.gone = f.gone
  BY <1>1, <1>2 DEF Flight
<1>5. Shaped(g)
  BY <1>2, <1>4, WatchConstants DEF Shaped
<1>6. ASSUME NEW p \in Path, Behind(p)', p \notin missed'
      PROVE  /\ Behind(p) /\ p \notin missed /\ local'[p] \in {local[p], disk[p]}
             /\ Brings(p, flushes[i]) => Brings(p, g)'
  <2>1. CASE local' = [local EXCEPT ![q] = disk[q]] /\ UNCHANGED <<seen, missed>>
    <3>1. local'[p] = IF p = q THEN disk[q] ELSE local[p]
      BY <2>1 DEF Types, Copies
    <3>2. Behind(p) /\ p \notin missed
      BY <1>3, <1>6, <2>1, <3>1, SyncedBehind
    <3>3. Brings(p, f) => Brings(p, g)'
      BY <1>2, <1>3, <1>4, <3>1 DEF Brings
    <3> QED BY <1>1, <3>1, <3>2, <3>3
  <2>2. CASE NoEffect({q})
    <3>1. p \notin missed /\ p # q /\ Behind(p) /\ UNCHANGED local
      BY <1>3, <1>6, <2>2, NoEffectBehind
    <3>2. Brings(p, f) => Brings(p, g)'
      BY <1>2, <1>3, <1>4, <3>1 DEF Brings
    <3> QED BY <1>1, <3>1, <3>2
  <2> QED BY <1>3, <2>1, <2>2
<1> QED BY <1>3, <1>5, <1>6, FlightTold

LEMMA ProbeTold ==
  ASSUME Types, Shape, Words, NEW i \in DOMAIN flushes, NEW q \in Path, Probe(i, q)
  PROVE  Shape' /\ Words'
<1> DEFINE news == IF Exists(Source[q]) THEN [seen EXCEPT ![q] = Source[q]] ELSE seen
<1>1. PICK f, g : f = flushes[i] /\ g = [f EXCEPT !.pc = "files", !.todo = @ \ {q}, !.file = None]
  OBVIOUS
<1>2. /\ f \in Flight /\ Shaped(f)
      /\ IF sw THEN f.pc = "probe" /\ q = f.file ELSE f.pc = "files" /\ q \in f.todo
  BY <1>1 DEF Types, Work, Shape, Probe
<1>3. /\ Goes(i, g) /\ UNCHANGED <<disk, sw, server, link, queue, stopped>>
      /\ (See(news, {}) /\ UNCHANGED local) \/ NoEffect({q})
  BY <1>1 DEF Probe
<1>4. /\ g.pc = "files" /\ g.todo = f.todo \ {q} /\ g.file = None /\ g.gone = f.gone
  BY <1>1, <1>2 DEF Flight
<1>5. Shaped(g)
  <2>1. f.todo \subseteq Path
    BY <1>2 DEF Flight
  <2> QED BY <1>4, <2>1, WatchConstants DEF Shaped
<1>6. ASSUME NEW p \in Path, Behind(p)', p \notin missed'
      PROVE  /\ Behind(p) /\ p \notin missed /\ local'[p] \in {local[p], disk[p]}
             /\ Brings(p, flushes[i]) => Brings(p, g)'
  <2>1. CASE See(news, {}) /\ UNCHANGED local
    <3>1. p \notin missed
      BY <1>3, <1>6, <2>1, SeeBehind
    <3>2. seen' = news
      BY <2>1 DEF See
    <3>3. CASE p # q
      <4>1. seen'[p] = seen[p]
        BY <3>2, <3>3 DEF Types, Copies
      <4>2. Behind(p)
        BY <1>3, <1>6, <2>1, <4>1 DEF Behind, Stale
      <4>3. Brings(p, f) => Brings(p, g)'
        BY <1>2, <1>3, <1>4, <2>1, <3>3 DEF Brings
      <4> QED BY <1>1, <2>1, <3>1, <4>2, <4>3
    <3>4. CASE p = q /\ ~Exists(Source[p])
      <4>1. Behind(p)
        BY <1>3, <1>6, <2>1, <3>2, <3>4 DEF Behind, Stale
      <4>2. Brings(p, f) => Brings(p, g)'
        BY <1>2, <1>3, <1>4, <2>1, <3>4 DEF Brings, Source, Shaped
      <4> QED BY <1>1, <2>1, <3>1, <4>1, <4>2
    <3>5. CASE p = q /\ Exists(Source[p])
      <4>1. seen'[p] = Source[p]
        BY <3>2, <3>5 DEF Types, Copies
      <4>2. sw /\ ~Same(local[p], disk[p])
        BY <1>3, <1>6, <2>1, <4>1 DEF Behind, Stale, Source, Same
      <4>3. Behind(p)
        BY <4>2 DEF Behind
      <4>4. Brings(p, f) => Brings(p, g)'
        BY <1>2, <1>3, <1>4, <2>1, <3>5, <4>2 DEF Brings, Shaped, Same
      <4> QED BY <1>1, <2>1, <3>1, <4>3, <4>4
    <3> QED BY <3>3, <3>4, <3>5
  <2>2. CASE NoEffect({q})
    <3>1. p \notin missed /\ p # q /\ Behind(p) /\ UNCHANGED local
      BY <1>3, <1>6, <2>2, NoEffectBehind
    <3>2. Brings(p, f) => Brings(p, g)'
      BY <1>2, <1>3, <1>4, <3>1 DEF Brings
    <3> QED BY <1>1, <3>1, <3>2
  <2> QED BY <1>3, <2>1, <2>2
<1> QED BY <1>3, <1>5, <1>6, FlightTold

LEMMA FlushEndsTold ==
  ASSUME Types, FlushInv, Shape, Words, NEW i \in DOMAIN flushes, FlushEnds(i)
  PROVE  Shape' /\ Words'
<1>0. UNCHANGED <<disk, local, seen, sw, server, link, queue, stopped, missed>>
  BY DEF FlushEnds, FlushDone
<1>1. PICK f : flushes = <<f>>
  BY DEF FlushInv, Idle, Due, Busy
<1>2. i = 1 /\ f = flushes[1] /\ f.pc = "files" /\ f.todo = {} /\ f.gone = {}
  BY <1>1 DEF FlushEnds, FlushDone
<1>3. flushes' = << >>
  <2>1. flushes' = RemoveAt(<<f>>, 1)
    BY <1>1, <1>2 DEF FlushEnds, FlushDone
  <2>2. RemoveAt(<<f>>, 1) = << >>
    BY DEF RemoveAt
  <2> QED BY <2>1, <2>2
<1>4. Shape'
  BY <1>0, <1>3 DEF Shape, Subscribed, server, link
<1>5. ASSUME Listening', NEW p \in Path, Behind(p)', p \notin missed'
      PROVE  Carried(p)' /\ (InWatcher(p)' \/ LastGood(p, inbox)')
  <2>1. Told(p) /\ Behind(p) /\ p \notin missed
    BY <1>0, <1>5 DEF Words, Listening, Behind, Stale, link
  <2>2. /\ InWatcher(p) => InWatcher(p)'
        /\ InStream(p) => InStream(p)'
        /\ LastGood(p, inbox) => LastGood(p, inbox)'
        /\ InQueue(p) => InQueue(p)'
        /\ InGap => InGap'
    BY <1>0, Still DEF InWatcher, server, link
  <2>3. ~InFlight(p)
    <3>1. \A j \in DOMAIN flushes : flushes[j] = f
      BY <1>1
    <3>2. ~Brings(p, f)
      BY <1>2 DEF Brings
    <3> QED BY <3>1, <3>2 DEF InFlight
  <2> QED BY <2>1, <2>2, <2>3 DEF Told, Carried
<1> QED BY <1>4, <1>5 DEF Words, Told

LEMMA WatchStep == Types /\ FlushInv /\ Shape /\ Words /\ [Next]_vars => Shape' /\ Words'
<1> SUFFICES ASSUME Types, FlushInv, Shape, Words, [Next]_vars PROVE Shape' /\ Words'
  OBVIOUS
<1>1. CASE UNCHANGED vars
  <2>1. Shape'
    BY <1>1, StillShaped DEF vars, server, link, client
  <2>2. Words'
    BY <1>1 DEF vars, server, link, client, Words, Listening, Told, Behind, Stale, Carried, InWatcher,
                InStream, InQueue, InGap, CatchesUp, InFlight, Brings, LastGood, About, Good
  <2> QED BY <2>1, <2>2
<1> QED
  BY <1>1, EditTold, DebounceTold, WatcherTold, CutTold, LinkTold, WipeTold, MessageTold, FlushTold,
     CatchUpTold, SyncSpaceTold, ListTold, SyncFileTold, ProbeTold, FlushEndsTold
  DEF Next, FlushStep

LEMMA Watched == Spec => [](Types /\ Shape /\ Words)
<1>1. Init => Types /\ FlushInv /\ Shape /\ Words
  BY InitTypes, InitFlush, InitWatch
<1>2. Types /\ FlushInv /\ Shape /\ Words /\ [Next]_vars => (Types /\ FlushInv /\ Shape /\ Words)'
  BY StepTypes, FlushInvStep, WatchStep
<1> QED BY <1>1, <1>2, PTL DEF Spec

\* A change of a file that the page has not seen is always somewhere between the watcher
\* and the page, or was given up where the code leaves it to polling (debounce_loop,
\* handle_events, realtime_events.ts).
THEOREM ChangesAnnounced == Spec => []NothingUnannounced
<1>1. Types /\ Shape /\ Words => NothingUnannounced
  <2> SUFFICES ASSUME Types, Shape, Words, Listening, NEW p \in Path, Stale(p), p \notin missed
               PROVE  OnTheWay(p)
    BY DEF NothingUnannounced
  <2>1. Carried(p)
    BY DEF Words, Told, Behind
  <2>2. InWatcher(p) => OnTheWay(p)
    BY DEF InWatcher, OnTheWay
  <2>3. InStream(p) => OnTheWay(p)
    <3>1. ASSUME ~lagged, NEW k \in DOMAIN inbox, About(p, inbox[k]) PROVE p \in InTransit
      <4>1. inbox[k] \in Range(inbox) /\ inbox[k] \in Ev
        BY DEF Range, Types, Stream
      <4>2. CASE inbox[k] = Resync
        BY <4>1, <4>2 DEF InTransit
      <4>3. CASE inbox[k] # Resync
        <5>1. inbox[k].name = p
          BY <3>1, <4>1, <4>3, EventTypes, WatchConstants DEF About
        <5> QED BY <4>1, <5>1 DEF InTransit
      <4> QED BY <4>2, <4>3
    <3>2. lagged => p \in InTransit
      BY DEF InTransit
    <3> QED BY <3>1, <3>2 DEF InStream, OnTheWay
  <2>4. InQueue(p) \/ InGap => OnTheWay(p)
    BY DEF InQueue, InGap, OnTheWay
  <2>5. InFlight(p) => OnTheWay(p)
    <3>1. ASSUME NEW k \in DOMAIN flushes, Brings(p, flushes[k]) PROVE OnTheWay(p)
      <4>1. flushes[k] \in Range(flushes)
        BY DEF Range
      <4> QED BY <3>1, <4>1 DEF Brings, OnTheWay
    <3> QED BY <3>1 DEF InFlight
  <2> QED BY <2>1, <2>2, <2>3, <2>4, <2>5 DEF Carried
<1> QED BY <1>1, Watched, PTL
=============================================================================
