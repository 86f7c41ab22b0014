------------------------------ MODULE PageSave ------------------------------
(***************************************************************************)
(* The page in the editor: client/content_manager.ts, with the listeners   *)
(* that drive it (codemirror/editor_state.ts, client.ts, navigator.ts) and *)
(* the three-way merge of external_merge.ts.                               *)
(*                                                                         *)
(* A text is a bag of marks; a mark is what one keystroke, or one change   *)
(* from elsewhere, has added to a page.  A diff is a difference of bags.   *)
(* JavaScript runs an action up to its next await; what it read before may *)
(* have changed when it goes on.                                           *)
(***************************************************************************)
EXTENDS Integers, Sequences

CONSTANTS
  Page,        \* the pages that are opened
  Loader,      \* identities for calls of loadPage
  None,        \* nobody waits for a save
  MaxMarks,    \* bound: keystrokes and changes from elsewhere
  MaxWrites,   \* bound: calls of space.writePage under way
  MaxReads,    \* bound: calls of reloadPageContent under way
  MaxTroubles, \* bound: loads, failing requests and compositions
  Troubles     \* what may happen, see May

\* Orders of events in which the code loses or doubles text:
\*   overlap  two loads of pages at once
\*   linger   a timer or a merge between "page-loaded" and setState
\*   echo     the change a write makes is read before the write returns
\*   reorder  a write lands or returns before one that was sent before it
\*   leave    a page is left while an input method is composing
\*   answer   a write has its effect and fails
\*   late     a write is under way when another page is shown
Races == {"overlap", "linger", "echo", "reorder", "leave", "answer", "late"}

ASSUME PageSaveConstants ==
  /\ Page # {} /\ None \notin Loader
  /\ MaxMarks \in Nat /\ MaxTroubles \in Nat
  /\ MaxWrites \in Nat \ {0} /\ MaxReads \in Nat \ {0}
  /\ Troubles \subseteq Races \cup {"fail", "compose"}

VARIABLES
  disk,      \* per page: its text in the space, and its lastModified
  path,      \* viewState.current.path
  doc,       \* the text of the editor
  unsaved,   \* viewState.unsavedChanges
  composing, \* an input method is composing
  dirty,     \* composingDirty
  base,      \* lastKnownDiskText and lastKnownDiskModified
  lastSaved, \* lastSavedHash
  timers,    \* timeouts for a save; "held": saveTimeout refers to it
  writes,    \* calls of writePage under way, in the order they were made
  reads,     \* reloadPageContent under way, in the order they were made
  load,      \* per Loader: a call of loadPage
  seen,      \* per page: its lastModified in the snapshot of the evented space
  home,      \* history: the page whose text is in the editor
  marks,     \* history: where and how each mark was made
  troubles   \* environment steps left

editor == <<path, doc, home>>
ime    == <<composing, dirty>>
vars   == <<disk, editor, unsaved, ime, base, lastSaved, timers, writes, reads, load, seen,
            marks, troubles>>

Mark  == 1..MaxMarks
Clean == [m \in Mark |-> 0]

May(kind) == kind \in Troubles
Suffer    == troubles > 0 /\ troubles' = troubles - 1

Idle(p) == [pc |-> "idle", page |-> p, other |-> FALSE, text |-> Clean, ver |-> 0]

\* A page has been loaded; all of them exist and are empty.
Init ==
  /\ disk = [p \in Page |-> [text |-> Clean, ver |-> 1]]
  /\ path = (CHOOSE p \in Page : TRUE) /\ home = path /\ doc = Clean /\ unsaved = FALSE
  /\ composing = FALSE /\ dirty = FALSE
  /\ base = [text |-> Clean, ver |-> 1] /\ lastSaved = 1
  /\ timers = {} /\ writes = << >> /\ reads = << >>
  /\ load = [l \in Loader |-> Idle(path)]
  /\ seen = [p \in Page |-> 1]
  /\ marks = << >> /\ troubles = MaxTroubles

-----------------------------------------------------------------------------
(* Typing. *)

\* The timeouts once saveTimeout refers to another one.
Unheld(ts) == {[t EXCEPT !.held = FALSE] : t \in ts}
Timeout(kind, who) == [kind |-> kind, for |-> who, held |-> TRUE]

\* save(): the timeout that saveTimeout refers to is cleared, and the promise
\* of whoever waited for it never settles.
Save(who) == timers' = {t \in timers : ~t.held} \cup {Timeout("save", who)}
Cleared   == {t.for : t \in {u \in timers : u.held}}
Stuck     == [l \in Loader |-> IF l \in Cleared THEN [load[l] EXCEPT !.pc = "stuck"]
                                                ELSE load[l]]

Calm == writes = << >> /\ \A l \in Loader : load[l].pc = "idle"

\* A keystroke.  While an input method is composing it only marks the page.
Type ==
  /\ Len(marks) < MaxMarks
  /\ marks' = Append(marks, [page |-> home, typed |-> TRUE, calm |-> Calm])
  /\ doc' = [doc EXCEPT ![Len(marks) + 1] = 1]
  /\ unsaved' = TRUE /\ dirty' = composing
  /\ IF composing THEN UNCHANGED <<timers, load>> ELSE Save(None) /\ load' = Stuck
  /\ UNCHANGED <<disk, path, home, composing, base, lastSaved, writes, reads, seen, troubles>>

Compose ==
  /\ ~composing /\ May("compose") /\ Suffer
  /\ composing' = TRUE
  /\ UNCHANGED <<disk, editor, unsaved, dirty, base, lastSaved, timers, writes, reads, load,
                 seen, marks>>

\* The composition ends: what it typed is saved now.
Composed ==
  /\ composing
  /\ composing' = FALSE /\ dirty' = FALSE
  /\ IF dirty THEN Save(None) /\ load' = Stuck ELSE UNCHANGED <<timers, load>>
  /\ UNCHANGED <<disk, editor, unsaved, base, lastSaved, writes, reads, seen, marks, troubles>>

-----------------------------------------------------------------------------
(* Saving. *)

\* The promise of a save settles: a load that awaited it reads the new page.
Resolved(who) == [l \in Loader |-> IF l = who THEN [load[l] EXCEPT !.pc = "read"] ELSE load[l]]

\* Between "page-loaded" and setState the path is of one page and the text of
\* another.
Between == \E l \in Loader : load[l].pc = "meta" /\ load[l].other

\* Mutant: the promise is not resolved when there is nothing to save.
SkipSilently(t) ==
  /\ ~unsaved
  /\ timers' = timers \ {t}
  /\ UNCHANGED <<load, writes>>
\* A timeout ends with nothing to save.
Skip(t) ==
  /\ ~unsaved
  /\ timers' = timers \ {t} /\ load' = Resolved(t.for)
  /\ UNCHANGED writes

\* It is put off while an input method is composing, also if somebody wants to
\* leave the page.
PutOff(t) ==
  /\ unsaved /\ composing
  /\ May("leave") \/ t.for = None
  /\ timers' = Unheld(timers \ {t}) \cup {Timeout("again", None)}
  /\ load' = Resolved(t.for)
  /\ UNCHANGED writes

\* The editor's text is written under the name of the current page.
Write(t) ==
  /\ unsaved /\ ~composing /\ Len(writes) < MaxWrites
  /\ timers' = timers \ {t}
  /\ writes' = Append(writes, [page |-> path, text |-> doc, ver |-> 0, for |-> t.for])
  /\ UNCHANGED load

\* A timeout ends.  Those for a retry call save() again.
TimeoutEnds(t) ==
  /\ IF t.kind = "again"
     THEN Save(None) /\ load' = Stuck /\ UNCHANGED writes
     ELSE (May("linger") \/ ~Between) /\ (Skip(t) \/ PutOff(t) \/ Write(t))
  /\ UNCHANGED <<disk, editor, unsaved, ime, base, lastSaved, reads, seen, marks, troubles>>

InOrder(i) == May("reorder") \/ \A j \in 1..i - 1 : writes[j].ver # 0

\* The space has the text, and gives it a newer lastModified.
Land(i) ==
  LET w == writes[i] IN
  /\ w.ver = 0 /\ InOrder(i)
  /\ disk' = [disk EXCEPT ![w.page] = [text |-> w.text, ver |-> @.ver + 1]]
  /\ writes' = [writes EXCEPT ![i].ver = disk'[w.page].ver]
  /\ UNCHANGED <<editor, unsaved, ime, base, lastSaved, timers, reads, load, seen, marks,
                 troubles>>

Dropped(s, i) == SubSeq(s, 1, i - 1) \o SubSeq(s, i + 1, Len(s))

\* writePage returns.
Written(i) ==
  LET w == writes[i] IN
  /\ w.ver # 0 /\ (i = 1 \/ May("reorder"))
  /\ base' = [text |-> w.text, ver |-> w.ver]
  /\ lastSaved' = w.ver
  /\ unsaved' = FALSE
  /\ load' = Resolved(w.for)
  /\ writes' = Dropped(writes, i)
  /\ UNCHANGED <<disk, editor, ime, timers, reads, seen, marks, troubles>>

\* Mutant: nothing is saved before another page is loaded.
BeginAtOnce(l, p) ==
  /\ load' = [load EXCEPT ![l] = [Idle(p) EXCEPT !.pc = "read", !.other = (p # path)]]
  /\ UNCHANGED timers
\* loadPage(p) by l from the start, up to the await of its save.
Begin(l, p) ==
  /\ Save(l)
  /\ load' = [Stuck EXCEPT ![l] = [Idle(p) EXCEPT !.pc = "save", !.other = (p # path)]]

\* The load of l, if any, throws, and saveTimeout is to be ts.  navigate() goes
\* back to the page that is still open and so loads it again, which saves at
\* once; a reload, or the browser's back button, ignores the error.
Throw(l, ts) ==
  \/ /\ timers' = ts
     /\ load' = [k \in Loader |-> IF k = l THEN Idle(path) ELSE load[k]]
  \/ /\ l # None /\ load[l].other
     /\ timers' = {t \in ts : ~t.held} \cup {Timeout("save", l)}
     /\ load' = [k \in Loader |-> CASE k = l -> [Idle(path) EXCEPT !.pc = "save"]
                                   [] k # l /\ k \in {t.for : t \in {u \in ts : u.held}}
                                        -> [load[k] EXCEPT !.pc = "stuck"]
                                   [] OTHER -> load[k]]

\* Mutant: no retry is scheduled.
WriteFailsForGood(i) ==
  /\ May("fail") /\ Suffer
  /\ Throw(writes[i].for, timers)
  /\ writes' = Dropped(writes, i)
  /\ UNCHANGED <<disk, editor, unsaved, ime, base, lastSaved, reads, seen, marks>>
\* writePage throws; the answer to a write that has had its effect may be lost.
\* A retry is scheduled, and whoever waits gets the error.
WriteFails(i) ==
  /\ May("fail") /\ Suffer
  /\ May("answer") \/ writes[i].ver = 0
  /\ (i = 1 \/ May("reorder"))
  /\ Throw(writes[i].for, Unheld(timers) \cup {Timeout("again", None)})
  /\ writes' = Dropped(writes, i)
  /\ UNCHANGED <<disk, editor, unsaved, ime, base, lastSaved, reads, seen, marks>>

-----------------------------------------------------------------------------
(* Changes from elsewhere, and the merge. *)

\* Another client, or a program on the server, adds to the text of a page.
ChangeElsewhere(p) ==
  LET d == disk[p] IN
  /\ Len(marks) < MaxMarks
  /\ marks' = Append(marks, [page |-> p, typed |-> FALSE, calm |-> FALSE])
  /\ disk' = [disk EXCEPT ![p] = [text |-> [d.text EXCEPT ![Len(marks) + 1] = 1],
                                  ver |-> d.ver + 1]]
  /\ UNCHANGED <<editor, unsaved, ime, base, lastSaved, timers, writes, reads, load, seen,
                 troubles>>

\* Polling, a listing, or the end of a write finds a lastModified that is new:
\* file:changed.  The listener reads the page if it is the current one, and
\* the change is not the one it has saved itself.
FileChanged(p) ==
  /\ seen[p] # disk[p].ver
  /\ seen' = [seen EXCEPT ![p] = disk[p].ver]
  /\ IF path = p /\ disk[p].ver # lastSaved
     THEN /\ Len(reads) < MaxReads
          /\ reads' = Append(reads, [page |-> p, text |-> disk[p].text, ver |-> disk[p].ver])
     ELSE UNCHANGED reads
  /\ UNCHANGED <<disk, editor, unsaved, ime, base, lastSaved, timers, writes, load, marks,
                 troubles>>

\* computeExternalChanges, applied: what was added to, or removed from, the
\* text on disk since base is added to and removed from the editor's.
Merged(from, to, current) ==
  IF to = current THEN current
  ELSE [m \in Mark |-> LET n == current[m] + to[m] - from[m]
                       IN IF n < 0 THEN 0 ELSE IF n > 2 THEN 2 ELSE n]

\* Mutant: an older text is applied as well.
ApplyAlways(text, ver) ==
  doc' = Merged(base.text, text, doc) /\ base' = [text |-> text, ver |-> ver]
\* Mutant: the base of the merge is not moved on.
ApplyKeepsBase(text, ver) ==
  IF ver < base.ver THEN UNCHANGED <<doc, base>>
  ELSE doc' = Merged(base.text, text, doc) /\ base' = [base EXCEPT !.ver = ver]
\* applyExternalPatches drops what is older than what it has applied.
Apply(text, ver) ==
  IF ver < base.ver THEN UNCHANGED <<doc, base>>
  ELSE doc' = Merged(base.text, text, doc) /\ base' = [text |-> text, ver |-> ver]

\* The answer to a read overtakes the return of a write that it has read.
Echoed(r) ==
  \E i \in DOMAIN writes : writes[i].page = r.page /\ writes[i].ver \in 1..r.ver

\* The page has been read, at once or by now; if another one is open, that was
\* in vain.
Reread(i) ==
  LET page == reads[i].page IN
  /\ May("linger") \/ ~Between
  /\ IF path # page THEN UNCHANGED <<doc, base>>
     ELSE \E r \in {reads[i], [page |-> page, text |-> disk[page].text, ver |-> disk[page].ver]} :
            (May("echo") \/ ~Echoed(r)) /\ Apply(r.text, r.ver)
  /\ reads' = Dropped(reads, i)
  /\ UNCHANGED <<disk, path, home, unsaved, ime, lastSaved, timers, writes, load, seen, marks,
                 troubles>>

-----------------------------------------------------------------------------
(* Loading. *)

\* The navigator opens a page, or reloadEditor the current one again.  Two
\* loads overlap when the user goes back, or a reload meets a navigation.
Open(l, p) ==
  /\ Suffer
  /\ load[l].pc = "idle"
  /\ May("overlap") \/ \A k \in Loader : load[k].pc = "idle"
  /\ Begin(l, p)
  /\ UNCHANGED <<disk, editor, unsaved, ime, base, lastSaved, writes, reads, seen, marks>>

\* Mutant: the lastModified of the answer is not understood.
FetchNoVersion(l) ==
  /\ load[l].pc = "read"
  /\ load' = [load EXCEPT ![l].pc = "show", ![l].text = disk[load[l].page].text, ![l].ver = -1]
  /\ UNCHANGED <<disk, editor, unsaved, ime, base, lastSaved, timers, writes, reads, seen,
                 marks, troubles>>
\* The request for the page is served.
Fetch(l) ==
  /\ load[l].pc = "read"
  /\ load' = [load EXCEPT ![l].pc = "show", ![l].text = disk[load[l].page].text,
                          ![l].ver = disk[load[l].page].ver]
  /\ UNCHANGED <<disk, editor, unsaved, ime, base, lastSaved, timers, writes, reads, seen,
                 marks, troubles>>

FetchFails(l) ==
  /\ load[l].pc = "read" /\ May("fail")
  /\ Throw(l, timers)
  /\ UNCHANGED <<disk, editor, unsaved, ime, base, lastSaved, writes, reads, seen, marks, troubles>>

\* "page-loaded"; then the indexed meta of the page is awaited.  A write of the
\* page before may return later than that.
Show(l) ==
  /\ load[l].pc = "show"
  /\ May("late") \/ ~load[l].other \/ writes = << >>
  /\ lastSaved' = load[l].ver
  /\ path' = load[l].page
  /\ load' = [load EXCEPT ![l].pc = "meta"]
  /\ UNCHANGED <<disk, doc, home, unsaved, ime, base, timers, writes, reads, seen, marks,
                 troubles>>

\* The text of another page replaces the editor's state; the same page's is
\* merged into it.
Loaded(l) ==
  /\ load[l].pc = "meta"
  /\ May("echo") \/ load[l].other \/ ~Echoed(load[l])
  /\ IF load[l].other
     THEN /\ doc' = load[l].text /\ home' = load[l].page
          /\ base' = [text |-> load[l].text, ver |-> load[l].ver]
     ELSE Apply(load[l].text, load[l].ver) /\ UNCHANGED home
  /\ load' = [load EXCEPT ![l] = Idle(path)]
  /\ UNCHANGED <<disk, path, unsaved, ime, lastSaved, timers, writes, reads, seen, marks,
                 troubles>>

-----------------------------------------------------------------------------
Loading(l) == Fetch(l) \/ Show(l) \/ Loaded(l)
Writing == \E i \in DOMAIN writes : Land(i) \/ Written(i)

Next ==
  \/ Type \/ Compose \/ Composed
  \/ \E t \in timers : TimeoutEnds(t)
  \/ \E i \in DOMAIN writes : Land(i) \/ Written(i) \/ WriteFails(i)
  \/ \E p \in Page : ChangeElsewhere(p) \/ FileChanged(p)
  \/ \E i \in DOMAIN reads : Reread(i)
  \/ \E l \in Loader : Loading(l) \/ FetchFails(l) \/ (\E p \in Page : Open(l, p))

Spec == Init /\ [][Next]_vars

\* Timeouts end, requests are answered and compositions finished.
Fairness ==
  /\ WF_vars(Composed) /\ WF_vars(\E t \in timers : TimeoutEnds(t))
  /\ WF_vars(Writing) /\ \A l \in Loader : WF_vars(Loading(l))
  /\ WF_vars(\E i \in DOMAIN reads : Reread(i))

FairSpec == Spec /\ Fairness

-----------------------------------------------------------------------------
(* Properties. *)

Text == [Mark -> 0..2]

\* The type of every variable.
TypeOK ==
  /\ disk \in [Page -> [text : Text, ver : Nat]]
  /\ path \in Page /\ home \in Page /\ doc \in Text
  /\ {unsaved, composing, dirty} \subseteq BOOLEAN
  /\ base \in [text : Text, ver : Nat] /\ lastSaved \in Nat
  /\ timers \subseteq [kind : {"save", "again"}, for : Loader \cup {None}, held : BOOLEAN]
  /\ \A i \in DOMAIN writes :
       writes[i] \in [page : Page, text : Text, ver : Nat, for : Loader \cup {None}]
  /\ \A i \in DOMAIN reads : reads[i] \in [page : Page, text : Text, ver : Nat]
  /\ load \in [Loader -> [pc : {"idle", "save", "stuck", "read", "show", "meta"}, page : Page,
                          other : BOOLEAN, text : Text, ver : Nat]]
  /\ seen \in [Page -> Nat] /\ troubles \in 0..MaxTroubles
  /\ \A m \in DOMAIN marks : marks[m] \in [page : Page, typed : BOOLEAN, calm : BOOLEAN]

Keystrokes == {m \in DOMAIN marks : marks[m].typed /\ marks[m].calm}
OnDisk(m) == disk[marks[m].page].text[m] > 0
Shown(m)  == home = marks[m].page /\ doc[m] > 0

\* What is typed while nothing is being written or loaded is on disk, or else in
\* the editor, on a page that is not shown as saved: whatever is merged,
\* reloaded, navigated to, or fails to be written.
TypedKept == \A m \in Keystrokes : OnDisk(m) \/ (Shown(m) /\ unsaved)

\* No merge inserts what is there already, and no page gets the text of another.
TextsApart ==
  \A m \in DOMAIN marks :
    /\ doc[m] <= 1 /\ (doc[m] > 0 => home = marks[m].page)
    /\ \A p \in Page : disk[p].text[m] <= IF p = marks[m].page THEN 1 ELSE 0

\* What is in the editor stays until another page is shown: nobody else's
\* change, and no late answer, takes it away.
EditorKeeps ==
  [][home' = home /\ (\A l \in Loader : ~(load[l].pc = "meta" /\ load[l].other))
       => \A m \in Mark : doc[m] > 0 => doc'[m] > 0]_vars

\* The same keystrokes reach the disk in the end, through failing writes,
\* compositions and superseded timers.
EventuallySaved ==
  \A m \in Mark : m \in Keystrokes ~> m \in Keystrokes /\ OnDisk(m)

\* A load ends, unless another call of save() has cleared its timer.
LoadsEnd == \A l \in Loader : load[l].pc = "save" ~> load[l].pc \in {"idle", "stuck"}
=============================================================================
