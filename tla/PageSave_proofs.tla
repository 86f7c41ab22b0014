--------------------------- MODULE PageSave_proofs ---------------------------
(* Theorems about PageSave, for any number of pages, loads, marks, writes and *)
(* reads under way, and environment steps.                                    *)
EXTENDS PageSave, SequenceTheorems, TLAPS

-----------------------------------------------------------------------------
(* Types. *)

Version  == [text : Text, ver : Nat]
ReadRec  == [page : Page, text : Text, ver : Nat]
WriteRec == [page : Page, text : Text, ver : Nat, for : Loader \cup {None}]
MarkRec  == [page : Page, typed : BOOLEAN, calm : BOOLEAN]
TimerRec == [kind : {"save", "again"}, for : Loader \cup {None}, held : BOOLEAN]
LoadRec  == [pc : {"idle", "save", "stuck", "read", "show", "meta"}, page : Page,
             other : BOOLEAN, text : Text, ver : Nat]

TextTypes  == disk \in [Page -> Version] /\ doc \in Text /\ base \in Version
PlaceTypes == path \in Page /\ home \in Page /\ lastSaved \in Nat /\ seen \in [Page -> Nat]
FlagTypes  == /\ unsaved \in BOOLEAN /\ composing \in BOOLEAN /\ dirty \in BOOLEAN
              /\ troubles \in 0..MaxTroubles
LoadTypes  == timers \in SUBSET TimerRec /\ load \in [Loader -> LoadRec]
WriteTypes == writes \in Seq(WriteRec)
ReadTypes  == reads \in Seq(ReadRec)
MarkTypes  == marks \in Seq(MarkRec) /\ Len(marks) <= MaxMarks

\* The type invariant, with the sequences as sequences.
Types == TextTypes /\ PlaceTypes /\ FlagTypes /\ LoadTypes /\ WriteTypes /\ ReadTypes /\ MarkTypes

\* What is left of a sequence when its i-th element is taken out.
LEMMA DroppedIs ==
  ASSUME NEW S, NEW s \in Seq(S), NEW i \in 1..Len(s)
  PROVE  /\ Dropped(s, i) \in Seq(S) /\ Len(Dropped(s, i)) = Len(s) - 1
         /\ \A j \in 1..Len(s) - 1 : Dropped(s, i)[j] = IF j < i THEN s[j] ELSE s[j + 1]
<1> DEFINE a == SubSeq(s, 1, i - 1)
           b == SubSeq(s, i + 1, Len(s))
<1>1. Len(s) \in Nat
  BY LenProperties
<1>2. a \in Seq(S) /\ Len(a) = i - 1 /\ \A j \in 1..i - 1 : a[j] = s[j]
  BY <1>1, SubSeqProperties
<1>3. b \in Seq(S) /\ Len(b) = Len(s) - i /\ \A j \in 1..Len(s) - i : b[j] = s[i + j]
  BY <1>1, SubSeqProperties
<1>4. Dropped(s, i) = a \o b
  BY DEF Dropped
<1> HIDE DEF a, b
<1>5. /\ a \o b \in Seq(S) /\ Len(a \o b) = Len(a) + Len(b)
      /\ \A j \in 1..Len(a) + Len(b) : (a \o b)[j] = IF j <= Len(a) THEN a[j] ELSE b[j - Len(a)]
  BY <1>2, <1>3, ConcatProperties
<1>6. Len(Dropped(s, i)) = Len(s) - 1
  BY <1>1, <1>2, <1>3, <1>4, <1>5
<1>7. ASSUME NEW j \in 1..Len(s) - 1
      PROVE  Dropped(s, i)[j] = IF j < i THEN s[j] ELSE s[j + 1]
  <2>1. CASE j < i
    BY <1>1, <1>2, <1>3, <1>4, <1>5, <2>1
  <2>2. CASE ~(j < i)
    <3>1. j - (i - 1) \in 1..Len(s) - i /\ i + (j - (i - 1)) = j + 1
      BY <1>1, <2>2
    <3>2. Dropped(s, i)[j] = b[j - (i - 1)]
      BY <1>1, <1>2, <1>3, <1>4, <1>5, <2>2
    <3> QED BY <1>3, <2>2, <3>1, <3>2
  <2> QED BY <2>1, <2>2
<1> QED BY <1>4, <1>5, <1>6, <1>7

\* So every element that is left was there before.
LEMMA DroppedFrom ==
  ASSUME NEW S, NEW s \in Seq(S), NEW i \in DOMAIN s, NEW j \in DOMAIN Dropped(s, i)
  PROVE  LET k == IF j < i THEN j ELSE j + 1
         IN  Dropped(s, i)[j] = s[k] /\ k # i /\ k \in DOMAIN s /\ j \in Nat /\ i \in Nat
<1>1. i \in 1..Len(s) /\ Len(s) \in Nat /\ DOMAIN s = 1..Len(s)
  BY LenProperties
<1>2. Dropped(s, i) \in Seq(S) /\ Len(Dropped(s, i)) = Len(s) - 1
  BY <1>1, DroppedIs
<1>3. j \in 1..Len(s) - 1
  BY <1>2, LenProperties
<1>4. Dropped(s, i)[j] = IF j < i THEN s[j] ELSE s[j + 1]
  BY <1>1, <1>3, DroppedIs
<1> QED BY <1>1, <1>3, <1>4

LEMMA MarksAre == Mark \subseteq Nat /\ Clean \in Text
BY PageSaveConstants DEF Mark, Clean, Text

LEMMA IdleType == ASSUME NEW p \in Page PROVE Idle(p) \in LoadRec
BY MarksAre DEF Idle, LoadRec

LEMMA TimeoutType ==
  ASSUME NEW kind \in {"save", "again"}, NEW who \in Loader \cup {None}
  PROVE  Timeout(kind, who) \in TimerRec
BY DEF Timeout, TimerRec

LEMMA UnheldType == ASSUME NEW ts \in SUBSET TimerRec PROVE Unheld(ts) \in SUBSET TimerRec
BY DEF Unheld, TimerRec

LEMMA SaveTypes ==
  ASSUME LoadTypes, NEW who \in Loader \cup {None}
  PROVE  /\ Save(who) => timers' \in SUBSET TimerRec
         /\ Stuck \in [Loader -> LoadRec] /\ Resolved(who) \in [Loader -> LoadRec]
<1>1. Save(who) => timers' \in SUBSET TimerRec
  BY TimeoutType DEF Save, LoadTypes
<1>2. \A l \in Loader : [load[l] EXCEPT !.pc = "stuck"] \in LoadRec
                     /\ [load[l] EXCEPT !.pc = "read"] \in LoadRec
  BY DEF LoadTypes, LoadRec
<1>3. Stuck \in [Loader -> LoadRec]
  BY <1>2 DEF Stuck, LoadTypes
<1>4. Resolved(who) \in [Loader -> LoadRec]
  BY <1>2 DEF Resolved, LoadTypes
<1> QED BY <1>1, <1>3, <1>4

LEMMA ThrowTypes ==
  ASSUME LoadTypes, path \in Page, NEW l \in Loader \cup {None}, NEW ts \in SUBSET TimerRec,
         Throw(l, ts)
  PROVE  LoadTypes'
<1>1. Idle(path) \in LoadRec /\ [Idle(path) EXCEPT !.pc = "save"] \in LoadRec
  BY IdleType DEF LoadRec
<1>2. \A k \in Loader : load[k] \in LoadRec /\ [load[k] EXCEPT !.pc = "stuck"] \in LoadRec
  BY DEF LoadTypes, LoadRec
<1>3. CASE timers' = ts /\ load' = [k \in Loader |-> IF k = l THEN Idle(path) ELSE load[k]]
  <2>1. \A k \in Loader : (IF k = l THEN Idle(path) ELSE load[k]) \in LoadRec
    BY <1>1, <1>2
  <2> QED BY <1>3, <2>1 DEF LoadTypes
<1>4. CASE /\ timers' = {t \in ts : ~t.held} \cup {Timeout("save", l)}
           /\ load' = [k \in Loader |->
                         CASE k = l -> [Idle(path) EXCEPT !.pc = "save"]
                           [] k # l /\ k \in {t.for : t \in {u \in ts : u.held}}
                                -> [load[k] EXCEPT !.pc = "stuck"]
                           [] OTHER -> load[k]]
  <2>1. \A k \in Loader :
          (CASE k = l -> [Idle(path) EXCEPT !.pc = "save"]
             [] k # l /\ k \in {t.for : t \in {u \in ts : u.held}}
                  -> [load[k] EXCEPT !.pc = "stuck"]
             [] OTHER -> load[k]) \in LoadRec
    BY <1>1, <1>2
  <2>2. timers' \in SUBSET TimerRec
    BY <1>4, TimeoutType
  <2>3. load' \in [Loader -> LoadRec]
    BY <1>4, <2>1
  <2> QED BY <2>2, <2>3 DEF LoadTypes
<1> QED BY <1>3, <1>4, Zenon DEF Throw

\* A merge makes a text of texts.
LEMMA MergeType ==
  ASSUME NEW from \in Text, NEW to \in Text, NEW current \in Text
  PROVE  Merged(from, to, current) \in Text
<1>1. \A m \in Mark : LET n == current[m] + to[m] - from[m]
                      IN (IF n < 0 THEN 0 ELSE IF n > 2 THEN 2 ELSE n) \in 0..2
  BY DEF Text
<1> QED BY <1>1 DEF Merged, Text

LEMMA ApplyTypes ==
  ASSUME doc \in Text, base \in Version, NEW text \in Text, NEW ver \in Nat, Apply(text, ver)
  PROVE  doc' \in Text /\ base' \in Version
BY MergeType DEF Apply, Version

LEMMA WriteIs ==
  ASSUME WriteTypes, NEW i \in DOMAIN writes
  PROVE  writes[i] \in WriteRec /\ i \in 1..Len(writes) /\ Len(writes) \in Nat
BY LenProperties DEF WriteTypes

LEMMA ReadIs ==
  ASSUME ReadTypes, NEW i \in DOMAIN reads
  PROVE  reads[i] \in ReadRec /\ i \in 1..Len(reads) /\ Len(reads) \in Nat
BY LenProperties DEF ReadTypes

LEMMA TypingTypes ==
  ASSUME Types, Type \/ Compose \/ Composed
  PROVE  Types'
<1>1. CASE Type
  <2>1. Len(marks) + 1 \in Mark
    BY <1>1, PageSaveConstants DEF Type, Mark, Types, MarkTypes
  <2>2. TextTypes'
    BY <1>1, <2>1 DEF Type, Types, TextTypes, Text
  <2>3. LoadTypes'
    BY <1>1, SaveTypes DEF Type, Types, LoadTypes
  <2>4. MarkTypes'
    <3>1. Calm \in BOOLEAN
      BY DEF Calm
    <3>2. [page |-> home, typed |-> TRUE, calm |-> Calm] \in MarkRec
      BY <3>1 DEF MarkRec, Types, PlaceTypes
    <3>3. Len(marks) < MaxMarks
          /\ marks' = Append(marks, [page |-> home, typed |-> TRUE, calm |-> Calm])
      BY <1>1 DEF Type
    <3> QED BY <3>2, <3>3, AppendProperties, LenProperties, PageSaveConstants
               DEF Types, MarkTypes
  <2> QED BY <1>1, <2>2, <2>3, <2>4
          DEF Type, Types, PlaceTypes, FlagTypes, WriteTypes, ReadTypes
<1>2. CASE Compose
  <2>1. troubles' \in 0..MaxTroubles
    BY <1>2, PageSaveConstants DEF Compose, Suffer, Types, FlagTypes
  <2> QED BY <1>2, <2>1 DEF Compose, editor, Types, TextTypes, PlaceTypes, FlagTypes, LoadTypes,
                            WriteTypes, ReadTypes, MarkTypes
<1>3. CASE Composed
  <2>1. LoadTypes'
    BY <1>3, SaveTypes DEF Composed, Types, LoadTypes
  <2> QED BY <1>3, <2>1 DEF Composed, editor, Types, TextTypes, PlaceTypes, FlagTypes,
                            WriteTypes, ReadTypes, MarkTypes
<1> QED BY <1>1, <1>2, <1>3

LEMMA TimeoutTypes ==
  ASSUME Types, NEW t \in timers, TimeoutEnds(t)
  PROVE  Types'
<1>1. t \in TimerRec /\ t.for \in Loader \cup {None}
  BY DEF Types, LoadTypes, TimerRec
<1>2. LoadTypes' /\ WriteTypes'
  <2>1. CASE Save(None) /\ load' = Stuck /\ UNCHANGED writes
    BY <2>1, SaveTypes DEF Types, LoadTypes, WriteTypes
  <2>2. CASE Skip(t)
    BY <1>1, <2>2, SaveTypes DEF Skip, Types, LoadTypes, WriteTypes
  <2>3. CASE PutOff(t)
    BY <1>1, <2>3, SaveTypes, UnheldType, TimeoutType DEF PutOff, Types, LoadTypes, WriteTypes
  <2>4. CASE Write(t)
    <3>1. [page |-> path, text |-> doc, ver |-> 0, for |-> t.for] \in WriteRec
      BY <1>1 DEF WriteRec, Types, TextTypes, PlaceTypes
    <3> QED BY <2>4, <3>1, AppendProperties DEF Write, Types, LoadTypes, WriteTypes
  <2> QED BY <2>1, <2>2, <2>3, <2>4 DEF TimeoutEnds
<1> QED BY <1>2 DEF TimeoutEnds, editor, ime, Types, TextTypes, PlaceTypes, FlagTypes,
                    ReadTypes, MarkTypes

LEMMA WritingTypes ==
  ASSUME Types, NEW i \in DOMAIN writes, Land(i) \/ Written(i) \/ WriteFails(i)
  PROVE  Types'
<1>1. /\ writes[i] \in WriteRec /\ i \in 1..Len(writes) /\ Len(writes) \in Nat
      /\ writes[i].page \in Page /\ writes[i].text \in Text /\ writes[i].ver \in Nat
      /\ writes[i].for \in Loader \cup {None}
  BY WriteIs DEF Types, WriteRec
<1>2. Dropped(writes, i) \in Seq(WriteRec)
  BY <1>1, DroppedIs DEF Types, WriteTypes
<1>3. CASE Land(i)
  <2> DEFINE w == writes[i]
             d == [text |-> w.text, ver |-> disk[w.page].ver + 1]
  <2>1. disk' = [disk EXCEPT ![w.page] = d] /\ writes' = [writes EXCEPT ![i].ver = disk'[w.page].ver]
    BY <1>3 DEF Land
  <2>2. d \in Version
    BY <1>1 DEF Version, Types, TextTypes
  <2>3. disk' \in [Page -> Version] /\ disk'[w.page] = d
    BY <1>1, <2>1, <2>2 DEF Types, TextTypes
  <2>4. [w EXCEPT !.ver = d.ver] \in WriteRec
    BY <1>1, <2>2 DEF WriteRec, Version
  <2>5. writes' = [writes EXCEPT ![i] = [w EXCEPT !.ver = d.ver]]
    BY <2>1, <2>3
  <2>6. WriteTypes'
    BY <1>1, <2>4, <2>5, ExceptSeq DEF Types, WriteTypes
  <2> QED BY <1>3, <2>3, <2>6 DEF Land, editor, ime, Types, TextTypes, PlaceTypes, FlagTypes,
                                  LoadTypes, ReadTypes, MarkTypes
<1>4. CASE Written(i)
  <2>1. base' \in Version /\ lastSaved' \in Nat
    BY <1>1, <1>4 DEF Written, Version
  <2>2. LoadTypes'
    BY <1>1, <1>4, SaveTypes DEF Written, Types, LoadTypes
  <2> QED BY <1>2, <1>4, <2>1, <2>2
          DEF Written, editor, ime, Types, TextTypes, PlaceTypes, FlagTypes, WriteTypes, ReadTypes,
              MarkTypes
<1>5. CASE WriteFails(i)
  <2>1. Unheld(timers) \cup {Timeout("again", None)} \in SUBSET TimerRec
    BY UnheldType, TimeoutType DEF Types, LoadTypes
  <2>2. LoadTypes'
    BY <1>1, <1>5, <2>1, ThrowTypes DEF WriteFails, Types, PlaceTypes
  <2>3. troubles' \in 0..MaxTroubles
    BY <1>5, PageSaveConstants DEF WriteFails, Suffer, Types, FlagTypes
  <2> QED BY <1>2, <1>5, <2>2, <2>3
          DEF WriteFails, editor, ime, Types, TextTypes, PlaceTypes, FlagTypes, WriteTypes,
              ReadTypes, MarkTypes
<1> QED BY <1>3, <1>4, <1>5

LEMMA ElsewhereTypes ==
  ASSUME Types, NEW p \in Page, ChangeElsewhere(p) \/ FileChanged(p)
  PROVE  Types'
<1>1. disk[p] \in Version /\ disk[p].text \in Text /\ disk[p].ver \in Nat
  BY DEF Types, TextTypes, Version
<1>2. CASE ChangeElsewhere(p)
  <2> DEFINE d == [text |-> [disk[p].text EXCEPT ![Len(marks) + 1] = 1], ver |-> disk[p].ver + 1]
  <2>1. disk' = [disk EXCEPT ![p] = d]
    BY <1>2 DEF ChangeElsewhere
  <2>2. d \in Version
    <3>1. Len(marks) + 1 \in Mark
      BY <1>2, LenProperties, PageSaveConstants DEF ChangeElsewhere, Mark, Types, MarkTypes
    <3>2. [disk[p].text EXCEPT ![Len(marks) + 1] = 1] \in Text
      BY <1>1, <3>1 DEF Text
    <3> QED BY <1>1, <3>2 DEF Version
  <2>3. TextTypes'
    BY <1>2, <2>1, <2>2 DEF ChangeElsewhere, editor, Types, TextTypes
  <2>4. MarkTypes'
    <3>1. [page |-> p, typed |-> FALSE, calm |-> FALSE] \in MarkRec
      BY DEF MarkRec
    <3>2. /\ Len(marks) < MaxMarks
          /\ marks' = Append(marks, [page |-> p, typed |-> FALSE, calm |-> FALSE])
      BY <1>2 DEF ChangeElsewhere
    <3> QED BY <3>1, <3>2, AppendProperties, LenProperties, PageSaveConstants
               DEF Types, MarkTypes
  <2> QED BY <1>2, <2>3, <2>4 DEF ChangeElsewhere, editor, ime, Types, PlaceTypes, FlagTypes,
                                  LoadTypes, WriteTypes, ReadTypes
<1>3. CASE FileChanged(p)
  <2>1. seen' \in [Page -> Nat]
    BY <1>1, <1>3 DEF FileChanged, Types, PlaceTypes
  <2>2. [page |-> p, text |-> disk[p].text, ver |-> disk[p].ver] \in ReadRec
    BY <1>1 DEF ReadRec
  <2>3. ReadTypes'
    BY <1>3, <2>2, AppendProperties DEF FileChanged, Types, ReadTypes
  <2> QED BY <1>3, <2>1, <2>3 DEF FileChanged, editor, ime, Types, TextTypes, PlaceTypes, FlagTypes,
                                  LoadTypes, WriteTypes, MarkTypes
<1> QED BY <1>2, <1>3

LEMMA RereadTypes ==
  ASSUME Types, NEW i \in DOMAIN reads, Reread(i)
  PROVE  Types'
<1>1. reads[i] \in ReadRec /\ i \in 1..Len(reads) /\ reads[i].page \in Page
  BY ReadIs DEF Types, ReadRec
<1>2. ReadTypes'
  BY <1>1, <1>1, DroppedIs DEF Reread, Types, ReadTypes
<1>3. TextTypes'
  <2>1. CASE UNCHANGED <<doc, base>>
    BY <2>1 DEF Reread, Types, TextTypes
  <2>2. CASE ~UNCHANGED <<doc, base>>
    <3>1. PICK r \in {reads[i], [page |-> reads[i].page, text |-> disk[reads[i].page].text,
                                 ver |-> disk[reads[i].page].ver]} : Apply(r.text, r.ver)
      BY <2>2, Zenon DEF Reread
    <3>2. r.text \in Text /\ r.ver \in Nat
      BY <1>1 DEF ReadRec, Version, Types, TextTypes
    <3> QED BY <3>1, <3>2, ApplyTypes DEF Reread, Types, TextTypes
  <2> QED BY <2>1, <2>2
<1> QED BY <1>2, <1>3 DEF Reread, ime, Types, PlaceTypes, FlagTypes, LoadTypes, WriteTypes, MarkTypes

LEMMA LoadingTypes ==
  ASSUME Types, NEW l \in Loader,
         Loading(l) \/ FetchFails(l) \/ (\E p \in Page : Open(l, p))
  PROVE  Types'
<1>1. /\ load[l] \in LoadRec /\ load[l].page \in Page /\ load[l].text \in Text
      /\ load[l].ver \in Nat
  BY DEF Types, LoadTypes, LoadRec
<1>2. CASE Fetch(l)
  <2> DEFINE d == disk[load[l].page]
             r == [load[l] EXCEPT !.pc = "show", !.text = d.text, !.ver = d.ver]
  <2>1. d.text \in Text /\ d.ver \in Nat
    BY <1>1 DEF Types, TextTypes, Version
  <2>2. r \in LoadRec
    BY <1>1, <2>1 DEF LoadRec
  <2>3. load' = [load EXCEPT ![l] = r]
    BY <1>2 DEF Fetch, Types, LoadTypes
  <2> QED BY <1>2, <2>2, <2>3 DEF Fetch, editor, ime, Types, TextTypes, PlaceTypes, FlagTypes,
                                  LoadTypes, WriteTypes, ReadTypes, MarkTypes
<1>3. CASE Show(l)
  <2>1. [load[l] EXCEPT !.pc = "meta"] \in LoadRec
    BY <1>1 DEF LoadRec
  <2>2. LoadTypes'
    BY <1>3, <2>1 DEF Show, Types, LoadTypes
  <2> QED BY <1>1, <1>3, <2>2 DEF Show, ime, Types, TextTypes, PlaceTypes, FlagTypes,
                                  WriteTypes, ReadTypes, MarkTypes
<1>4. CASE Loaded(l)
  <2>1. LoadTypes'
    BY <1>4, IdleType DEF Loaded, Types, LoadTypes, PlaceTypes
  <2>2. doc' \in Text /\ base' \in Version /\ home' \in Page
    <3>1. CASE load[l].other
      BY <1>1, <1>4, <3>1 DEF Loaded, Version
    <3>2. CASE ~load[l].other
      BY <1>1, <1>4, <3>2, ApplyTypes DEF Loaded, Types, TextTypes, PlaceTypes
    <3> QED BY <3>1, <3>2
  <2> QED BY <1>4, <2>1, <2>2 DEF Loaded, ime, Types, TextTypes, PlaceTypes, FlagTypes,
                                  WriteTypes, ReadTypes, MarkTypes
<1>5. CASE FetchFails(l)
  <2>1. LoadTypes'
    BY <1>5, ThrowTypes DEF FetchFails, Types, PlaceTypes, LoadTypes
  <2> QED BY <1>5, <2>1 DEF FetchFails, editor, ime, Types, TextTypes, PlaceTypes, FlagTypes,
                            WriteTypes, ReadTypes, MarkTypes
<1>6. ASSUME NEW p \in Page, Open(l, p) PROVE Types'
  <2>1. [Idle(p) EXCEPT !.pc = "save", !.other = (p # path)] \in LoadRec
    <3>1. (p # path) \in BOOLEAN
      OBVIOUS
    <3> QED BY <3>1, MarksAre DEF Idle, LoadRec
  <2>2. LoadTypes'
    BY <1>6, <2>1, SaveTypes DEF Open, Begin, Types, LoadTypes
  <2>3. troubles' \in 0..MaxTroubles
    BY <1>6, PageSaveConstants DEF Open, Suffer, Types, FlagTypes
  <2> QED BY <1>6, <2>2, <2>3 DEF Open, editor, ime, Types, TextTypes, PlaceTypes, FlagTypes,
                                  WriteTypes, ReadTypes, MarkTypes
<1> QED BY <1>2, <1>3, <1>4, <1>5, <1>6 DEF Loading

LEMMA TypesKept == Types /\ [Next]_vars => Types'
<1> SUFFICES ASSUME Types, [Next]_vars PROVE Types'
  OBVIOUS
<1>1. CASE UNCHANGED vars
  BY <1>1 DEF vars, editor, ime, Types, TextTypes, PlaceTypes, FlagTypes, LoadTypes, WriteTypes,
              ReadTypes, MarkTypes
<1>2. CASE Next
  BY <1>2, TypingTypes, TimeoutTypes, WritingTypes, ElsewhereTypes, RereadTypes, LoadingTypes
     DEF Next
<1> QED BY <1>1, <1>2

LEMMA TypesFirst == Init => Types
<1> SUFFICES ASSUME Init PROVE Types
  OBVIOUS
<1>1. path \in Page
  BY PageSaveConstants DEF Init
<1>2. TextTypes
  BY MarksAre DEF Init, TextTypes, Version
<1>3. LoadTypes
  BY <1>1, IdleType DEF Init, LoadTypes
<1>4. PlaceTypes
  BY <1>1 DEF Init, PlaceTypes
<1>5. FlagTypes
  <2>1. unsaved = FALSE /\ composing = FALSE /\ dirty = FALSE /\ troubles = MaxTroubles
    BY Zenon DEF Init
  <2>2. troubles \in 0..MaxTroubles
    BY <2>1, PageSaveConstants
  <2> QED BY <2>1, <2>2 DEF FlagTypes
<1>6. writes = << >> /\ reads = << >> /\ marks = << >>
  BY Zenon DEF Init
<1>7. WriteTypes /\ ReadTypes /\ MarkTypes
  BY <1>6, PageSaveConstants DEF WriteTypes, ReadTypes, MarkTypes
<1> QED BY <1>2, <1>3, <1>4, <1>5, <1>7 DEF Types

LEMMA TypesAlways == Spec => []Types
BY TypesFirst, TypesKept, PTL DEF Spec

\* Every variable of the editor keeps its type, whatever happens and however
\* badly: no merge, no answer and no error makes a text, a version or the state
\* of a load that is not one.
THEOREM PageTypes == Spec => []TypeOK
<1>1. Types => TypeOK
  <2> SUFFICES ASSUME Types PROVE TypeOK
    OBVIOUS
  <2>1. \A i \in DOMAIN writes : writes[i] \in WriteRec
    BY WriteIs DEF Types
  <2>2. \A i \in DOMAIN reads : reads[i] \in ReadRec
    BY ReadIs DEF Types
  <2>3. \A m \in DOMAIN marks : marks[m] \in MarkRec
    BY LenProperties DEF Types, MarkTypes
  <2> QED BY <2>1, <2>2, <2>3
          DEF Types, TextTypes, PlaceTypes, FlagTypes, LoadTypes, TypeOK, Version, WriteRec,
              ReadRec, MarkRec, TimerRec, LoadRec
<1> QED BY <1>1, TypesAlways, PTL

-----------------------------------------------------------------------------
(* Loads: one at a time, and what it waits for.                              *)

\* None of the orders of events in which the code loses or doubles text.
NoRace == Troubles \cap Races = {}

LEMMA MayNot == ASSUME NoRace, NEW kind \in Races PROVE ~May(kind)
BY DEF NoRace, May

\* A second load waits until the first has ended.
OneLoad == \A k, l \in Loader : load[k].pc # "idle" /\ load[l].pc # "idle" => k = l

\* Who waits for a save has exactly one: a timeout, or a write.
Awaited ==
  /\ \A t \in timers : t.for \in Loader => t.kind = "save" /\ load[t.for].pc = "save"
  /\ \A i \in DOMAIN writes : writes[i].for \in Loader => load[writes[i].for].pc = "save"
  /\ \A t, u \in timers : t.for = u.for /\ t.for \in Loader => t = u
  /\ \A t \in timers, i \in DOMAIN writes : t.for = writes[i].for => t.for \notin Loader
  /\ \A i, j \in DOMAIN writes : writes[i].for = writes[j].for /\ writes[i].for \in Loader => i = j

\* Where a load is, by its step: the page it loads is the current one if it is a
\* reload, and becomes so at "page-loaded" if it is not.
LoadPlace(r) ==
  /\ r.pc = "idle" => ~r.other
  /\ r.pc \in {"save", "read", "show"} /\ r.other => r.page # path
  /\ r.pc = "meta" /\ r.other => r.page = path /\ path # home
  /\ r.pc \in {"save", "read", "show", "meta"} /\ ~r.other => r.page = path

\* The path is of the page that is in the editor, except between "page-loaded"
\* and setState; writes under way are of that page.
Places ==
  /\ path = home \/ Between
  /\ \A i \in DOMAIN writes : writes[i].page = home /\ path = home
  /\ \A l \in Loader : LoadPlace(load[l])

Loads == OneLoad /\ Awaited /\ Places

\* save(), by somebody who types or by a timeout that has ended.
LEMMA SaveLoads ==
  ASSUME Types, Loads, Save(None), load' = Stuck, UNCHANGED <<path, home, writes>>
  PROVE  Loads'
<1>1. \A l \in Loader : /\ l \in Cleared => load'[l] = [load[l] EXCEPT !.pc = "stuck"]
                        /\ l \notin Cleared => load'[l] = load[l]
  BY DEF Stuck
<1>2. \A l \in Cleared \cap Loader : load[l].pc = "save" /\ \A i \in DOMAIN writes : writes[i].for # l
  BY DEF Cleared, Loads, Awaited
<1>3. \A l \in Loader : l \in Cleared => load'[l].pc = "stuck" /\ load'[l].other = load[l].other
                                     /\ load'[l].page = load[l].page
  BY <1>1 DEF Types, LoadTypes, LoadRec
<1>4. OneLoad'
  <2>1. \A l \in Loader : load'[l].pc # "idle" => load[l].pc # "idle"
    BY <1>1, <1>2
  <2> QED BY <2>1 DEF Loads, OneLoad
<1>5. \A t \in timers' : t.for \in Loader => t \in timers /\ ~t.held
  BY PageSaveConstants DEF Save, Timeout
<1>6. \A t \in timers : ~t.held /\ t.for \in Loader => t.for \notin Cleared
  BY DEF Cleared, Loads, Awaited
<1>7. Awaited'
  <2>1. \A t \in timers' : t.for \in Loader => t.kind = "save" /\ load'[t.for].pc = "save"
    BY <1>1, <1>5, <1>6 DEF Loads, Awaited
  <2>2. \A i \in DOMAIN writes : writes[i].for \in Loader => load'[writes[i].for].pc = "save"
    BY <1>1, <1>2 DEF Loads, Awaited
  <2>3. \A t, u \in timers' : t.for = u.for /\ t.for \in Loader => t = u
    BY <1>5 DEF Loads, Awaited
  <2>4. \A t \in timers', i \in DOMAIN writes : t.for = writes[i].for => t.for \notin Loader
    BY <1>5 DEF Loads, Awaited
  <2> QED BY <2>1, <2>2, <2>3, <2>4 DEF Loads, Awaited
<1>8. Places'
  <2>1. ASSUME NEW l \in Loader PROVE LoadPlace(load[l])'
    <3>1. LoadPlace(load[l])
      BY DEF Loads, Places
    <3>2. CASE l \in Cleared
      BY <1>3, <3>2 DEF LoadPlace
    <3>3. CASE l \notin Cleared
      BY <1>1, <3>1, <3>3 DEF LoadPlace
    <3> QED BY <3>2, <3>3
  <2>2. Between => Between'
    BY <1>1, <1>2 DEF Between
  <2> QED BY <2>1, <2>2 DEF Loads, Places
<1> QED BY <1>4, <1>7, <1>8 DEF Loads

\* Steps that change neither loads nor what they wait for.
LEMMA SameLoads ==
  ASSUME Loads, UNCHANGED <<path, home, load, timers>>,
         DOMAIN writes' = DOMAIN writes,
         \A i \in DOMAIN writes : writes'[i].for = writes[i].for /\ writes'[i].page = writes[i].page
  PROVE  Loads'
<1>1. OneLoad'
  BY DEF Loads, OneLoad
<1>2. Awaited'
  BY DEF Loads, Awaited
<1>3. Places'
  BY DEF Loads, Places, LoadPlace, Between
<1> QED BY <1>1, <1>2, <1>3 DEF Loads

\* A timeout ends, and not for a retry.
LEMMA TimeoutLoads ==
  ASSUME NoRace, Types, Loads, NEW t \in timers, t.kind = "save", TimeoutEnds(t)
  PROVE  Loads'
<1>0. /\ t \in TimerRec /\ ~Between /\ path = home /\ UNCHANGED <<path, home>>
      /\ Skip(t) \/ PutOff(t) \/ Write(t)
  BY MayNot DEF Races, TimeoutEnds, editor, Types, LoadTypes, Loads, Places
<1>1. CASE Skip(t)
  <2>1. \A l \in Loader : /\ l = t.for => load'[l] = [load[l] EXCEPT !.pc = "read"]
                          /\ l # t.for => load'[l] = load[l]
    BY <1>1 DEF Skip, Resolved
  <2>2. \A l \in Loader : l = t.for =>
          load[l].pc = "save" /\ load'[l].pc = "read" /\ load'[l].other = load[l].other
                              /\ load'[l].page = load[l].page
    <3> TAKE l \in Loader
    <3> HAVE l = t.for
    <3>1. load[l] \in LoadRec /\ load[l].pc = "save"
      BY DEF Loads, Awaited, Types, LoadTypes
    <3>2. load'[l] = [load[l] EXCEPT !.pc = "read"]
      BY <2>1
    <3> QED BY <3>1, <3>2 DEF LoadRec
  <2>3. timers' = timers \ {t} /\ writes' = writes
    BY <1>1 DEF Skip
  <2>4. OneLoad'
    BY <2>1, <2>2 DEF Loads, OneLoad
  <2>5. Awaited'
    <3>1. \A u \in timers' : u.for \in Loader => u.for # t.for
      BY <2>3 DEF Loads, Awaited
    <3>2. \A i \in DOMAIN writes : writes[i].for \in Loader => writes[i].for # t.for
      BY DEF Loads, Awaited
    <3> QED BY <2>1, <2>3, <3>1, <3>2 DEF Loads, Awaited
  <2>6. \A l \in Loader : LoadPlace(load[l])'
    BY <1>0, <2>1, <2>2 DEF Loads, Places, LoadPlace
  <2>7. Places'
    BY <1>0, <2>3, <2>6 DEF Loads, Places
  <2> QED BY <2>4, <2>5, <2>7 DEF Loads
<1>2. CASE PutOff(t)
  <2>1. t.for = None /\ t.for \notin Loader
    BY <1>2, MayNot, PageSaveConstants DEF PutOff, Races
  <2>2. load' = load
    BY <1>2, <2>1 DEF PutOff, Resolved, Types, LoadTypes
  <2>3. timers' = Unheld(timers \ {t}) \cup {Timeout("again", None)} /\ writes' = writes
    BY <1>2 DEF PutOff
  <2>4. \A u \in timers' : u.for \in Loader =>
          \E v \in timers : u = [v EXCEPT !.held = FALSE] /\ u.for = v.for /\ u.kind = v.kind
    BY <2>3, PageSaveConstants DEF Unheld, Timeout, Types, LoadTypes, TimerRec
  <2>5. Awaited'
    <3>1. \A u \in timers' : u.for \in Loader => u.kind = "save" /\ load'[u.for].pc = "save"
      <4> TAKE u \in timers'
      <4> HAVE u.for \in Loader
      <4>1. PICK v \in timers : u.for = v.for /\ u.kind = v.kind
        BY <2>4
      <4> QED BY <2>2, <4>1 DEF Loads, Awaited
    <3>2. \A u, v \in timers' : u.for = v.for /\ u.for \in Loader => u = v
      <4> TAKE u, v \in timers'
      <4> HAVE u.for = v.for /\ u.for \in Loader
      <4>1. PICK x \in timers : u = [x EXCEPT !.held = FALSE] /\ u.for = x.for
        BY <2>4
      <4>2. PICK y \in timers : v = [y EXCEPT !.held = FALSE] /\ v.for = y.for
        BY <2>4
      <4> QED BY <4>1, <4>2 DEF Loads, Awaited
    <3>3. \A u \in timers', i \in DOMAIN writes : u.for = writes[i].for => u.for \notin Loader
      BY <2>4 DEF Loads, Awaited
    <3> QED BY <2>2, <2>3, <3>1, <3>2, <3>3 DEF Loads, Awaited
  <2>6. OneLoad' /\ Places'
    BY <1>0, <2>2, <2>3 DEF Loads, OneLoad, Places, LoadPlace
  <2> QED BY <2>5, <2>6 DEF Loads
<1>3. CASE Write(t)
  <2> DEFINE w == [page |-> path, text |-> doc, ver |-> 0, for |-> t.for]
  <2>1. timers' = timers \ {t} /\ writes' = Append(writes, w) /\ load' = load
    BY <1>3 DEF Write
  <2>2. w \in WriteRec
    BY <1>0 DEF WriteRec, TimerRec, Types, TextTypes, PlaceTypes
  <2>3. /\ DOMAIN writes' = 1..Len(writes) + 1 /\ DOMAIN writes = 1..Len(writes)
        /\ Len(writes) \in Nat /\ writes'[Len(writes) + 1] = w
        /\ \A i \in 1..Len(writes) : writes'[i] = writes[i]
    BY <2>1, <2>2, AppendProperties, LenProperties DEF Types, WriteTypes
  <2>4. \A i \in DOMAIN writes' : i # Len(writes) + 1 => i \in DOMAIN writes /\ writes'[i] = writes[i]
    BY <2>3
  <2>5. \A i \in DOMAIN writes' : i = Len(writes) + 1 => writes'[i].for = t.for /\ writes'[i].page = path
    BY <2>3
  <2>6. Awaited'
    <3>1. \A u \in timers' : u \in timers /\ (u.for \in Loader => u.for # t.for)
      BY <2>1 DEF Loads, Awaited
    <3>2. t.for \in Loader => load'[t.for].pc = "save" /\ \A i \in DOMAIN writes : writes[i].for # t.for
      BY <2>1 DEF Loads, Awaited
    <3>3. \A i \in DOMAIN writes' : writes'[i].for \in Loader => load'[writes'[i].for].pc = "save"
      BY <2>1, <2>4, <2>5, <3>2 DEF Loads, Awaited
    <3>4. \A u \in timers', i \in DOMAIN writes' : u.for = writes'[i].for => u.for \notin Loader
      BY <2>4, <2>5, <3>1 DEF Loads, Awaited
    <3>5. \A i, j \in DOMAIN writes' :
            writes'[i].for = writes'[j].for /\ writes'[i].for \in Loader => i = j
      BY <2>4, <2>5, <3>2 DEF Loads, Awaited
    <3>6. /\ \A u \in timers' : u.for \in Loader => u.kind = "save" /\ load'[u.for].pc = "save"
          /\ \A u, v \in timers' : u.for = v.for /\ u.for \in Loader => u = v
      BY <2>1, <3>1 DEF Loads, Awaited
    <3> QED BY <3>3, <3>4, <3>5, <3>6 DEF Awaited
  <2>7. Places'
    BY <1>0, <2>1, <2>4, <2>5 DEF Loads, Places, LoadPlace
  <2> QED BY <2>1, <2>6, <2>7 DEF Loads, OneLoad
<1> QED BY <1>0, <1>1, <1>2, <1>3

\* Who waited for a save, and nobody else, goes on to read the page.
LEMMA ResolvedIs ==
  ASSUME Types, NEW who, NEW l \in Loader
  PROVE  /\ l = who => /\ Resolved(who)[l].pc = "read" /\ Resolved(who)[l].other = load[l].other
                       /\ Resolved(who)[l].page = load[l].page
         /\ l # who => Resolved(who)[l] = load[l]
<1>1. load[l] \in LoadRec
  BY DEF Types, LoadTypes
<1>2. Resolved(who)[l] = IF l = who THEN [load[l] EXCEPT !.pc = "read"] ELSE load[l]
  BY DEF Resolved
<1> QED BY <1>1, <1>2 DEF LoadRec

\* What is left of the writes when the i-th one is done.
LEMMA WritesLeft ==
  ASSUME Types, NEW i \in DOMAIN writes, writes' = Dropped(writes, i), NEW j \in DOMAIN writes'
  PROVE  LET k == IF j < i THEN j ELSE j + 1
         IN  writes'[j] = writes[k] /\ k # i /\ k \in DOMAIN writes /\ j \in Nat /\ i \in Nat
BY DroppedFrom DEF Types, WriteTypes

LEMMA WrittenLoads ==
  ASSUME Types, Loads, NEW i \in DOMAIN writes, Written(i)
  PROVE  Loads'
<1> DEFINE w == writes[i]
<1>1. load' = Resolved(w.for) /\ writes' = Dropped(writes, i) /\ UNCHANGED <<path, home, timers>>
  BY DEF Written, editor
<1>2. w.page = home /\ path = home /\ (w.for \in Loader => load[w.for].pc = "save")
  BY DEF Loads, Places, Awaited
<1>3. \A l \in Loader :
        /\ l = w.for => load'[l].pc = "read" /\ load'[l].other = load[l].other
                                             /\ load'[l].page = load[l].page
        /\ l # w.for => load'[l] = load[l]
  BY <1>1, ResolvedIs
<1>4. OneLoad'
  <2>1. \A l \in Loader : load'[l].pc # "idle" => load[l].pc # "idle"
    BY <1>2, <1>3
  <2> QED BY <2>1 DEF Loads, OneLoad
<1>5. \A j \in DOMAIN writes' : \E k \in DOMAIN writes :
        writes'[j] = writes[k] /\ k = (IF j < i THEN j ELSE j + 1) /\ k # i /\ j \in Nat /\ i \in Nat
  BY <1>1, WritesLeft
<1>6. Awaited'
  <2>1. \A t \in timers : t.for \in Loader => t.for # w.for
    BY DEF Loads, Awaited
  <2>2. \A j \in DOMAIN writes' : writes'[j].for \in Loader => writes'[j].for # w.for
    BY <1>5 DEF Loads, Awaited
  <2>3. \A t \in timers' : t.for \in Loader => t.kind = "save" /\ load'[t.for].pc = "save"
    BY <1>1, <1>3, <2>1 DEF Loads, Awaited
  <2>4. \A j \in DOMAIN writes' : writes'[j].for \in Loader => load'[writes'[j].for].pc = "save"
    BY <1>3, <1>5, <2>2 DEF Loads, Awaited
  <2>5. \A t \in timers', j \in DOMAIN writes' : t.for = writes'[j].for => t.for \notin Loader
    BY <1>1, <1>5 DEF Loads, Awaited
  <2>6. \A j, k \in DOMAIN writes' :
          writes'[j].for = writes'[k].for /\ writes'[j].for \in Loader => j = k
    <3> TAKE j, k \in DOMAIN writes'
    <3> HAVE writes'[j].for = writes'[k].for /\ writes'[j].for \in Loader
    <3>1. PICK x \in DOMAIN writes : writes'[j] = writes[x] /\ x = (IF j < i THEN j ELSE j + 1)
                                     /\ j \in Nat /\ i \in Nat
      BY <1>5
    <3>2. PICK y \in DOMAIN writes : writes'[k] = writes[y] /\ y = (IF k < i THEN k ELSE k + 1)
                                     /\ k \in Nat
      BY <1>5
    <3>3. x = y
      BY <3>1, <3>2 DEF Loads, Awaited
    <3> QED BY <3>1, <3>2, <3>3
  <2> QED BY <1>1, <2>3, <2>4, <2>5, <2>6 DEF Loads, Awaited
<1>7. Places'
  <2>1. \A l \in Loader : LoadPlace(load[l])'
    <3> TAKE l \in Loader
    <3>1. LoadPlace(load[l])
      BY DEF Loads, Places
    <3> QED BY <1>1, <1>2, <1>3, <3>1 DEF LoadPlace
  <2> QED BY <1>1, <1>2, <1>5, <2>1 DEF Loads, Places
<1> QED BY <1>4, <1>6, <1>7 DEF Loads

\* A load that ends with an error, or starts again.
LEMMA ThrowLoads ==
  ASSUME Types, Loads, UNCHANGED <<path, home>>, path = home, NEW ts \in SUBSET TimerRec,
         NEW l \in Loader, load[l].pc \in {"save", "read"}, Throw(l, ts),
         \A t \in ts : t.for \notin Loader,
         \A j \in DOMAIN writes' : writes'[j].for \notin Loader /\ writes'[j].page = home
  PROVE  Loads'
<1>1. \A k \in Loader : k # l => load[k].pc = "idle" /\ ~load[k].other
  BY DEF Loads, OneLoad, Places, LoadPlace
<1>2. /\ \A k \in Loader : k # l => load'[k] = load[k]
      /\ \/ load'[l] = Idle(path) /\ timers' = ts
         \/ /\ load'[l] = [Idle(path) EXCEPT !.pc = "save"]
            /\ timers' = {t \in ts : ~t.held} \cup {Timeout("save", l)}
  <2>1. CASE timers' = ts /\ load' = [k \in Loader |-> IF k = l THEN Idle(path) ELSE load[k]]
    BY <2>1
  <2>2. CASE /\ timers' = {t \in ts : ~t.held} \cup {Timeout("save", l)}
             /\ load' = [k \in Loader |->
                           CASE k = l -> [Idle(path) EXCEPT !.pc = "save"]
                             [] k # l /\ k \in {t.for : t \in {u \in ts : u.held}}
                                  -> [load[k] EXCEPT !.pc = "stuck"]
                             [] OTHER -> load[k]]
    <3>1. \A k \in Loader : k \notin {t.for : t \in {u \in ts : u.held}}
      OBVIOUS
    <3> QED BY <2>2, <3>1
  <2> QED BY <2>1, <2>2, Zenon DEF Throw
<1>3. load'[l].page = path /\ load'[l].other = FALSE /\ load'[l].pc \in {"idle", "save"}
  BY <1>2 DEF Idle
<1>4. OneLoad'
  BY <1>1, <1>2 DEF OneLoad
<1>5. \A t \in timers' : t.for \in Loader => t = Timeout("save", l) /\ load'[l].pc = "save"
  BY <1>2 DEF Idle
<1>6. Awaited'
  <2>1. Timeout("save", l).kind = "save" /\ Timeout("save", l).for = l
    BY DEF Timeout
  <2>2. \A t \in timers' : t.for \in Loader => t.kind = "save" /\ load'[t.for].pc = "save"
    BY <1>5, <2>1
  <2>3. \A t, u \in timers' : t.for = u.for /\ t.for \in Loader => t = u
    BY <1>5
  <2> QED BY <2>2, <2>3 DEF Awaited
<1>7. Places'
  BY <1>1, <1>2, <1>3 DEF Places, LoadPlace
<1> QED BY <1>4, <1>6, <1>7 DEF Loads

LEMMA WriteFailsLoads ==
  ASSUME Types, Loads, NEW i \in DOMAIN writes, WriteFails(i)
  PROVE  Loads'
<1> DEFINE w == writes[i]
           ts == Unheld(timers) \cup {Timeout("again", None)}
<1>1. /\ Throw(w.for, ts) /\ writes' = Dropped(writes, i) /\ UNCHANGED <<path, home>>
      /\ ts \in SUBSET TimerRec
  BY UnheldType, TimeoutType DEF WriteFails, editor, Types, LoadTypes
<1>2. w.page = home /\ path = home /\ w.for \in Loader \cup {None}
  BY WriteIs DEF Loads, Places, Types, WriteRec
<1>3. \A j \in DOMAIN writes' : \E k \in DOMAIN writes :
        writes'[j] = writes[k] /\ k = (IF j < i THEN j ELSE j + 1) /\ k # i /\ j \in Nat /\ i \in Nat
  BY <1>1, WritesLeft
<1>4. \A t \in ts : t.for \in Loader =>
        \E u \in timers : t = [u EXCEPT !.held = FALSE] /\ t.for = u.for /\ t.kind = u.kind
  BY PageSaveConstants DEF Unheld, Timeout, Types, LoadTypes, TimerRec
<1> HIDE DEF ts
<1>5. CASE w.for \in Loader
  <2>1. load[w.for].pc = "save"
    BY <1>5 DEF Loads, Awaited
  <2>2. \A t \in timers : t.for \notin Loader
    BY <1>5, <2>1 DEF Loads, Awaited, OneLoad
  <2>3. \A t \in ts : t.for \notin Loader
    BY <1>4, <2>2
  <2>4. \A k \in DOMAIN writes : writes[k].for \in Loader => k = i
    BY <1>5, <2>1 DEF Loads, Awaited, OneLoad
  <2>5. \A j \in DOMAIN writes' : writes'[j].for \notin Loader /\ writes'[j].page = home
    BY <1>3, <2>4 DEF Loads, Places
  <2> QED BY <1>1, <1>2, <1>5, <2>1, <2>3, <2>5, ThrowLoads
<1>6. CASE w.for = None
  <2>1. timers' = ts /\ load' = load
    BY <1>1, <1>6, PageSaveConstants DEF Throw, Types, LoadTypes
  <2>2. \A u \in ts : u.for \in Loader => u.kind = "save" /\ load'[u.for].pc = "save"
    <3> TAKE u \in ts
    <3> HAVE u.for \in Loader
    <3>1. PICK v \in timers : u.for = v.for /\ u.kind = v.kind
      BY <1>4
    <3> QED BY <2>1, <3>1 DEF Loads, Awaited
  <2>3. \A u, v \in ts : u.for = v.for /\ u.for \in Loader => u = v
    <3> TAKE u, v \in ts
    <3> HAVE u.for = v.for /\ u.for \in Loader
    <3>1. PICK x \in timers : u = [x EXCEPT !.held = FALSE] /\ u.for = x.for
      BY <1>4
    <3>2. PICK y \in timers : v = [y EXCEPT !.held = FALSE] /\ v.for = y.for
      BY <1>4
    <3> QED BY <3>1, <3>2 DEF Loads, Awaited
  <2>4. \A u \in ts, j \in DOMAIN writes' : u.for = writes'[j].for => u.for \notin Loader
    <3> TAKE u \in ts, j \in DOMAIN writes'
    <3>1. PICK k \in DOMAIN writes : writes'[j] = writes[k]
      BY <1>3
    <3> QED BY <1>4, <3>1 DEF Loads, Awaited
  <2>5. \A j \in DOMAIN writes' : writes'[j].for \in Loader => load'[writes'[j].for].pc = "save"
    BY <1>3, <2>1 DEF Loads, Awaited
  <2>6. \A j, k \in DOMAIN writes' :
          writes'[j].for = writes'[k].for /\ writes'[j].for \in Loader => j = k
    <3> TAKE j, k \in DOMAIN writes'
    <3> HAVE writes'[j].for = writes'[k].for /\ writes'[j].for \in Loader
    <3>1. PICK x \in DOMAIN writes : writes'[j] = writes[x] /\ x = (IF j < i THEN j ELSE j + 1)
                                     /\ j \in Nat /\ i \in Nat
      BY <1>3
    <3>2. PICK y \in DOMAIN writes : writes'[k] = writes[y] /\ y = (IF k < i THEN k ELSE k + 1)
                                     /\ k \in Nat
      BY <1>3
    <3>3. x = y
      BY <3>1, <3>2 DEF Loads, Awaited
    <3> QED BY <3>1, <3>2, <3>3
  <2>7. Awaited'
    BY <2>1, <2>2, <2>3, <2>4, <2>5, <2>6 DEF Awaited
  <2>8. OneLoad' /\ Places'
    BY <1>1, <1>2, <1>3, <2>1 DEF Loads, OneLoad, Places, LoadPlace
  <2> QED BY <2>7, <2>8 DEF Loads
<1> QED BY <1>2, <1>5, <1>6

\* When one load is under way, nobody waits for a save but it.
LEMMA LoadAlone ==
  ASSUME Types, Loads, NEW l \in Loader, load[l].pc \in {"read", "show", "meta"}
  PROVE  /\ \A k \in Loader : k # l => load[k].pc = "idle" /\ ~load[k].other
         /\ \A t \in timers : t.for \notin Loader
         /\ \A i \in DOMAIN writes : writes[i].for \notin Loader
         /\ load[l].pc # "meta" \/ ~load[l].other => path = home
<1>1. \A k \in Loader : k # l => load[k].pc = "idle" /\ ~load[k].other
  BY DEF Loads, OneLoad, Places, LoadPlace
<1>2. /\ \A t \in timers : t.for \notin Loader
      /\ \A i \in DOMAIN writes : writes[i].for \notin Loader
  BY <1>1 DEF Loads, Awaited
<1>3. load[l].pc # "meta" \/ ~load[l].other => path = home
  BY <1>1 DEF Loads, Places, Between
<1> QED BY <1>1, <1>2, <1>3

LEMMA LoadingLoads ==
  ASSUME NoRace, Types, Loads, NEW l \in Loader,
         Loading(l) \/ FetchFails(l) \/ (\E p \in Page : Open(l, p))
  PROVE  Loads'
<1>0. load[l] \in LoadRec /\ LoadPlace(load[l]) /\ load \in [Loader -> LoadRec]
  BY DEF Types, LoadTypes, Loads, Places
<1>1. CASE Fetch(l)
  <2>1. load[l].pc = "read" /\ UNCHANGED <<path, home, timers, writes>>
    BY <1>1 DEF Fetch, editor
  <2>2. /\ load'[l].pc = "show" /\ load'[l].other = load[l].other /\ load'[l].page = load[l].page
        /\ \A k \in Loader : k # l => load'[k] = load[k]
    BY <1>0, <1>1 DEF Fetch, LoadRec
  <2>3. OneLoad' /\ Awaited'
    BY <2>1, <2>2, LoadAlone DEF OneLoad, Awaited
  <2>4. Places'
    BY <1>0, <2>1, <2>2, LoadAlone DEF Places, LoadPlace, Loads
  <2> QED BY <2>3, <2>4 DEF Loads
<1>2. CASE Show(l)
  <2>1. /\ load[l].pc = "show" /\ path' = load[l].page /\ UNCHANGED <<home, timers, writes>>
        /\ ~load[l].other \/ writes = << >>
    BY <1>2, MayNot DEF Show, Races
  <2>2. /\ load'[l].pc = "meta" /\ load'[l].other = load[l].other /\ load'[l].page = load[l].page
        /\ \A k \in Loader : k # l => load'[k] = load[k]
    BY <1>0, <1>2 DEF Show, LoadRec
  <2>3. OneLoad' /\ Awaited'
    BY <2>1, <2>2, LoadAlone DEF OneLoad, Awaited
  <2>4. path = home
    BY <2>1, LoadAlone
  <2>5. \A k \in Loader : LoadPlace(load[k])'
    BY <1>0, <2>1, <2>2, <2>4, LoadAlone DEF LoadPlace
  <2>6. CASE load[l].other
    <3>1. Between'
      BY <2>2, <2>6 DEF Between
    <3>2. DOMAIN writes' = {}
      BY <2>1, <2>6
    <3> QED BY <2>3, <2>5, <3>1, <3>2 DEF Loads, Places
  <2>7. CASE ~load[l].other
    <3>1. path' = path
      BY <1>0, <2>1, <2>7 DEF LoadPlace
    <3> QED BY <2>1, <2>3, <2>4, <2>5, <3>1 DEF Loads, Places
  <2> QED BY <2>6, <2>7
<1>3. CASE Loaded(l)
  <2>1. /\ load[l].pc = "meta" /\ UNCHANGED <<path, timers, writes>>
        /\ home' = IF load[l].other THEN load[l].page ELSE home
    BY <1>3 DEF Loaded
  <2>2. /\ load'[l] = Idle(path) /\ \A k \in Loader : k # l => load'[k] = load[k]
    BY <1>0, <1>3 DEF Loaded
  <2>3. load'[l].pc = "idle" /\ load'[l].other = FALSE
    BY <2>2 DEF Idle
  <2>4. OneLoad' /\ Awaited'
    BY <2>1, <2>2, <2>3, LoadAlone DEF OneLoad, Awaited
  <2>5. path' = home' /\ \A i \in DOMAIN writes : writes[i].page = home'
    BY <1>0, <2>1, LoadAlone DEF LoadPlace, Loads, Places
  <2>6. \A k \in Loader : LoadPlace(load[k])'
    BY <2>2, <2>3, LoadAlone, <2>1 DEF LoadPlace
  <2> QED BY <2>1, <2>4, <2>5, <2>6 DEF Loads, Places
<1>4. CASE FetchFails(l)
  <2>1. load[l].pc = "read" /\ Throw(l, timers) /\ UNCHANGED <<path, home, writes>>
    BY <1>4 DEF FetchFails, editor
  <2>2. \A j \in DOMAIN writes' : writes'[j].for \notin Loader /\ writes'[j].page = home
    BY <2>1, LoadAlone DEF Loads, Places
  <2> QED BY <2>1, <2>2, LoadAlone, ThrowLoads DEF Types, LoadTypes
<1>5. ASSUME NEW p \in Page, Open(l, p) PROVE Loads'
  <2>1. /\ \A k \in Loader : load[k].pc = "idle" /\ ~load[k].other
        /\ UNCHANGED <<path, home, writes>>
    BY <1>5, MayNot DEF Open, Races, editor, Loads, Places, LoadPlace
  <2>2. /\ \A t \in timers : t.for \notin Loader
        /\ \A i \in DOMAIN writes : writes[i].for \notin Loader
    BY <2>1 DEF Loads, Awaited
  <2>3. path = home
    BY <2>1 DEF Loads, Places, Between
  <2>4. Stuck = load
    <3>1. \A k \in Loader : k \notin Cleared
      BY <2>2 DEF Cleared
    <3> QED BY <1>0, <3>1 DEF Stuck
  <2>5. /\ timers' = {t \in timers : ~t.held} \cup {Timeout("save", l)}
        /\ load' = [load EXCEPT ![l] = [Idle(p) EXCEPT !.pc = "save", !.other = (p # path)]]
    BY <1>5, <2>4 DEF Open, Begin, Save
  <2>6. /\ load'[l].pc = "save" /\ load'[l].other = (p # path) /\ load'[l].page = p
        /\ \A k \in Loader : k # l => load'[k] = load[k]
    BY <1>0, <2>5 DEF Idle
  <2>7. \A t \in timers' : t.for \in Loader => t = Timeout("save", l)
    BY <2>2, <2>5
  <2>8. OneLoad' /\ Awaited'
    <3>1. Timeout("save", l).kind = "save" /\ Timeout("save", l).for = l
      BY DEF Timeout
    <3>2. \A t \in timers' : t.for \in Loader => t.kind = "save" /\ load'[t.for].pc = "save"
      BY <2>6, <2>7, <3>1
    <3>3. \A t, u \in timers' : t.for = u.for /\ t.for \in Loader => t = u
      BY <2>7
    <3>4. OneLoad'
      BY <2>1, <2>6 DEF OneLoad
    <3> QED BY <2>1, <2>2, <3>2, <3>3, <3>4 DEF Awaited
  <2>9. \A k \in Loader : LoadPlace(load[k])'
    BY <2>1, <2>6 DEF LoadPlace
  <2> QED BY <2>1, <2>3, <2>8, <2>9 DEF Loads, Places
<1> QED BY <1>1, <1>2, <1>3, <1>4, <1>5 DEF Loading

LEMMA LoadsKept == NoRace /\ Types /\ Loads /\ [Next]_vars => Loads'
<1> SUFFICES ASSUME NoRace, Types, Loads, [Next]_vars PROVE Loads'
  OBVIOUS
<1>1. CASE Type
  BY <1>1, SaveLoads, SameLoads DEF Type
<1>2. CASE Compose
  BY <1>2, SameLoads DEF Compose, editor
<1>3. CASE Composed
  BY <1>3, SaveLoads, SameLoads DEF Composed, editor
<1>4. ASSUME NEW t \in timers, TimeoutEnds(t) PROVE Loads'
  <2>1. CASE t.kind = "again"
    BY <1>4, <2>1, SaveLoads DEF TimeoutEnds, editor
  <2>2. CASE t.kind = "save"
    BY <1>4, <2>2, TimeoutLoads
  <2> QED BY <2>1, <2>2 DEF Types, LoadTypes, TimerRec
<1>5. ASSUME NEW i \in DOMAIN writes, Land(i) PROVE Loads'
  <2>1. \A j \in DOMAIN writes : writes'[j].for = writes[j].for /\ writes'[j].page = writes[j].page
    BY <1>5, WriteIs DEF Land, Types, WriteRec
  <2> QED BY <1>5, <2>1, SameLoads DEF Land, editor
<1>6. ASSUME NEW p \in Page, ChangeElsewhere(p) \/ FileChanged(p) PROVE Loads'
  BY <1>6, SameLoads DEF ChangeElsewhere, FileChanged, editor
<1>7. ASSUME NEW i \in DOMAIN reads, Reread(i) PROVE Loads'
  BY <1>7, SameLoads DEF Reread
<1>8. CASE UNCHANGED vars
  BY <1>8, SameLoads DEF vars, editor
<1> QED BY <1>1, <1>2, <1>3, <1>4, <1>5, <1>6, <1>7, <1>8, WrittenLoads, WriteFailsLoads,
           LoadingLoads DEF Next

LEMMA LoadsFirst == Init => Loads
<1> SUFFICES ASSUME Init PROVE Loads
  OBVIOUS
<1>1. \A l \in Loader : load[l].pc = "idle" /\ load[l].other = FALSE
  BY DEF Init, Idle
<1>2. path = home /\ timers = {} /\ writes = << >>
  BY Zenon DEF Init
<1> QED BY <1>1, <1>2 DEF Loads, OneLoad, Awaited, Places, LoadPlace

-----------------------------------------------------------------------------
(* The history of the pages.  A merge is right because of what the versions  *)
(* it compares have gone through, so the invariant says that there is a      *)
(* history h of which disk, base, reads, loads and writes hold samples: the  *)
(* text of each version, the versions that the editor has made, and the      *)
(* version in which a mark from elsewhere came.                              *)

History == [text : [Page -> [Nat -> Text]], own : [Page -> SUBSET Nat], born : [Mark -> Nat]]

Owns(m, p) == IF m \in DOMAIN marks /\ marks[m].page = p THEN 1 ELSE 0

\* s is a version that the page has had.
Sample(h, p, s) == s.ver <= disk[p].ver /\ s.text = h.text[p][s.ver]

\* From version u to version v, only marks from elsewhere have come.
Grown(h, p, u, v) ==
  \A m \in Mark : \/ h.text[p][v][m] = h.text[p][u][m]
                  \/ h.text[p][u][m] = 0 /\ u < h.born[m]
Others(h, p, u, v) == \A x \in h.own[p] : ~(u < x /\ x <= v)

Story(h) ==
  /\ \A p \in Page : disk[p].text = h.text[p][disk[p].ver]
  /\ \A p \in Page : \A v \in h.own[p] : v <= disk[p].ver
  /\ \A p \in Page, u, v \in Nat :
       u <= v /\ v <= disk[p].ver /\ Others(h, p, u, v) => Grown(h, p, u, v)
  /\ \A p \in Page, v \in Nat, m \in Mark :
       h.text[p][v][m] <= Owns(m, p) /\ (h.text[p][v][m] # 0 => h.born[m] <= v)
  /\ \A m \in Mark : m \notin DOMAIN marks => h.born[m] = 0

BaseCopy(h)   == Sample(h, home, base)
ReadCopies(h) == \A i \in DOMAIN reads : Sample(h, reads[i].page, reads[i])
LoadCopies(h) ==
  \A l \in Loader : load[l].pc \in {"show", "meta"} =>
    /\ Sample(h, load[l].page, load[l])
    /\ load[l].other => \A v \in h.own[load[l].page] : v <= load[l].ver

\* Writes land in the order they were made, after what the editor is based on...
WriteCopies(h) ==
  /\ \A i \in DOMAIN writes :
       writes[i].ver # 0 => Sample(h, home, writes[i]) /\ base.ver < writes[i].ver
  /\ \A i, j \in DOMAIN writes :
       i < j /\ writes[j].ver # 0 => writes[i].ver # 0 /\ writes[i].ver < writes[j].ver

\* ... and what the editor has made since then has not returned.
OwnKnown(h) ==
  \A v \in h.own[home] : v <= base.ver \/ \E i \in DOMAIN writes : writes[i].ver = v

\* The editor has all that it is based on and all that it has sent, once, and of
\* what came from elsewhere nothing that is newer.
Edited(h) ==
  \A m \in Mark :
    /\ base.text[m] <= doc[m] /\ \A i \in DOMAIN writes : writes[i].text[m] <= doc[m]
    /\ doc[m] <= Owns(m, home)
    /\ doc[m] # 0 => h.born[m] <= base.ver

Chronicle(h) ==
  Story(h) /\ BaseCopy(h) /\ ReadCopies(h) /\ LoadCopies(h) /\ WriteCopies(h) /\ OwnKnown(h)
  /\ Edited(h)

PageInv == Types /\ Loads /\ \E h \in History : Chronicle(h)

LEMMA TextIs == ASSUME NEW t \in Text, NEW m \in Mark PROVE t[m] \in 0..2
BY DEF Text

\* Most steps leave a load alone that has read its page.
LEMMA LoadsStay ==
  ASSUME Types,
         \/ Type \/ Compose \/ Composed
         \/ \E t \in timers : TimeoutEnds(t)
         \/ \E i \in DOMAIN writes : Land(i) \/ Written(i) \/ WriteFails(i)
         \/ \E p \in Page : ChangeElsewhere(p) \/ FileChanged(p)
         \/ \E i \in DOMAIN reads : Reread(i)
         \/ \E l \in Loader : FetchFails(l) \/ (\E p \in Page : Open(l, p))
  PROVE  \A l \in Loader : load'[l].pc \in {"show", "meta"} => load'[l] = load[l]
<1> DEFINE Stay == \A l \in Loader : load'[l].pc \in {"show", "meta"} => load'[l] = load[l]
<1>1. \A l \in Loader : Stuck[l].pc \in {"show", "meta"} => Stuck[l] = load[l]
  <2> TAKE l \in Loader
  <2>1. load[l] \in LoadRec
    BY DEF Types, LoadTypes
  <2>2. [load[l] EXCEPT !.pc = "stuck"].pc = "stuck"
    BY <2>1 DEF LoadRec
  <2> QED BY <2>2 DEF Stuck
<1>2. ASSUME NEW who PROVE \A l \in Loader : Resolved(who)[l].pc \in {"show", "meta"} =>
                                               Resolved(who)[l] = load[l]
  BY ResolvedIs
<1>3. ASSUME NEW k, NEW ts, Throw(k, ts) PROVE Stay
  <2>1. Idle(path).pc = "idle" /\ [Idle(path) EXCEPT !.pc = "save"].pc = "save"
    BY DEF Idle
  <2>2. CASE timers' = ts /\ load' = [l \in Loader |-> IF l = k THEN Idle(path) ELSE load[l]]
    BY <2>1, <2>2
  <2>3. CASE load' = [l \in Loader |->
                         CASE l = k -> [Idle(path) EXCEPT !.pc = "save"]
                           [] l # k /\ l \in {t.for : t \in {u \in ts : u.held}}
                                -> [load[l] EXCEPT !.pc = "stuck"]
                           [] OTHER -> load[l]]
    <3> SUFFICES ASSUME NEW l \in Loader PROVE load'[l].pc \in {"show", "meta"} => load'[l] = load[l]
      OBVIOUS
    <3>1. load[l] \in LoadRec
      BY DEF Types, LoadTypes
    <3>2. [load[l] EXCEPT !.pc = "stuck"].pc = "stuck"
      BY <3>1 DEF LoadRec
    <3> QED BY <2>1, <2>3, <3>2
  <2> QED BY <1>3, <2>2, <2>3, Zenon DEF Throw
<1>4. CASE Type \/ Composed
  BY <1>1, <1>4 DEF Type, Composed
<1>5. ASSUME NEW t \in timers, TimeoutEnds(t) PROVE Stay
  BY <1>1, <1>2, <1>5 DEF TimeoutEnds, Skip, PutOff, Write
<1>6. ASSUME NEW i \in DOMAIN writes, Land(i) \/ Written(i) \/ WriteFails(i) PROVE Stay
  <2>1. CASE Land(i)
    BY <2>1 DEF Land
  <2>2. CASE Written(i)
    BY <1>2, <2>2 DEF Written
  <2>3. CASE WriteFails(i)
    BY <1>3, <2>3 DEF WriteFails
  <2> QED BY <1>6, <2>1, <2>2, <2>3
<1>7. ASSUME NEW l \in Loader, FetchFails(l) PROVE Stay
  BY <1>3, <1>7 DEF FetchFails
<1>8. ASSUME NEW k \in Loader, NEW p \in Page, Open(k, p) PROVE Stay
  <2>1. load' = [Stuck EXCEPT ![k] = [Idle(p) EXCEPT !.pc = "save", !.other = (p # path)]]
    BY <1>8 DEF Open, Begin
  <2>2. [Idle(p) EXCEPT !.pc = "save", !.other = (p # path)].pc = "save"
    BY DEF Idle
  <2>3. load'[k].pc = "save" /\ \A l \in Loader : l # k => load'[l] = Stuck[l]
    BY <2>1, <2>2 DEF Stuck
  <2> QED BY <1>1, <2>3
<1>9. CASE Compose \/ (\E p \in Page : ChangeElsewhere(p) \/ FileChanged(p))
           \/ (\E i \in DOMAIN reads : Reread(i))
  BY <1>9 DEF Compose, ChangeElsewhere, FileChanged, Reread
<1> QED BY <1>4, <1>5, <1>6, <1>7, <1>8, <1>9

\* As long as the pages are the same, the history is.
LEMMA StoryStays ==
  ASSUME Types, Types', NEW h \in History, Story(h), UNCHANGED disk,
         \/ UNCHANGED marks \/ Type
  PROVE  /\ Story(h)' /\ \A m \in Mark, p \in Page : Owns(m, p) <= Owns(m, p)'
         /\ \A p, s : Sample(h, p, s) <=> Sample(h, p, s)'
<1>0. Type => DOMAIN marks \subseteq DOMAIN marks' /\ \A m \in DOMAIN marks : marks'[m] = marks[m]
  <2>1. Calm \in BOOLEAN
    BY DEF Calm
  <2>2. [page |-> home, typed |-> TRUE, calm |-> Calm] \in MarkRec
    BY <2>1 DEF MarkRec, Types, PlaceTypes
  <2> QED BY <2>2, AppendProperties, LenProperties DEF Type, Types, MarkTypes
<1>1. \A m \in Mark, p \in Page : Owns(m, p) <= Owns(m, p)' /\ Owns(m, p) \in 0..1 /\ Owns(m, p)' \in 0..1
  BY <1>0 DEF Owns
<1>2. \A m \in Mark : m \notin DOMAIN marks' => m \notin DOMAIN marks
  BY <1>0
<1>3. \A p \in Page, v \in Nat, m \in Mark : h.text[p][v][m] \in 0..2
  BY DEF History, Text
<1>4. \A p \in Page, v \in Nat, m \in Mark :
        h.text[p][v][m] <= Owns(m, p)' /\ (h.text[p][v][m] # 0 => h.born[m] <= v)
  BY <1>1, <1>3 DEF Story
<1>5. /\ \A p \in Page : disk'[p].text = h.text[p][disk'[p].ver]
      /\ \A p \in Page : \A v \in h.own[p] : v <= disk'[p].ver
      /\ \A p \in Page, u, v \in Nat :
           u <= v /\ v <= disk'[p].ver /\ Others(h, p, u, v) => Grown(h, p, u, v)
      /\ \A m \in Mark : m \notin DOMAIN marks' => h.born[m] = 0
  BY <1>2, Zenon DEF Story
<1>6. \A p, s : Sample(h, p, s) <=> Sample(h, p, s)'
  BY DEF Sample
<1>7. Story(h)'
  BY <1>4, <1>5 DEF Story, Others, Grown
<1> QED BY <1>1, <1>6, <1>7

Stays == \A l \in Loader : load'[l].pc \in {"show", "meta"} => load'[l] = load[l]

\* Typing, and whatever concerns neither pages nor texts.
LEMMA QuietKeeps ==
  ASSUME Types, Types', NEW h \in History, Chronicle(h), Stays,
         UNCHANGED <<disk, base, home, writes>>, UNCHANGED <<doc, marks>> \/ Type,
         \A i \in DOMAIN reads' : Sample(h, reads'[i].page, reads'[i])
  PROVE  Chronicle(h)'
<1>1. /\ Story(h)' /\ \A m \in Mark, p \in Page : Owns(m, p) <= Owns(m, p)'
      /\ \A p, s : Sample(h, p, s) <=> Sample(h, p, s)'
  BY StoryStays DEF Chronicle
<1>2. BaseCopy(h)' /\ ReadCopies(h)'
  BY <1>1 DEF Chronicle, BaseCopy, ReadCopies, Sample
<1>3. LoadCopies(h)'
  BY <1>1 DEF Chronicle, LoadCopies, Stays, Sample
<1>4. WriteCopies(h)' /\ OwnKnown(h)'
  BY <1>1 DEF Chronicle, WriteCopies, OwnKnown, Sample
<1>5. Edited(h)'
  <2>1. CASE UNCHANGED <<doc, marks>>
    BY <2>1 DEF Chronicle, Edited, Owns
  <2>2. CASE Type
    <3>0. PICK n : n = Len(marks) + 1
      OBVIOUS
    <3>1. /\ doc' = [doc EXCEPT ![n] = 1] /\ doc \in Text
          /\ n \in Mark /\ n \notin DOMAIN marks /\ n \in DOMAIN marks' /\ marks'[n].page = home
      BY <2>2, <3>0, PageSaveConstants, LenProperties, AppendProperties
         DEF Type, Types, TextTypes, PlaceTypes, MarkTypes, MarkRec, Mark, Calm
    <3>2. ASSUME NEW m \in Mark, m # n
          PROVE  /\ base.text[m] <= doc'[m] /\ \A i \in DOMAIN writes : writes[i].text[m] <= doc'[m]
                 /\ doc'[m] <= Owns(m, home)' /\ (doc'[m] # 0 => h.born[m] <= base.ver)
      <4>1. doc'[m] = doc[m] /\ doc[m] \in 0..2
        BY <3>1, <3>2 DEF Text
      <4>2. Owns(m, home) <= Owns(m, home)' /\ Owns(m, home) \in 0..1 /\ Owns(m, home)' \in 0..1
        BY <1>1 DEF Owns, Types, PlaceTypes
      <4> QED BY <4>1, <4>2 DEF Chronicle, Edited
    <3>3. /\ base.text[n] <= doc'[n] /\ \A i \in DOMAIN writes : writes[i].text[n] <= doc'[n]
          /\ doc'[n] <= Owns(n, home)' /\ (doc'[n] # 0 => h.born[n] <= base.ver)
      <4>1. doc'[n] = 1 /\ Owns(n, home)' = 1 /\ Owns(n, home) = 0 /\ h.born[n] = 0
        <5>1. doc'[n] = 1
          BY <3>1 DEF Text
        <5>2. Owns(n, home)' = 1 /\ Owns(n, home) = 0
          BY <3>1 DEF Owns
        <5>3. h.born[n] = 0
          BY <3>1 DEF Chronicle, Story
        <5> QED BY <5>1, <5>2, <5>3
      <4>2. base.text[n] \in 0..2 /\ base.ver \in Nat /\ doc[n] \in 0..2
        BY <3>1 DEF Types, TextTypes, Version, Text
      <4>3. \A i \in DOMAIN writes : writes[i].text[n] \in 0..2
        BY <3>1, WriteIs, TextIs DEF Types, WriteRec
      <4>4. base.text[n] <= doc[n] /\ doc[n] <= 0 /\ \A i \in DOMAIN writes : writes[i].text[n] <= doc[n]
        BY <3>1, <4>1 DEF Chronicle, Edited
      <4> QED BY <4>1, <4>2, <4>3, <4>4
    <3>4. ASSUME NEW m \in Mark
          PROVE  /\ base.text[m] <= doc'[m] /\ \A i \in DOMAIN writes : writes[i].text[m] <= doc'[m]
                 /\ doc'[m] <= Owns(m, home)' /\ (doc'[m] # 0 => h.born[m] <= base.ver)
      BY <3>2, <3>3
    <3>5. /\ \A m \in Mark : base'.text[m] <= doc'[m]
          /\ \A m \in Mark, i \in DOMAIN writes' : writes'[i].text[m] <= doc'[m]
          /\ \A m \in Mark : doc'[m] <= Owns(m, home)' /\ (doc'[m] # 0 => h.born[m] <= base'.ver)
      BY <3>4
    <3> QED BY <3>5 DEF Edited
  <2> QED BY <2>1, <2>2
<1> QED BY <1>1, <1>2, <1>3, <1>4, <1>5 DEF Chronicle

\* The text of the editor is sent.
LEMMA WriteKeeps ==
  ASSUME Types, Types', NEW h \in History, Chronicle(h), Stays,
         UNCHANGED <<disk, base, home, doc, marks, reads>>,
         NEW w \in WriteRec, w.text = doc, w.ver = 0, writes' = Append(writes, w)
  PROVE  Chronicle(h)'
<1>1. Story(h)' /\ \A p, s : Sample(h, p, s) <=> Sample(h, p, s)'
  BY StoryStays DEF Chronicle
<1>2. BaseCopy(h)' /\ ReadCopies(h)'
  BY DEF Chronicle, BaseCopy, ReadCopies, Sample
<1>3. LoadCopies(h)'
  BY DEF Chronicle, LoadCopies, Stays, Sample
<1>4. /\ DOMAIN writes' = 1..Len(writes) + 1 /\ DOMAIN writes = 1..Len(writes)
      /\ Len(writes) \in Nat /\ writes'[Len(writes) + 1] = w
      /\ \A i \in 1..Len(writes) : writes'[i] = writes[i]
  BY AppendProperties, LenProperties DEF Types, WriteTypes
<1>5. WriteCopies(h)'
  <2>1. \A i \in DOMAIN writes' : writes'[i].ver # 0 => i \in DOMAIN writes /\ writes'[i] = writes[i]
    BY <1>4
  <2>2. \A i, j \in DOMAIN writes' : i < j /\ j \in DOMAIN writes => i \in DOMAIN writes
    BY <1>4
  <2>3. \A i \in DOMAIN writes : writes'[i] = writes[i]
    BY <1>4
  <2> QED BY <2>1, <2>2, <2>3 DEF Chronicle, WriteCopies, Sample
<1>6. OwnKnown(h)'
  <2>1. \A i \in DOMAIN writes : i \in DOMAIN writes' /\ writes'[i] = writes[i]
    BY <1>4
  <2> QED BY <2>1 DEF Chronicle, OwnKnown
<1>7. Edited(h)'
  <2>1. \A m \in Mark : doc[m] \in 0..2
    BY DEF Types, TextTypes, Text
  <2>2. \A i \in DOMAIN writes' : writes'[i].text = doc \/ (i \in DOMAIN writes /\ writes'[i] = writes[i])
    <3> TAKE i \in DOMAIN writes'
    <3>1. i = Len(writes) + 1 \/ i \in 1..Len(writes)
      BY <1>4
    <3> QED BY <1>4, <3>1
  <2>3. \A i \in DOMAIN writes', m \in Mark : writes'[i].text[m] <= doc[m]
    BY <2>1, <2>2 DEF Chronicle, Edited
  <2> QED BY <2>3 DEF Chronicle, Edited, Owns
<1> QED BY <1>1, <1>2, <1>3, <1>5, <1>6, <1>7 DEF Chronicle

\* A write fails that has not had its effect.
LEMMA FailKeeps ==
  ASSUME Types, Types', NEW h \in History, Chronicle(h), Stays,
         UNCHANGED <<disk, base, home, doc, marks, reads>>,
         NEW i \in DOMAIN writes, writes[i].ver = 0, writes' = Dropped(writes, i)
  PROVE  Chronicle(h)'
<1>1. Story(h)' /\ \A p, s : Sample(h, p, s) <=> Sample(h, p, s)'
  BY StoryStays DEF Chronicle
<1>2. BaseCopy(h)' /\ ReadCopies(h)'
  BY DEF Chronicle, BaseCopy, ReadCopies, Sample
<1>3. LoadCopies(h)'
  BY DEF Chronicle, LoadCopies, Stays, Sample
<1>4. \A j \in DOMAIN writes' : \E k \in DOMAIN writes :
        writes'[j] = writes[k] /\ k = (IF j < i THEN j ELSE j + 1) /\ k # i /\ j \in Nat /\ i \in Nat
  BY WritesLeft
<1>5. WriteCopies(h)'
  <2>1. \A j \in DOMAIN writes' :
          writes'[j].ver # 0 => Sample(h, home, writes'[j]) /\ base.ver < writes'[j].ver
    BY <1>4 DEF Chronicle, WriteCopies
  <2>2. \A j, k \in DOMAIN writes' :
          j < k /\ writes'[k].ver # 0 => writes'[j].ver # 0 /\ writes'[j].ver < writes'[k].ver
    <3> TAKE j, k \in DOMAIN writes'
    <3> HAVE j < k /\ writes'[k].ver # 0
    <3>1. PICK x \in DOMAIN writes : writes'[j] = writes[x] /\ x = (IF j < i THEN j ELSE j + 1)
                                     /\ j \in Nat /\ i \in Nat
      BY <1>4
    <3>2. PICK y \in DOMAIN writes : writes'[k] = writes[y] /\ y = (IF k < i THEN k ELSE k + 1)
                                     /\ k \in Nat
      BY <1>4
    <3>3. x < y
      BY <3>1, <3>2
    <3> QED BY <3>1, <3>2, <3>3 DEF Chronicle, WriteCopies
  <2> QED BY <2>1, <2>2 DEF WriteCopies, Sample
<1>6. OwnKnown(h)'
  <2> SUFFICES ASSUME NEW v \in h.own[home], ~(v <= base.ver)
               PROVE  \E j \in DOMAIN writes' : writes'[j].ver = v
    BY DEF OwnKnown
  <2>1. v \in Nat /\ base.ver \in Nat
    BY DEF History, Types, TextTypes, PlaceTypes, Version
  <2>2. PICK k \in DOMAIN writes : writes[k].ver = v /\ k # i
    BY <2>1 DEF Chronicle, OwnKnown
  <2>3. /\ Dropped(writes, i) \in Seq(WriteRec) /\ Len(Dropped(writes, i)) = Len(writes) - 1
        /\ \A j \in 1..Len(writes) - 1 :
             Dropped(writes, i)[j] = IF j < i THEN writes[j] ELSE writes[j + 1]
        /\ i \in 1..Len(writes) /\ k \in 1..Len(writes) /\ Len(writes) \in Nat
    BY WriteIs, DroppedIs DEF Types, WriteTypes
  <2>4. DOMAIN writes' = 1..Len(writes) - 1
    BY <2>3, LenProperties
  <2>5. CASE k < i
    <3>1. k \in 1..Len(writes) - 1 /\ writes'[k] = writes[k]
      BY <2>3, <2>5
    <3> QED BY <2>2, <2>4, <3>1
  <2>6. CASE ~(k < i)
    <3>1. k - 1 \in 1..Len(writes) - 1 /\ ~(k - 1 < i) /\ (k - 1) + 1 = k
      BY <2>2, <2>3, <2>6
    <3>2. writes'[k - 1] = writes[k]
      BY <2>3, <3>1
    <3> QED BY <2>2, <2>4, <3>1, <3>2
  <2> QED BY <2>5, <2>6
<1>7. Edited(h)'
  BY <1>4 DEF Chronicle, Edited, Owns
<1> QED BY <1>1, <1>2, <1>3, <1>5, <1>6, <1>7 DEF Chronicle

\* The page gets a version more; the earlier ones stay.
Adds(h, g, p, d) ==
  /\ disk' = [disk EXCEPT ![p] = d] /\ d.ver = disk[p].ver + 1
  /\ g.text = [h.text EXCEPT ![p] = [h.text[p] EXCEPT ![d.ver] = d.text]]

LEMMA SamplesStay ==
  ASSUME Types, NEW h \in History, NEW g \in History, NEW p \in Page, NEW d \in Version,
         Adds(h, g, p, d)
  PROVE  /\ \A q \in Page, v \in Nat :
              v <= disk[q].ver => v <= disk'[q].ver /\ g.text[q][v] = h.text[q][v]
         /\ \A q \in Page, v \in Nat : q # p \/ v # d.ver => g.text[q][v] = h.text[q][v]
         /\ g.text[p][d.ver] = d.text
         /\ \A q \in Page : disk[q].ver \in Nat /\ (q # p => disk'[q] = disk[q])
         /\ disk'[p] = d /\ d.ver \in Nat
<1>1. /\ disk[p].ver \in Nat /\ disk'[p] = d /\ d.ver \in Nat /\ d.text \in Text
      /\ \A q \in Page : (q # p => disk'[q] = disk[q]) /\ disk[q].ver \in Nat
  BY DEF Adds, Types, TextTypes, Version
<1>2. /\ \A q \in Page, v \in Nat : q # p \/ v # d.ver => g.text[q][v] = h.text[q][v]
      /\ g.text[p][d.ver] = d.text
  <2>1. h.text \in [Page -> [Nat -> Text]]
    BY DEF History
  <2> QED BY <1>1, <2>1 DEF Adds
<1>3. \A q \in Page, v \in Nat :
        v <= disk[q].ver => v <= disk'[q].ver /\ g.text[q][v] = h.text[q][v]
  BY <1>1, <1>2 DEF Adds
<1> QED BY <1>1, <1>2, <1>3

\* A write lands: a version the editor has made.
LEMMA LandKeeps ==
  ASSUME NoRace, Types, Types', Loads, NEW h \in History, Chronicle(h),
         NEW i \in DOMAIN writes, Land(i)
  PROVE  \E g \in History : Chronicle(g)'
<1> DEFINE w == writes[i]
<1>1. /\ w.ver = 0 /\ (\A j \in 1..i - 1 : writes[j].ver # 0)
      /\ w.page = home /\ home \in Page /\ w.text \in Text /\ i \in 1..Len(writes)
      /\ DOMAIN writes = 1..Len(writes) /\ Len(writes) \in Nat
      /\ UNCHANGED <<doc, home, base, reads, load, marks>>
  BY WriteIs, MayNot, LenProperties
     DEF Land, InOrder, Races, Loads, Places, Types, WriteRec, WriteTypes, PlaceTypes, editor
<1>2. PICK d : d = [text |-> w.text, ver |-> disk[home].ver + 1]
  OBVIOUS
<1>0. PICK p0 \in Page : p0 = home
  BY <1>1
<1>3. /\ disk' = [disk EXCEPT ![p0] = d] /\ d.ver = disk[home].ver + 1 /\ d.text = w.text
      /\ disk[home].ver \in Nat /\ d \in Version
  BY <1>0, <1>1, <1>2 DEF Land, Types, TextTypes, Version
<1>4. /\ DOMAIN writes' = DOMAIN writes
      /\ writes'[i].ver = d.ver /\ writes'[i].text = w.text
      /\ \A j \in DOMAIN writes : j # i => writes'[j] = writes[j]
  <2>1. writes[i] \in WriteRec
    BY WriteIs DEF Types
  <2>2. writes' = [writes EXCEPT ![i].ver = d.ver]
    BY <1>1, <1>3 DEF Land, Types, TextTypes
  <2> QED BY <1>1, <2>1, <2>2 DEF WriteRec
<1>5. PICK g : g = [text |-> [h.text EXCEPT ![home] = [h.text[home] EXCEPT ![d.ver] = d.text]],
                    own |-> [h.own EXCEPT ![home] = h.own[home] \cup {d.ver}], born |-> h.born]
  OBVIOUS
<1>6. /\ h.text \in [Page -> [Nat -> Text]] /\ h.own \in [Page -> SUBSET Nat]
      /\ h.born \in [Mark -> Nat] /\ d.ver \in Nat /\ d.text \in Text
  BY <1>1, <1>3 DEF History
<1>7. g \in History
  <2>1. [h.text[home] EXCEPT ![d.ver] = d.text] \in [Nat -> Text]
    BY <1>1, <1>6
  <2>2. [h.text EXCEPT ![home] = [h.text[home] EXCEPT ![d.ver] = d.text]] \in [Page -> [Nat -> Text]]
    BY <1>6, <2>1
  <2>3. [h.own EXCEPT ![home] = h.own[home] \cup {d.ver}] \in [Page -> SUBSET Nat]
    BY <1>1, <1>6
  <2> QED BY <1>5, <1>6, <2>2, <2>3 DEF History
<1>8. /\ g.text = [h.text EXCEPT ![home] = [h.text[home] EXCEPT ![d.ver] = d.text]]
      /\ g.own[home] = h.own[home] \cup {d.ver} /\ \A p \in Page : p # home => g.own[p] = h.own[p]
      /\ g.born = h.born
  BY <1>1, <1>5, <1>6
<1>9. /\ \A q \in Page, v \in Nat :
           v <= disk[q].ver => v <= disk'[q].ver /\ g.text[q][v] = h.text[q][v]
      /\ \A q \in Page, v \in Nat : q # home \/ v # d.ver => g.text[q][v] = h.text[q][v]
      /\ g.text[home][d.ver] = d.text
      /\ \A q \in Page : q # home => disk'[q] = disk[q]
      /\ disk'[home] = d
  <2>1. Adds(h, g, p0, d)
    BY <1>0, <1>3, <1>8 DEF Adds
  <2>3. /\ \A q \in Page, v \in Nat :
             v <= disk[q].ver => v <= disk'[q].ver /\ g.text[q][v] = h.text[q][v]
        /\ \A q \in Page, v \in Nat : q # p0 \/ v # d.ver => g.text[q][v] = h.text[q][v]
        /\ g.text[p0][d.ver] = d.text
        /\ \A q \in Page : q # p0 => disk'[q] = disk[q]
        /\ disk'[p0] = d
    BY <1>3, <1>7, <2>1, SamplesStay
  <2> QED BY <1>0, <2>3
<1>10. \A q \in Page : disk[q].ver \in Nat /\ disk'[q].ver \in Nat
  BY <1>6, <1>9 DEF Types, TextTypes, Version
<1>11. Story(g)'
  <2>1. ASSUME NEW p \in Page
        PROVE  disk'[p].text = g.text[p][disk'[p].ver] /\ \A v \in g.own[p] : v <= disk'[p].ver
    <3>1. CASE p = home
      <4>1. \A v \in h.own[home] : v \in Nat /\ v <= disk[home].ver
        BY <1>1, <1>6 DEF Chronicle, Story
      <4>2. disk'[p] = d /\ g.own[p] = h.own[home] \cup {d.ver} /\ g.text[p][d.ver] = d.text
        BY <1>8, <1>9, <3>1
      <4>3. \A v \in g.own[p] : v <= d.ver
        BY <1>3, <1>6, <4>1, <4>2
      <4> QED BY <4>2, <4>3
    <3>2. CASE p # home
      BY <1>8, <1>9, <1>10, <3>2 DEF Chronicle, Story
    <3> QED BY <3>1, <3>2
  <2>2. ASSUME NEW p \in Page, NEW u \in Nat, NEW v \in Nat, u <= v, v <= disk'[p].ver,
               Others(g, p, u, v)
        PROVE  Grown(g, p, u, v)
    <3>1. CASE p = home /\ v = d.ver
      <4>1. v \in g.own[p]
        BY <1>8, <3>1
      <4>2. u = v
        BY <2>2, <4>1 DEF Others
      <4> QED BY <4>2 DEF Grown
    <3>2. CASE ~(p = home /\ v = d.ver)
      <4>1. v <= disk[p].ver /\ Others(h, p, u, v)
        BY <1>3, <1>8, <1>9, <1>10, <2>2, <3>2 DEF Others
      <4>2. Grown(h, p, u, v)
        BY <2>2, <4>1 DEF Chronicle, Story
      <4>3. ~(p = home /\ u = d.ver)
        BY <1>3, <1>6, <2>2, <4>1
      <4>4. g.text[p][u] = h.text[p][u] /\ g.text[p][v] = h.text[p][v]
        BY <1>9, <3>2, <4>3
      <4> QED BY <1>8, <4>2, <4>4 DEF Grown
    <3> QED BY <3>1, <3>2
  <2>3. ASSUME NEW p \in Page, NEW v \in Nat, NEW m \in Mark
        PROVE  g.text[p][v][m] <= Owns(m, p) /\ (g.text[p][v][m] # 0 => g.born[m] <= v)
    <3>1. CASE p = home /\ v = d.ver
      <4>1. w.text[m] <= doc[m] /\ doc[m] <= Owns(m, home) /\ (doc[m] # 0 => h.born[m] <= base.ver)
        BY DEF Chronicle, Edited
      <4>2. base.ver <= disk[home].ver /\ base.ver \in Nat
        BY DEF Chronicle, BaseCopy, Sample, Types, TextTypes, Version
      <4>3. w.text[m] \in 0..2 /\ doc[m] \in 0..2 /\ Owns(m, home) \in 0..1 /\ h.born[m] \in Nat
        BY <1>1, <1>6, TextIs DEF Owns, Types, TextTypes
      <4> QED BY <1>3, <1>8, <1>9, <3>1, <4>1, <4>2, <4>3
    <3>2. CASE ~(p = home /\ v = d.ver)
      BY <1>8, <1>9, <3>2 DEF Chronicle, Story
    <3> QED BY <3>1, <3>2
  <2>4. \A m \in Mark : m \notin DOMAIN marks => g.born[m] = 0
    BY <1>8 DEF Chronicle, Story
  <2> QED BY <1>1, <2>1, <2>2, <2>3, <2>4 DEF Story, Others, Grown, Owns
<1>12. BaseCopy(g)'
  <2>1. base.ver \in Nat
    BY DEF Types, TextTypes, Version
  <2> QED BY <1>1, <1>9, <2>1 DEF Chronicle, BaseCopy, Sample
<1>13. ReadCopies(g)'
  <2>1. \A j \in DOMAIN reads : reads[j].page \in Page /\ reads[j].ver \in Nat
    BY ReadIs DEF Types, ReadRec
  <2> QED BY <1>1, <1>9, <2>1 DEF Chronicle, ReadCopies, Sample
<1>14. LoadCopies(g)'
  <2> SUFFICES ASSUME NEW l \in Loader, load[l].pc \in {"show", "meta"}
               PROVE  /\ Sample(g, load[l].page, load[l])'
                      /\ load[l].other => \A v \in g.own[load[l].page] : v <= load[l].ver
    BY <1>1 DEF LoadCopies
  <2>1. load[l].page \in Page /\ load[l].ver \in Nat /\ LoadPlace(load[l]) /\ path = home
    BY DEF Types, LoadTypes, LoadRec, Loads, Places
  <2>2. Sample(g, load[l].page, load[l])'
    BY <1>1, <1>9, <2>1 DEF Chronicle, LoadCopies, Sample
  <2>3. load[l].other => load[l].page # home
    BY <2>1 DEF LoadPlace
  <2> QED BY <1>8, <2>1, <2>2, <2>3 DEF Chronicle, LoadCopies
<1>15. WriteCopies(g)'
  <2>1. \A j \in DOMAIN writes : writes[j].ver \in Nat
    BY WriteIs DEF Types, WriteRec
  <2>2. ASSUME NEW j \in DOMAIN writes, writes'[j].ver # 0
        PROVE  writes'[j].ver <= disk'[home].ver /\ writes'[j].text = g.text[home][writes'[j].ver]
               /\ base.ver < writes'[j].ver
    <3>1. CASE j = i
      <4>1. base.ver <= disk[home].ver /\ base.ver \in Nat
        BY DEF Chronicle, BaseCopy, Sample, Types, TextTypes, Version
      <4> QED BY <1>3, <1>4, <1>6, <1>9, <3>1, <4>1
    <3>2. CASE j # i
      <4>1. writes'[j] = writes[j] /\ Sample(h, home, writes[j]) /\ base.ver < writes[j].ver
        BY <1>4, <2>2, <3>2 DEF Chronicle, WriteCopies
      <4> QED BY <1>1, <1>9, <2>1, <4>1 DEF Sample
    <3> QED BY <3>1, <3>2
  <2>3. ASSUME NEW j \in DOMAIN writes, NEW k \in DOMAIN writes, j < k, writes'[k].ver # 0
        PROVE  writes'[j].ver # 0 /\ writes'[j].ver < writes'[k].ver
    <3>1. CASE k = i
      <4>1. writes[j].ver # 0 /\ j # i
        BY <1>1, <2>3, <3>1
      <4>2. writes'[j] = writes[j] /\ writes[j].ver <= disk[home].ver
        BY <1>4, <4>1 DEF Chronicle, WriteCopies, Sample
      <4> QED BY <1>3, <1>4, <2>1, <3>1, <4>1, <4>2
    <3>2. CASE j = i
      <4>1. k # i
        BY <1>1, <2>3, <3>2
      <4> QED BY <1>1, <1>4, <2>3, <3>2, <4>1 DEF Chronicle, WriteCopies
    <3>3. CASE j # i /\ k # i
      BY <1>4, <2>3, <3>3 DEF Chronicle, WriteCopies
    <3> QED BY <3>1, <3>2, <3>3
  <2> QED BY <1>1, <1>4, <2>2, <2>3 DEF WriteCopies, Sample
<1>16. OwnKnown(g)'
  <2>1. \A j \in DOMAIN writes : j # i \/ writes[j].ver = 0
    BY <1>1
  <2>2. \A v \in h.own[home] : v \in Nat /\ base.ver \in Nat
    BY <1>1, <1>6 DEF Types, TextTypes, Version
  <2>3. \A v \in h.own[home] : v <= base.ver \/ \E j \in DOMAIN writes : j # i /\ writes[j].ver = v
    BY <2>1, <2>2 DEF Chronicle, OwnKnown
  <2> QED BY <1>1, <1>4, <1>8, <2>3 DEF OwnKnown
<1>17. Edited(g)'
  <2>1. \A j \in DOMAIN writes : writes'[j].text = writes[j].text
    BY <1>4
  <2> QED BY <1>1, <1>4, <1>8, <2>1 DEF Chronicle, Edited, Owns
<1> QED BY <1>7, <1>11, <1>12, <1>13, <1>14, <1>15, <1>16, <1>17 DEF Chronicle

\* A page is changed elsewhere: a version with one mark more.
LEMMA ElsewhereKeeps ==
  ASSUME Types, Types', NEW h \in History, Chronicle(h), NEW p \in Page, ChangeElsewhere(p)
  PROVE  \E g \in History : Chronicle(g)'
<1>1. PICK n : n = Len(marks) + 1
  OBVIOUS
<1>2. /\ n \in Mark /\ n \notin DOMAIN marks /\ n \in DOMAIN marks' /\ marks'[n].page = p
      /\ DOMAIN marks \subseteq DOMAIN marks' /\ DOMAIN marks' \subseteq DOMAIN marks \cup {n}
      /\ \A m \in DOMAIN marks : marks'[m] = marks[m]
      /\ UNCHANGED <<doc, home, base, reads, load, writes>>
  BY <1>1, PageSaveConstants, LenProperties, AppendProperties
     DEF ChangeElsewhere, Types, MarkTypes, MarkRec, Mark, editor
<1>3. PICK d : d = [text |-> [disk[p].text EXCEPT ![n] = 1], ver |-> disk[p].ver + 1]
  OBVIOUS
<1>4. /\ disk' = [disk EXCEPT ![p] = d] /\ d.ver = disk[p].ver + 1 /\ disk[p].ver \in Nat
      /\ d.text[n] = 1 /\ \A m \in Mark : m # n => d.text[m] = disk[p].text[m]
      /\ d.text \in Text /\ d.ver \in Nat
  <2>1. disk[p] \in Version /\ disk[p].text \in Text
    BY DEF Types, TextTypes, Version
  <2> QED BY <1>1, <1>2, <1>3, <2>1 DEF ChangeElsewhere, Version, Text
<1>5. d \in Version
  BY <1>3, <1>4 DEF Version
<1>6. PICK g : g = [text |-> [h.text EXCEPT ![p] = [h.text[p] EXCEPT ![d.ver] = d.text]],
                    own |-> h.own, born |-> [h.born EXCEPT ![n] = d.ver]]
  OBVIOUS
<1>7. /\ h.text \in [Page -> [Nat -> Text]] /\ h.own \in [Page -> SUBSET Nat]
      /\ h.born \in [Mark -> Nat]
  BY DEF History
<1>8. g \in History
  <2>1. [h.text[p] EXCEPT ![d.ver] = d.text] \in [Nat -> Text]
    BY <1>4, <1>7
  <2>2. [h.text EXCEPT ![p] = [h.text[p] EXCEPT ![d.ver] = d.text]] \in [Page -> [Nat -> Text]]
    BY <1>7, <2>1
  <2>3. [h.born EXCEPT ![n] = d.ver] \in [Mark -> Nat]
    BY <1>4, <1>7
  <2> QED BY <1>6, <1>7, <2>2, <2>3 DEF History
<1>9. /\ g.own = h.own /\ g.born[n] = d.ver /\ \A m \in Mark : m # n => g.born[m] = h.born[m]
  BY <1>2, <1>6, <1>7
<1>10. Adds(h, g, p, d)
  BY <1>4, <1>6 DEF Adds
<1>11. /\ \A q \in Page, v \in Nat :
             v <= disk[q].ver => v <= disk'[q].ver /\ g.text[q][v] = h.text[q][v]
       /\ \A q \in Page, v \in Nat : q # p \/ v # d.ver => g.text[q][v] = h.text[q][v]
       /\ g.text[p][d.ver] = d.text
       /\ \A q \in Page : disk[q].ver \in Nat /\ (q # p => disk'[q] = disk[q])
       /\ disk'[p] = d
  BY <1>5, <1>8, <1>10, SamplesStay
<1>12. /\ \A m \in Mark, q \in Page : /\ Owns(m, q) \in 0..1 /\ Owns(m, q)' \in 0..1
                                      /\ Owns(m, q) <= Owns(m, q)'
       /\ \A q \in Page : Owns(n, q) = 0
       /\ Owns(n, p)' = 1
  BY <1>2 DEF Owns
<1>13. \A q \in Page, v \in Nat, m \in Mark : h.text[q][v][m] \in 0..2
  BY <1>7 DEF Text
<1>14. \A q \in Page, v \in Nat : h.text[q][v][n] = 0
  <2> TAKE q \in Page, v \in Nat
  <2>1. h.text[q][v][n] <= Owns(n, q)
    BY <1>2 DEF Chronicle, Story
  <2>2. h.text[q][v][n] \in 0..2 /\ Owns(n, q) = 0
    BY <1>2, <1>12, <1>13
  <2> QED BY <2>1, <2>2
<1>15. Story(g)'
  <2>1. ASSUME NEW q \in Page
        PROVE  disk'[q].text = g.text[q][disk'[q].ver] /\ \A v \in g.own[q] : v <= disk'[q].ver
    <3>1. \A v \in h.own[q] : v \in Nat /\ v <= disk[q].ver
      BY <1>7 DEF Chronicle, Story
    <3>2. CASE q = p
      BY <1>4, <1>9, <1>11, <3>1, <3>2
    <3>3. CASE q # p
      BY <1>9, <1>11, <3>1, <3>3 DEF Chronicle, Story
    <3> QED BY <3>2, <3>3
  <2>2. ASSUME NEW q \in Page, NEW u \in Nat, NEW v \in Nat, u <= v, v <= disk'[q].ver,
               Others(g, q, u, v)
        PROVE  Grown(g, q, u, v)
    <3>1. CASE q = p /\ v = d.ver
      <4>1. CASE u = v
        BY <4>1 DEF Grown
      <4>2. CASE u # v
        <5>1. u <= disk[p].ver /\ u # d.ver
          BY <1>4, <2>2, <3>1, <4>2
        <5>2. Others(h, p, u, disk[p].ver)
          <6>1. \A x \in h.own[p] : x \in Nat /\ x <= disk[p].ver
            BY <1>7 DEF Chronicle, Story
          <6> QED BY <1>4, <1>9, <2>2, <3>1, <6>1 DEF Others
        <5>3. Grown(h, p, u, disk[p].ver) /\ disk[p].text = h.text[p][disk[p].ver]
          BY <1>4, <5>1, <5>2 DEF Chronicle, Story
        <5>4. g.text[p][u] = h.text[p][u] /\ g.text[p][v] = d.text
          BY <1>11, <3>1, <5>1
        <5>5. \A m \in Mark : m # n => \/ g.text[p][v][m] = g.text[p][u][m]
                                       \/ g.text[p][u][m] = 0 /\ u < g.born[m]
          BY <1>4, <1>9, <5>3, <5>4 DEF Grown
        <5>6. g.text[p][u][n] = 0 /\ u < g.born[n]
          BY <1>4, <1>9, <1>14, <5>1, <5>4
        <5> QED BY <3>1, <5>5, <5>6 DEF Grown
      <4> QED BY <4>1, <4>2
    <3>2. CASE ~(q = p /\ v = d.ver)
      <4>1. v <= disk[q].ver /\ u <= disk[q].ver
        BY <1>4, <1>11, <2>2, <3>2
      <4>2. Grown(h, q, u, v)
        BY <1>9, <2>2, <4>1 DEF Chronicle, Story, Others
      <4>3. g.text[q][u] = h.text[q][u] /\ g.text[q][v] = h.text[q][v]
        BY <1>11, <4>1
      <4> QED BY <1>9, <1>14, <4>2, <4>3 DEF Grown
    <3> QED BY <3>1, <3>2
  <2>3. ASSUME NEW q \in Page, NEW v \in Nat, NEW m \in Mark
        PROVE  g.text[q][v][m] <= Owns(m, q)' /\ (g.text[q][v][m] # 0 => g.born[m] <= v)
    <3>1. CASE q = p /\ v = d.ver /\ m = n
      BY <1>4, <1>9, <1>11, <1>12, <3>1
    <3>2. CASE q = p /\ v = d.ver /\ m # n
      <4>1. /\ disk[p].text = h.text[p][disk[p].ver] /\ h.text[p][disk[p].ver][m] <= Owns(m, p)
            /\ h.text[p][disk[p].ver][m] # 0 => h.born[m] <= disk[p].ver
        BY <1>4 DEF Chronicle, Story
      <4>2. g.text[q][v][m] = h.text[p][disk[p].ver][m] /\ g.born[m] = h.born[m]
        BY <1>4, <1>9, <1>11, <3>2, <4>1
      <4>3. h.text[p][disk[p].ver][m] \in 0..2 /\ h.born[m] \in Nat
        BY <1>4, <1>7, <1>13
      <4> QED BY <1>4, <1>12, <3>2, <4>1, <4>2, <4>3
    <3>3. CASE ~(q = p /\ v = d.ver)
      <4>1. g.text[q][v] = h.text[q][v]
        BY <1>11, <3>3
      <4>2. h.text[q][v][m] <= Owns(m, q) /\ (h.text[q][v][m] # 0 => h.born[m] <= v)
        BY DEF Chronicle, Story
      <4>3. m = n => h.text[q][v][m] = 0
        BY <1>14
      <4> QED BY <1>9, <1>12, <1>13, <4>1, <4>2, <4>3
    <3> QED BY <3>1, <3>2, <3>3
  <2>4. \A m \in Mark : m \notin DOMAIN marks' => g.born[m] = 0
    BY <1>2, <1>9 DEF Chronicle, Story
  <2> QED BY <2>1, <2>2, <2>3, <2>4 DEF Story, Others, Grown
<1>16. BaseCopy(g)'
  <2>1. base.ver \in Nat /\ home \in Page
    BY DEF Types, TextTypes, PlaceTypes, Version
  <2> QED BY <1>2, <1>11, <2>1 DEF Chronicle, BaseCopy, Sample
<1>17. ReadCopies(g)'
  <2>1. \A j \in DOMAIN reads : reads[j].page \in Page /\ reads[j].ver \in Nat
    BY ReadIs DEF Types, ReadRec
  <2> QED BY <1>2, <1>11, <2>1 DEF Chronicle, ReadCopies, Sample
<1>18. LoadCopies(g)'
  <2>1. \A l \in Loader : load[l].page \in Page /\ load[l].ver \in Nat
    BY DEF Types, LoadTypes, LoadRec
  <2> QED BY <1>2, <1>9, <1>11, <2>1 DEF Chronicle, LoadCopies, Sample
<1>19. WriteCopies(g)'
  <2>1. home \in Page /\ \A j \in DOMAIN writes : writes[j].ver \in Nat
    BY WriteIs DEF Types, WriteRec, PlaceTypes
  <2> QED BY <1>2, <1>11, <2>1 DEF Chronicle, WriteCopies, Sample
<1>20. OwnKnown(g)'
  BY <1>2, <1>9 DEF Chronicle, OwnKnown
<1>21. Edited(g)'
  <2>1. home \in Page /\ \A m \in Mark : doc[m] \in 0..2
    BY DEF Types, TextTypes, PlaceTypes, Text
  <2>2. ASSUME NEW m \in Mark
        PROVE  doc[m] <= Owns(m, home)' /\ (doc[m] # 0 => g.born[m] <= base.ver)
    <3>1. doc[m] <= Owns(m, home) /\ (doc[m] # 0 => h.born[m] <= base.ver)
      BY DEF Chronicle, Edited
    <3>2. Owns(m, home) \in 0..1 /\ Owns(m, home)' \in 0..1 /\ Owns(m, home) <= Owns(m, home)'
      BY <1>2 DEF Owns
    <3>3. m = n => doc[m] = 0
      BY <1>12, <2>1, <3>1
    <3> QED BY <1>9, <2>1, <3>1, <3>2, <3>3
  <2> QED BY <1>2, <2>2 DEF Chronicle, Edited
<1> QED BY <1>8, <1>15, <1>16, <1>17, <1>18, <1>19, <1>20, <1>21 DEF Chronicle

\* A merge of what differs only where the editor has nothing takes it over.
LEMMA MergeIs ==
  ASSUME NEW from \in Text, NEW to \in Text, NEW cur \in Text, NEW m \in Mark,
         cur[m] <= 1, from[m] <= cur[m],
         to[m] = from[m] \/ (from[m] = 0 /\ cur[m] = 0 /\ to[m] <= 1)
  PROVE  Merged(from, to, cur)[m] = IF to[m] = from[m] THEN cur[m] ELSE to[m]
<1>1. from[m] \in 0..2 /\ to[m] \in 0..2 /\ cur[m] \in 0..2
  BY DEF Text
<1>2. CASE to = cur
  <2>1. Merged(from, to, cur) = cur /\ cur[m] = to[m]
    BY <1>2 DEF Merged
  <2> QED BY <2>1
<1>3. CASE to # cur
  <2>1. Merged(from, to, cur)[m] = LET n == cur[m] + to[m] - from[m]
                                   IN IF n < 0 THEN 0 ELSE IF n > 2 THEN 2 ELSE n
    BY <1>3 DEF Merged
  <2> QED BY <1>1, <2>1
<1> QED BY <1>2, <1>3

\* A version of the page is merged into the editor, by a listener or a reload.
LEMMA ApplyKeeps ==
  ASSUME Types, NEW h \in History, Chronicle(h), NEW r, r.text \in Text, r.ver \in Nat,
         Sample(h, home, r), \A i \in DOMAIN writes : writes[i].ver \notin 1..r.ver,
         Apply(r.text, r.ver), UNCHANGED <<disk, writes, home, marks>>
  PROVE  /\ BaseCopy(h)' /\ WriteCopies(h)' /\ OwnKnown(h)' /\ Edited(h)'
         /\ \A m \in Mark : doc[m] <= doc'[m]
<1>1. /\ home \in Page /\ base.ver \in Nat /\ base.text \in Text /\ doc \in Text
      /\ h.own \in [Page -> SUBSET Nat] /\ h.born \in [Mark -> Nat]
  BY DEF Types, TextTypes, PlaceTypes, Version, History
<1>2. CASE UNCHANGED <<doc, base>>
  <2>1. BaseCopy(h)' /\ WriteCopies(h)'
    BY <1>2 DEF Chronicle, BaseCopy, WriteCopies, Sample
  <2>2. OwnKnown(h)' /\ Edited(h)'
    BY <1>2 DEF Chronicle, OwnKnown, Edited, Owns
  <2> QED BY <1>1, <1>2, <2>1, <2>2, TextIs
<1>3. CASE ~UNCHANGED <<doc, base>>
  <2>1. base.ver <= r.ver /\ doc' = Merged(base.text, r.text, doc)
        /\ base' = [text |-> r.text, ver |-> r.ver]
    BY <1>1, <1>3 DEF Apply
  <2>2. Others(h, home, base.ver, r.ver)
    <3> SUFFICES ASSUME NEW x \in h.own[home], base.ver < x, x <= r.ver PROVE FALSE
      BY DEF Others
    <3>1. x \in Nat
      BY <1>1
    <3>2. \E i \in DOMAIN writes : writes[i].ver = x
      BY <1>1, <3>1 DEF Chronicle, OwnKnown
    <3> QED BY <1>1, <3>1, <3>2
  <2>3. Grown(h, home, base.ver, r.ver) /\ base.text = h.text[home][base.ver]
        /\ r.text = h.text[home][r.ver] /\ r.ver <= disk[home].ver
    BY <1>1, <2>1, <2>2 DEF Chronicle, Story, BaseCopy, Sample
  <2>4. ASSUME NEW m \in Mark
        PROVE  /\ doc'[m] = IF r.text[m] = base.text[m] THEN doc[m] ELSE r.text[m]
               /\ doc[m] <= doc'[m] /\ r.text[m] <= doc'[m]
               /\ doc'[m] <= Owns(m, home) /\ (doc'[m] # 0 => h.born[m] <= r.ver)
    <3>1. /\ doc[m] \in 0..2 /\ base.text[m] \in 0..2 /\ r.text[m] \in 0..2 /\ h.born[m] \in Nat
          /\ Owns(m, home) \in 0..1
      BY <1>1, TextIs DEF Owns
    <3>2. /\ base.text[m] <= doc[m] /\ doc[m] <= Owns(m, home)
          /\ doc[m] # 0 => h.born[m] <= base.ver
      BY DEF Chronicle, Edited
    <3>3. r.text[m] <= Owns(m, home) /\ (r.text[m] # 0 => h.born[m] <= r.ver)
      BY <1>1, <2>3 DEF Chronicle, Story
    <3>4. r.text[m] = base.text[m] \/ (base.text[m] = 0 /\ base.ver < h.born[m])
      BY <2>3 DEF Grown
    <3>5. r.text[m] = base.text[m] \/ (base.text[m] = 0 /\ doc[m] = 0 /\ r.text[m] <= 1)
      BY <1>1, <3>1, <3>2, <3>3, <3>4
    <3>6. doc[m] <= 1
      BY <3>1, <3>2
    <3>7. doc'[m] = IF r.text[m] = base.text[m] THEN doc[m] ELSE r.text[m]
      BY <1>1, <2>1, <3>2, <3>5, <3>6, MergeIs
    <3> QED BY <1>1, <2>1, <3>1, <3>2, <3>3, <3>5, <3>7
  <2>5. BaseCopy(h)'
    BY <2>1 DEF BaseCopy, Sample
  <2>6. WriteCopies(h)'
    <3>1. \A i \in DOMAIN writes : writes[i].ver \in Nat
      BY WriteIs DEF Types, WriteRec
    <3>2. \A i \in DOMAIN writes : writes[i].ver # 0 => r.ver < writes[i].ver
      BY <3>1
    <3> QED BY <2>1, <3>2 DEF Chronicle, WriteCopies, Sample
  <2>7. OwnKnown(h)'
    <3>1. \A v \in h.own[home] : v \in Nat /\ (v <= base.ver => v <= r.ver)
      BY <1>1, <2>1
    <3> QED BY <2>1, <3>1 DEF Chronicle, OwnKnown
  <2>8. Edited(h)'
    <3>1. ASSUME NEW m \in Mark, NEW i \in DOMAIN writes PROVE writes[i].text[m] <= doc'[m]
      <4>1. writes[i].text[m] \in 0..2 /\ doc[m] \in 0..2 /\ r.text[m] \in 0..2
        BY <1>1, WriteIs, TextIs DEF Types, WriteRec
      <4>2. writes[i].text[m] <= doc[m]
        BY DEF Chronicle, Edited
      <4> QED BY <2>4, <4>1, <4>2
    <3> QED BY <2>1, <2>4, <3>1 DEF Edited, Owns
  <2> QED BY <2>4, <2>5, <2>6, <2>7, <2>8
<1> QED BY <1>2, <1>3

\* A write returns: it is what the editor is based on now.
LEMMA WrittenKeeps ==
  ASSUME NoRace, Types, Types', NEW h \in History, Chronicle(h),
         NEW i \in DOMAIN writes, Written(i)
  PROVE  Chronicle(h)'
<1> DEFINE w == writes[i]
<1>1. /\ i = 1 /\ w.ver # 0 /\ base' = [text |-> w.text, ver |-> w.ver]
      /\ writes' = Dropped(writes, i) /\ UNCHANGED <<disk, doc, home, reads, marks>>
  BY MayNot DEF Written, Races, editor
<1>2. Stays
  BY LoadsStay DEF Stays
<1>3. Story(h)' /\ \A p, s : Sample(h, p, s) <=> Sample(h, p, s)'
  BY <1>1, StoryStays DEF Chronicle
<1>4. /\ w.ver \in Nat /\ w.text \in Text /\ base.ver \in Nat /\ base.ver < w.ver
      /\ Sample(h, home, w)
  BY <1>1, WriteIs DEF Types, TextTypes, Version, WriteRec, Chronicle, WriteCopies
<1>5. BaseCopy(h)' /\ ReadCopies(h)'
  BY <1>1, <1>4 DEF Chronicle, BaseCopy, ReadCopies, Sample
<1>6. LoadCopies(h)'
  BY <1>1, <1>2 DEF Chronicle, LoadCopies, Stays, Sample
<1>7. \A j \in DOMAIN writes' : j \in Nat /\ j + 1 \in DOMAIN writes /\ writes'[j] = writes[j + 1]
                                /\ 1 < j + 1
  <2> TAKE j \in DOMAIN writes'
  <2>1. PICK k \in DOMAIN writes : writes'[j] = writes[k] /\ k = (IF j < i THEN j ELSE j + 1)
                                   /\ k # i /\ j \in Nat /\ i \in Nat
    BY <1>1, WritesLeft
  <2>2. k \in Nat \ {0}
    BY WriteIs DEF Types
  <2>3. k = j + 1 /\ 1 < j + 1
    BY <1>1, <2>1, <2>2
  <2> QED BY <2>1, <2>3
<1>8. WriteCopies(h)'
  <2>1. \A j \in DOMAIN writes' :
          writes'[j].ver # 0 => Sample(h, home, writes'[j]) /\ base'.ver < writes'[j].ver
    <3> TAKE j \in DOMAIN writes'
    <3> HAVE writes'[j].ver # 0
    <3>1. Sample(h, home, writes[j + 1])
      BY <1>7 DEF Chronicle, WriteCopies
    <3>2. w.ver < writes[j + 1].ver
      BY <1>1, <1>7 DEF Chronicle, WriteCopies
    <3> QED BY <1>1, <1>7, <3>1, <3>2
  <2>2. \A j, k \in DOMAIN writes' :
          j < k /\ writes'[k].ver # 0 => writes'[j].ver # 0 /\ writes'[j].ver < writes'[k].ver
    <3> TAKE j, k \in DOMAIN writes'
    <3> HAVE j < k /\ writes'[k].ver # 0
    <3>1. j + 1 < k + 1 /\ j + 1 \in DOMAIN writes /\ k + 1 \in DOMAIN writes
      BY <1>7
    <3> QED BY <1>7, <3>1 DEF Chronicle, WriteCopies
  <2> QED BY <1>1, <2>1, <2>2 DEF WriteCopies, Sample
<1>9. OwnKnown(h)'
  <2> SUFFICES ASSUME NEW v \in h.own[home], ~(v <= w.ver)
               PROVE  \E j \in DOMAIN writes' : writes'[j].ver = v
    BY <1>1 DEF OwnKnown
  <2>1. v \in Nat
    BY DEF History, Types, PlaceTypes
  <2>2. PICK k \in DOMAIN writes : writes[k].ver = v
    BY <1>4, <2>1 DEF Chronicle, OwnKnown
  <2>3. k # 1
    BY <1>1, <1>4, <2>1, <2>2
  <2>4. /\ Dropped(writes, i) \in Seq(WriteRec) /\ Len(Dropped(writes, i)) = Len(writes) - 1
        /\ \A j \in 1..Len(writes) - 1 :
             Dropped(writes, i)[j] = IF j < i THEN writes[j] ELSE writes[j + 1]
        /\ k \in 1..Len(writes) /\ Len(writes) \in Nat
    BY WriteIs, DroppedIs DEF Types, WriteTypes
  <2>5. DOMAIN writes' = 1..Len(writes) - 1
    BY <1>1, <2>4, LenProperties
  <2>6. k - 1 \in 1..Len(writes) - 1 /\ ~(k - 1 < i) /\ (k - 1) + 1 = k
    BY <1>1, <2>3, <2>4
  <2>7. writes'[k - 1] = writes[k]
    BY <1>1, <2>4, <2>6
  <2> QED BY <2>2, <2>5, <2>6, <2>7
<1>10. Edited(h)'
  <2>1. \A m \in Mark : h.born[m] \in Nat
    BY DEF History
  <2>2. ASSUME NEW m \in Mark
        PROVE  /\ w.text[m] <= doc[m] /\ \A j \in DOMAIN writes' : writes'[j].text[m] <= doc[m]
               /\ doc[m] <= Owns(m, home) /\ (doc[m] # 0 => h.born[m] <= w.ver)
    BY <1>4, <1>7, <2>1 DEF Chronicle, Edited
  <2> QED BY <1>1, <2>2 DEF Edited, Owns
<1> QED BY <1>3, <1>5, <1>6, <1>8, <1>9, <1>10 DEF Chronicle

\* A page that has changed has been read.
LEMMA RereadKeeps ==
  ASSUME NoRace, Types, Types', Loads, NEW h \in History, Chronicle(h),
         NEW i \in DOMAIN reads, Reread(i)
  PROVE  Chronicle(h)' /\ (\A m \in Mark : doc[m] <= doc'[m])
<1>1. /\ path = home /\ reads' = Dropped(reads, i)
      /\ UNCHANGED <<disk, home, writes, load, marks>>
  BY MayNot DEF Reread, Races, Loads, Places
<1>2. /\ reads[i] \in ReadRec /\ reads[i].page \in Page /\ reads[i].text \in Text
      /\ reads[i].ver \in Nat /\ home \in Page /\ disk[home].text \in Text
      /\ disk[home].ver \in Nat
  BY ReadIs DEF Types, ReadRec, TextTypes, PlaceTypes, Version
<1>3. Story(h)' /\ \A p, s : Sample(h, p, s) <=> Sample(h, p, s)'
  BY <1>1, StoryStays DEF Chronicle
<1>4. LoadCopies(h)'
  BY <1>1 DEF Chronicle, LoadCopies, Sample
<1>5. ReadCopies(h)'
  <2>1. \A j \in DOMAIN reads' : \E k \in DOMAIN reads : reads'[j] = reads[k]
    <3> TAKE j \in DOMAIN reads'
    <3>1. reads \in Seq(ReadRec) /\ j \in DOMAIN Dropped(reads, i)
      BY <1>1 DEF Types, ReadTypes
    <3> QED BY <1>1, <3>1, DroppedFrom
  <2>2. \A j \in DOMAIN reads' : Sample(h, reads'[j].page, reads'[j])
    BY <2>1 DEF Chronicle, ReadCopies
  <2> QED BY <1>3, <2>2 DEF ReadCopies, Sample
<1>6. CASE UNCHANGED <<doc, base>>
  <2>1. BaseCopy(h)' /\ WriteCopies(h)'
    BY <1>1, <1>6 DEF Chronicle, BaseCopy, WriteCopies, Sample
  <2>2. OwnKnown(h)' /\ Edited(h)'
    BY <1>1, <1>6 DEF Chronicle, OwnKnown, Edited, Owns
  <2>3. \A m \in Mark : doc[m] <= doc'[m]
    BY <1>6, TextIs DEF Types, TextTypes
  <2> QED BY <1>3, <1>4, <1>5, <2>1, <2>2, <2>3 DEF Chronicle
<1>7. CASE ~UNCHANGED <<doc, base>>
  <2>1. PICK r \in {reads[i], [page |-> reads[i].page, text |-> disk[reads[i].page].text,
                               ver |-> disk[reads[i].page].ver]} :
          (May("echo") \/ ~Echoed(r)) /\ Apply(r.text, r.ver)
    BY <1>7, Zenon DEF Reread
  <2>2. reads[i].page = home
    BY <1>1, <1>7 DEF Reread
  <2>3. r.text \in Text /\ r.ver \in Nat /\ r.page = home
    BY <1>2, <2>1, <2>2
  <2>4. Sample(h, home, r)
    BY <1>2, <2>1, <2>2 DEF Chronicle, Story, ReadCopies, Sample
  <2>5. \A j \in DOMAIN writes : writes[j].ver \notin 1..r.ver
    BY <2>1, <2>3, MayNot DEF Echoed, Races, Loads, Places
  <2>6. /\ BaseCopy(h)' /\ WriteCopies(h)' /\ OwnKnown(h)' /\ Edited(h)'
        /\ \A m \in Mark : doc[m] <= doc'[m]
    BY <1>1, <2>1, <2>3, <2>4, <2>5, ApplyKeeps
  <2> QED BY <1>3, <1>4, <1>5, <2>6 DEF Chronicle
<1> QED BY <1>6, <1>7

\* A page is fetched, and its path shown.
LEMMA FetchKeeps ==
  ASSUME Types, Types', NEW h \in History, Chronicle(h), NEW l \in Loader, Fetch(l) \/ Show(l)
  PROVE  Chronicle(h)'
<1>1. UNCHANGED <<disk, doc, home, base, writes, reads, marks>>
  BY DEF Fetch, Show, editor
<1>2. /\ load[l] \in LoadRec /\ load[l].page \in Page /\ load \in [Loader -> LoadRec]
      /\ \A p \in Page : disk[p].ver \in Nat
  BY DEF Types, LoadTypes, LoadRec, TextTypes, Version
<1>3. Story(h)' /\ \A p, s : Sample(h, p, s) <=> Sample(h, p, s)'
  BY <1>1, StoryStays DEF Chronicle
<1>4. BaseCopy(h)' /\ ReadCopies(h)' /\ WriteCopies(h)'
  BY <1>1 DEF Chronicle, BaseCopy, ReadCopies, WriteCopies, Sample
<1>5. OwnKnown(h)' /\ Edited(h)'
  BY <1>1 DEF Chronicle, OwnKnown, Edited, Owns
<1>6. \A k \in Loader : k # l => load'[k] = load[k]
  BY <1>2 DEF Fetch, Show
<1>7. /\ Sample(h, load'[l].page, load'[l])
      /\ load'[l].other => \A v \in h.own[load'[l].page] : v <= load'[l].ver
  <2>1. CASE Fetch(l)
    <3>1. /\ load'[l].page = load[l].page /\ load'[l].text = disk[load[l].page].text
          /\ load'[l].ver = disk[load[l].page].ver
      BY <1>2, <2>1 DEF Fetch, LoadRec
    <3> QED BY <1>2, <3>1 DEF Chronicle, Story, Sample
  <2>2. CASE Show(l)
    <3>1. /\ load'[l].page = load[l].page /\ load'[l].text = load[l].text
          /\ load'[l].ver = load[l].ver /\ load'[l].other = load[l].other /\ load[l].pc = "show"
      BY <1>2, <2>2 DEF Show, LoadRec
    <3> QED BY <3>1 DEF Chronicle, LoadCopies, Sample
  <2> QED BY <2>1, <2>2
<1>8. LoadCopies(h)'
  <2>1. ASSUME NEW k \in Loader, load'[k].pc \in {"show", "meta"}
        PROVE  /\ Sample(h, load'[k].page, load'[k])
               /\ load'[k].other => \A v \in h.own[load'[k].page] : v <= load'[k].ver
    <3>1. CASE k = l
      BY <1>7, <3>1
    <3>2. CASE k # l
      BY <1>6, <2>1, <3>2 DEF Chronicle, LoadCopies
    <3> QED BY <3>1, <3>2
  <2> QED BY <1>1, <2>1 DEF LoadCopies, Sample
<1> QED BY <1>3, <1>4, <1>5, <1>8 DEF Chronicle

\* The page is there: another one replaces what is in the editor, the same one
\* is merged into it.
LEMMA LoadedKeeps ==
  ASSUME NoRace, Types, Types', Loads, NEW h \in History, Chronicle(h),
         NEW l \in Loader, Loaded(l)
  PROVE  Chronicle(h)' /\ (~load[l].other => \A m \in Mark : doc[m] <= doc'[m])
<1>1. /\ load[l].pc = "meta" /\ UNCHANGED <<disk, writes, reads, marks>>
      /\ load' = [load EXCEPT ![l] = Idle(path)]
  BY DEF Loaded
<1>2. /\ load[l].page \in Page /\ load[l].text \in Text /\ load[l].ver \in Nat
      /\ load \in [Loader -> LoadRec] /\ home \in Page /\ home' \in Page
  BY DEF Types, LoadTypes, LoadRec, PlaceTypes
<1>3. Story(h)' /\ \A p, s : Sample(h, p, s) <=> Sample(h, p, s)'
  BY <1>1, StoryStays DEF Chronicle
<1>4. \A k \in Loader : /\ k # l => load'[k] = load[k]
                        /\ k = l => load'[k].pc = "idle"
  BY <1>1, <1>2 DEF Idle
<1>5. LoadCopies(h)'
  BY <1>1, <1>4 DEF Chronicle, LoadCopies, Sample
<1>6. ReadCopies(h)'
  BY <1>1 DEF Chronicle, ReadCopies, Sample
<1>7. /\ Sample(h, load[l].page, load[l])
      /\ load[l].other => \A v \in h.own[load[l].page] : v <= load[l].ver
  BY <1>1 DEF Chronicle, LoadCopies
<1>8. LoadPlace(load[l])
  BY DEF Loads, Places
<1>9. CASE load[l].other
  <2>1. /\ doc' = load[l].text /\ home' = load[l].page
        /\ base' = [text |-> load[l].text, ver |-> load[l].ver]
    BY <1>9 DEF Loaded
  <2>2. DOMAIN writes = {}
    BY <1>1, <1>8, <1>9 DEF LoadPlace, Loads, Places
  <2>3. BaseCopy(h)'
    BY <1>1, <1>7, <2>1 DEF BaseCopy, Sample
  <2>4. WriteCopies(h)' /\ OwnKnown(h)'
    BY <1>1, <1>7, <1>9, <2>1, <2>2 DEF WriteCopies, OwnKnown
  <2>5. Edited(h)'
    <3>1. \A m \in Mark : /\ load[l].text[m] \in 0..2
                          /\ load[l].text[m] <= Owns(m, load[l].page)
                          /\ load[l].text[m] # 0 => h.born[m] <= load[l].ver
      BY <1>2, <1>7, TextIs DEF Chronicle, Story, Sample
    <3>2. \A m \in Mark : load[l].text[m] <= load[l].text[m]
      BY <3>1
    <3> QED BY <1>1, <2>1, <2>2, <3>1, <3>2 DEF Edited, Owns
  <2> QED BY <1>3, <1>5, <1>6, <1>9, <2>3, <2>4, <2>5 DEF Chronicle
<1>10. CASE ~load[l].other
  <2>1. Apply(load[l].text, load[l].ver) /\ home' = home /\ ~Echoed(load[l])
    BY <1>10, MayNot DEF Loaded, Races
  <2>2. path = home /\ load[l].page = home
    BY <1>1, <1>8, <1>10, LoadAlone DEF LoadPlace
  <2>3. \A j \in DOMAIN writes : writes[j].ver \notin 1..load[l].ver
    BY <2>1, <2>2 DEF Echoed, Loads, Places
  <2>4. /\ BaseCopy(h)' /\ WriteCopies(h)' /\ OwnKnown(h)' /\ Edited(h)'
        /\ \A m \in Mark : doc[m] <= doc'[m]
    BY <1>1, <1>2, <1>7, <2>1, <2>2, <2>3, ApplyKeeps
  <2> QED BY <1>3, <1>5, <1>6, <2>4 DEF Chronicle
<1> QED BY <1>9, <1>10

\* A change has been noticed, and perhaps the page is to be read.
LEMMA ChangedKeeps ==
  ASSUME Types, Types', NEW h \in History, Chronicle(h), NEW p \in Page, FileChanged(p)
  PROVE  Chronicle(h)'
<1>1. Stays /\ UNCHANGED <<disk, doc, base, home, writes, marks>>
  BY LoadsStay DEF Stays, FileChanged, editor
<1>2. \A i \in DOMAIN reads' : Sample(h, reads'[i].page, reads'[i])
  <2>1. CASE UNCHANGED reads
    BY <2>1 DEF Chronicle, ReadCopies
  <2>2. CASE reads' = Append(reads, [page |-> p, text |-> disk[p].text, ver |-> disk[p].ver])
    <3> DEFINE r == [page |-> p, text |-> disk[p].text, ver |-> disk[p].ver]
    <3>1. r \in ReadRec /\ Sample(h, p, r)
      BY DEF ReadRec, Types, TextTypes, Version, Chronicle, Story, Sample
    <3>2. /\ DOMAIN reads' = 1..Len(reads) + 1 /\ DOMAIN reads = 1..Len(reads)
          /\ Len(reads) \in Nat /\ reads'[Len(reads) + 1] = r
          /\ \A i \in 1..Len(reads) : reads'[i] = reads[i]
      BY <2>2, <3>1, AppendProperties, LenProperties DEF Types, ReadTypes
    <3>3. \A i \in DOMAIN reads' : i = Len(reads) + 1 \/ i \in DOMAIN reads
      BY <3>2
    <3> QED BY <3>1, <3>2, <3>3 DEF Chronicle, ReadCopies
  <2> QED BY <2>1, <2>2 DEF FileChanged
<1> QED BY <1>1, <1>2, QuietKeeps

\* Steps of the invariant: with the history as it is, or with a version more.
LEMMA ChronicleKept ==
  ASSUME NoRace, Types, Types', Loads, Next, NEW h \in History, Chronicle(h)
  PROVE  \E g \in History : Chronicle(g)'
<1>0. ASSUME UNCHANGED <<disk, base, home, writes>>, UNCHANGED <<doc, marks>> \/ Type,
             UNCHANGED reads, Stays
      PROVE  Chronicle(h)'
  <2>1. \A i \in DOMAIN reads' : Sample(h, reads'[i].page, reads'[i])
    BY <1>0 DEF Chronicle, ReadCopies
  <2> QED BY <1>0, <2>1, QuietKeeps
<1>1. CASE Type \/ Compose \/ Composed
  <2>1. Stays
    BY <1>1, LoadsStay DEF Stays
  <2> QED BY <1>0, <1>1, <2>1 DEF Type, Compose, Composed, editor
<1>2. ASSUME NEW t \in timers, TimeoutEnds(t) PROVE Chronicle(h)'
  <2>1. Stays
    BY <1>2, LoadsStay DEF Stays
  <2>2. CASE UNCHANGED writes
    BY <1>0, <1>2, <2>1, <2>2 DEF TimeoutEnds, editor
  <2>3. CASE Write(t)
    <3>1. PICK w : w = [page |-> path, text |-> doc, ver |-> 0, for |-> t.for]
      OBVIOUS
    <3>2. w \in WriteRec /\ w.text = doc /\ w.ver = 0
      BY <3>1 DEF WriteRec, Types, TextTypes, PlaceTypes, LoadTypes, TimerRec
    <3>3. writes' = Append(writes, w)
      BY <2>3, <3>1 DEF Write
    <3>4. UNCHANGED <<disk, base, home, doc, marks, reads>>
      BY <1>2 DEF TimeoutEnds, editor
    <3> QED BY <2>1, <3>2, <3>3, <3>4, WriteKeeps
  <2> QED BY <1>2, <2>2, <2>3 DEF TimeoutEnds, Skip, PutOff
<1>3. ASSUME NEW i \in DOMAIN writes, WriteFails(i) PROVE Chronicle(h)'
  <2>1. Stays
    BY <1>3, LoadsStay DEF Stays
  <2>2. writes[i].ver = 0 /\ writes' = Dropped(writes, i)
        /\ UNCHANGED <<disk, base, home, doc, marks, reads>>
    BY <1>3, MayNot DEF WriteFails, Races, editor
  <2> QED BY <2>1, <2>2, FailKeeps
<1>4. ASSUME NEW l \in Loader, FetchFails(l) \/ (\E p \in Page : Open(l, p)) PROVE Chronicle(h)'
  <2>1. Stays
    BY <1>4, LoadsStay DEF Stays
  <2> QED BY <1>0, <1>4, <2>1 DEF FetchFails, Open, editor
<1>5. ASSUME NEW l \in Loader, Loading(l) PROVE Chronicle(h)'
  BY <1>5, FetchKeeps, LoadedKeeps DEF Loading
<1>6. ASSUME NEW i \in DOMAIN reads, Reread(i) PROVE Chronicle(h)'
  BY <1>6, RereadKeeps
<1>7. ASSUME NEW i \in DOMAIN writes, Written(i) PROVE Chronicle(h)'
  BY <1>7, WrittenKeeps
<1>8. ASSUME NEW p \in Page, FileChanged(p) PROVE Chronicle(h)'
  BY <1>8, ChangedKeeps
<1> QED BY <1>1, <1>2, <1>3, <1>4, <1>5, <1>6, <1>7, <1>8, LandKeeps, ElsewhereKeeps DEF Next

LEMMA PageInvKept == NoRace /\ PageInv /\ [Next]_vars => PageInv'
<1> SUFFICES ASSUME NoRace, PageInv, [Next]_vars PROVE PageInv'
  OBVIOUS
<1>1. Types /\ Types' /\ Loads /\ Loads'
  BY TypesKept, LoadsKept DEF PageInv
<1>2. PICK h \in History : Chronicle(h)
  BY DEF PageInv
<1>3. CASE Next
  BY <1>1, <1>2, <1>3, ChronicleKept DEF PageInv
<1>4. CASE UNCHANGED vars
  <2>1. Stays /\ UNCHANGED <<disk, base, home, writes, doc, marks, reads>>
    BY <1>4 DEF vars, editor, Stays
  <2>2. \A i \in DOMAIN reads' : Sample(h, reads'[i].page, reads'[i])
    BY <1>2, <2>1 DEF Chronicle, ReadCopies
  <2>3. Chronicle(h)'
    BY <1>1, <1>2, <2>1, <2>2, QuietKeeps
  <2> QED BY <1>1, <2>3 DEF PageInv
<1> QED BY <1>3, <1>4

\* At first every page is empty in all its versions.
LEMMA PageInvFirst == Init => PageInv
<1> SUFFICES ASSUME Init PROVE PageInv
  OBVIOUS
<1>1. Types /\ Loads
  BY TypesFirst, LoadsFirst
<1>2. PICK h : h = [text |-> [p \in Page |-> [v \in Nat |-> Clean]],
                    own |-> [p \in Page |-> {}], born |-> [m \in Mark |-> 0]]
  OBVIOUS
<1>3. h \in History
  BY <1>2, MarksAre DEF History
<1>4. /\ \A p \in Page, v \in Nat : h.text[p][v] = Clean
      /\ \A p \in Page : h.own[p] = {}
      /\ \A m \in Mark : h.born[m] = 0 /\ Clean[m] = 0
  BY <1>2 DEF Clean
<1>5. /\ \A p \in Page : disk[p].text = Clean /\ disk[p].ver = 1
      /\ doc = Clean /\ base.text = Clean /\ base.ver = 1 /\ home \in Page
      /\ writes = << >> /\ reads = << >> /\ marks = << >>
      /\ \A l \in Loader : load[l].pc = "idle"
  <2>1. home \in Page
    BY <1>1 DEF Types, PlaceTypes
  <2>2. writes = << >> /\ reads = << >> /\ marks = << >>
    BY Zenon DEF Init
  <2>3. /\ \A p \in Page : disk[p].text = Clean /\ disk[p].ver = 1
        /\ doc = Clean /\ base.text = Clean /\ base.ver = 1
        /\ \A l \in Loader : load[l].pc = "idle"
    BY DEF Init, Idle
  <2> QED BY <2>1, <2>2, <2>3
<1>6. \A m \in Mark, p \in Page : Owns(m, p) \in 0..1
  BY DEF Owns
<1>7. Story(h)
  BY <1>4, <1>5, <1>6 DEF Story, Grown
<1>8. Edited(h) /\ BaseCopy(h) /\ OwnKnown(h)
  BY <1>4, <1>5, <1>6 DEF Edited, BaseCopy, OwnKnown, Sample
<1>9. ReadCopies(h) /\ WriteCopies(h) /\ LoadCopies(h)
  BY <1>5 DEF ReadCopies, WriteCopies, LoadCopies
<1> QED BY <1>1, <1>3, <1>7, <1>8, <1>9 DEF PageInv, Chronicle

LEMMA PageAlways == ASSUME NoRace PROVE Spec => []PageInv
BY PageInvFirst, PageInvKept, PTL DEF Spec

LEMMA MarkIs == ASSUME Types, NEW m \in DOMAIN marks PROVE m \in Mark /\ marks[m] \in MarkRec
BY LenProperties, PageSaveConstants DEF Types, MarkTypes, Mark

LEMMA ApartNow == ASSUME PageInv PROVE TextsApart
<1> SUFFICES ASSUME NEW m \in DOMAIN marks
             PROVE  /\ doc[m] <= 1 /\ (doc[m] > 0 => home = marks[m].page)
                    /\ \A p \in Page : disk[p].text[m] <= IF p = marks[m].page THEN 1 ELSE 0
  BY DEF TextsApart
<1>1. PICK h \in History : Chronicle(h)
  BY DEF PageInv
<1>2. m \in Mark /\ doc \in Text /\ doc[m] \in 0..2
  BY MarkIs, TextIs DEF PageInv, Types, TextTypes
<1>3. doc[m] <= Owns(m, home)
  BY <1>1, <1>2 DEF Chronicle, Edited
<1>4. \A p \in Page : disk[p].ver \in Nat /\ disk[p].text[m] <= Owns(m, p)
  BY <1>1, <1>2 DEF PageInv, Types, TextTypes, Version, Chronicle, Story
<1> QED BY <1>2, <1>3, <1>4 DEF Owns

\* Without the orders of events that Races lists, no merge inserts what is there
\* already and no page gets the text of another, for any number of pages, marks,
\* loads, reads and writes under way: what the editor is based on and every text
\* that is still on its way is a version of the page, and from one version to a
\* later one that the editor has not made only what the editor cannot have is new.
THEOREM PagesApart == ASSUME NoRace PROVE Spec => []TextsApart
BY PageAlways, ApartNow, PTL

Staying ==
  home' = home /\ (\A l \in Loader : ~(load[l].pc = "meta" /\ load[l].other))
    => \A m \in Mark : doc[m] > 0 => doc'[m] > 0

\* What is in the editor stays, unless it is replaced by another page.
LEMMA DocGrows ==
  ASSUME NoRace, PageInv, PageInv', [Next]_vars,
         \A l \in Loader : ~(load[l].pc = "meta" /\ load[l].other /\ Loaded(l)),
         NEW m \in Mark
  PROVE  doc[m] <= doc'[m] \/ (m = Len(marks) + 1 /\ doc'[m] = 1)
<1>1. doc \in Text /\ doc[m] \in 0..2 /\ Types /\ Types' /\ Loads
  BY TextIs DEF PageInv, Types, TextTypes
<1>2. PICK h \in History : Chronicle(h)
  BY DEF PageInv
<1>3. CASE UNCHANGED doc
  BY <1>1, <1>3
<1>4. CASE Type
  BY <1>1, <1>4 DEF Type, Text
<1>5. ASSUME NEW i \in DOMAIN reads, Reread(i) PROVE doc[m] <= doc'[m]
  BY <1>1, <1>2, <1>5, RereadKeeps
<1>6. ASSUME NEW l \in Loader, Loaded(l) PROVE doc[m] <= doc'[m]
  <2>1. ~load[l].other
    BY <1>6 DEF Loaded
  <2> QED BY <1>1, <1>2, <1>6, <2>1, LoadedKeeps
<1>7. CASE UNCHANGED vars \/ Compose \/ Composed \/ (\E t \in timers : TimeoutEnds(t))
  BY <1>3, <1>7 DEF vars, Compose, Composed, TimeoutEnds, editor
<1>8. CASE \/ \E i \in DOMAIN writes : Land(i) \/ Written(i) \/ WriteFails(i)
           \/ \E p \in Page : ChangeElsewhere(p) \/ FileChanged(p)
  BY <1>3, <1>8 DEF Land, Written, WriteFails, ChangeElsewhere, FileChanged, editor
<1>9. CASE \E l \in Loader : Fetch(l) \/ Show(l) \/ FetchFails(l) \/ (\E p \in Page : Open(l, p))
  BY <1>3, <1>9 DEF Fetch, Show, FetchFails, Open, editor
<1> QED BY <1>4, <1>5, <1>6, <1>7, <1>8, <1>9 DEF Next, Loading

\* What is in the editor stays until another page is shown: no late answer and
\* nobody else's change takes a mark away.
THEOREM EditorStays == ASSUME NoRace PROVE Spec => EditorKeeps
<1>1. PageInv /\ PageInv' /\ [Next]_vars => [Staying]_vars
  <2> SUFFICES ASSUME PageInv, PageInv', [Next]_vars,
                      \A l \in Loader : ~(load[l].pc = "meta" /\ load[l].other)
               PROVE  \A m \in Mark : doc[m] > 0 => doc'[m] > 0
    BY DEF Staying
  <2>1. \A m \in Mark : doc[m] \in 0..2 /\ doc'[m] \in 0..2
    BY TextIs DEF PageInv, Types, TextTypes
  <2> QED BY <2>1, DocGrows
<1>2. Spec => [][Staying]_vars
  BY <1>1, PageAlways, PTL DEF Spec
<1> QED BY <1>2 DEF EditorKeeps, Staying

-----------------------------------------------------------------------------
(* What is typed is kept.                                                    *)

\* A keystroke is in the editor and in whatever the editor has sent, as long as
\* its page is open.  Otherwise it is on disk; also as soon as a write has landed
\* or returned, before another page is read, and in what is read then.
Held(m) == home = marks[m].page => doc[m] = 1 /\ \A i \in DOMAIN writes : writes[i].text[m] = 1
Due(m) ==
  \/ home # marks[m].page \/ ~unsaved
  \/ \E i \in DOMAIN writes : writes[i].ver # 0
  \/ \E l \in Loader : load[l].other /\ load[l].pc \in {"read", "show", "meta"}
Carried(m) ==
  \A l \in Loader : /\ load[l].other /\ load[l].pc \in {"show", "meta"}
                    /\ load[l].page = marks[m].page
                    => load[l].text[m] = 1
Kept(m) == Held(m) /\ (Due(m) => OnDisk(m)) /\ Carried(m)

KeptInv == \A m \in Keystrokes : Kept(m)

\* A load begins to read when a save has nothing to do, or has been done.
LEMMA ReadsBegin ==
  ASSUME NoRace, Types,
         \/ Type \/ Compose \/ Composed
         \/ \E t \in timers : TimeoutEnds(t) /\ ~Skip(t)
         \/ \E i \in DOMAIN writes : Land(i) \/ WriteFails(i)
         \/ \E p \in Page : ChangeElsewhere(p) \/ FileChanged(p)
         \/ \E i \in DOMAIN reads : Reread(i)
         \/ \E l \in Loader : FetchFails(l) \/ (\E p \in Page : Open(l, p))
  PROVE  \A l \in Loader : load'[l].pc = "read" => load'[l] = load[l]
<1> DEFINE Stay == \A l \in Loader : load'[l].pc = "read" => load'[l] = load[l]
<1>1. \A l \in Loader : Stuck[l].pc = "read" => Stuck[l] = load[l]
  <2> TAKE l \in Loader
  <2>1. load[l] \in LoadRec
    BY DEF Types, LoadTypes
  <2>2. [load[l] EXCEPT !.pc = "stuck"].pc = "stuck"
    BY <2>1 DEF LoadRec
  <2> QED BY <2>2 DEF Stuck
<1>2. \A l \in Loader : Resolved(None)[l] = load[l]
  BY PageSaveConstants DEF Resolved
<1>3. ASSUME NEW k, NEW ts, Throw(k, ts) PROVE Stay
  <2>1. Idle(path).pc = "idle" /\ [Idle(path) EXCEPT !.pc = "save"].pc = "save"
    BY DEF Idle
  <2>2. CASE timers' = ts /\ load' = [l \in Loader |-> IF l = k THEN Idle(path) ELSE load[l]]
    BY <2>1, <2>2
  <2>3. CASE load' = [l \in Loader |->
                         CASE l = k -> [Idle(path) EXCEPT !.pc = "save"]
                           [] l # k /\ l \in {t.for : t \in {u \in ts : u.held}}
                                -> [load[l] EXCEPT !.pc = "stuck"]
                           [] OTHER -> load[l]]
    <3> SUFFICES ASSUME NEW l \in Loader PROVE load'[l].pc = "read" => load'[l] = load[l]
      OBVIOUS
    <3>1. load[l] \in LoadRec
      BY DEF Types, LoadTypes
    <3>2. [load[l] EXCEPT !.pc = "stuck"].pc = "stuck"
      BY <3>1 DEF LoadRec
    <3> QED BY <2>1, <2>3, <3>2
  <2> QED BY <1>3, <2>2, <2>3, Zenon DEF Throw
<1>4. CASE Type \/ Composed
  BY <1>1, <1>4 DEF Type, Composed
<1>5. ASSUME NEW t \in timers, TimeoutEnds(t), ~Skip(t) PROVE Stay
  <2>1. CASE PutOff(t)
    BY <1>2, <2>1, MayNot DEF PutOff, Races
  <2>2. CASE ~PutOff(t)
    BY <1>1, <1>5, <2>2 DEF TimeoutEnds, Write
  <2> QED BY <2>1, <2>2
<1>6. ASSUME NEW i \in DOMAIN writes, Land(i) \/ WriteFails(i) PROVE Stay
  BY <1>3, <1>6 DEF Land, WriteFails
<1>7. ASSUME NEW l \in Loader, FetchFails(l) PROVE Stay
  BY <1>3, <1>7 DEF FetchFails
<1>8. ASSUME NEW k \in Loader, NEW p \in Page, Open(k, p) PROVE Stay
  <2>1. load' = [Stuck EXCEPT ![k] = [Idle(p) EXCEPT !.pc = "save", !.other = (p # path)]]
    BY <1>8 DEF Open, Begin
  <2>2. [Idle(p) EXCEPT !.pc = "save", !.other = (p # path)].pc = "save"
    BY DEF Idle
  <2>3. load'[k].pc = "save" /\ \A l \in Loader : l # k => load'[l] = Stuck[l]
    BY <2>1, <2>2 DEF Stuck
  <2> QED BY <1>1, <2>3
<1>9. CASE Compose \/ (\E p \in Page : ChangeElsewhere(p) \/ FileChanged(p))
           \/ (\E i \in DOMAIN reads : Reread(i))
  BY <1>9 DEF Compose, ChangeElsewhere, FileChanged, Reread
<1> QED BY <1>4, <1>5, <1>6, <1>7, <1>8, <1>9

\* Marks stay where they were made, and what is on disk stays there.
LEMMA MarksStay ==
  ASSUME Types, Next
  PROVE  /\ \A m \in DOMAIN marks : m \in DOMAIN marks' /\ marks'[m] = marks[m]
         /\ DOMAIN marks' \subseteq DOMAIN marks \cup {Len(marks) + 1}
         /\ Len(marks) + 1 \notin DOMAIN marks /\ Len(marks) + 1 \in Nat
<1>1. DOMAIN marks = 1..Len(marks) /\ Len(marks) \in Nat
  BY LenProperties DEF Types, MarkTypes
<1>2. CASE UNCHANGED marks
  BY <1>1, <1>2
<1>3. CASE Type
  <2>1. PICK r \in MarkRec : marks' = Append(marks, r)
    <3>1. Calm \in BOOLEAN
      BY DEF Calm
    <3>2. [page |-> home, typed |-> TRUE, calm |-> Calm] \in MarkRec
      BY <3>1 DEF MarkRec, Types, PlaceTypes
    <3> QED BY <1>3, <3>2 DEF Type
  <2> QED BY <1>1, <2>1, AppendProperties DEF Types, MarkTypes
<1>4. ASSUME NEW p \in Page, ChangeElsewhere(p)
      PROVE  /\ \A m \in DOMAIN marks : m \in DOMAIN marks' /\ marks'[m] = marks[m]
             /\ DOMAIN marks' \subseteq DOMAIN marks \cup {Len(marks) + 1}
  <2>1. PICK r : r \in MarkRec /\ marks' = Append(marks, r)
    BY <1>4 DEF ChangeElsewhere, MarkRec
  <2> QED BY <1>1, <2>1, AppendProperties DEF Types, MarkTypes
<1>5. CASE \/ Compose \/ Composed \/ (\E t \in timers : TimeoutEnds(t))
           \/ \E i \in DOMAIN writes : Land(i) \/ Written(i) \/ WriteFails(i)
           \/ \E p \in Page : FileChanged(p)
           \/ \E i \in DOMAIN reads : Reread(i)
           \/ \E l \in Loader : Loading(l) \/ FetchFails(l) \/ (\E p \in Page : Open(l, p))
  BY <1>2, <1>5 DEF Compose, Composed, TimeoutEnds, Land, Written, WriteFails, FileChanged,
                    Reread, Loading, Fetch, Show, Loaded, FetchFails, Open
<1> QED BY <1>1, <1>3, <1>4, <1>5 DEF Next

LEMMA DiskStays ==
  ASSUME NoRace, PageInv, Next, NEW m \in Keystrokes, Kept(m)
  PROVE  /\ OnDisk(m) => OnDisk(m)'
         /\ \A i \in DOMAIN writes : Land(i) => OnDisk(m)'
<1>1. /\ m \in DOMAIN marks /\ m \in Mark /\ marks'[m] = marks[m] /\ marks[m].page \in Page
      /\ disk \in [Page -> Version] /\ Types /\ m # Len(marks) + 1
  BY MarkIs, MarksStay DEF Keystrokes, PageInv, Types, TextTypes, MarkRec
<1>2. ASSUME NEW i \in DOMAIN writes, Land(i)
      PROVE  (OnDisk(m) => OnDisk(m)') /\ OnDisk(m)'
  <2>1. /\ disk' = [disk EXCEPT ![writes[i].page] = [text |-> writes[i].text, ver |-> @.ver + 1]]
        /\ writes[i].page = home /\ home \in Page
    BY <1>2 DEF Land, PageInv, Loads, Places, Types, PlaceTypes
  <2>2. CASE home = marks[m].page
    <3>1. disk'[marks[m].page].text = writes[i].text
      BY <1>1, <2>1, <2>2
    <3>2. writes[i].text[m] = 1
      BY <2>2 DEF Kept, Held
    <3> QED BY <1>1, <3>1, <3>2 DEF OnDisk
  <2>3. CASE home # marks[m].page
    <3>1. disk'[marks[m].page] = disk[marks[m].page]
      BY <1>1, <2>1, <2>3
    <3>2. OnDisk(m)
      BY <2>3 DEF Kept, Due
    <3> QED BY <1>1, <3>1, <3>2 DEF OnDisk
  <2> QED BY <2>2, <2>3
<1>3. ASSUME NEW p \in Page, ChangeElsewhere(p) PROVE OnDisk(m) => OnDisk(m)'
  <2>1. disk' = [disk EXCEPT ![p] = [text |-> [disk[p].text EXCEPT ![Len(marks) + 1] = 1],
                                     ver |-> disk[p].ver + 1]]
    BY <1>3 DEF ChangeElsewhere
  <2>2. disk[p].text \in Text
    BY <1>1 DEF Version
  <2>3. [disk[p].text EXCEPT ![Len(marks) + 1] = 1][m] = disk[p].text[m]
    BY <1>1, <2>2 DEF Text
  <2>4. disk'[marks[m].page].text[m] = disk[marks[m].page].text[m]
    BY <1>1, <2>1, <2>3
  <2> QED BY <1>1, <2>4 DEF OnDisk
<1>4. ASSUME UNCHANGED disk PROVE OnDisk(m) => OnDisk(m)'
  BY <1>1, <1>4 DEF OnDisk
<1>5. ASSUME \/ Type \/ Compose \/ Composed \/ (\E t \in timers : TimeoutEnds(t))
             \/ \E i \in DOMAIN writes : Written(i) \/ WriteFails(i)
             \/ \E p \in Page : FileChanged(p)
             \/ \E i \in DOMAIN reads : Reread(i)
             \/ \E l \in Loader : Loading(l) \/ FetchFails(l) \/ (\E p \in Page : Open(l, p))
      PROVE  OnDisk(m) => OnDisk(m)'
  BY <1>4, <1>5 DEF Type, Compose, Composed, TimeoutEnds, Written, WriteFails, FileChanged,
                    Reread, Loading, Fetch, Show, Loaded, FetchFails, Open
<1> QED BY <1>2, <1>3, <1>5 DEF Next

\* What a step may do to a load without learning anything about the disk.
SameLoad(a, b) ==
  b.other /\ b.pc \in {"read", "show", "meta"} =>
    /\ a.other /\ a.pc \in {"read", "show", "meta"}
    /\ b.pc \in {"show", "meta"} =>
         a.pc \in {"show", "meta"} /\ b.text = a.text /\ b.page = a.page
SameWrite(a, b) == b.text = a.text /\ b.ver = a.ver

LEMMA QuietKept ==
  ASSUME NoRace, PageInv, PageInv', Next, NEW m \in Keystrokes, Kept(m),
         UNCHANGED home, unsaved' = unsaved \/ unsaved' = TRUE,
         \A l \in Loader : ~(load[l].pc = "meta" /\ load[l].other /\ Loaded(l)),
         \A i \in DOMAIN writes' : \/ \E j \in DOMAIN writes : SameWrite(writes[j], writes'[i])
                                   \/ writes'[i].text = doc /\ writes'[i].ver = 0,
         \A l \in Loader : SameLoad(load[l], load'[l])
  PROVE  Kept(m)'
<1>1. /\ m \in DOMAIN marks /\ m \in Mark /\ marks'[m] = marks[m] /\ Types /\ Types'
      /\ m \in DOMAIN marks' /\ m # Len(marks) + 1
  BY MarkIs, MarksStay DEF Keystrokes, PageInv
<1>2. OnDisk(m) => OnDisk(m)'
  BY DiskStays
<1>3. Held(m)'
  <2> SUFFICES ASSUME home = marks[m].page
               PROVE  doc'[m] = 1 /\ \A i \in DOMAIN writes' : writes'[i].text[m] = 1
    BY <1>1 DEF Held
  <2>1. doc[m] = 1 /\ \A i \in DOMAIN writes : writes[i].text[m] = 1
    BY DEF Kept, Held
  <2>2. doc'[m] \in 0..2 /\ doc'[m] <= 1 /\ doc[m] <= doc'[m]
    <3>1. doc'[m] <= 1
      <4>1. PICK h \in History : Chronicle(h)'
        BY DEF PageInv
      <4>2. doc'[m] <= Owns(m, home)'
        BY <1>1, <4>1 DEF Chronicle, Edited
      <4> QED BY <1>1, <4>2, TextIs DEF Owns, Types, TextTypes
    <3>2. doc'[m] \in 0..2
      BY <1>1, TextIs DEF Types, TextTypes
    <3>3. doc[m] <= doc'[m]
      BY <1>1, DocGrows
    <3> QED BY <3>1, <3>2, <3>3
  <2> QED BY <2>1, <2>2 DEF SameWrite
<1>4. Carried(m)'
  BY <1>1 DEF Kept, Carried, SameLoad
<1>5. Due(m)' => Due(m)
  <2>1. unsaved \in BOOLEAN
    BY <1>1 DEF Types, FlagTypes
  <2> QED BY <1>1, <2>1 DEF Due, SameLoad, SameWrite
<1> QED BY <1>2, <1>3, <1>4, <1>5 DEF Kept

\* Steps that do, or that show another page.
LEMMA OtherKept ==
  ASSUME NoRace, PageInv, PageInv', Next, NEW m \in Keystrokes, Kept(m),
         \/ \E t \in timers : TimeoutEnds(t) /\ Skip(t)
         \/ \E i \in DOMAIN writes : Land(i) \/ Written(i)
         \/ \E l \in Loader : Fetch(l) \/ (load[l].other /\ Loaded(l))
  PROVE  Kept(m)'
<1>1. /\ m \in DOMAIN marks /\ m \in Mark /\ marks'[m] = marks[m] /\ Types /\ Types'
      /\ m \in DOMAIN marks' /\ m # Len(marks) + 1 /\ marks[m].page \in Page
  BY MarkIs, MarksStay DEF Keystrokes, PageInv, MarkRec
<1>2. OnDisk(m) => OnDisk(m)'
  BY DiskStays
<1>3. ASSUME NEW t \in timers, TimeoutEnds(t), Skip(t) PROVE Kept(m)'
  <2>1. \A l \in Loader : load'[l].pc \in {"show", "meta"} => load'[l] = load[l]
    BY <1>1, <1>3, LoadsStay
  <2>2. OnDisk(m)'
    BY <1>2, <1>3 DEF Skip, Kept, Due
  <2> QED BY <1>1, <1>3, <2>1, <2>2 DEF TimeoutEnds, Skip, editor, Kept, Held, Carried
<1>4. ASSUME NEW i \in DOMAIN writes, Land(i) PROVE Kept(m)'
  <2>1. OnDisk(m)'
    BY <1>4, DiskStays
  <2>2. UNCHANGED <<doc, home, load>>
    BY <1>4 DEF Land, editor
  <2>3. \A j \in DOMAIN writes' : j \in DOMAIN writes /\ writes'[j].text = writes[j].text
    <3>1. writes[i] \in WriteRec /\ writes \in Seq(WriteRec)
      BY <1>1, WriteIs DEF Types, WriteTypes
    <3>2. writes' = [writes EXCEPT ![i].ver = disk'[writes[i].page].ver]
      BY <1>4 DEF Land
    <3> QED BY <3>1, <3>2 DEF WriteRec
  <2> QED BY <1>1, <2>1, <2>2, <2>3 DEF Kept, Held, Carried
<1>5. ASSUME NEW i \in DOMAIN writes, Written(i) PROVE Kept(m)'
  <2>1. \A l \in Loader : load'[l].pc \in {"show", "meta"} => load'[l] = load[l]
    BY <1>1, <1>5, LoadsStay
  <2>2. OnDisk(m)'
    BY <1>2, <1>5 DEF Written, Kept, Due
  <2>3. \A j \in DOMAIN writes' : \E k \in DOMAIN writes : writes'[j] = writes[k]
    BY <1>1, <1>5, WritesLeft DEF Written
  <2>4. UNCHANGED <<doc, home>>
    BY <1>5 DEF Written, editor
  <2> QED BY <1>1, <2>1, <2>2, <2>3, <2>4 DEF Kept, Held, Carried
<1>6. ASSUME NEW l \in Loader, Fetch(l) PROVE Kept(m)'
  <2>1. /\ load[l] \in LoadRec /\ load \in [Loader -> LoadRec] /\ load[l].pc = "read"
        /\ UNCHANGED <<disk, doc, home, unsaved, writes>> /\ load[l].page \in Page
    BY <1>1, <1>6 DEF Types, LoadTypes, LoadRec, Fetch, editor
  <2>2. /\ load'[l].page = load[l].page /\ load'[l].text = disk[load[l].page].text
        /\ load'[l].other = load[l].other /\ load'[l].pc = "show"
        /\ \A k \in Loader : k # l => load'[k] = load[k]
    BY <1>6, <2>1 DEF Fetch, LoadRec
  <2>3. load[l].other /\ load[l].page = marks[m].page => load'[l].text[m] = 1
    <3>1. load[l].other => OnDisk(m)
      BY <2>1 DEF Kept, Due
    <3>2. disk[marks[m].page].text[m] <= 1
      BY <1>1, ApartNow DEF TextsApart
    <3>3. disk[marks[m].page].text[m] \in 0..2
      BY <1>1, TextIs DEF Types, TextTypes, Version
    <3> QED BY <2>2, <3>1, <3>2, <3>3 DEF OnDisk
  <2>4. Carried(m)'
    BY <1>1, <2>2, <2>3 DEF Kept, Carried
  <2>5. Due(m)' => Due(m)
    BY <1>1, <2>1, <2>2 DEF Due
  <2>6. Held(m)'
    BY <1>1, <2>1 DEF Kept, Held
  <2> QED BY <1>2, <2>4, <2>5, <2>6 DEF Kept
<1>7. ASSUME NEW l \in Loader, load[l].other, Loaded(l) PROVE Kept(m)'
  <2>1. /\ load[l].pc = "meta" /\ doc' = load[l].text /\ home' = load[l].page
        /\ load' = [load EXCEPT ![l] = Idle(path)] /\ UNCHANGED writes
        /\ load \in [Loader -> LoadRec]
    BY <1>1, <1>7 DEF Loaded, Types, LoadTypes
  <2>2. OnDisk(m)'
    BY <1>2, <1>7, <2>1 DEF Kept, Due
  <2>3. DOMAIN writes = {}
    BY <1>7, <2>1 DEF PageInv, Loads, Places, LoadPlace
  <2>4. \A k \in Loader : load'[k] = load[k] \/ load'[k].pc = "idle"
    BY <2>1 DEF Idle
  <2>5. Carried(m)'
    BY <1>1, <2>4 DEF Kept, Carried
  <2>6. Held(m)'
    BY <1>1, <1>7, <2>1, <2>3 DEF Kept, Carried, Held
  <2> QED BY <2>2, <2>5, <2>6 DEF Kept
<1> QED BY <1>3, <1>4, <1>5, <1>6, <1>7

LEMMA OldKept ==
  ASSUME NoRace, PageInv, PageInv', Next, NEW m \in Keystrokes, Kept(m)
  PROVE  Kept(m)'
<1> DEFINE Other == \/ \E t \in timers : TimeoutEnds(t) /\ Skip(t)
                    \/ \E i \in DOMAIN writes : Land(i) \/ Written(i)
                    \/ \E l \in Loader : Fetch(l) \/ (load[l].other /\ Loaded(l))
<1>1. CASE Other
  BY <1>1, OtherKept
<1>2. CASE ~Other
  <2>1. Types /\ \A l \in Loader : ~(load[l].pc = "meta" /\ load[l].other /\ Loaded(l))
    BY <1>2 DEF PageInv
  <2>2. UNCHANGED writes => \A i \in DOMAIN writes' : \E j \in DOMAIN writes : SameWrite(writes[j], writes'[i])
    BY DEF SameWrite
  <2>3. ASSUME UNCHANGED home, unsaved' = unsaved \/ unsaved' = TRUE,
               \A i \in DOMAIN writes' : \/ \E j \in DOMAIN writes : SameWrite(writes[j], writes'[i])
                                         \/ writes'[i].text = doc /\ writes'[i].ver = 0,
               \/ \A l \in Loader : SameLoad(load[l], load'[l])
               \/ /\ \A l \in Loader : load'[l].pc \in {"show", "meta"} => load'[l] = load[l]
                  /\ \A l \in Loader : load'[l].pc = "read" => load'[l] = load[l]
        PROVE  Kept(m)'
    <3>1. \A l \in Loader : SameLoad(load[l], load'[l])
      BY <2>3 DEF SameLoad
    <3> QED BY <2>1, <2>3, <3>1, QuietKept
  <2>4. CASE Type \/ Compose \/ Composed
    <3>1. /\ \A l \in Loader : load'[l].pc \in {"show", "meta"} => load'[l] = load[l]
          /\ \A l \in Loader : load'[l].pc = "read" => load'[l] = load[l]
      BY <2>1, <2>4, LoadsStay, ReadsBegin
    <3>2. UNCHANGED <<home, writes>> /\ (unsaved' = unsaved \/ unsaved' = TRUE)
      BY <2>4 DEF Type, Compose, Composed, editor
    <3> QED BY <2>2, <2>3, <3>1, <3>2
  <2>5. ASSUME NEW t \in timers, TimeoutEnds(t), ~Skip(t) PROVE Kept(m)'
    <3>1. /\ \A l \in Loader : load'[l].pc \in {"show", "meta"} => load'[l] = load[l]
          /\ \A l \in Loader : load'[l].pc = "read" => load'[l] = load[l]
      BY <2>1, <2>5, LoadsStay, ReadsBegin
    <3>2. UNCHANGED <<home, unsaved>>
      BY <2>5 DEF TimeoutEnds, editor
    <3>3. CASE UNCHANGED writes
      BY <2>2, <2>3, <3>1, <3>2, <3>3
    <3>4. CASE Write(t)
      <4>1. PICK w : w = [page |-> path, text |-> doc, ver |-> 0, for |-> t.for]
        OBVIOUS
      <4>2. w \in WriteRec /\ w.text = doc /\ w.ver = 0
        BY <2>1, <4>1 DEF WriteRec, Types, TextTypes, PlaceTypes, LoadTypes, TimerRec
      <4>3. writes' = Append(writes, w)
        BY <3>4, <4>1 DEF Write
      <4>4. \A i \in DOMAIN writes' : writes'[i] = w \/ (i \in DOMAIN writes /\ writes'[i] = writes[i])
        BY <2>1, <4>2, <4>3, AppendProperties, LenProperties DEF Types, WriteTypes
      <4>5. \A i \in DOMAIN writes' : \/ \E j \in DOMAIN writes : SameWrite(writes[j], writes'[i])
                                      \/ writes'[i].text = doc /\ writes'[i].ver = 0
        BY <4>2, <4>4 DEF SameWrite
      <4> QED BY <2>3, <3>1, <3>2, <4>5
    <3> QED BY <2>5, <3>3, <3>4 DEF TimeoutEnds, PutOff
  <2>6. ASSUME NEW i \in DOMAIN writes, WriteFails(i) PROVE Kept(m)'
    <3>1. /\ \A l \in Loader : load'[l].pc \in {"show", "meta"} => load'[l] = load[l]
          /\ \A l \in Loader : load'[l].pc = "read" => load'[l] = load[l]
      BY <2>1, <2>6, LoadsStay, ReadsBegin
    <3>2. UNCHANGED <<home, unsaved>> /\ writes' = Dropped(writes, i)
      BY <2>6 DEF WriteFails, editor
    <3>3. \A j \in DOMAIN writes' : \E k \in DOMAIN writes : SameWrite(writes[k], writes'[j])
      BY <2>1, <3>2, WritesLeft DEF SameWrite
    <3> QED BY <2>3, <3>1, <3>2, <3>3
  <2>7. CASE \/ \E p \in Page : ChangeElsewhere(p) \/ FileChanged(p)
             \/ \E i \in DOMAIN reads : Reread(i)
             \/ \E l \in Loader : FetchFails(l) \/ (\E p \in Page : Open(l, p))
    <3>1. /\ \A l \in Loader : load'[l].pc \in {"show", "meta"} => load'[l] = load[l]
          /\ \A l \in Loader : load'[l].pc = "read" => load'[l] = load[l]
      BY <2>1, <2>7, LoadsStay, ReadsBegin
    <3>2. UNCHANGED <<home, unsaved, writes>>
      BY <2>7 DEF ChangeElsewhere, FileChanged, Reread, FetchFails, Open, editor
    <3> QED BY <2>2, <2>3, <3>1, <3>2
  <2>8. ASSUME NEW l \in Loader, Show(l) PROVE Kept(m)'
    <3>1. UNCHANGED <<home, unsaved, writes>> /\ load' = [load EXCEPT ![l].pc = "meta"]
          /\ load \in [Loader -> LoadRec] /\ load[l] \in LoadRec /\ load[l].pc = "show"
      BY <2>1, <2>8 DEF Show, Types, LoadTypes
    <3>2. \A k \in Loader : SameLoad(load[k], load'[k])
      <4>1. /\ load'[l].page = load[l].page /\ load'[l].text = load[l].text
            /\ load'[l].other = load[l].other
            /\ \A k \in Loader : k # l => load'[k] = load[k]
        BY <3>1 DEF LoadRec
      <4> QED BY <3>1, <4>1 DEF SameLoad
    <3> QED BY <2>2, <2>3, <3>1, <3>2
  <2>9. ASSUME NEW l \in Loader, Loaded(l), ~load[l].other PROVE Kept(m)'
    <3>1. UNCHANGED <<home, unsaved, writes>> /\ load' = [load EXCEPT ![l] = Idle(path)]
          /\ load \in [Loader -> LoadRec]
      BY <2>1, <2>9 DEF Loaded, Types, LoadTypes
    <3>2. \A k \in Loader : load'[k] = load[k] \/ load'[k].pc = "idle"
      BY <3>1 DEF Idle
    <3>3. /\ \A k \in Loader : load'[k].pc \in {"show", "meta"} => load'[k] = load[k]
          /\ \A k \in Loader : load'[k].pc = "read" => load'[k] = load[k]
      BY <3>2
    <3> QED BY <2>2, <2>3, <3>1, <3>3
  <2> QED BY <1>2, <2>4, <2>5, <2>6, <2>7, <2>8, <2>9 DEF Next, Loading
<1> QED BY <1>1, <1>2

\* A keystroke while nothing is written or loaded is in the editor at once.
LEMMA NewKept ==
  ASSUME Types, Type, NEW m, m = Len(marks) + 1, marks'[m].calm
  PROVE  Kept(m)'
<1>1. /\ marks \in Seq(MarkRec) /\ Calm \in BOOLEAN /\ m \in Mark /\ m \in DOMAIN marks'
      /\ marks'[m] = [page |-> home, typed |-> TRUE, calm |-> Calm]
  <2>1. Calm \in BOOLEAN
    BY DEF Calm
  <2>2. [page |-> home, typed |-> TRUE, calm |-> Calm] \in MarkRec
    BY <2>1 DEF MarkRec, Types, PlaceTypes
  <2> QED BY <2>1, <2>2, AppendProperties, LenProperties, PageSaveConstants
          DEF Type, Types, MarkTypes, Mark
<1>2. marks'[m].page = home /\ Calm
  BY <1>1
<1>3. /\ doc'[m] = 1 /\ UNCHANGED <<home, writes>> /\ unsaved' = TRUE
  BY <1>1 DEF Type, Types, TextTypes, Text
<1>4. DOMAIN writes' = {}
  BY <1>2, <1>3 DEF Calm
<1>5. \A l \in Loader : load'[l].pc \notin {"read", "show", "meta"}
  <2>1. \A l \in Loader : load[l].pc = "idle" /\ load[l] \in LoadRec
    BY <1>2 DEF Calm, Types, LoadTypes
  <2>2. \A l \in Loader : Stuck[l] = load[l] \/ Stuck[l].pc = "stuck"
    BY <2>1 DEF Stuck, LoadRec
  <2> QED BY <2>1, <2>2 DEF Type
<1> QED BY <1>2, <1>3, <1>4, <1>5 DEF Kept, Held, Due, Carried

LEMMA KeptStays == NoRace /\ PageInv /\ PageInv' /\ KeptInv /\ [Next]_vars => KeptInv'
<1> SUFFICES ASSUME NoRace, PageInv, PageInv', KeptInv, [Next]_vars PROVE KeptInv'
  OBVIOUS
<1>1. CASE UNCHANGED vars
  BY <1>1 DEF vars, editor, KeptInv, Keystrokes, Kept, Held, Due, Carried, OnDisk
<1>2. CASE Next
  <2> SUFFICES ASSUME NEW m \in Keystrokes' PROVE Kept(m)'
    BY DEF KeptInv
  <2>1. Types /\ m \in DOMAIN marks' /\ marks'[m].typed /\ marks'[m].calm
    BY DEF PageInv, Keystrokes
  <2>2. CASE m \in DOMAIN marks
    <3>1. m \in Keystrokes
      BY <1>2, <2>1, <2>2, MarksStay DEF Keystrokes
    <3> QED BY <1>2, <3>1, OldKept DEF KeptInv
  <2>3. CASE m \notin DOMAIN marks
    <3>1. m = Len(marks) + 1
      BY <1>2, <2>1, <2>3, MarksStay
    <3>2. \A p \in Page : ~ChangeElsewhere(p)
      <4> SUFFICES ASSUME NEW p \in Page, ChangeElsewhere(p) PROVE FALSE
        OBVIOUS
      <4>1. [page |-> p, typed |-> FALSE, calm |-> FALSE] \in MarkRec
        BY DEF MarkRec
      <4>2. marks'[m] = [page |-> p, typed |-> FALSE, calm |-> FALSE]
        BY <2>1, <3>1, <4>1, AppendProperties DEF ChangeElsewhere, Types, MarkTypes
      <4> QED BY <2>1, <4>2
    <3>3. marks' # marks
      BY <2>1, <2>3
    <3>4. Type
      BY <1>2, <3>2, <3>3
         DEF Next, Compose, Composed, TimeoutEnds, Land, Written, WriteFails, FileChanged, Reread,
             Loading, Fetch, Show, Loaded, FetchFails, Open
    <3> QED BY <2>1, <3>1, <3>4, NewKept
  <2> QED BY <2>2, <2>3
<1> QED BY <1>1, <1>2

\* What is typed while nothing is being written or loaded is on disk, or in the
\* editor on a page that is not shown as saved, whatever is merged, reloaded,
\* navigated to or fails to be written: for any number of pages, keystrokes and
\* calls under way, without the orders of events that Races lists.
THEOREM TypedStays == ASSUME NoRace PROVE Spec => []TypedKept
<1>1. Init => KeptInv
  <2>1. Init => marks = << >>
    BY Zenon DEF Init
  <2> QED BY <2>1 DEF KeptInv, Keystrokes
<1>2. KeptInv => TypedKept
  <2>1. \A m \in Keystrokes : Kept(m) => OnDisk(m) \/ (Shown(m) /\ unsaved)
    BY DEF Kept, Held, Due, Shown
  <2> QED BY <2>1 DEF KeptInv, TypedKept
<1> QED BY <1>1, <1>2, KeptStays, PageAlways, PTL DEF Spec
=============================================================================
