--------------------------- MODULE DaemonGuiProofs ---------------------------
(***************************************************************************)
(* Proofs about the todo store, for any texts and any str::trim, and about *)
(* the desktop window that shows it, for any number of commands, faults    *)
(* and waiting views.  Each operation of the store keeps it sound and lets *)
(* no id change its todo (Keeps); what waits between the window and the    *)
(* daemon is judged by that.                                               *)
(***************************************************************************)
EXTENDS DaemonGui, SequenceTheorems, TLAPS

StoreType ==
    [items : Seq(Todo), nextId : Nat \ {0}, draft : Text, page : Page,
     confirmDelete : BOOLEAN, sidebarOpen : BOOLEAN,
     shutdown : BOOLEAN, focused : BOOLEAN, rev : Nat]

Sound(s) ==
    /\ s \in StoreType
    /\ \A k \in DOMAIN s.items : s.items[k].id < s.nextId
    /\ \A k, l \in DOMAIN s.items : k < l => s.items[k].id < s.items[l].id

\* A todo of t that s could have is one of s, under the same title.
Keeps(s, t) ==
    /\ t.nextId >= s.nextId
    /\ \A k \in DOMAIN t.items : t.items[k].id < s.nextId =>
           \E j \in DOMAIN s.items : /\ s.items[j].id = t.items[k].id
                                     /\ s.items[j].title = t.items[k].title

\* What AgentHost asks of a step
Counted(s, t) ==
    /\ t.rev >= s.rev
    /\ TreeOf(t) # TreeOf(s) => t.rev > s.rev

\* A row, as it was shown at some time: its todo exists no more, or under that title.
Known(s, id, title) ==
    /\ id < s.nextId
    /\ \A k \in DOMAIN s.items : s.items[k].id = id => s.items[k].title = title

RowsKnown(s, v) == \A k \in DOMAIN v.items : Known(s, v.items[k].id, v.items[k].title)
CmdKnown(s, cmd) == cmd.kind \in {"toggle", "delete"} => Known(s, cmd.id, cmd.text)

Received == [ok : BOOLEAN, view : ViewType]

GuiShape ==
    /\ input \in Text
    /\ view \in ViewType
    /\ cmds \in Seq(Cmd)
    /\ views \in Seq(Received)
    /\ call \in Cmd
    /\ late \in Seq(Cmd)

GuiInv ==
    /\ Sound(store)
    /\ GuiShape
    /\ RowsKnown(store, view)
    /\ \A k \in DOMAIN views : RowsKnown(store, views[k].view)
    /\ \A k \in DOMAIN cmds : CmdKnown(store, cmds[k])
    /\ CmdKnown(store, call)
    /\ \A k \in DOMAIN late : CmdKnown(store, late[k])


-----------------------------------------------------------------------------
(* Operations of the store                                                 *)

\* A sequence without one of its elements.
LEMMA RemoveAtOK ==
    ASSUME NEW S, NEW s \in Seq(S), NEW i \in 1..Len(s)
    PROVE  /\ RemoveAt(s, i) \in Seq(S)
           /\ Len(RemoveAt(s, i)) = Len(s) - 1
           /\ \A k \in 1..(Len(s) - 1) :
                RemoveAt(s, i)[k] = s[IF k < i THEN k ELSE k + 1]
<1> DEFINE a == SubSeq(s, 1, i - 1)
           b == SubSeq(s, i + 1, Len(s))
<1>0. Len(s) \in Nat /\ \A k \in 1..Len(s) : s[k] \in S
  BY LenProperties, ElementOfSeq
<1>1. /\ a \in Seq(S) /\ Len(a) = i - 1
      /\ \A k \in 1..(i - 1) : a[k] = s[k]
  BY <1>0, SubSeqProperties
<1>2. /\ b \in Seq(S) /\ Len(b) = Len(s) - i
      /\ \A k \in 1..(Len(s) - i) : b[k] = s[k + i]
  BY <1>0, SubSeqProperties
<1> HIDE DEF a, b
<1>3. /\ a \o b \in Seq(S)
      /\ Len(a \o b) = Len(s) - 1
      /\ \A k \in 1..(Len(s) - 1) : (a \o b)[k] = IF k <= i - 1 THEN a[k] ELSE b[k - (i - 1)]
  <2>1. /\ a \o b \in Seq(S)
        /\ Len(a \o b) = Len(a) + Len(b)
        /\ \A k \in 1..(Len(a) + Len(b)) :
             (a \o b)[k] = IF k <= Len(a) THEN a[k] ELSE b[k - Len(a)]
    BY <1>1, <1>2, ConcatProperties, Zenon
  <2> QED
    BY <1>0, <1>1, <1>2, <2>1
<1>4. \A k \in 1..(Len(s) - 1) : (a \o b)[k] = s[IF k < i THEN k ELSE k + 1]
  <2> SUFFICES ASSUME NEW k \in 1..(Len(s) - 1)
               PROVE  (a \o b)[k] = s[IF k < i THEN k ELSE k + 1]
    OBVIOUS
  <2>1. CASE k < i
    BY <1>0, <1>1, <1>3, <2>1
  <2>2. CASE ~(k < i)
    <3>1. k - (i - 1) \in 1..(Len(s) - i) /\ (k - (i - 1)) + i = k + 1
      BY <1>0, <2>2
    <3>2. (a \o b)[k] = b[k - (i - 1)]
      BY <1>0, <1>3, <2>2
    <3> QED
      BY <1>2, <2>2, <3>1, <3>2
  <2> QED
    BY <2>1, <2>2
<1> QED
  BY <1>3, <1>4 DEF RemoveAt, a, b

\* An id of the store is at one place.
LEMMA AtId ==
    ASSUME NEW s, NEW id \in Ids(s)
    PROVE  At(s, id) \in DOMAIN s.items /\ s.items[At(s, id)].id = id
BY DEF Ids, At

\* The store's fields, spelled out.
LEMMA SoundDomain ==
    ASSUME NEW s, Sound(s)
    PROVE  /\ Len(s.items) \in Nat
           /\ DOMAIN s.items = 1..Len(s.items)
           /\ \A k \in DOMAIN s.items : s.items[k] \in Todo
           /\ s.nextId \in Nat \ {0}
BY LenProperties, ElementOfSeq DEF Sound, StoreType

\* Of two rows of a sound store with one id there is only one.
LEMMA IdOnce ==
    ASSUME NEW s, Sound(s), NEW k \in DOMAIN s.items, NEW l \in DOMAIN s.items,
           s.items[k].id = s.items[l].id
    PROVE  k = l
<1>1. k \in Nat /\ l \in Nat /\ s.items[k].id \in Nat /\ s.items[l].id \in Nat
  BY SoundDomain DEF Todo
<1>2. ~(k < l) /\ ~(l < k)
  BY <1>1 DEF Sound
<1> QED
  BY <1>1, <1>2

\* An operation on the other fields leaves the todos alone.
LEMMA OthersOnly ==
    ASSUME NEW s, NEW t, Sound(s), t \in StoreType,
           t.items = s.items, t.nextId = s.nextId
    PROVE  Sound(t) /\ Keeps(s, t)
<1>1. s.nextId \in Nat
  BY SoundDomain
<1> QED
  BY <1>1 DEF Sound, Keeps

\* bump_revision
LEMMA BumpOK ==
    ASSUME NEW s \in StoreType
    PROVE  /\ Bump(s) \in StoreType
           /\ Bump(s).items = s.items /\ Bump(s).nextId = s.nextId
           /\ Bump(s).rev = s.rev + 1 /\ s.rev \in Nat
BY DEF Bump, StoreType

\* An operation on the other fields that bumps the revision
LEMMA BumpedOthers ==
    ASSUME NEW s, Sound(s), NEW u \in StoreType,
           u.items = s.items, u.nextId = s.nextId, u.rev = s.rev
    PROVE  Sound(Bump(u)) /\ Keeps(s, Bump(u)) /\ Counted(s, Bump(u))
<1>1. /\ Bump(u) \in StoreType
      /\ Bump(u).items = s.items /\ Bump(u).nextId = s.nextId
      /\ Bump(u).rev = s.rev + 1 /\ s.rev \in Nat
  BY BumpOK
<1> QED
  BY <1>1, OthersOnly DEF Counted

\* One lemma per method of the store: it keeps the store sound, ids keep what they
\* mean, and the revision grows with the tree shown (but for InvokeNavGo).
LEMMA GoSound ==
    ASSUME NEW s, Sound(s), NEW page \in Page
    PROVE  Sound(Go(s, page)) /\ Keeps(s, Go(s, page)) /\ Counted(s, Go(s, page))
<1>1. PICK u : u = [s EXCEPT !.page = page]
  OBVIOUS
<1>2. u \in StoreType /\ u.items = s.items /\ u.nextId = s.nextId /\ u.rev = s.rev
  BY <1>1 DEF Sound, StoreType
<1> QED
  BY <1>1, <1>2, BumpedOthers DEF Go

\* The delete confirmation setting.
LEMMA ToggleConfirmDeleteSound ==
    ASSUME NEW s, Sound(s)
    PROVE  /\ Sound(ToggleConfirmDelete(s)) /\ Keeps(s, ToggleConfirmDelete(s))
           /\ Counted(s, ToggleConfirmDelete(s))
<1>1. PICK u : u = [s EXCEPT !.confirmDelete = ~@]
  OBVIOUS
<1>2. u \in StoreType /\ u.items = s.items /\ u.nextId = s.nextId /\ u.rev = s.rev
  BY <1>1 DEF Sound, StoreType
<1> QED
  BY <1>1, <1>2, BumpedOthers DEF ToggleConfirmDelete

\* The sidebar.
LEMMA ToggleSidebarSound ==
    ASSUME NEW s, Sound(s)
    PROVE  /\ Sound(ToggleSidebar(s)) /\ Keeps(s, ToggleSidebar(s))
           /\ Counted(s, ToggleSidebar(s))
<1>1. PICK u : u = [s EXCEPT !.sidebarOpen = ~@]
  OBVIOUS
<1>2. u \in StoreType /\ u.items = s.items /\ u.nextId = s.nextId /\ u.rev = s.rev
  BY <1>1 DEF Sound, StoreType
<1> QED
  BY <1>1, <1>2, BumpedOthers DEF ToggleSidebar

\* set_value on the input.
LEMMA SetDraftSound ==
    ASSUME NEW s, Sound(s), NEW text \in Text
    PROVE  Sound(SetDraft(s, text)) /\ Keeps(s, SetDraft(s, text)) /\ Counted(s, SetDraft(s, text))
<1>1. PICK u : u = [s EXCEPT !.draft = text]
  OBVIOUS
<1>2. u \in StoreType /\ u.items = s.items /\ u.nextId = s.nextId /\ u.rev = s.rev
  BY <1>1 DEF Sound, StoreType
<1> QED
  BY <1>1, <1>2, BumpedOthers DEF SetDraft

\* The new todo is the last, and its id is the one not given yet.
LEMMA AddSound ==
    ASSUME NEW s, Sound(s), NEW title \in Text
    PROVE  Sound(Add(s, title)) /\ Keeps(s, Add(s, title)) /\ Counted(s, Add(s, title))
<1>1. CASE Trimmed[title] = Empty
  <2>1. s.nextId \in Nat /\ s.rev \in Nat
    BY SoundDomain DEF Sound, StoreType
  <2> QED
    BY <1>1, <2>1 DEF Add, Keeps, Counted
<1>2. CASE Trimmed[title] # Empty
  <2> DEFINE new == [id |-> s.nextId, title |-> Trimmed[title], done |-> FALSE]
             t == Add(s, title)
  <2>1. new \in Todo
    BY <1>2, StoreAssumption, SoundDomain DEF Todo
  <2>2. s.items \in Seq(Todo) /\ s.nextId \in Nat \ {0} /\ s.rev \in Nat
    BY DEF Sound, StoreType
  <2>3. /\ Append(s.items, new) \in Seq(Todo)
        /\ DOMAIN Append(s.items, new) = 1..(Len(s.items) + 1)
        /\ \A k \in 1..Len(s.items) : Append(s.items, new)[k] = s.items[k]
        /\ Append(s.items, new)[Len(s.items) + 1] = new
    BY <2>1, <2>2, AppendProperties, LenProperties
  <2>4. /\ t \in StoreType /\ t.items = Append(s.items, new) /\ t.nextId = s.nextId + 1
        /\ t.rev = s.rev + 1 /\ s.rev \in Nat
    <3>1. PICK u : u = [s EXCEPT !.items = Append(s.items, new)]
      OBVIOUS
    <3>2. /\ u \in StoreType /\ u.items = Append(s.items, new)
          /\ u.nextId = s.nextId /\ u.rev = s.rev
      BY <2>3, <3>1 DEF Sound, StoreType
    <3>3. PICK v : v = [u EXCEPT !.nextId = s.nextId + 1]
      OBVIOUS
    <3>4. /\ v \in StoreType /\ v.items = Append(s.items, new)
          /\ v.nextId = s.nextId + 1 /\ v.rev = s.rev
      BY <2>2, <3>2, <3>3 DEF StoreType
    <3>5. PICK w : w = [v EXCEPT !.draft = Empty]
      OBVIOUS
    <3>6. /\ w \in StoreType /\ w.items = Append(s.items, new)
          /\ w.nextId = s.nextId + 1 /\ w.rev = s.rev
      BY <3>4, <3>5, StoreAssumption DEF StoreType
    <3>7. t = Bump(w)
      BY <1>2, <3>1, <3>2, <3>3, <3>5, Zenon DEF Add
    <3> QED
      BY <3>6, <3>7, BumpOK
  <2> HIDE DEF t
  <2>5. /\ Len(s.items) \in Nat /\ s.nextId \in Nat
        /\ DOMAIN s.items = 1..Len(s.items)
        /\ \A k \in 1..Len(s.items) : s.items[k].id \in Nat
        /\ \A k \in 1..Len(s.items) : s.items[k].id < s.nextId
        /\ \A k, l \in 1..Len(s.items) : k < l => s.items[k].id < s.items[l].id
    BY SoundDomain DEF Sound, Todo
  <2>6. \A k \in 1..(Len(s.items) + 1) : t.items[k].id < t.nextId
    BY <2>3, <2>4, <2>5
  <2>7. \A k, l \in 1..(Len(s.items) + 1) : k < l => t.items[k].id < t.items[l].id
    BY <2>3, <2>4, <2>5
  <2>8. Keeps(s, t)
    <3> SUFFICES ASSUME NEW k \in 1..(Len(s.items) + 1), t.items[k].id < s.nextId
                 PROVE  \E j \in DOMAIN s.items : /\ s.items[j].id = t.items[k].id
                                                  /\ s.items[j].title = t.items[k].title
      BY <2>3, <2>4, <2>5 DEF Keeps
    <3>1. k \in 1..Len(s.items)
      BY <2>3, <2>4, <2>5
    <3> QED
      BY <2>3, <2>4, <2>5, <3>1
  <2>9. Sound(t)
    BY <2>3, <2>4, <2>6, <2>7 DEF Sound
  <2> QED
    BY <2>4, <2>8, <2>9 DEF Counted, t
<1> QED
  BY <1>1, <1>2

\* A todo that is toggled keeps its id and title.
LEMMA ToggleSound ==
    ASSUME NEW s, Sound(s), NEW id
    PROVE  Sound(Toggle(s, id)) /\ Keeps(s, Toggle(s, id)) /\ Counted(s, Toggle(s, id))
<1>0. s.nextId \in Nat /\ s.rev \in Nat
  BY SoundDomain DEF Sound, StoreType
<1>1. CASE id \notin Ids(s)
  BY <1>0, <1>1 DEF Toggle, Keeps, Counted
<1>2. CASE id \in Ids(s)
  <2> DEFINE t == Toggle(s, id)
  <2>0. PICK i \in DOMAIN s.items : i = At(s, id)
    BY <1>2, AtId
  <2>1. PICK row : row = [s.items[i] EXCEPT !.done = ~@]
    OBVIOUS
  <2>2. row \in Todo /\ row.id = s.items[i].id /\ row.title = s.items[i].title
    BY <2>1, SoundDomain DEF Todo
  <2>3. PICK its : its = [s.items EXCEPT ![i] = row]
    OBVIOUS
  <2>4. /\ its \in Seq(Todo) /\ DOMAIN its = DOMAIN s.items
        /\ \A k \in DOMAIN s.items : its[k].id = s.items[k].id /\ its[k].title = s.items[k].title
    <3>1. s.items \in Seq(Todo) /\ i \in 1..Len(s.items)
      BY SoundDomain DEF Sound, StoreType
    <3>2. its \in Seq(Todo)
      BY <2>2, <2>3, <3>1, ExceptSeq
    <3> QED
      BY <2>2, <2>3, <3>2
  <2>5. /\ t \in StoreType /\ t.items = its /\ t.nextId = s.nextId /\ t.rev = s.rev + 1
    <3>1. PICK u : u = [s EXCEPT !.items = its]
      OBVIOUS
    <3>2. t = Bump(u)
      BY <1>2, <2>0, <2>1, <2>3, <3>1, Zenon DEF Toggle
    <3>3. u \in StoreType /\ u.items = its /\ u.nextId = s.nextId /\ u.rev = s.rev
      BY <3>1, <2>4 DEF Sound, StoreType
    <3> QED
      BY <3>2, <3>3, BumpOK
  <2> HIDE DEF t
  <2>6. Sound(t)
    BY <2>4, <2>5 DEF Sound
  <2>7. Keeps(s, t)
    BY <1>0, <2>4, <2>5 DEF Keeps
  <2> QED
    BY <1>0, <2>5, <2>6, <2>7 DEF Counted, t
<1> QED
  BY <1>1, <1>2

\* The other todos stay in order; the deleted one's id is not given again.
LEMMA DeleteSound ==
    ASSUME NEW s, Sound(s), NEW id
    PROVE  Sound(Delete(s, id)) /\ Keeps(s, Delete(s, id)) /\ Counted(s, Delete(s, id))
<1>0. s.nextId \in Nat /\ s.rev \in Nat
  BY SoundDomain DEF Sound, StoreType
<1>1. CASE id \notin Ids(s)
  BY <1>0, <1>1 DEF Delete, Keeps, Counted
<1>2. CASE id \in Ids(s)
  <2> DEFINE t == Delete(s, id)
  <2>1. PICK i \in DOMAIN s.items : i = At(s, id)
    BY <1>2, AtId
  <2>2. PICK its : its = RemoveAt(s.items, i)
    OBVIOUS
  <2>3. PICK n \in Nat : n = Len(s.items)
    BY SoundDomain
  <2>4. /\ its \in Seq(Todo) /\ DOMAIN its = 1..(n - 1)
        /\ \A k \in 1..(n - 1) : its[k] = s.items[IF k < i THEN k ELSE k + 1]
    <3>1. s.items \in Seq(Todo) /\ i \in 1..Len(s.items)
      BY SoundDomain DEF Sound, StoreType
    <3>2. /\ its \in Seq(Todo) /\ Len(its) = n - 1
          /\ \A k \in 1..(n - 1) : its[k] = s.items[IF k < i THEN k ELSE k + 1]
      BY <2>2, <2>3, <3>1, RemoveAtOK
    <3> QED
      BY <3>2, LenProperties
  <2>5. /\ t \in StoreType /\ t.items = its /\ t.nextId = s.nextId /\ t.rev = s.rev + 1
    <3>1. PICK u : u = [s EXCEPT !.items = its]
      OBVIOUS
    <3>2. t = Bump(u)
      BY <1>2, <2>1, <2>2, <3>1, Zenon DEF Delete
    <3>3. u \in StoreType /\ u.items = its /\ u.nextId = s.nextId /\ u.rev = s.rev
      BY <3>1, <2>4 DEF Sound, StoreType
    <3> QED
      BY <3>2, <3>3, BumpOK
  <2> HIDE DEF t
  <2>6. /\ DOMAIN s.items = 1..n /\ i \in 1..n
        /\ \A k \in 1..n : s.items[k].id < s.nextId
        /\ \A k, l \in 1..n : k < l => s.items[k].id < s.items[l].id
    BY <2>1, <2>3, SoundDomain DEF Sound
  <2>7. PICK m : m = [k \in 1..(n - 1) |-> IF k < i THEN k ELSE k + 1]
    OBVIOUS
  <2>8. /\ \A k \in 1..(n - 1) : m[k] \in 1..n /\ its[k] = s.items[m[k]]
        /\ \A k, l \in 1..(n - 1) : k < l => m[k] < m[l]
    <3>1. \A k \in 1..(n - 1) : m[k] \in 1..n
      BY <2>7, <2>6
    <3>2. \A k \in 1..(n - 1) : its[k] = s.items[m[k]]
      BY <2>7, <2>4
    <3>3. \A k, l \in 1..(n - 1) : k < l => m[k] < m[l]
      BY <2>7, <2>6
    <3> QED
      BY <3>1, <3>2, <3>3
  <2>9. \A k \in 1..(n - 1) : its[k].id < s.nextId
    BY <2>8, <2>6
  <2>10. \A k, l \in 1..(n - 1) : k < l => its[k].id < its[l].id
    BY <2>8, <2>6
  <2>11. Sound(t)
    BY <2>4, <2>5, <2>9, <2>10 DEF Sound
  <2>12. Keeps(s, t)
    <3>1. s.nextId <= t.nextId
      BY <1>0, <2>5
    <3>2. \A k \in DOMAIN t.items :
             \E j \in DOMAIN s.items : /\ s.items[j].id = t.items[k].id
                                       /\ s.items[j].title = t.items[k].title
      BY <2>4, <2>5, <2>6, <2>8
    <3> QED
      BY <3>1, <3>2 DEF Keeps
  <2> QED
    BY <1>0, <2>5, <2>11, <2>12 DEF Counted, t
<1> QED
  BY <1>1, <1>2

\* nav.go is the operation that counts nothing.
LEMMA InvokeNavGoSound ==
    ASSUME NEW s, Sound(s), NEW page \in Page
    PROVE  Sound(InvokeNavGo(s, page)) /\ Keeps(s, InvokeNavGo(s, page))
<1>1. /\ InvokeNavGo(s, page) \in StoreType
      /\ InvokeNavGo(s, page).items = s.items /\ InvokeNavGo(s, page).nextId = s.nextId
  BY DEF InvokeNavGo, Sound, StoreType
<1> QED
  BY <1>1, OthersOnly

\* A click on the input.
LEMMA FocusInputSound ==
    ASSUME NEW s, Sound(s), NEW activate \in BOOLEAN
    PROVE  /\ Sound(FocusInput(s, activate)) /\ Keeps(s, FocusInput(s, activate))
           /\ Counted(s, FocusInput(s, activate))
<1> DEFINE t == FocusInput(s, activate)
<1>1. CASE t = s
  <2>1. s.nextId \in Nat /\ s.rev \in Nat
    BY SoundDomain DEF Sound, StoreType
  <2> QED
    BY <1>1, <2>1 DEF Keeps, Counted
<1>2. CASE t = Bump([s EXCEPT !.page = "todos", !.focused = @ \/ activate])
  <2>1. PICK u : u = [s EXCEPT !.page = "todos"]
    OBVIOUS
  <2>2. u \in StoreType /\ u.items = s.items /\ u.nextId = s.nextId /\ u.rev = s.rev
        /\ u.focused = s.focused
    BY <2>1 DEF Sound, StoreType, Page
  <2>3. PICK v : v = [u EXCEPT !.focused = @ \/ activate]
    OBVIOUS
  <2>4. v \in StoreType /\ v.items = s.items /\ v.nextId = s.nextId /\ v.rev = s.rev
    BY <2>2, <2>3 DEF StoreType
  <2>5. t = Bump(v)
    BY <1>2, <2>1, <2>2, <2>3, Zenon
  <2> QED
    BY <2>4, <2>5, BumpedOthers
<1> QED
  BY <1>1, <1>2 DEF FocusInput

\* The request to shut down.
LEMMA QuitSound ==
    ASSUME NEW s, Sound(s), NEW confirm \in BOOLEAN
    PROVE  Sound(Quit(s, confirm)) /\ Keeps(s, Quit(s, confirm)) /\ Counted(s, Quit(s, confirm))
<1> DEFINE t == Quit(s, confirm)
<1>1. CASE ~confirm
  <2>1. s.nextId \in Nat /\ s.rev \in Nat
    BY SoundDomain DEF Sound, StoreType
  <2> QED
    BY <1>1, <2>1 DEF Quit, Keeps, Counted
<1>2. CASE confirm
  <2>1. PICK u : u = [s EXCEPT !.shutdown = TRUE]
    OBVIOUS
  <2>2. u \in StoreType /\ u.items = s.items /\ u.nextId = s.nextId /\ u.rev = s.rev
    BY <2>1 DEF Sound, StoreType
  <2> QED
    BY <1>2, <2>1, <2>2, BumpedOthers DEF Quit
<1> QED
  BY <1>1, <1>2

\* Shutdown and the focus are no part of the tree.
LEMMA FlagSound ==
    ASSUME NEW s, Sound(s), NEW t,
           t = Shutdown(s) \/ \E focused \in BOOLEAN : t = SetFocused(s, focused)
    PROVE  Sound(t) /\ Keeps(s, t) /\ Counted(s, t)
<1>1. /\ t \in StoreType /\ t.items = s.items /\ t.nextId = s.nextId
      /\ t.rev = s.rev /\ s.rev \in Nat
  BY DEF Shutdown, SetFocused, Sound, StoreType
<1>2. TreeOf(t) = TreeOf(s)
  BY DEF Shutdown, SetFocused, Sound, StoreType, TreeOf
<1> QED
  BY <1>1, <1>2, OthersOnly DEF Counted

\* An operation served by the store
StoreAction ==
    \/ Adding \/ AddingDraft \/ Drafting \/ Toggling \/ Deleting
    \/ Navigating \/ Invoking \/ Configuring \/ Firing \/ Focusing \/ ShuttingDown

\* What a keybinding's Action runs, and with it any operation.
LEMMA ActionSound ==
    ASSUME Sound(store), StoreAction
    PROVE  /\ Sound(store') /\ Keeps(store, store')
           /\ ~NavGo => Counted(store, store')
<1>0. store.draft \in Text
  BY DEF Sound, StoreType
<1>1. CASE Adding
  BY <1>1, AddSound DEF Adding, Apply
<1>2. CASE AddingDraft
  BY <1>0, <1>2, AddSound DEF AddingDraft, Apply
<1>3. CASE Drafting
  BY <1>3, SetDraftSound DEF Drafting, Apply
<1>4. CASE Toggling
  BY <1>4, ToggleSound DEF Toggling, Apply
<1>5. CASE Deleting
  BY <1>5, DeleteSound DEF Deleting, Apply
<1>6. CASE Navigating
  BY <1>6, GoSound DEF Navigating, Apply
<1>7. CASE Invoking
  BY <1>7, InvokeNavGoSound DEF Invoking, Apply
<1>8. CASE Configuring
  BY <1>8, ToggleConfirmDeleteSound, ToggleSidebarSound DEF Configuring, Apply
<1>9. CASE Firing
  <2>1. CASE Apply(GoSettings(store))
    <3>1. GoSettings(store) = Go(store, "settings")
      BY DEF GoSettings, Go
    <3> QED
      BY <2>1, <3>1, GoSound DEF Apply, Page
  <2>2. CASE \E activate \in BOOLEAN : Apply(FocusInput(store, activate))
    BY <2>2, FocusInputSound DEF Apply
  <2>3. CASE \E confirm \in BOOLEAN : Apply(Quit(store, confirm))
    BY <2>3, QuitSound DEF Apply
  <2> QED
    BY <1>9, <2>1, <2>2, <2>3 DEF Firing
<1>10. CASE Focusing
  BY <1>10, FlagSound DEF Focusing, Apply
<1>11. CASE ShuttingDown
  BY <1>11, FlagSound DEF ShuttingDown, Apply
<1> QED
  BY <1>1, <1>2, <1>3, <1>4, <1>5, <1>6, <1>7, <1>8, <1>9, <1>10, <1>11 DEF StoreAction

\* Any step of the store.
LEMMA StoreStep ==
    ASSUME Sound(store), [StoreNext]_store
    PROVE  /\ Sound(store') /\ Keeps(store, store')
           /\ ~NavGo => Counted(store, store')
<1>1. CASE StoreNext
  BY <1>1, ActionSound DEF StoreNext, StoreAction
<1>2. CASE UNCHANGED store
  <2>1. store.nextId \in Nat /\ store.rev \in Nat
    BY SoundDomain DEF Sound, StoreType
  <2> QED
    BY <1>2, <2>1 DEF Keeps, Counted
<1> QED
  BY <1>1, <1>2

\* TodoStore::new.
LEMMA NewStoreSound == Sound(NewStore)
<1>1. <<>> \in Seq(Todo) /\ Len(<<>>) = 0
  BY EmptySeq
<1>2. NewStore \in StoreType /\ NewStore.items = <<>>
  BY <1>1, StoreAssumption DEF NewStore, StoreType, Page
<1> QED
  BY <1>1, <1>2 DEF Sound

-----------------------------------------------------------------------------
(* The store's promises                                                    *)

\* Whatever operations are served in whatever order, the store holds todos with
\* titles, in the order of their ids, all ids below next_id (TodoStore).
THEOREM StoreTypeCorrect == StoreSpec => []StoreTypeOK
<1>1. StoreInit => Sound(store)
  BY NewStoreSound DEF StoreInit
<1>2. Sound(store) /\ [StoreNext]_store => Sound(store)'
  BY StoreStep
<1>3. Sound(store) => StoreTypeOK
  BY DEF Sound, StoreType, StoreTypeOK
<1> QED
  BY <1>1, <1>2, <1>3, PTL DEF StoreSpec

\* What Keeps says of the ids of two sound stores
LEMMA KeptIds ==
    ASSUME NEW s, NEW t, Sound(s), Sound(t), Keeps(s, t),
           NEW id \in 1..(s.nextId - 1), id \in Ids(t)
    PROVE  id \in Ids(s) /\ s.items[At(s, id)].title = t.items[At(t, id)].title
<1>1. At(t, id) \in DOMAIN t.items /\ t.items[At(t, id)].id = id
  BY AtId
<1>2. id < s.nextId
  BY SoundDomain
<1>3. PICK j \in DOMAIN s.items : /\ s.items[j].id = id
                                  /\ s.items[j].title = t.items[At(t, id)].title
  BY <1>1, <1>2 DEF Keeps
<1>4. id \in Ids(s)
  BY <1>3 DEF Ids
<1>5. At(s, id) = j
  BY <1>3, <1>4, AtId, IdOnce
<1> QED
  BY <1>3, <1>4, <1>5

\* A deleted todo's id never comes back and no id changes its title, whatever clicks,
\* invocations and chords are served (next_id only grows; add_todo, delete_todo).
THEOREM StoreIdsAreForGood == StoreSpec => IdsAreForGood
<1>1. StoreInit => Sound(store)
  BY NewStoreSound DEF StoreInit
<1>2. Sound(store) /\ [StoreNext]_store => Sound(store)'
  BY StoreStep
<1>3. Sound(store) /\ [StoreNext]_store
        => [\A id \in 1..(store.nextId - 1) :
              /\ id \notin Ids(store) => id \notin Ids(store')
              /\ id \in Ids(store) /\ id \in Ids(store') =>
                   store.items[At(store, id)].title
                     = store'.items[At(store', id)].title]_store
  BY StoreStep, KeptIds
<1> QED
  BY <1>1, <1>2, <1>3, PTL DEF StoreSpec, IdsAreForGood

\* The store is a host whose revision can be trusted (HostSession): every operation
\* that changes the tree counts it.  Invoking nav.go is the one that does not.
THEOREM StoreKeepsContract == ~NavGo => (StoreSpec => HostContract)
<1> SUFFICES ASSUME ~NavGo PROVE StoreSpec => HostContract
  OBVIOUS
<1>1. StoreInit => Sound(store)
  BY NewStoreSound DEF StoreInit
<1>2. Sound(store) /\ [StoreNext]_store => Sound(store)'
  BY StoreStep
<1>3. Sound(store) => store.rev \in Nat
  BY DEF Sound, StoreType
<1>4. Sound(store) /\ [StoreNext]_store => [Contract!HostStep]_<<TreeOf(store), store.rev>>
  BY StoreStep DEF Counted, Contract!HostStep
<1> QED
  BY <1>1, <1>2, <1>3, <1>4, PTL DEF StoreSpec, HostContract, Contract!HostSpec

-----------------------------------------------------------------------------
(* The window and the daemon                                               *)

\* An element of a sequence over S is in S.
LEMMA Element == ASSUME NEW S, NEW s \in Seq(S), NEW k \in DOMAIN s PROVE s[k] \in S
BY LenProperties, ElementOfSeq

\* A row known before a step of the store is known after it.
LEMMA KnownKept ==
    ASSUME NEW s, NEW t, Sound(s), Sound(t), Keeps(s, t), NEW id \in Nat, NEW title,
           Known(s, id, title)
    PROVE  Known(t, id, title)
<1>1. s.nextId \in Nat /\ t.nextId \in Nat /\ t.nextId >= s.nextId /\ id < s.nextId
  BY SoundDomain DEF Keeps, Known
<1>2. \A k \in DOMAIN t.items : t.items[k].id = id => t.items[k].title = title
  BY <1>1 DEF Keeps, Known
<1> QED
  BY <1>1, <1>2 DEF Known

\* So are all rows of a view.
LEMMA RowsKept ==
    ASSUME NEW s, NEW t, Sound(s), Sound(t), Keeps(s, t), NEW v \in ViewType,
           RowsKnown(s, v)
    PROVE  RowsKnown(t, v)
<1>1. v.items \in Seq(Todo)
  BY DEF ViewType
<1>2. \A k \in DOMAIN v.items : v.items[k].id \in Nat
  <2>1. \A k \in DOMAIN v.items : v.items[k] \in Todo
    BY <1>1, Element
  <2> QED
    BY <2>1 DEF Todo
<1> QED
  BY <1>2, KnownKept DEF RowsKnown

\* And the row a command is meant for.
LEMMA CmdKept ==
    ASSUME NEW s, NEW t, Sound(s), Sound(t), Keeps(s, t), NEW cmd \in Cmd, CmdKnown(s, cmd)
    PROVE  CmdKnown(t, cmd)
BY KnownKept DEF CmdKnown, Cmd

\* What a snapshot shows now
LEMMA ViewKnown ==
    ASSUME NEW s, Sound(s)
    PROVE  View(s) \in ViewType /\ RowsKnown(s, View(s))
<1>1. <<>> \in Seq(Todo) /\ DOMAIN <<>> = {}
  BY EmptySeq, LenProperties
<1>2. View(s) \in ViewType
  BY <1>1, StoreAssumption DEF View, ViewType, Sound, StoreType
<1>3. View(s).items = s.items \/ DOMAIN View(s).items = {}
  BY <1>1 DEF View
<1>4. \A k \in DOMAIN s.items : Known(s, s.items[k].id, s.items[k].title)
  BY IdOnce DEF Known, Sound
<1> QED
  BY <1>2, <1>3, <1>4 DEF RowsKnown

\* What waits elsewhere keeps its meaning while the daemon's store moves on.
LEMMA WaitingKept ==
    ASSUME GuiInv, NEW s, Sound(s), Keeps(store, s)
    PROVE  /\ RowsKnown(s, view)
           /\ \A k \in DOMAIN views : RowsKnown(s, views[k].view)
           /\ \A k \in DOMAIN cmds : CmdKnown(s, cmds[k])
           /\ CmdKnown(s, call)
           /\ \A k \in DOMAIN late : CmdKnown(s, late[k])
<1>1. RowsKnown(s, view) /\ CmdKnown(s, call)
  BY RowsKept, CmdKept DEF GuiInv, GuiShape
<1>2. ASSUME NEW k \in DOMAIN views PROVE RowsKnown(s, views[k].view)
  <2>1. views \in Seq(Received)
    BY DEF GuiInv, GuiShape
  <2>2. views[k].view \in ViewType
    <3>1. views[k] \in Received
      BY <2>1, Element
    <3> QED
      BY <3>1 DEF Received
  <2> QED
    BY <2>2, RowsKept DEF GuiInv
<1>3. ASSUME NEW k \in DOMAIN cmds PROVE CmdKnown(s, cmds[k])
  BY Element, CmdKept DEF GuiInv, GuiShape
<1>4. ASSUME NEW k \in DOMAIN late PROVE CmdKnown(s, late[k])
  BY Element, CmdKept DEF GuiInv, GuiShape
<1> QED
  BY <1>1, <1>2, <1>3, <1>4

\* A step of the daemon alone
LEMMA StoreMoves ==
    ASSUME GuiInv, Sound(store'), Keeps(store, store'),
           UNCHANGED <<input, view, cmds, views, call, late>>
    PROVE  GuiInv'
<1>1. GuiShape'
  BY DEF GuiInv, GuiShape
<1> QED
  BY <1>1, WaitingKept DEF GuiInv

\* A command carried out by the daemon is a step of the store.
LEMMA ServedSound ==
    ASSUME NEW s, Sound(s), NEW cmd \in Cmd
    PROVE  Sound(Served(s, cmd)) /\ Keeps(s, Served(s, cmd))
<1>1. s.draft \in Text /\ cmd.kind \in Kinds /\ cmd.text \in Text
  BY DEF Sound, StoreType, Cmd
<1>2. CASE cmd.kind = "set_value"
  BY <1>1, <1>2, SetDraftSound DEF Served
<1>3. CASE cmd.kind = "add"
  BY <1>1, <1>3, AddSound DEF Served
<1>4. CASE cmd.kind = "toggle"
  BY <1>4, ToggleSound DEF Served
<1>5. CASE cmd.kind = "delete"
  BY <1>5, DeleteSound DEF Served
<1>6. CASE cmd.kind = "go_todos"
  BY <1>6, GoSound DEF Served, Page
<1>7. CASE cmd.kind = "go_settings"
  BY <1>7, GoSound DEF Served, Page
<1>8. CASE cmd.kind = "toggle_sidebar"
  BY <1>8, ToggleSidebarSound DEF Served
<1>9. CASE cmd.kind = "toggle_confirm"
  BY <1>9, ToggleConfirmDeleteSound DEF Served
<1> QED
  BY <1>1, <1>2, <1>3, <1>4, <1>5, <1>6, <1>7, <1>8, <1>9 DEF Kinds

\* What is posted without a row is about no todo.
LEMMA PostKnown ==
    ASSUME NEW s, NEW kind \in Kinds \ {"toggle", "delete"}, NEW text \in Text
    PROVE  /\ Post(kind) \in Cmd /\ CmdKnown(s, Post(kind))
           /\ [Post(kind) EXCEPT !.text = text] \in Cmd
           /\ CmdKnown(s, [Post(kind) EXCEPT !.text = text])
BY StoreAssumption DEF Post, Cmd, CmdKnown

\* A channel that grows, or loses what is taken, still holds commands of known rows.
LEMMA KnownConcat ==
    ASSUME NEW s, NEW cs \in Seq(Cmd), NEW ds \in Seq(Cmd),
           \A k \in DOMAIN cs : CmdKnown(s, cs[k]),
           \A k \in DOMAIN ds : CmdKnown(s, ds[k])
    PROVE  cs \o ds \in Seq(Cmd) /\ \A k \in DOMAIN (cs \o ds) : CmdKnown(s, (cs \o ds)[k])
<1>1. PICK n \in Nat, m \in Nat : n = Len(cs) /\ m = Len(ds)
  BY LenProperties
<1>2. /\ cs \o ds \in Seq(Cmd)
      /\ Len(cs \o ds) = n + m
      /\ \A k \in 1..(n + m) : (cs \o ds)[k] = IF k <= n THEN cs[k] ELSE ds[k - n]
  BY <1>1, ConcatProperties, Zenon
<1>3. DOMAIN (cs \o ds) = 1..(n + m) /\ DOMAIN cs = 1..n /\ DOMAIN ds = 1..m
  BY <1>1, <1>2, LenProperties
<1>4. ASSUME NEW k \in 1..(n + m) PROVE CmdKnown(s, (cs \o ds)[k])
  <2>1. CASE k <= n
    <3>1. k \in 1..n /\ (cs \o ds)[k] = cs[k]
      BY <1>2, <2>1
    <3> QED
      BY <1>3, <3>1
  <2>2. CASE ~(k <= n)
    <3>1. k - n \in 1..m /\ (cs \o ds)[k] = ds[k - n]
      BY <1>2, <2>2
    <3> QED
      BY <1>3, <3>1
  <2> QED
    BY <2>1, <2>2
<1> QED
  BY <1>2, <1>3, <1>4

\* A command posted behind the others.
LEMMA KnownAppend ==
    ASSUME NEW s, NEW cs \in Seq(Cmd), NEW cmd \in Cmd,
           \A k \in DOMAIN cs : CmdKnown(s, cs[k]), CmdKnown(s, cmd)
    PROVE  /\ Append(cs, cmd) \in Seq(Cmd)
           /\ \A k \in DOMAIN Append(cs, cmd) : CmdKnown(s, Append(cs, cmd)[k])
<1>1. /\ Append(cs, cmd) \in Seq(Cmd) /\ Len(Append(cs, cmd)) = Len(cs) + 1
      /\ \A k \in 1..Len(cs) : Append(cs, cmd)[k] = cs[k]
      /\ Append(cs, cmd)[Len(cs) + 1] = cmd
  BY AppendProperties
<1>2. Len(cs) \in Nat /\ DOMAIN cs = 1..Len(cs)
      /\ DOMAIN Append(cs, cmd) = 1..(Len(cs) + 1)
  BY <1>1, LenProperties
<1> QED
  BY <1>1, <1>2

\* A view is received; only an error carries none of the store.
LEMMA ViewReceived ==
    ASSUME GuiInv, NEW v \in Received, RowsKnown(store, v.view)
    PROVE  /\ Append(views, v) \in Seq(Received)
           /\ \A k \in DOMAIN Append(views, v) : RowsKnown(store, Append(views, v)[k].view)
<1>0. views \in Seq(Received) /\ \A k \in DOMAIN views : RowsKnown(store, views[k].view)
  BY DEF GuiInv, GuiShape
<1>1. /\ Append(views, v) \in Seq(Received) /\ Len(Append(views, v)) = Len(views) + 1
      /\ \A k \in 1..Len(views) : Append(views, v)[k] = views[k]
      /\ Append(views, v)[Len(views) + 1] = v
  BY <1>0, AppendProperties
<1>2. Len(views) \in Nat /\ DOMAIN views = 1..Len(views)
      /\ DOMAIN Append(views, v) = 1..(Len(views) + 1)
  BY <1>0, <1>1, LenProperties
<1> QED
  BY <1>0, <1>1, <1>2

\* A failed snapshot shows no row.
LEMMA ErrReceived == Err \in Received /\ \A s : RowsKnown(s, Err.view)
<1>1. NewStore.items = <<>> /\ DOMAIN <<>> = {}
  BY EmptySeq, LenProperties DEF NewStore
<1>2. DefaultView \in ViewType /\ DefaultView.items = <<>>
  BY <1>1, NewStoreSound, ViewKnown DEF DefaultView, View
<1> QED
  BY <1>1, <1>2 DEF Err, Received, RowsKnown

-----------------------------------------------------------------------------
(* One lemma for each step of the window, the worker and the daemon        *)

\* One lemma per action: what is shown and what is meant stay known.
LEMMA TypesKept == ASSUME GuiInv, HumanTypes PROVE GuiInv'
BY DEF HumanTypes, GuiInv, GuiShape, worker

\* Enter posts two commands that name no row.
LEMMA EntersKept == ASSUME GuiInv, HumanEnters PROVE GuiInv'
<1>1. PICK new : /\ new = <<[Post("set_value") EXCEPT !.text = input], Post("add")>>
                 /\ cmds' = cmds \o new
  BY DEF HumanEnters, Posted
<1>2. new \in Seq(Cmd) /\ \A k \in DOMAIN new : CmdKnown(store, new[k])
  <2>1. PICK c \in Cmd, d \in Cmd :
          new = <<c, d>> /\ CmdKnown(store, c) /\ CmdKnown(store, d)
    BY <1>1, PostKnown DEF GuiInv, GuiShape, Kinds
  <2> QED
    BY <2>1
<1>3. cmds' \in Seq(Cmd) /\ \A k \in DOMAIN cmds' : CmdKnown(store, cmds'[k])
  BY <1>1, <1>2, KnownConcat DEF GuiInv, GuiShape
<1> QED
  BY <1>3, StoreAssumption DEF HumanEnters, GuiInv, GuiShape

\* A click names a row of the view shown.
LEMMA ClicksKept == ASSUME GuiInv, HumanClicks PROVE GuiInv'
<1>1. PICK cmd \in Clickable : cmds' = cmds \o <<cmd>>
  BY DEF HumanClicks, Posted
<1>2. cmd \in Cmd /\ CmdKnown(store, cmd)
  <2>1. CASE \E kind \in {"toggle", "delete"}, k \in DOMAIN view.items :
                cmd = [kind |-> kind, id |-> view.items[k].id, text |-> view.items[k].title]
    <3>1. PICK kind \in {"toggle", "delete"}, k \in DOMAIN view.items :
                cmd = [kind |-> kind, id |-> view.items[k].id, text |-> view.items[k].title]
      BY <2>1
    <3>2. view.items[k] \in Todo
      BY LenProperties, ElementOfSeq DEF GuiInv, GuiShape, ViewType
    <3> QED
      BY <3>1, <3>2 DEF Cmd, Kinds, Todo, CmdKnown, GuiInv, RowsKnown
  <2>2. CASE \E kind \in Kinds \ {"toggle", "delete"} : cmd = Post(kind)
    BY <2>2, PostKnown, StoreAssumption
  <2> QED
    BY <2>1, <2>2 DEF Clickable, Kinds
<1>3. <<cmd>> \in Seq(Cmd) /\ \A k \in DOMAIN <<cmd>> : CmdKnown(store, <<cmd>>[k])
  BY <1>2
<1>4. cmds' \in Seq(Cmd) /\ \A k \in DOMAIN cmds' : CmdKnown(store, cmds'[k])
  BY <1>1, <1>3, KnownConcat DEF GuiInv, GuiShape
<1> QED
  BY <1>4 DEF HumanClicks, GuiInv, GuiShape, gui

\* A frame shows what the worker received.
LEMMA FrameKept == ASSUME GuiInv, GuiFrame PROVE GuiInv'
<1>1. PICK got : got = Last(views)
  OBVIOUS
<1>2. got \in Received /\ RowsKnown(store, got.view)
  <2>1. /\ views \in Seq(Received) /\ views # <<>>
        /\ \A k \in DOMAIN views : RowsKnown(store, views[k].view)
    BY DEF GuiFrame, GuiInv, GuiShape
  <2>2. Len(views) \in 1..Len(views) /\ DOMAIN views = 1..Len(views)
    BY <2>1, EmptySeq, LenProperties
  <2> QED
    BY <1>1, <2>1, <2>2, ElementOfSeq DEF Last
<1>3. /\ view' = IF got.ok THEN got.view ELSE view
      /\ input' \in {input, Empty}
      /\ views' = <<>> /\ UNCHANGED <<store, cmds, call, late>>
  BY <1>1 DEF GuiFrame
<1>4. view' \in ViewType /\ RowsKnown(store, view') /\ input' \in Text
  BY <1>2, <1>3, StoreAssumption DEF Received, GuiInv, GuiShape
<1>5. views' \in Seq(Received) /\ DOMAIN views' = {}
  BY <1>3, EmptySeq, LenProperties
<1> QED
  BY <1>3, <1>4, <1>5 DEF GuiInv, GuiShape

\* The worker takes a command.
LEMMA TurnKept == ASSUME GuiInv, WorkerTurn PROVE GuiInv'
<1>1. CASE UNCHANGED <<cmds, call>>
  BY <1>1 DEF WorkerTurn, GuiInv, GuiShape, gui
<1>2. CASE cmds # <<>> /\ call' = Head(cmds) /\ cmds' = Tail(cmds)
  <2>1. cmds \in Seq(Cmd) /\ \A k \in DOMAIN cmds : CmdKnown(store, cmds[k])
    BY DEF GuiInv, GuiShape
  <2>2. PICK n \in Nat : n = Len(cmds) /\ n >= 1
    BY <1>2, <2>1, EmptySeq
  <2>3. /\ cmds' \in Seq(Cmd) /\ Len(cmds') = n - 1
        /\ \A k \in 1..(n - 1) : cmds'[k] = cmds[k + 1]
        /\ call' \in Cmd /\ call' = cmds[1]
    BY <1>2, <2>1, <2>2, HeadTailProperties
  <2>4. DOMAIN cmds' = 1..(n - 1) /\ DOMAIN cmds = 1..n
    BY <2>1, <2>2, <2>3, LenProperties
  <2>5. CmdKnown(store, call') /\ \A k \in DOMAIN cmds' : CmdKnown(store, cmds'[k])
    BY <2>1, <2>2, <2>3, <2>4
  <2> QED
    BY <2>3, <2>5 DEF WorkerTurn, GuiInv, GuiShape, gui
<1> QED
  BY <1>1, <1>2 DEF WorkerTurn

\* No command names no row.
LEMMA NoCmdKnown == NoCmd \in Cmd /\ \A s : CmdKnown(s, NoCmd)
BY PostKnown, StoreAssumption DEF NoCmd, Kinds

\* The daemon carries out the worker's call.
LEMMA ServeCallKept == ASSUME GuiInv, ServeCall PROVE GuiInv'
<1>1. PICK s : s = Served(store, call)
  OBVIOUS
<1>2. Sound(s) /\ Keeps(store, s)
  BY <1>1, ServedSound DEF GuiInv, GuiShape
<1>3. /\ store' = s /\ call' = NoCmd
      /\ UNCHANGED <<input, view, cmds, views, late>>
  BY <1>1 DEF ServeCall, gui
<1>4. GuiShape'
  BY <1>3, NoCmdKnown DEF GuiInv, GuiShape
<1> QED
  BY <1>2, <1>3, <1>4, WaitingKept, NoCmdKnown DEF GuiInv

\* The daemon carries out a call nobody waits for any more.
LEMMA ServeLateKept == ASSUME GuiInv, ServeLate PROVE GuiInv'
<1>1. PICK k \in DOMAIN late : store' = Served(store, late[k]) /\ late' = RemoveAt(late, k)
  BY DEF ServeLate
<1>2. /\ late \in Seq(Cmd) /\ late[k] \in Cmd
      /\ UNCHANGED <<input, view, cmds, views, call>>
  BY Element DEF ServeLate, GuiInv, GuiShape, gui, worker
<1>3. PICK s : s = Served(store, late[k])
  OBVIOUS
<1>4. Sound(s) /\ Keeps(store, s)
  BY <1>2, <1>3, ServedSound DEF GuiInv
<1>5. PICK n \in Nat : n = Len(late)
  BY <1>2, LenProperties
<1>6. /\ late' \in Seq(Cmd) /\ Len(late') = n - 1 /\ k \in 1..n
      /\ \A i \in 1..(n - 1) : late'[i] = late[IF i < k THEN i ELSE i + 1]
  BY <1>1, <1>2, <1>5, LenProperties, RemoveAtOK
<1>7. DOMAIN late' = 1..(n - 1) /\ DOMAIN late = 1..n
  BY <1>2, <1>5, <1>6, LenProperties
<1>8. \A i \in DOMAIN late' : \E j \in DOMAIN late : late'[i] = late[j]
  <2> SUFFICES ASSUME NEW i \in 1..(n - 1) PROVE \E j \in 1..n : late'[i] = late[j]
    BY <1>7
  <2>1. (IF i < k THEN i ELSE i + 1) \in 1..n
    BY <1>6
  <2> QED
    BY <1>6, <2>1
<1>9. GuiShape'
  BY <1>2, <1>6 DEF GuiInv, GuiShape
<1>10. \A i \in DOMAIN late' : CmdKnown(s, late'[i])
  BY <1>4, <1>8, WaitingKept
<1> QED
  BY <1>1, <1>2, <1>3, <1>4, <1>9, <1>10, WaitingKept DEF GuiInv

\* A view of the store is put on its way.
LEMMA SnapshotKept == ASSUME GuiInv, ServeSnapshot PROVE GuiInv'
<1>1. Ok(View(store)) \in Received /\ RowsKnown(store, Ok(View(store)).view)
  BY ViewKnown DEF GuiInv, Ok, Received
<1>2. /\ views' \in Seq(Received)
      /\ \A k \in DOMAIN views' : RowsKnown(store, views'[k].view)
  BY <1>1, ViewReceived DEF ServeSnapshot
<1> QED
  BY <1>2 DEF ServeSnapshot, GuiInv, GuiShape, gui

\* A call made again means what it meant.
LEMMA RetriedKept == ASSUME GuiInv, CallRetried PROVE GuiInv'
<1>1. late' \in Seq(Cmd) /\ \A k \in DOMAIN late' : CmdKnown(store, late'[k])
  BY KnownAppend DEF CallRetried, GuiInv, GuiShape
<1> QED
  BY <1>1 DEF CallRetried, GuiInv, GuiShape, gui, worker

\* A call given up may still wait at the daemon.
LEMMA FailedKept == ASSUME GuiInv, CallFails PROVE GuiInv'
<1>1. late' \in {late, Append(late, call)}
  BY DEF CallFails
<1>2. late' \in Seq(Cmd) /\ \A k \in DOMAIN late' : CmdKnown(store, late'[k])
  BY <1>1, KnownAppend DEF GuiInv, GuiShape
<1>3. /\ views' \in Seq(Received)
      /\ \A k \in DOMAIN views' : RowsKnown(store, views'[k].view)
  BY ViewReceived, ErrReceived DEF CallFails
<1> QED
  BY <1>2, <1>3, NoCmdKnown DEF CallFails, GuiInv, GuiShape, gui

\* A failure in place of a view.
LEMMA SnapshotFailedKept == ASSUME GuiInv, SnapshotFails PROVE GuiInv'
<1>1. /\ views' \in Seq(Received)
      /\ \A k \in DOMAIN views' : RowsKnown(store, views'[k].view)
  BY ViewReceived, ErrReceived DEF SnapshotFails
<1> QED
  BY <1>1 DEF SnapshotFails, GuiInv, GuiShape, gui

\* Another agent's operation is one of the store.
LEMMA AgentKept == ASSUME GuiInv, AgentActs PROVE GuiInv'
<1>1. Sound(store') /\ Keeps(store, store')
  BY ActionSound DEF AgentActs, StoreAction, GuiInv
<1>2. UNCHANGED <<input, view, cmds, views, call, late>>
  BY DEF AgentActs, gui, worker
<1> QED
  BY <1>1, <1>2, StoreMoves

\* What waits between the window and a daemon that is not restarted: every row shown
\* and every click on one is about the todo that had that title, or about none.
THEOREM GuiInvariant == ~Restarts => (Spec => []GuiInv)
<1> SUFFICES ASSUME ~Restarts PROVE Spec => []GuiInv
  OBVIOUS
<1>1. Init => GuiInv
  <2> SUFFICES ASSUME Init PROVE GuiInv
    OBVIOUS
  <2>1. /\ <<>> \in Seq(Cmd) /\ <<>> \in Seq(Received)
        /\ DOMAIN <<>> = {} /\ DOMAIN cmds = {} /\ DOMAIN views = {} /\ DOMAIN late = {}
    BY EmptySeq, LenProperties DEF Init
  <2>2. DefaultView \in ViewType /\ RowsKnown(NewStore, DefaultView)
    BY NewStoreSound, ViewKnown DEF DefaultView
  <2>3. GuiShape
    BY <2>1, <2>2, NoCmdKnown, StoreAssumption DEF Init, GuiShape
  <2> QED
    BY <2>1, <2>2, <2>3, NoCmdKnown, NewStoreSound DEF Init, StoreInit, GuiInv
<1>2. GuiInv /\ [Next]_vars => GuiInv'
  <2> SUFFICES ASSUME GuiInv, [Next]_vars PROVE GuiInv'
    OBVIOUS
  <2>1. CASE UNCHANGED vars
    BY <2>1 DEF vars, GuiInv, GuiShape
  <2>2. ~DaemonRestarts
    BY DEF DaemonRestarts
  <2> QED
    BY <2>1, <2>2, TypesKept, EntersKept, ClicksKept, FrameKept, ServeLateKept, AgentKept,
       TurnKept, ServeCallKept, SnapshotKept, RetriedKept, FailedKept, SnapshotFailedKept
       DEF Next
<1> QED
  BY <1>1, <1>2, PTL DEF Spec

\* A click waits in the window's channel, in the worker and, its caller gone, at the
\* daemon, while agents and other clicks delete and add todos: it is carried out on
\* the todo whose title its row showed, or on none.  A daemon that is restarted gives
\* its ids anew, and then this is not so.
THEOREM GuiClicks == ~Restarts => (Spec => []ClicksMeanWhatWasShown)
<1> SUFFICES ASSUME ~Restarts PROVE Spec => []ClicksMeanWhatWasShown
  OBVIOUS
<1>1. GuiInv => ClicksMeanWhatWasShown
  <2> SUFFICES ASSUME GuiInv,
                      NEW cmd \in Range(cmds) \cup {call} \cup Range(late),
                      cmd.kind \in {"toggle", "delete"}, cmd.id \in Ids(store)
               PROVE  store.items[At(store, cmd.id)].title = cmd.text
    BY DEF ClicksMeanWhatWasShown
  <2>1. CmdKnown(store, cmd)
    BY DEF Range, GuiInv
  <2> QED
    BY <2>1, AtId DEF CmdKnown, Known
<1> QED
  BY <1>1, GuiInvariant, PTL
-----------------------------------------------------------------------------
(* Titles                                                                  *)

\* Enter's two commands stay next to each other, and only they set and add.
Paired(cs) ==
    /\ \A k \in DOMAIN cs : cs[k].kind = "set_value" =>
         k + 1 \in DOMAIN cs /\ cs[k + 1].kind = "add" /\ Trimmed[cs[k].text] # Empty
    /\ \A k \in DOMAIN cs : cs[k].kind = "add" /\ k # 1 => cs[k - 1].kind = "set_value"

\* A title half way is in the daemon's draft.
TitlesInv ==
    /\ {entered, added} \subseteq Seq(Text)
    /\ stage \in {"turn", "call", "snapshot"}
    /\ late = <<>> /\ faults = 0
    /\ Paired(Coming)
    /\ Drafted # <<>> => Trimmed[store.draft] # Empty
    /\ TitlesInOrder
Sets(cs) == {k \in DOMAIN cs : cs[k].kind = "set_value"}

\* at says which of the titles es after the first n each set_value of cs sets.
Placed(es, n, cs, at) ==
    /\ at \in [Sets(cs) -> (n + 1)..Len(es)]
    /\ \A j \in (n + 1)..Len(es) : \E k \in Sets(cs) : at[k] = j
    /\ \A k, l \in Sets(cs) : k < l => at[k] < at[l]
    /\ \A k \in Sets(cs) : es[at[k]] = Trimmed[cs[k].text]

Begins(first, es) ==
    Len(first) <= Len(es) /\ \A j \in 1..Len(first) : first[j] = es[j]

\* IsPrefix, element by element.
LEMMA PrefixBegins ==
    ASSUME NEW S, NEW first \in Seq(S), NEW es \in Seq(S)
    PROVE  IsPrefix(first, es) <=> Begins(first, es)
<1> DEFINE n == Len(first)
<1>1. CASE ~(n <= Len(es))
  BY <1>1 DEF IsPrefix, Begins
<1>2. CASE n <= Len(es)
  <2>1. n \in Nat /\ Len(es) \in Nat
    BY LenProperties
  <2>2. /\ \A j \in 1..n : first[j] \in S
        /\ \A j \in 1..n : es[j] \in S
    BY <1>2, <2>1, ElementOfSeq
  <2>3. /\ SubSeq(first, 1, n) \in Seq(S) /\ SubSeq(es, 1, n) \in Seq(S)
        /\ Len(SubSeq(first, 1, n)) = n /\ Len(SubSeq(es, 1, n)) = n
        /\ \A j \in 1..n : SubSeq(first, 1, n)[j] = first[j]
        /\ \A j \in 1..n : SubSeq(es, 1, n)[j] = es[j]
    BY <2>1, <2>2, SubSeqProperties
  <2>4. SubSeq(first, 1, n) = SubSeq(es, 1, n) <=> \A j \in 1..n : first[j] = es[j]
    BY <2>3, SeqEqual
  <2> QED
    BY <1>2, <2>4 DEF IsPrefix, Begins
<1> QED
  BY <1>1, <1>2

\* MadeOf, with the place each set_value has among the titles named.
LEMMA MadeOfIs ==
    ASSUME NEW es \in Seq(Text), NEW first \in Seq(Text), NEW cs \in Seq(Cmd)
    PROVE  MadeOf(es, first, cs)
             <=> Begins(first, es) /\ \E at : Placed(es, Len(first), cs, at)
<1>1. IsPrefix(first, es) <=> Begins(first, es)
  BY PrefixBegins
<1>2. PICK n \in Nat, m \in Nat : n = Len(first) /\ m = Len(es)
  BY LenProperties
<1>3. PICK sets : sets = Sets(cs)
  OBVIOUS
<1>4. sets \subseteq Nat
  BY <1>3, LenProperties DEF Sets
<1>5. ASSUME NEW at \in [sets -> (n + 1)..m],
             \A k, l \in sets : k < l => at[k] < at[l],
             \A j \in (n + 1)..m : \E k \in sets : at[k] = j
      PROVE  at \in Bijection(sets, (n + 1)..m)
  <2>1. \A k, l \in sets : at[k] = at[l] => k = l
    <3> SUFFICES ASSUME NEW k \in sets, NEW l \in sets, at[k] = at[l] PROVE k = l
      OBVIOUS
    <3>1. k \in Nat /\ l \in Nat /\ at[k] \in Nat /\ at[l] \in Nat
      BY <1>2, <1>4, <1>5
    <3>2. ~(k < l) /\ ~(l < k)
      BY <1>5, <3>1
    <3> QED
      BY <3>1, <3>2
  <2>2. at \in Injection(sets, (n + 1)..m)
    BY <1>5, <2>1 DEF Injection, IsInjective
  <2>3. at \in Surjection(sets, (n + 1)..m)
    BY <1>5 DEF Surjection
  <2> QED
    BY <2>2, <2>3 DEF Bijection
<1>6. ASSUME NEW at \in Bijection(sets, (n + 1)..m)
      PROVE  /\ at \in [sets -> (n + 1)..m]
             /\ \A j \in (n + 1)..m : \E k \in sets : at[k] = j
  BY <1>6 DEF Bijection, Injection, Surjection
<1>7. (\E at : Placed(es, n, cs, at))
        <=> \E at \in Bijection(sets, (n + 1)..m) :
              /\ \A k, l \in sets : k < l => at[k] < at[l]
              /\ \A k \in sets : es[at[k]] = Trimmed[cs[k].text]
  <2>1. ASSUME NEW at, Placed(es, n, cs, at)
        PROVE  \E b \in Bijection(sets, (n + 1)..m) :
                 /\ \A k, l \in sets : k < l => b[k] < b[l]
                 /\ \A k \in sets : es[b[k]] = Trimmed[cs[k].text]
    <3>1. /\ at \in [sets -> (n + 1)..m]
          /\ \A j \in (n + 1)..m : \E k \in sets : at[k] = j
          /\ \A k, l \in sets : k < l => at[k] < at[l]
          /\ \A k \in sets : es[at[k]] = Trimmed[cs[k].text]
      BY <1>2, <1>3, <2>1 DEF Placed
    <3>2. at \in Bijection(sets, (n + 1)..m)
      BY <1>5, <3>1
    <3> QED
      BY <3>1, <3>2
  <2>2. ASSUME NEW at \in Bijection(sets, (n + 1)..m),
               \A k, l \in sets : k < l => at[k] < at[l],
               \A k \in sets : es[at[k]] = Trimmed[cs[k].text]
        PROVE  Placed(es, n, cs, at)
    BY <1>2, <1>3, <1>6, <2>2 DEF Placed
  <2> QED
    BY <2>1, <2>2
<1> QED
  BY <1>1, <1>2, <1>3, <1>7 DEF MadeOf, Sets

\* The human enters a title.
LEMMA MadeEntered ==
    ASSUME NEW es \in Seq(Text), NEW first \in Seq(Text), NEW cs \in Seq(Cmd),
           MadeOf(es, first, cs), NEW c \in Cmd, NEW d \in Cmd,
           c.kind = "set_value", d.kind # "set_value"
    PROVE  MadeOf(Append(es, Trimmed[c.text]), first, cs \o <<c, d>>)
<1>0. Trimmed[c.text] \in Text
  BY StoreAssumption DEF Cmd
<1>1. PICK fs : fs = Append(es, Trimmed[c.text])
  OBVIOUS
<1>2. PICK ds : ds = cs \o <<c, d>>
  OBVIOUS
<1>3. PICK n \in Nat, m \in Nat, p \in Nat : n = Len(first) /\ m = Len(es) /\ p = Len(cs)
  BY LenProperties
<1>4. /\ fs \in Seq(Text) /\ Len(fs) = m + 1
      /\ \A j \in 1..m : fs[j] = es[j]
      /\ fs[m + 1] = Trimmed[c.text]
  BY <1>0, <1>1, <1>3, AppendProperties
<1>5. /\ ds \in Seq(Cmd) /\ DOMAIN ds = 1..(p + 2) /\ DOMAIN cs = 1..p
      /\ \A k \in 1..p : ds[k] = cs[k]
      /\ ds[p + 1] = c /\ ds[p + 2] = d
  <2>1. <<c, d>> \in Seq(Cmd) /\ Len(<<c, d>>) = 2
    OBVIOUS
  <2>2. /\ ds \in Seq(Cmd) /\ Len(ds) = p + 2
        /\ \A k \in 1..(p + 2) : ds[k] = IF k <= p THEN cs[k] ELSE <<c, d>>[k - p]
    BY <1>2, <1>3, <2>1, ConcatProperties, Zenon
  <2>3. p + 1 \in 1..(p + 2) /\ p + 2 \in 1..(p + 2) /\ ~(p + 1 <= p) /\ ~(p + 2 <= p)
        /\ (p + 1) - p = 1 /\ (p + 2) - p = 2
    OBVIOUS
  <2>4. ds[p + 1] = c /\ ds[p + 2] = d
    BY <2>2, <2>3
  <2> QED
    BY <1>3, <2>2, <2>4, LenProperties
<1>6. /\ Begins(first, es)
      /\ \E at : Placed(es, n, cs, at)
  BY <1>3, MadeOfIs
<1>7. PICK at : Placed(es, n, cs, at)
  BY <1>6
<1>8. Sets(ds) = Sets(cs) \cup {p + 1} /\ Sets(cs) \subseteq 1..p
  BY <1>5 DEF Sets
<1>9. PICK to : to = [k \in Sets(ds) |-> IF k = p + 1 THEN m + 1 ELSE at[k]]
  OBVIOUS
<1>10. /\ at \in [Sets(cs) -> (n + 1)..m]
       /\ \A j \in (n + 1)..m : \E k \in Sets(cs) : at[k] = j
       /\ \A k, l \in Sets(cs) : k < l => at[k] < at[l]
       /\ \A k \in Sets(cs) : es[at[k]] = Trimmed[cs[k].text]
  BY <1>3, <1>7 DEF Placed
<1>11. n <= m /\ \A j \in 1..n : first[j] = es[j]
  BY <1>3, <1>6 DEF Begins
<1>12. /\ to[p + 1] = m + 1
       /\ \A k \in Sets(cs) : to[k] = at[k] /\ to[k] \in (n + 1)..m
  BY <1>8, <1>9, <1>10
<1>13. to \in [Sets(ds) -> (n + 1)..(m + 1)]
  BY <1>8, <1>9, <1>11, <1>12
<1>14. \A j \in (n + 1)..(m + 1) : \E k \in Sets(ds) : to[k] = j
  <2> SUFFICES ASSUME NEW j \in (n + 1)..(m + 1) PROVE \E k \in Sets(ds) : to[k] = j
    OBVIOUS
  <2>1. CASE j = m + 1
    BY <1>8, <1>12, <2>1
  <2>2. CASE j # m + 1
    <3>1. j \in (n + 1)..m
      BY <2>2
    <3>2. PICK k \in Sets(cs) : at[k] = j
      BY <1>10, <3>1
    <3> QED
      BY <1>8, <1>12, <3>2
  <2> QED
    BY <2>1, <2>2
<1>15. \A k, l \in Sets(ds) : k < l => to[k] < to[l]
  BY <1>8, <1>10, <1>12
<1>16. \A k \in Sets(ds) : fs[to[k]] = Trimmed[ds[k].text]
  BY <1>4, <1>5, <1>8, <1>10, <1>11, <1>12
<1>17. Placed(fs, n, ds, to)
  BY <1>4, <1>13, <1>14, <1>15, <1>16 DEF Placed
<1>18. Begins(first, fs)
  BY <1>3, <1>4, <1>11 DEF Begins
<1> QED
  BY <1>1, <1>2, <1>3, <1>4, <1>5, <1>17, <1>18, MadeOfIs

\* The human clicks.
LEMMA MadeClicked ==
    ASSUME NEW es \in Seq(Text), NEW first \in Seq(Text), NEW cs \in Seq(Cmd),
           MadeOf(es, first, cs), NEW c \in Cmd, c.kind # "set_value"
    PROVE  MadeOf(es, first, cs \o <<c>>)
<1>1. PICK ds : ds = cs \o <<c>>
  OBVIOUS
<1>2. PICK p \in Nat : p = Len(cs)
  BY LenProperties
<1>3. /\ ds \in Seq(Cmd) /\ DOMAIN ds = 1..(p + 1) /\ DOMAIN cs = 1..p
      /\ \A k \in 1..p : ds[k] = cs[k]
      /\ ds[p + 1] = c
  <2>1. <<c>> \in Seq(Cmd) /\ Len(<<c>>) = 1
    OBVIOUS
  <2>2. /\ ds \in Seq(Cmd) /\ Len(ds) = p + 1
        /\ \A k \in 1..(p + 1) : ds[k] = IF k <= p THEN cs[k] ELSE <<c>>[k - p]
    BY <1>1, <1>2, <2>1, ConcatProperties, Zenon
  <2>3. p + 1 \in 1..(p + 1) /\ ~(p + 1 <= p) /\ (p + 1) - p = 1
    OBVIOUS
  <2>4. ds[p + 1] = c
    BY <2>2, <2>3
  <2> QED
    BY <1>2, <2>2, <2>4, LenProperties
<1>4. Sets(ds) = Sets(cs) /\ \A k \in Sets(cs) : ds[k] = cs[k]
  BY <1>3 DEF Sets
<1>5. \A at : Placed(es, Len(first), cs, at) => Placed(es, Len(first), ds, at)
  BY <1>4 DEF Placed
<1> QED
  BY <1>1, <1>3, <1>5, MadeOfIs

\* A title set becomes the next of the first ones; another command leaves them alone.
LEMMA MadeServed ==
    ASSUME NEW es \in Seq(Text), NEW first \in Seq(Text), NEW cs \in Seq(Cmd),
           MadeOf(es, first, cs), cs # <<>>
    PROVE  MadeOf(es, IF Head(cs).kind = "set_value"
                      THEN Append(first, Trimmed[Head(cs).text]) ELSE first, Tail(cs))
<1>1. PICK n \in Nat, m \in Nat, p \in Nat : n = Len(first) /\ m = Len(es) /\ p = Len(cs)
  BY LenProperties
<1>2. PICK ds : ds = Tail(cs)
  OBVIOUS
<1>3. /\ ds \in Seq(Cmd) /\ DOMAIN ds = 1..(p - 1) /\ DOMAIN cs = 1..p /\ p >= 1
      /\ \A k \in 1..(p - 1) : ds[k] = cs[k + 1]
      /\ Head(cs) = cs[1] /\ cs[1] \in Cmd
  BY <1>1, <1>2, EmptySeq, HeadTailProperties, LenProperties
<1>4. PICK at : Placed(es, n, cs, at)
  BY <1>1, MadeOfIs
<1>5. /\ at \in [Sets(cs) -> (n + 1)..m]
      /\ \A j \in (n + 1)..m : \E k \in Sets(cs) : at[k] = j
      /\ \A k, l \in Sets(cs) : k < l => at[k] < at[l]
      /\ \A k \in Sets(cs) : es[at[k]] = Trimmed[cs[k].text]
  BY <1>1, <1>4 DEF Placed
<1>6. n <= m /\ \A j \in 1..n : first[j] = es[j]
  BY <1>1, MadeOfIs DEF Begins
<1>7. PICK to : to = [k \in Sets(ds) |-> at[k + 1]]
  OBVIOUS
<1>8. /\ Sets(ds) \subseteq 1..(p - 1) /\ Sets(cs) \subseteq 1..p
      /\ \A k \in 1..(p - 1) : k \in Sets(ds) <=> k + 1 \in Sets(cs)
  BY <1>3 DEF Sets
<1>9. \A k, l \in Sets(ds) : k < l => to[k] < to[l]
  BY <1>5, <1>7, <1>8
<1>10. \A k \in Sets(ds) : es[to[k]] = Trimmed[ds[k].text]
  BY <1>3, <1>5, <1>7, <1>8
<1>11. \A k \in Sets(cs) : k = 1 \/ (k - 1 \in Sets(ds) /\ to[k - 1] = at[k])
  <2> SUFFICES ASSUME NEW k \in Sets(cs), k # 1
               PROVE  k - 1 \in Sets(ds) /\ to[k - 1] = at[k]
    OBVIOUS
  <2>1. k - 1 \in 1..(p - 1) /\ (k - 1) + 1 = k
    BY <1>8
  <2> QED
    BY <1>7, <1>8, <2>1
<1>12. CASE Head(cs).kind = "set_value"
  <2>1. PICK new : new = Append(first, Trimmed[cs[1].text])
    OBVIOUS
  <2>2. 1 \in Sets(cs)
    BY <1>3, <1>12 DEF Sets
  <2>3. at[1] = n + 1
    <3>1. n + 1 \in (n + 1)..m /\ at[1] \in (n + 1)..m
      BY <1>5, <2>2
    <3>2. PICK k \in Sets(cs) : at[k] = n + 1
      BY <1>5, <3>1
    <3>3. k \in Nat /\ k >= 1
      BY <1>8
    <3>4. ~(1 < k)
      BY <1>5, <2>2, <3>1, <3>2, <3>3
    <3> QED
      BY <3>2, <3>3, <3>4
  <2>4. Trimmed[cs[1].text] \in Text /\ es[n + 1] = Trimmed[cs[1].text] /\ n + 1 <= m
    <3>1. Trimmed[cs[1].text] \in Text
      BY <1>3, StoreAssumption DEF Cmd
    <3>2. at[1] \in (n + 1)..m /\ es[at[1]] = Trimmed[cs[1].text]
      BY <1>5, <2>2
    <3> QED
      BY <2>3, <3>1, <3>2
  <2>5. /\ new \in Seq(Text) /\ Len(new) = n + 1
        /\ \A j \in 1..n : new[j] = first[j]
        /\ new[n + 1] = Trimmed[cs[1].text]
    BY <1>1, <2>1, <2>4, AppendProperties
  <2>6. Begins(new, es)
    BY <1>1, <1>6, <2>4, <2>5 DEF Begins
  <2>7. to \in [Sets(ds) -> (n + 2)..m]
    <3> SUFFICES ASSUME NEW k \in Sets(ds) PROVE at[k + 1] \in (n + 2)..m
      BY <1>7
    <3>1. k + 1 \in Sets(cs) /\ 1 < k + 1
      BY <1>8
    <3>2. at[1] < at[k + 1] /\ at[k + 1] \in (n + 1)..m
      BY <1>5, <2>2, <3>1
    <3> QED
      BY <2>3, <3>2
  <2>8. \A j \in (n + 2)..m : \E k \in Sets(ds) : to[k] = j
    <3> SUFFICES ASSUME NEW j \in (n + 2)..m PROVE \E k \in Sets(ds) : to[k] = j
      OBVIOUS
    <3>1. PICK k \in Sets(cs) : at[k] = j
      <4>1. j \in (n + 1)..m
        OBVIOUS
      <4> QED
        BY <1>5, <4>1
    <3>2. k # 1
      BY <2>3, <3>1
    <3> QED
      BY <1>11, <3>1, <3>2
  <2>9. Placed(es, n + 1, ds, to)
    BY <1>1, <1>9, <1>10, <2>7, <2>8 DEF Placed
  <2>10. MadeOf(es, new, ds)
    BY <1>3, <2>5, <2>6, <2>9, MadeOfIs
  <2> QED
    BY <1>2, <1>3, <1>12, <2>1, <2>10
<1>13. CASE Head(cs).kind # "set_value"
  <2>1. 1 \notin Sets(cs)
    BY <1>3, <1>13 DEF Sets
  <2>2. to \in [Sets(ds) -> (n + 1)..m]
    BY <1>5, <1>7, <1>8
  <2>3. \A j \in (n + 1)..m : \E k \in Sets(ds) : to[k] = j
    <3> SUFFICES ASSUME NEW j \in (n + 1)..m PROVE \E k \in Sets(ds) : to[k] = j
      OBVIOUS
    <3>1. PICK k \in Sets(cs) : at[k] = j
      BY <1>5
    <3> QED
      BY <1>11, <2>1, <3>1
  <2>4. Placed(es, n, ds, to)
    BY <1>1, <1>9, <1>10, <2>2, <2>3 DEF Placed
  <2>5. MadeOf(es, first, ds)
    BY <1>1, <1>3, <2>4, MadeOfIs
  <2> QED
    BY <1>2, <1>13, <2>5
<1> QED
  BY <1>12, <1>13
\* The commands left when one is taken, and when some are posted, stay paired.
LEMMA PairedTail ==
    ASSUME NEW cs \in Seq(Cmd), cs # <<>>, Paired(cs)
    PROVE  /\ Paired(Tail(cs)) /\ Tail(cs) \in Seq(Cmd)
           /\ Head(cs).kind = "set_value" =>
                /\ Tail(cs) # <<>> /\ Head(Tail(cs)).kind = "add"
                /\ Trimmed[Head(cs).text] # Empty
           /\ Tail(cs) # <<>> /\ Head(Tail(cs)).kind = "add" => Head(cs).kind = "set_value"
<1>1. PICK p \in Nat : p = Len(cs)
  BY LenProperties
<1>2. PICK ds : ds = Tail(cs)
  OBVIOUS
<1>3. /\ ds \in Seq(Cmd) /\ DOMAIN ds = 1..(p - 1) /\ DOMAIN cs = 1..p /\ p >= 1
      /\ \A k \in 1..(p - 1) : ds[k] = cs[k + 1]
      /\ Head(cs) = cs[1] /\ Len(ds) = p - 1
  BY <1>1, <1>2, EmptySeq, HeadTailProperties, LenProperties
<1>4. ds # <<>> => p >= 2 /\ Head(ds) = cs[2]
  <2> SUFFICES ASSUME ds # <<>> PROVE p >= 2 /\ Head(ds) = cs[2]
    OBVIOUS
  <2>1. p - 1 >= 1 /\ Head(ds) = ds[1]
    BY <1>3, EmptySeq, HeadTailProperties
  <2> QED
    BY <1>3, <2>1
<1>5. p >= 2 => ds # <<>>
  BY <1>3, EmptySeq
<1>6. /\ \A k \in 1..p : cs[k].kind = "set_value" =>
           k + 1 \in 1..p /\ cs[k + 1].kind = "add" /\ Trimmed[cs[k].text] # Empty
      /\ \A k \in 1..p : cs[k].kind = "add" /\ k # 1 => cs[k - 1].kind = "set_value"
  BY <1>3 DEF Paired
<1>7. \A k \in 1..(p - 1) : ds[k].kind = "set_value" =>
           k + 1 \in 1..(p - 1) /\ ds[k + 1].kind = "add" /\ Trimmed[ds[k].text] # Empty
  BY <1>3, <1>6
<1>8. \A k \in 1..(p - 1) : ds[k].kind = "add" /\ k # 1 => ds[k - 1].kind = "set_value"
  BY <1>3, <1>6
<1>9. Paired(ds)
  BY <1>3, <1>7, <1>8 DEF Paired
<1>10. cs[1].kind = "set_value" =>
         p >= 2 /\ cs[2].kind = "add" /\ Trimmed[cs[1].text] # Empty
  BY <1>3, <1>6
<1>11. p >= 2 /\ cs[2].kind = "add" => cs[1].kind = "set_value"
  BY <1>6
<1> QED
  BY <1>2, <1>3, <1>4, <1>5, <1>9, <1>10, <1>11

\* Commands in pairs behind commands in pairs.
LEMMA PairedPosted ==
    ASSUME NEW cs \in Seq(Cmd), NEW new \in Seq(Cmd), Paired(cs), Paired(new),
           new # <<>>, Head(new).kind # "add"
    PROVE  /\ Paired(cs \o new) /\ cs \o new \in Seq(Cmd) /\ cs \o new # <<>>
           /\ Head(cs \o new) = IF cs = <<>> THEN Head(new) ELSE Head(cs)
<1>1. PICK p \in Nat, q \in Nat : p = Len(cs) /\ q = Len(new)
  BY LenProperties
<1>2. PICK ds : ds = cs \o new
  OBVIOUS
<1>3. /\ ds \in Seq(Cmd) /\ Len(ds) = p + q
      /\ \A k \in 1..(p + q) : ds[k] = IF k <= p THEN cs[k] ELSE new[k - p]
  BY <1>1, <1>2, ConcatProperties, Zenon
<1>4. /\ DOMAIN ds = 1..(p + q) /\ DOMAIN cs = 1..p /\ DOMAIN new = 1..q
      /\ q >= 1 /\ Head(new) = new[1]
  BY <1>1, <1>3, EmptySeq, HeadTailProperties, LenProperties
<1>5. ds # <<>> /\ Head(ds) = ds[1]
  BY <1>3, <1>4, EmptySeq, HeadTailProperties
<1>6. /\ \A k \in 1..p : ds[k] = cs[k]
      /\ \A k \in 1..q : ds[p + k] = new[k]
  <2>1. \A k \in 1..p : ds[k] = cs[k]
    BY <1>3
  <2>2. ASSUME NEW k \in 1..q PROVE ds[p + k] = new[k]
    <3>1. p + k \in 1..(p + q) /\ ~(p + k <= p) /\ (p + k) - p = k
      OBVIOUS
    <3> QED
      BY <1>3, <3>1
  <2> QED
    BY <2>1, <2>2
<1>7. /\ \A k \in 1..p : cs[k].kind = "set_value" =>
           k + 1 \in 1..p /\ cs[k + 1].kind = "add" /\ Trimmed[cs[k].text] # Empty
      /\ \A k \in 1..p : cs[k].kind = "add" /\ k # 1 => cs[k - 1].kind = "set_value"
  BY <1>4 DEF Paired
<1>8. /\ \A k \in 1..q : new[k].kind = "set_value" =>
           k + 1 \in 1..q /\ new[k + 1].kind = "add" /\ Trimmed[new[k].text] # Empty
      /\ \A k \in 1..q : new[k].kind = "add" /\ k # 1 => new[k - 1].kind = "set_value"
  BY <1>4 DEF Paired
<1>9. \A k \in 1..(p + q) : k \in 1..p \/ \E i \in 1..q : k = p + i
  <2> SUFFICES ASSUME NEW k \in 1..(p + q), k \notin 1..p
               PROVE  \E i \in 1..q : k = p + i
    OBVIOUS
  <2>1. k - p \in 1..q /\ k = p + (k - p)
    OBVIOUS
  <2> QED
    BY <2>1
<1>10. ASSUME NEW k \in 1..(p + q), ds[k].kind = "set_value"
       PROVE  k + 1 \in 1..(p + q) /\ ds[k + 1].kind = "add" /\ Trimmed[ds[k].text] # Empty
  <2>1. CASE k \in 1..p
    BY <1>6, <1>7, <1>10, <2>1
  <2>2. CASE \E i \in 1..q : k = p + i
    <3>1. PICK i \in 1..q : k = p + i
      BY <2>2
    <3>2. i + 1 \in 1..q /\ new[i + 1].kind = "add" /\ Trimmed[new[i].text] # Empty
      BY <1>6, <1>8, <1>10, <3>1
    <3>3. k + 1 = p + (i + 1) /\ k + 1 \in 1..(p + q)
      BY <3>1, <3>2
    <3> QED
      BY <1>6, <3>1, <3>2, <3>3
  <2> QED
    BY <1>9, <2>1, <2>2
<1>11. ASSUME NEW k \in 1..(p + q), ds[k].kind = "add", k # 1
       PROVE  ds[k - 1].kind = "set_value"
  <2>1. CASE k \in 1..p
    BY <1>6, <1>7, <1>11, <2>1
  <2>2. CASE \E i \in 1..q : k = p + i
    <3>1. PICK i \in 1..q : k = p + i
      BY <2>2
    <3>2. i # 1 /\ new[i - 1].kind = "set_value"
      <4>1. new[i].kind = "add"
        BY <1>6, <1>11, <3>1
      <4>2. i # 1
        BY <1>4, <4>1
      <4> QED
        BY <1>8, <4>1, <4>2
    <3>3. k - 1 = p + (i - 1) /\ i - 1 \in 1..q
      BY <3>1, <3>2
    <3> QED
      BY <1>6, <3>2, <3>3
  <2> QED
    BY <1>9, <2>1, <2>2
<1>12. Paired(ds)
  BY <1>4, <1>10, <1>11 DEF Paired
<1>13. ds[1] = IF cs = <<>> THEN Head(new) ELSE Head(cs)
  <2>1. CASE cs = <<>>
    <3>1. p = 0
      BY <1>1, <2>1, EmptySeq
    <3> QED
      BY <1>4, <1>6, <2>1, <3>1
  <2>2. CASE cs # <<>>
    <3>1. p >= 1 /\ Head(cs) = cs[1]
      BY <1>1, <2>2, EmptySeq, HeadTailProperties
    <3> QED
      BY <1>6, <2>2, <3>1
  <2> QED
    BY <2>1, <2>2
<1> QED
  BY <1>2, <1>3, <1>5, <1>12, <1>13
\* What is still to come is a sequence of commands; with a call out, it comes first.
LEMMA ComingOK ==
    ASSUME GuiInv
    PROVE  /\ Coming \in Seq(Cmd)
           /\ stage = "call" =>
                Coming # <<>> /\ Head(Coming) = call /\ Tail(Coming) = cmds
           /\ stage # "call" => Coming = cmds
<1>1. cmds \in Seq(Cmd) /\ call \in Cmd
  BY DEF GuiInv, GuiShape
<1>2. CASE stage = "call"
  <2>1. Coming = <<call>> \o cmds /\ <<call>> \in Seq(Cmd) /\ Len(<<call>>) = 1
    BY <1>1, <1>2 DEF Coming
  <2>2. PICK n \in Nat : n = Len(cmds)
    BY <1>1, LenProperties
  <2>3. /\ Coming \in Seq(Cmd) /\ Len(Coming) = 1 + n
        /\ \A k \in 1..(1 + n) : Coming[k] = IF k <= 1 THEN <<call>>[k] ELSE cmds[k - 1]
    BY <1>1, <2>1, <2>2, ConcatProperties, Zenon
  <2>4. /\ Coming # <<>> /\ Head(Coming) = Coming[1]
        /\ Tail(Coming) \in Seq(Cmd) /\ Len(Tail(Coming)) = n
        /\ \A k \in 1..n : Tail(Coming)[k] = Coming[k + 1]
    BY <2>3, EmptySeq, HeadTailProperties
  <2>5. \A k \in 1..n : Coming[k + 1] = cmds[k]
    <3> SUFFICES ASSUME NEW k \in 1..n PROVE Coming[k + 1] = cmds[k]
      OBVIOUS
    <3>1. k + 1 \in 1..(1 + n) /\ ~(k + 1 <= 1) /\ (k + 1) - 1 = k
      BY <2>2
    <3> QED
      BY <2>3, <3>1
  <2>6. Tail(Coming) = cmds
    BY <1>1, <2>2, <2>4, <2>5, SeqEqual
  <2> QED
    BY <1>2, <2>3, <2>4, <2>6
<1>3. CASE stage # "call"
  BY <1>1, <1>3, ConcatEmptySeq DEF Coming
<1> QED
  BY <1>2, <1>3

\* Steps that serve no command and post none
LEMMA TitlesQuiet ==
    ASSUME TitlesInv, UNCHANGED <<entered, added, late, faults>>,
           stage' \in {"turn", "call", "snapshot"},
           Coming' = Coming, store'.draft = store.draft
    PROVE  TitlesInv'
BY DEF TitlesInv, TitlesInOrder, Drafted

\* Commands that do not touch the draft
LEMMA DraftLeft ==
    ASSUME NEW s, Sound(s), NEW t, NEW id, NEW page \in Page,
           t \in {Toggle(s, id), Delete(s, id), Go(s, page), InvokeNavGo(s, page),
                  ToggleSidebar(s), ToggleConfirmDelete(s)}
    PROVE  t.draft = s.draft /\ t.nextId = s.nextId
<1>1. CASE t \in {Go(s, page), InvokeNavGo(s, page)}
  BY <1>1 DEF Go, InvokeNavGo, Bump, Sound, StoreType
<1>2. CASE t \in {ToggleSidebar(s), ToggleConfirmDelete(s)}
  BY <1>2 DEF ToggleSidebar, ToggleConfirmDelete, Bump, Sound, StoreType
<1>3. CASE t = Toggle(s, id)
  BY <1>3 DEF Toggle, Bump, Sound, StoreType
<1>4. CASE t = Delete(s, id)
  BY <1>4 DEF Delete, Bump, Sound, StoreType
<1> QED
  BY <1>1, <1>2, <1>3, <1>4

\* One lemma per action: an agent that does not edit leaves titles alone.
LEMMA AgentTitles ==
    ASSUME GuiInv, TitlesInv, AgentActs, ~AgentsEdit
    PROVE  TitlesInv'
<1>1. Toggling \/ Deleting \/ Navigating \/ Invoking \/ Configuring
  BY DEF AgentActs
<1>2. Sound(store)
  BY DEF GuiInv
<1>3. store'.draft = store.draft /\ store'.nextId = store.nextId
  <2>1. PICK page : page \in Page
    BY DEF Page
  <2>2. CASE Toggling \/ Deleting
    BY <1>2, <2>1, <2>2, DraftLeft DEF Toggling, Deleting, Apply
  <2>3. CASE Navigating \/ Invoking
    BY <1>2, <2>3, DraftLeft DEF Navigating, Invoking, Apply
  <2>4. CASE Configuring
    BY <1>2, <2>1, <2>4, DraftLeft DEF Configuring, Apply
  <2> QED
    BY <1>1, <2>2, <2>3, <2>4
<1>4. UNCHANGED <<entered, added, late, faults, stage, call, cmds>>
  <2>1. store.nextId \in Nat
    BY <1>2, SoundDomain
  <2> QED
    BY <1>3, <2>1 DEF AgentActs, Recorded, worker
<1>5. Coming' = Coming
  BY <1>4 DEF Coming
<1> QED
  BY <1>3, <1>4, <1>5, TitlesQuiet DEF TitlesInv

\* The worker's taking of a command moves it, and no title.
LEMMA TurnTitles ==
    ASSUME GuiInv, GuiInv', TitlesInv, WorkerTurn
    PROVE  TitlesInv'
<1>1. stage # "call" /\ Coming = cmds
  BY ComingOK DEF WorkerTurn
<1>2. CASE stage' = "snapshot" /\ UNCHANGED <<cmds, call>>
  <2>1. Coming' = cmds
    BY <1>2, ConcatEmptySeq DEF Coming, GuiInv, GuiShape
  <2> QED
    BY <1>1, <1>2, <2>1, TitlesQuiet DEF WorkerTurn
<1>3. CASE /\ stage' = "call" /\ cmds # <<>>
           /\ call' = Head(cmds) /\ cmds' = Tail(cmds)
  <2>1. cmds \in Seq(Cmd)
    BY DEF GuiInv, GuiShape
  <2>2. <<Head(cmds)>> \o Tail(cmds) = cmds
    BY <1>3, <2>1
  <2>3. Coming' = <<Head(cmds)>> \o Tail(cmds)
    BY <1>3 DEF Coming
  <2> QED
    BY <1>1, <1>3, <2>2, <2>3, TitlesQuiet DEF WorkerTurn
<1> QED
  BY <1>2, <1>3 DEF WorkerTurn

\* What a command does to the draft and to the number of todos
LEMMA ServedDraft ==
    ASSUME NEW s, Sound(s), NEW cmd \in Cmd
    PROVE  /\ cmd.kind = "set_value" =>
                Served(s, cmd).draft = cmd.text /\ Served(s, cmd).nextId = s.nextId
           /\ cmd.kind = "add" /\ Trimmed[s.draft] # Empty =>
                /\ Served(s, cmd).nextId = s.nextId + 1
                /\ Last(Served(s, cmd).items).title = Trimmed[s.draft]
           /\ cmd.kind \notin {"set_value", "add"} =>
                Served(s, cmd).draft = s.draft /\ Served(s, cmd).nextId = s.nextId
<1>1. CASE cmd.kind = "set_value"
  <2>1. Served(s, cmd) = SetDraft(s, cmd.text)
    BY <1>1 DEF Served
  <2>2. SetDraft(s, cmd.text).draft = cmd.text /\ SetDraft(s, cmd.text).nextId = s.nextId
    BY DEF SetDraft, Bump, Sound, StoreType
  <2> QED
    BY <1>1, <2>1, <2>2
<1>2. CASE cmd.kind = "add" /\ Trimmed[s.draft] # Empty
  <2>1. PICK new : new = [id |-> s.nextId, title |-> Trimmed[s.draft], done |-> FALSE]
    OBVIOUS
  <2>2. PICK t : t = Served(s, cmd)
    OBVIOUS
  <2>3. t = Bump([s EXCEPT !.items = Append(@, new), !.nextId = @ + 1, !.draft = Empty])
    BY <1>2, <2>1, <2>2 DEF Served, Add
  <2>4. s.items \in Seq(Todo) /\ new \in Todo
    BY <1>2, <2>1, SoundDomain, StoreAssumption DEF Sound, StoreType, Todo
  <2>5. t.nextId = s.nextId + 1 /\ t.items = Append(s.items, new)
    BY <2>3 DEF Bump, Sound, StoreType
  <2>6. Last(Append(s.items, new)) = new
    <3>1. /\ Len(Append(s.items, new)) = Len(s.items) + 1
          /\ Append(s.items, new)[Len(s.items) + 1] = new
      BY <2>4, AppendProperties
    <3> QED
      BY <3>1 DEF Last
  <2> QED
    BY <1>2, <2>1, <2>2, <2>5, <2>6
<1>3. CASE cmd.kind \notin {"set_value", "add"}
  <2>1. \E page \in Page : Served(s, cmd) \in
          {Toggle(s, cmd.id), Delete(s, cmd.id), Go(s, page), ToggleSidebar(s),
           ToggleConfirmDelete(s)}
    BY <1>3 DEF Served, Cmd, Kinds, Page
  <2> QED
    BY <1>3, <2>1, DraftLeft
<1> QED
  BY <1>1, <1>2, <1>3

\* Appending is concatenating one element.
LEMMA AppendAsConcat ==
    ASSUME NEW S, NEW s \in Seq(S), NEW e \in S
    PROVE  s \o <<e>> = Append(s, e) /\ Append(s, e) \in Seq(S) /\ s \o <<>> = s
BY ConcatEmptySeq, AppendProperties

\* A set_value carried out is a title in the draft, an add one in the list.
LEMMA ServeCallTitles ==
    ASSUME GuiInv, TitlesInv, ServeCall
    PROVE  TitlesInv'
<1>1. PICK cs \in Seq(Cmd) : cs = Coming
  BY ComingOK
<1>2. stage = "call" /\ cs # <<>> /\ Head(cs) = call /\ Tail(cs) = cmds
  BY <1>1, ComingOK DEF ServeCall
<1>3. /\ stage' = "snapshot" /\ UNCHANGED <<cmds, late, faults, entered>>
      /\ store' = Served(store, call) /\ Recorded
  BY DEF ServeCall
<1>4. Coming' = cmds
  BY <1>3, ConcatEmptySeq DEF Coming, GuiInv, GuiShape
<1>5. /\ Paired(cmds)
      /\ call.kind = "set_value" =>
           cmds # <<>> /\ Head(cmds).kind = "add" /\ Trimmed[call.text] # Empty
      /\ cmds # <<>> /\ Head(cmds).kind = "add" => call.kind = "set_value"
  BY <1>1, <1>2, PairedTail DEF TitlesInv
<1>6. /\ Sound(store) /\ call \in Cmd /\ store.nextId \in Nat /\ store.draft \in Text
      /\ Trimmed[store.draft] \in Text /\ Trimmed[call.text] \in Text
      /\ added \in Seq(Text) /\ entered \in Seq(Text)
  BY SoundDomain, StoreAssumption DEF GuiInv, GuiShape, Sound, StoreType, Cmd, TitlesInv
<1>7. PICK first : first = added \o Drafted
  OBVIOUS
<1>8. MadeOf(entered, first, cs)
  BY <1>1, <1>7 DEF TitlesInv, TitlesInOrder
<1>9. CASE call.kind = "set_value"
  <2>1. Drafted = <<>> /\ first = added
    BY <1>1, <1>2, <1>6, <1>7, <1>9, ConcatEmptySeq DEF Drafted
  <2>2. added' = added /\ store'.draft = call.text
    BY <1>3, <1>6, <1>9, ServedDraft DEF Recorded
  <2>3. Drafted' = <<Trimmed[call.text]>>
    BY <1>4, <1>5, <1>9, <2>2, <1>3 DEF Drafted
  <2>4. (added \o Drafted)' = Append(added, Trimmed[call.text])
    BY <1>6, <2>2, <2>3, AppendAsConcat
  <2>5. MadeOf(entered, Append(added, Trimmed[call.text]), cmds)
    BY <1>2, <1>6, <1>8, <1>9, <2>1, MadeServed
  <2>6. TitlesInOrder'
    BY <1>3, <1>4, <2>4, <2>5 DEF TitlesInOrder
  <2> QED
    BY <1>3, <1>4, <1>5, <1>9, <2>2, <2>6 DEF TitlesInv
<1>10. CASE call.kind = "add"
  <2>1. Drafted = <<Trimmed[store.draft]>> /\ Trimmed[store.draft] # Empty
    BY <1>1, <1>2, <1>10 DEF Drafted, TitlesInv
  <2>2. first = Append(added, Trimmed[store.draft]) /\ first \in Seq(Text)
    BY <1>6, <1>7, <2>1, AppendAsConcat
  <2>3. added' = first
    BY <1>3, <1>6, <1>10, <2>1, <2>2, ServedDraft DEF Recorded
  <2>4. Drafted' = <<>>
    BY <1>3, <1>4, <1>5, <1>10 DEF Drafted
  <2>5. (added \o Drafted)' = first
    BY <2>2, <2>3, <2>4, ConcatEmptySeq
  <2>6. MadeOf(entered, first, cmds)
    BY <1>2, <1>6, <1>8, <1>10, <2>2, MadeServed
  <2>7. TitlesInOrder'
    BY <1>3, <1>4, <2>5, <2>6 DEF TitlesInOrder
  <2> QED
    BY <1>3, <1>4, <1>5, <1>6, <2>2, <2>3, <2>4, <2>7 DEF TitlesInv
<1>11. CASE call.kind \notin {"set_value", "add"}
  <2>1. Drafted = <<>> /\ first = added
    BY <1>1, <1>2, <1>6, <1>7, <1>11, ConcatEmptySeq DEF Drafted
  <2>2. added' = added
    BY <1>3, <1>6, <1>11, ServedDraft DEF Recorded
  <2>3. Drafted' = <<>>
    BY <1>3, <1>4, <1>5, <1>11 DEF Drafted
  <2>4. (added \o Drafted)' = added
    BY <1>6, <2>2, <2>3, ConcatEmptySeq
  <2>5. MadeOf(entered, added, cmds)
    BY <1>2, <1>6, <1>8, <1>11, <2>1, MadeServed
  <2>6. TitlesInOrder'
    BY <1>3, <1>4, <2>4, <2>5 DEF TitlesInOrder
  <2> QED
    BY <1>3, <1>4, <1>5, <1>6, <2>2, <2>3, <2>6 DEF TitlesInv
<1> QED
  BY <1>9, <1>10, <1>11

\* Commands are posted behind those to come.
LEMMA PostedComing ==
    ASSUME GuiInv, NEW new \in Seq(Cmd), cmds' = cmds \o new, UNCHANGED <<stage, call>>
    PROVE  Coming' = Coming \o new
<1>1. cmds \in Seq(Cmd) /\ call \in Cmd
  BY DEF GuiInv, GuiShape
<1>2. PICK out \in Seq(Cmd) : out = IF stage = "call" THEN <<call>> ELSE <<>>
  <2>1. <<call>> \in Seq(Cmd) /\ <<>> \in Seq(Cmd)
    BY <1>1
  <2> QED
    BY <2>1, Zenon
<1>3. Coming' = out \o (cmds \o new) /\ Coming = out \o cmds
  BY <1>2 DEF Coming
<1>4. (out \o cmds) \o new = out \o (cmds \o new)
  BY <1>1, ConcatAssociative
<1> QED
  BY <1>3, <1>4

\* Enter adds a title behind all the others.
LEMMA EntersTitles ==
    ASSUME GuiInv, TitlesInv, HumanEnters
    PROVE  TitlesInv'
<1>1. PICK cs \in Seq(Cmd) : cs = Coming
  BY ComingOK
<1>2. PICK c \in Cmd, d \in Cmd :
        /\ c = [Post("set_value") EXCEPT !.text = input] /\ d = Post("add")
        /\ c.kind = "set_value" /\ c.text = input /\ d.kind = "add"
  <2>1. PICK c : c = [Post("set_value") EXCEPT !.text = input]
    OBVIOUS
  <2>2. PICK d : d = Post("add")
    OBVIOUS
  <2>3. c \in Cmd /\ d \in Cmd
    BY <2>1, <2>2, PostKnown DEF GuiInv, GuiShape, Kinds
  <2>4. c.kind = "set_value" /\ c.text = input /\ d.kind = "add"
    BY <2>1, <2>2 DEF Post
  <2> QED
    BY <2>1, <2>2, <2>3, <2>4
<1>3. PICK new : new = <<c, d>>
  OBVIOUS
<1>4. new \in Seq(Cmd) /\ DOMAIN new = 1..2 /\ new[1] = c /\ new[2] = d
  BY <1>3
<1>5. /\ cmds' = cmds \o new /\ Trimmed[input] # Empty
      /\ entered' = Append(entered, Trimmed[c.text])
      /\ UNCHANGED <<store, stage, call, late, faults, added>>
  BY <1>2, <1>3 DEF HumanEnters, Posted
<1>6. Coming' = cs \o new
  BY <1>1, <1>4, <1>5, PostedComing
<1>7. Paired(new) /\ new # <<>> /\ Head(new) = c
  <2>1. Paired(new)
    <3>1. \A k \in DOMAIN new : k = 1 \/ k = 2
      BY <1>4
    <3>2. new[1].kind # "add" /\ new[2].kind = "add" /\ new[2].kind # "set_value"
      BY <1>2, <1>4
    <3>3. \A k \in DOMAIN new : new[k].kind = "set_value" => k = 1
      BY <3>1, <3>2
    <3>4. \A k \in DOMAIN new : new[k].kind = "add" => k = 2
      BY <3>1, <3>2
    <3>5. 1 + 1 \in DOMAIN new /\ new[1 + 1].kind = "add" /\ Trimmed[new[1].text] # Empty
      BY <1>2, <1>4, <1>5
    <3>6. ASSUME NEW k \in DOMAIN new, new[k].kind = "set_value"
          PROVE  k + 1 \in DOMAIN new /\ new[k + 1].kind = "add" /\ Trimmed[new[k].text] # Empty
      <4>1. k = 1
        BY <3>3, <3>6
      <4> QED
        BY <3>5, <4>1
    <3>7. ASSUME NEW k \in DOMAIN new, new[k].kind = "add", k # 1
          PROVE  new[k - 1].kind = "set_value"
      <4>1. k - 1 = 1
        BY <3>4, <3>7
      <4> QED
        BY <1>2, <1>4, <4>1
    <3> QED
      BY <3>6, <3>7 DEF Paired
  <2> QED
    BY <1>3, <2>1
<1>8. /\ Paired(cs \o new) /\ cs \o new # <<>>
      /\ Head(cs \o new) = IF cs = <<>> THEN c ELSE Head(cs)
  BY <1>1, <1>2, <1>4, <1>7, PairedPosted DEF TitlesInv
<1>9. Drafted' = Drafted
  BY <1>1, <1>2, <1>5, <1>6, <1>8 DEF Drafted
<1>10. added \in Seq(Text) /\ entered \in Seq(Text) /\ Trimmed[c.text] \in Text
  BY StoreAssumption DEF TitlesInv, Cmd
<1>11. PICK first \in Seq(Text) : first = added \o Drafted
  <2>1. Drafted \in Seq(Text)
    BY StoreAssumption DEF Drafted, GuiInv, Sound, StoreType
  <2> QED
    BY <1>10, <2>1, ConcatProperties
<1>12. MadeOf(entered, first, cs)
  BY <1>1, <1>11 DEF TitlesInv, TitlesInOrder
<1>13. MadeOf(Append(entered, Trimmed[c.text]), first, cs \o new)
  BY <1>2, <1>3, <1>10, <1>12, MadeEntered
<1>14. TitlesInOrder'
  BY <1>5, <1>6, <1>9, <1>11, <1>13 DEF TitlesInOrder
<1>15. entered' \in Seq(Text)
  BY <1>5, <1>10, AppendProperties
<1> QED
  BY <1>5, <1>6, <1>8, <1>9, <1>10, <1>14, <1>15 DEF TitlesInv

\* A click adds none.
LEMMA ClicksTitles ==
    ASSUME GuiInv, TitlesInv, HumanClicks
    PROVE  TitlesInv'
<1>1. PICK cs \in Seq(Cmd) : cs = Coming
  BY ComingOK
<1>2. PICK c \in Clickable : cmds' = cmds \o <<c>>
  BY DEF HumanClicks, Posted
<1>3. c \in Cmd /\ c.kind \notin {"set_value", "add"}
  <2>1. CASE \E kind \in {"toggle", "delete"}, k \in DOMAIN view.items :
                c = [kind |-> kind, id |-> view.items[k].id, text |-> view.items[k].title]
    <3>1. PICK kind \in {"toggle", "delete"}, k \in DOMAIN view.items :
                c = [kind |-> kind, id |-> view.items[k].id, text |-> view.items[k].title]
      BY <2>1
    <3>2. view.items[k] \in Todo
      BY LenProperties, ElementOfSeq DEF GuiInv, GuiShape, ViewType
    <3> QED
      BY <3>1, <3>2 DEF Cmd, Kinds, Todo
  <2>2. CASE \E kind \in Kinds \ {"toggle", "delete", "set_value", "add"} : c = Post(kind)
    BY <2>2, StoreAssumption DEF Post, Cmd, Kinds
  <2> QED
    BY <2>1, <2>2 DEF Clickable, Kinds
<1>4. PICK new \in Seq(Cmd) : new = <<c>>
  <2>1. <<c>> \in Seq(Cmd)
    BY <1>3
  <2> QED
    BY <2>1, Zenon
<1>5. UNCHANGED <<store, stage, call, late, faults, added, entered>>
  BY DEF HumanClicks
<1>6. Coming' = cs \o new
  BY <1>1, <1>2, <1>4, <1>5, PostedComing
<1>7. Paired(new) /\ new # <<>> /\ Head(new) = c
  BY <1>3, <1>4 DEF Paired
<1>8. /\ Paired(cs \o new) /\ cs \o new # <<>>
      /\ Head(cs \o new) = IF cs = <<>> THEN c ELSE Head(cs)
  BY <1>1, <1>3, <1>7, PairedPosted DEF TitlesInv
<1>9. Drafted' = Drafted
  BY <1>1, <1>3, <1>5, <1>6, <1>8 DEF Drafted
<1>10. PICK first \in Seq(Text) : first = added \o Drafted
  <2>1. Drafted \in Seq(Text) /\ added \in Seq(Text)
    BY StoreAssumption DEF Drafted, GuiInv, Sound, StoreType, TitlesInv
  <2> QED
    BY <2>1, ConcatProperties
<1>11. MadeOf(entered, first, cs) /\ entered \in Seq(Text)
  BY <1>1, <1>10 DEF TitlesInv, TitlesInOrder
<1>12. MadeOf(entered, first, cs \o new)
  BY <1>3, <1>4, <1>11, MadeClicked
<1>13. TitlesInOrder'
  BY <1>5, <1>6, <1>9, <1>10, <1>12 DEF TitlesInOrder
<1> QED
  BY <1>5, <1>6, <1>8, <1>9, <1>13 DEF TitlesInv

\* With no call lost, no daemon restarted and no agent writing the draft, what the
\* human enters becomes todos, each once and in the order entered: Enter's set_value
\* and its click on Add stay together in the channel, and whatever is served between
\* them leaves the daemon's draft alone (add_from_input, the worker's one command a
\* turn, TodoStore::click).
THEOREM GuiTitles ==
    MaxFaults = 0 /\ ~Restarts /\ ~AgentsEdit => (Spec => []TitlesInOrder)
<1> SUFFICES ASSUME MaxFaults = 0, ~Restarts, ~AgentsEdit PROVE Spec => []TitlesInOrder
  OBVIOUS
<1>1. Init => TitlesInv
  <2> SUFFICES ASSUME Init PROVE TitlesInv
    OBVIOUS
  <2>1. Coming = <<>> /\ Drafted = <<>> /\ <<>> \o <<>> = <<>>
    BY EmptySeq, ConcatEmptySeq DEF Init, Coming, Drafted
  <2>2. Begins(<<>>, <<>>) /\ Placed(<<>>, Len(<<>>), <<>>, [k \in Sets(<<>>) |-> 0])
    BY DEF Begins, Placed, Sets
  <2>3. MadeOf(<<>>, <<>>, <<>>)
    BY <2>2, MadeOfIs, EmptySeq
  <2>4. TitlesInOrder
    BY <2>1, <2>3 DEF Init, TitlesInOrder
  <2>5. Paired(<<>>) /\ <<>> \in Seq(Text)
    BY EmptySeq DEF Paired
  <2> QED
    BY <2>1, <2>4, <2>5 DEF Init, TitlesInv
<1>2. GuiInv /\ GuiInv' /\ TitlesInv /\ [Next]_vars => TitlesInv'
  <2> SUFFICES ASSUME GuiInv, GuiInv', TitlesInv, [Next]_vars PROVE TitlesInv'
    OBVIOUS
  <2>1. CASE UNCHANGED <<store, cmds, stage, call, late, faults, entered, added>>
    <3>1. Coming' = Coming
      BY <2>1 DEF Coming
    <3> QED
      BY <2>1, <3>1, TitlesQuiet DEF TitlesInv
  <2>2. UNCHANGED vars \/ HumanTypes \/ GuiFrame =>
          UNCHANGED <<store, cmds, stage, call, late, faults, entered, added>>
    BY DEF vars, HumanTypes, GuiFrame, worker
  <2>3. CASE ServeSnapshot
    <3>1. Coming' = Coming
      BY <2>3 DEF ServeSnapshot, Coming
    <3> QED
      BY <2>3, <3>1, TitlesQuiet DEF ServeSnapshot
  <2>4. faults = 0 /\ late = <<>>
    BY DEF TitlesInv
  <2>5. ~(DaemonRestarts \/ CallRetried \/ CallFails \/ SnapshotFails)
    BY <2>4 DEF DaemonRestarts, CallRetried, CallFails, SnapshotFails
  <2>6. ~ServeLate
    BY <2>4, EmptySeq, LenProperties DEF ServeLate
  <2> QED
    BY <2>1, <2>2, <2>3, <2>5, <2>6, EntersTitles, ClicksTitles, AgentTitles, TurnTitles,
       ServeCallTitles DEF Next
<1>3. TitlesInv => TitlesInOrder
  BY DEF TitlesInv
<1> QED
  BY <1>1, <1>2, <1>3, GuiInvariant, PTL DEF Spec
=============================================================================
