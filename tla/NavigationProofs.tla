---------------------------- MODULE NavigationProofs ----------------------------
(***************************************************************************)
(* Theorems of Navigation, for any number of overlays, history entries,    *)
(* traversals under way and waiting clicks: the history that is kept in    *)
(* step with the shell really is, and an invite is not forgotten.          *)
(***************************************************************************)
EXTENDS Navigation, FiniteSetTheorems, SequenceTheorems, WellFoundedInduction, TLAPS

-----------------------------------------------------------------------------
(* Induction over a set of numbers.                                        *)

Before == {p \in Nat \X Nat : p[1] < p[2]}

LEMMA BeforeIsWellFounded == IsWellFoundedOn(Before, Nat)
BY NatLessThanWellFounded DEF OpToRel, Before

LEMMA SetInduction ==
  ASSUME NEW T \in SUBSET Nat, 0 \in T, \A n \in T : n + 1 \in T
  PROVE  T = Nat
<1>1. SUFFICES ASSUME Nat \ T # {} PROVE FALSE
  OBVIOUS
<1>2. PICK x \in Nat \ T : \A y \in Nat \ T : ~(<<y, x>> \in Before)
  <2>1. Nat \ T \subseteq Nat
    OBVIOUS
  <2> QED
    BY <1>1, <2>1, BeforeIsWellFounded, WFMin
<1>3. x # 0 /\ x - 1 \in Nat
  OBVIOUS
<1>4. CASE x - 1 \in T
  <2>1. (x - 1) + 1 = x
    OBVIOUS
  <2> QED
    BY <1>4, <2>1
<1>5. CASE x - 1 \notin T
  <2>1. <<x - 1, x>> \in Before
    BY <1>3 DEF Before
  <2> QED
    BY <1>2, <1>3, <1>5, <2>1
<1> QED
  BY <1>4, <1>5

-----------------------------------------------------------------------------
(* The invariant of the shell.                                             *)

Traversals == [by: Nat, why: {"back", "close"}]

Navs ==
  [on: BOOLEAN, depth: Nat, sentinel: BOOLEAN, suppress: Nat,
   pending: {<<>>} \cup (Tabs \X Tabs), pos: Nat \ {0}, top: Nat \ {0},
   going: Seq(Traversals), stack: Seq(Overlays), tab: Tabs]

NavOK(v) ==
  /\ v \in Navs
  /\ v.depth <= Len(v.stack) /\ v.pos <= v.top
  /\ ~v.on => v.depth = 0

\* The closing traversals come first, then the user's and the overlays' steps back.
Queue(v) ==
  /\ v.on /\ v.depth = Len(v.stack)
  /\ v.suppress <= Len(v.going)
  /\ \A i \in 1 .. Len(v.going) :
       IF i <= v.suppress THEN v.going[i].why = "close"
       ELSE v.going[i].why = "back" /\ v.going[i].by = 1

\* A tab change that waits starts at the tab the history stands at, and ends at the one shown.
Place(v) ==
  IF v.pending = <<>> THEN v.sentinel <=> v.tab # "today"
  ELSE /\ v.suppress > 0 /\ v.pending[1] # v.pending[2] /\ v.tab = v.pending[2]
       /\ v.sentinel <=> v.pending[1] # "today"

\* Where the closing traversals lead, one after the other: below the last of these entries
\* there is one for every overlay and for the tab.
Leads(v, at) ==
  /\ at[0] = v.pos
  /\ \A i \in 1 .. v.suppress : at[i - 1] = at[i] + v.going[i].by
  /\ at[v.suppress] > v.depth + (IF v.sentinel THEN 1 ELSE 0)

Room(v) == \E at \in [0 .. v.suppress -> Nat \ {0}] : Leads(v, at)

Sound(v) == Queue(v) /\ Place(v) /\ Room(v)

-----------------------------------------------------------------------------
(* Each operation on the shell keeps its type, and what is sound sound.    *)

LEMMA PushStateIs ==
  ASSUME NEW v, NavOK(v)
  PROVE  /\ NavOK(PushState(v))
         /\ PushState(v) = [v EXCEPT !.pos = v.pos + 1, !.top = v.pos + 1]
         /\ PushState(v).going = v.going /\ PushState(v).on = v.on
<1>1. v.pos + 1 \in Nat \ {0}
  BY DEF NavOK, Navs
<1>2. PushState(v) = [v EXCEPT !.pos = v.pos + 1, !.top = v.pos + 1]
  BY DEF PushState, NavOK, Navs
<1> DEFINE w == [v EXCEPT !.pos = v.pos + 1, !.top = v.pos + 1]
<1>3. /\ w \in Navs /\ w.depth = v.depth /\ w.stack = v.stack /\ w.on = v.on
      /\ w.pos = v.pos + 1 /\ w.top = v.pos + 1 /\ w.going = v.going
  BY <1>1 DEF NavOK, Navs
<1> HIDE DEF w
<1>4. NavOK(w)
  BY <1>1, <1>3 DEF NavOK
<1> QED
  BY <1>2, <1>3, <1>4 DEF w

\* A tab that is selected while nothing waits.
LEMMA ApplyTabOK ==
  ASSUME NEW v, NavOK(v), NEW from \in Tabs, NEW to \in Tabs
  PROVE  /\ NavOK(ApplyTab(v, from, to))
         /\ ApplyTab(v, from, to).going = v.going /\ ApplyTab(v, from, to).on = v.on
<1> DEFINE off == [v EXCEPT !.sentinel = FALSE]
           up == [v EXCEPT !.sentinel = TRUE]
<1>1. /\ NavOK(off) /\ off.going = v.going /\ off.on = v.on
      /\ NavOK(up) /\ up.going = v.going /\ up.on = v.on
  BY DEF NavOK, Navs
<1>2. ApplyTab(v, from, to) \in {v, off, PushState(up)}
  BY DEF ApplyTab
<1> HIDE DEF off, up
<1>3. NavOK(PushState(up)) /\ PushState(up).going = v.going /\ PushState(up).on = v.on
  BY <1>1, PushStateIs
<1> QED
  BY <1>1, <1>2, <1>3

LEMMA SelectTabOK ==
  ASSUME NEW v, NavOK(v), NEW from \in Tabs, NEW to \in Tabs
  PROVE  /\ NavOK(SelectTab(v, from, to)) /\ SelectTab(v, from, to).tab = to
         /\ SelectTab(v, from, to).going = v.going /\ SelectTab(v, from, to).on = v.on
<1>1. NavOK(SyncTab(v, from, to)) /\ SyncTab(v, from, to).going = v.going
      /\ SyncTab(v, from, to).on = v.on
  <2> DEFINE first == IF v.pending = <<>> THEN from ELSE v.pending[1]
             p == IF first = to THEN <<>> ELSE <<first, to>>
             w == [v EXCEPT !.pending = p]
  <2>1. first \in Tabs /\ p \in {<<>>} \cup (Tabs \X Tabs)
    BY DEF NavOK, Navs
  <2>2. NavOK(w) /\ w.going = v.going /\ w.on = v.on
    <3> HIDE DEF p
    <3> QED
      BY <2>1 DEF NavOK, Navs
  <2>3. NavOK(ApplyTab(v, from, to)) /\ ApplyTab(v, from, to).going = v.going
        /\ ApplyTab(v, from, to).on = v.on
    BY ApplyTabOK
  <2>4. SyncTab(v, from, to) \in {v, w, ApplyTab(v, from, to)}
    BY DEF SyncTab
  <2> HIDE DEF w
  <2> QED
    BY <2>2, <2>3, <2>4
<1> QED
  BY <1>1 DEF SelectTab, NavOK, Navs

LEMMA PoppedOK ==
  ASSUME NEW v, NavOK(v), v.depth <= Len(v.stack) - 1 \/ v.stack = <<>>
  PROVE  NavOK(Popped(v))
<1>1. CASE v.stack = <<>>
  BY <1>1 DEF Popped, NavOK, Navs
<1>2. CASE v.stack # <<>>
  <2>1. Front(v.stack) \in Seq(Overlays) /\ Len(Front(v.stack)) = Len(v.stack) - 1
    <3>1. v.stack \in Seq(Overlays) /\ Len(v.stack) \in Nat \ {0}
      BY <1>2, EmptySeq, LenProperties DEF NavOK, Navs
    <3> QED
      BY <3>1, SubSeqProperties DEF Front
  <2> HIDE DEF Overlays
  <2> QED
    BY <1>2, <2>1 DEF Popped, NavOK, Navs
<1> QED
  BY <1>1, <1>2

LEMMA GoingOK ==
  ASSUME NEW v, NavOK(v), NEW n \in Nat, NEW why \in {"back", "close"}
  PROVE  NavOK(Going(v, n, why))
<1>1. Append(v.going, [by |-> n, why |-> why]) \in Seq(Traversals)
  BY DEF NavOK, Navs, Traversals
<1> HIDE DEF Traversals
<1> QED
  BY <1>1 DEF Going, NavOK, Navs

LEMMA RoomShifted ==
  ASSUME NEW v, NavOK(v), Queue(v), Room(v), NEW w, NavOK(w), w.suppress = v.suppress, w.going = v.going,
         w.pos = v.pos + 1,
         w.depth + (IF w.sentinel THEN 1 ELSE 0) <= v.depth + (IF v.sentinel THEN 1 ELSE 0) + 1
  PROVE  Room(w)
<1>1. PICK at \in [0 .. v.suppress -> Nat \ {0}] : Leads(v, at)
  BY DEF Room
<1>2. v.suppress \in Nat /\ v.depth \in Nat /\ w.depth \in Nat /\ v.pos \in Nat
  BY DEF NavOK, Navs
<1> DEFINE up == [i \in 0 .. w.suppress |-> at[i] + 1]
<1>3. up \in [0 .. w.suppress -> Nat \ {0}]
  BY <1>1
<1>4. \A i \in 1 .. v.suppress : at[i - 1] = at[i] + v.going[i].by
  BY <1>1 DEF Leads
<1>5. \A i \in 1 .. w.suppress : up[i - 1] = up[i] + w.going[i].by
  <2> TAKE i \in 1 .. w.suppress
  <2>1. i \in 0 .. v.suppress /\ i - 1 \in 0 .. v.suppress
    BY <1>2
  <2>2. v.going[i].by \in Nat
    <3>1. i \in 1 .. Len(v.going) /\ v.going \in Seq(Traversals)
      BY <1>2 DEF NavOK, Navs, Queue
    <3>2. v.going[i] \in Traversals
      BY <3>1, ElementOfSeq
    <3> QED
      BY <3>2 DEF Traversals
  <2> QED
    BY <1>1, <1>4, <2>1, <2>2
<1>6. up[0] = w.pos /\ up[w.suppress] > w.depth + (IF w.sentinel THEN 1 ELSE 0)
  BY <1>1, <1>2 DEF Leads
<1>7. Leads(w, up)
  BY <1>5, <1>6 DEF Leads
<1> QED
  BY <1>3, <1>7 DEF Room

\* The history of a tab, wherever the tab itself is.
LEMMA ApplyTabSound ==
  ASSUME NEW v, NavOK(v), Queue(v), Room(v), NEW from \in Tabs, NEW to \in Tabs,
         v.sentinel <=> from # "today"
  PROVE  LET w == ApplyTab(v, from, to)
         IN  /\ NavOK(w) /\ Queue(w) /\ Room(w) /\ (w.sentinel <=> to # "today")
             /\ w.pending = v.pending /\ w.suppress = v.suppress /\ w.tab = v.tab
<1> DEFINE w == ApplyTab(v, from, to)
<1>1. CASE from = to
  <2>1. w = v
    BY <1>1 DEF ApplyTab
  <2> QED
    BY <1>1, <2>1
<1>2. CASE from # to /\ to = "today"
  <2> DEFINE u == [v EXCEPT !.sentinel = FALSE]
  <2>1. w = u
    BY <1>2 DEF ApplyTab
  <2>2. /\ NavOK(w) /\ ~u.sentinel /\ v.sentinel
        /\ u.on = v.on /\ u.depth = v.depth /\ u.suppress = v.suppress /\ u.pending = v.pending
        /\ u.pos = v.pos /\ u.going = v.going /\ u.stack = v.stack /\ u.tab = v.tab
    BY <1>2, ApplyTabOK DEF NavOK, Navs
  <2> HIDE DEF u
  <2>3. Queue(u)
    BY <2>2 DEF Queue
  <2>4. Room(u)
    <3>1. PICK at \in [0 .. v.suppress -> Nat \ {0}] : Leads(v, at)
      BY DEF Room
    <3>2. v.depth \in Nat /\ at[v.suppress] \in Nat
      BY <3>1 DEF NavOK, Navs
    <3>3. Leads(u, at)
      BY <2>2, <3>1, <3>2 DEF Leads
    <3> QED
      BY <2>2, <3>1, <3>3 DEF Room
  <2> QED
    BY <1>2, <2>1, <2>2, <2>3, <2>4
<1>3. CASE from # to /\ to # "today" /\ from = "today"
  <2> DEFINE u == [v EXCEPT !.sentinel = TRUE, !.pos = v.pos + 1, !.top = v.pos + 1]
  <2>1. w = u
    BY <1>3 DEF ApplyTab, PushState, NavOK, Navs
  <2>2. /\ NavOK(w) /\ u.sentinel /\ ~v.sentinel
        /\ u.on = v.on /\ u.depth = v.depth /\ u.suppress = v.suppress /\ u.pending = v.pending
        /\ u.pos = v.pos + 1 /\ u.going = v.going /\ u.stack = v.stack /\ u.tab = v.tab
    BY <1>3, ApplyTabOK DEF NavOK, Navs
  <2> HIDE DEF u
  <2>3. Queue(u)
    BY <2>2 DEF Queue
  <2>4. u.depth + 1 <= v.depth + 0 + 1
    BY <2>2 DEF NavOK, Navs
  <2>5. Room(u)
    BY <2>1, <2>2, <2>4, RoomShifted
  <2> QED
    BY <1>3, <2>1, <2>2, <2>3, <2>5
<1>4. CASE from # to /\ to # "today" /\ from # "today"
  BY <1>4 DEF ApplyTab
<1> QED
  BY <1>1, <1>2, <1>3, <1>4

\* What soundness looks at.
LEMMA SoundOfSame ==
  ASSUME NEW v, Queue(v), Room(v), NEW w, w.on = v.on, w.depth = v.depth, w.stack = v.stack,
         w.going = v.going, w.suppress = v.suppress, w.pos = v.pos, w.sentinel = v.sentinel
  PROVE  Queue(w) /\ Room(w)
<1>1. Queue(w)
  BY DEF Queue
<1>2. PICK at \in [0 .. v.suppress -> Nat \ {0}] : Leads(v, at)
  BY DEF Room
<1>3. Leads(w, at)
  BY <1>2 DEF Leads
<1>4. at \in [0 .. w.suppress -> Nat \ {0}]
  BY <1>2
<1> QED
  BY <1>1, <1>3, <1>4 DEF Room

LEMMA SelectTabSound ==
  ASSUME NEW v, NavOK(v), Sound(v), NEW to \in Tabs
  PROVE  Sound(SelectTab(v, v.tab, to))
<1> DEFINE u == SyncTab(v, v.tab, to)
           w == [u EXCEPT !.tab = to]
<1>1. SelectTab(v, v.tab, to) = w
  BY DEF SelectTab
<1>2. v.tab \in Tabs /\ v.on /\ v.suppress \in Nat
  BY DEF NavOK, Navs, Sound, Queue
<1>3. CASE v.tab = to
  <2>1. u = v
    BY <1>3 DEF SyncTab
  <2>2. w = v
    BY <1>3, <2>1 DEF NavOK, Navs
  <2> QED
    BY <1>1, <2>2
<1>4. CASE v.tab # to /\ v.suppress > 0
  <2> DEFINE first == IF v.pending = <<>> THEN v.tab ELSE v.pending[1]
             p == IF first = to THEN <<>> ELSE <<first, to>>
  <2>1. u = [v EXCEPT !.pending = p]
    BY <1>2, <1>4 DEF SyncTab
  <2>2. (v.sentinel <=> first # "today") /\ v.suppress > 0
    BY <1>4 DEF Sound, Place
  <2>3. (p = <<>> <=> first = to) /\ (p # <<>> => p[1] = first /\ p[2] = to)
    BY DEF Tabs
  <2> HIDE DEF p, first
  <2>4. /\ w.on = v.on /\ w.depth = v.depth /\ w.stack = v.stack /\ w.going = v.going
        /\ w.suppress = v.suppress /\ w.pos = v.pos /\ w.sentinel = v.sentinel
        /\ w.pending = p /\ w.tab = to
    BY <2>1 DEF NavOK, Navs
  <2> HIDE DEF u, w
  <2>5. Queue(w) /\ Room(w)
    BY <2>4, SoundOfSame DEF Sound
  <2>6. Place(w)
    BY <2>2, <2>3, <2>4 DEF Place
  <2> QED
    BY <1>1, <2>5, <2>6 DEF Sound
<1>5. CASE v.tab # to /\ v.suppress = 0
  <2>1. u = ApplyTab(v, v.tab, to) /\ v.pending = <<>> /\ (v.sentinel <=> v.tab # "today")
    BY <1>2, <1>5 DEF SyncTab, Sound, Place
  <2>2. /\ NavOK(u) /\ Queue(u) /\ Room(u) /\ (u.sentinel <=> to # "today")
        /\ u.pending = <<>>
    BY <1>2, <2>1, ApplyTabSound DEF Sound
  <2>3. /\ w.on = u.on /\ w.depth = u.depth /\ w.stack = u.stack /\ w.going = u.going
        /\ w.suppress = u.suppress /\ w.pos = u.pos /\ w.sentinel = u.sentinel
        /\ w.pending = u.pending /\ w.tab = to
    BY <2>2 DEF NavOK, Navs
  <2> HIDE DEF u, w
  <2>4. Queue(w) /\ Room(w)
    BY <2>2, <2>3, SoundOfSame
  <2>5. Place(w)
    BY <2>2, <2>3 DEF Place
  <2> QED
    BY <1>1, <2>4, <2>5 DEF Sound
<1> QED
  BY <1>2, <1>3, <1>4, <1>5

-----------------------------------------------------------------------------
(* Opening and closing.                                                    *)

LEMMA AppendFront ==
  ASSUME NEW S, NEW s \in Seq(S), NEW e \in S
  PROVE  /\ Append(s, e) \in Seq(S) /\ Len(Append(s, e)) = Len(s) + 1 /\ Append(s, e) # <<>>
         /\ \A i \in 1 .. Len(s) : Append(s, e)[i] = s[i]
         /\ Append(s, e)[Len(s) + 1] = e
BY AppendProperties

LEMMA PushIs ==
  ASSUME NEW v, NavOK(v), NEW o \in Overlays
  PROVE  /\ NavOK(Push(v, o)) /\ Push(v, o).going = v.going /\ Push(v, o).on = v.on
         /\ Sound(v) => Sound(Push(v, o))
<1> DEFINE st == Append(v.stack, o)
           d == v.depth + 1
           w == [v EXCEPT !.stack = st]
           u == [v EXCEPT !.stack = st, !.depth = d, !.pos = v.pos + 1, !.top = v.pos + 1]
<1>1. st \in Seq(Overlays) /\ Len(st) = Len(v.stack) + 1
  BY AppendFront DEF NavOK, Navs
<1>2. v.depth \in Nat /\ v.pos \in Nat /\ d \in Nat /\ v.pos + 1 \in Nat \ {0}
  BY DEF NavOK, Navs
<1>3. CASE ~v.on
  <2>1. Push(v, o) = w
    BY <1>3 DEF Push
  <2> HIDE DEF st, d
  <2>2. w \in Navs /\ w.depth = v.depth /\ w.stack = st /\ w.pos = v.pos /\ w.top = v.top
        /\ w.on = v.on /\ w.going = v.going
    BY <1>1 DEF NavOK, Navs
  <2> HIDE DEF w
  <2>3. NavOK(w)
    <3>1. v.depth <= Len(v.stack) /\ Len(v.stack) \in Nat
      BY DEF NavOK, Navs
    <3> QED
      BY <1>1, <1>2, <2>2, <3>1 DEF NavOK
  <2> QED
    BY <1>3, <2>1, <2>2, <2>3 DEF Sound, Queue
<1>4. CASE v.on
  <2>1. Push(v, o) = u
    BY <1>4 DEF Push, PushState, NavOK, Navs
  <2> HIDE DEF st
  <2>2. /\ u \in Navs /\ u.depth = v.depth + 1 /\ u.stack = st /\ u.pos = v.pos + 1
        /\ u.top = v.pos + 1 /\ u.on = v.on /\ u.going = v.going /\ u.suppress = v.suppress
        /\ u.pending = v.pending /\ u.tab = v.tab /\ u.sentinel = v.sentinel
    BY <1>1, <1>2 DEF NavOK, Navs
  <2> HIDE DEF u
  <2>3. NavOK(u)
    <3>1. v.depth <= Len(v.stack) /\ Len(v.stack) \in Nat
      BY DEF NavOK, Navs
    <3> QED
      BY <1>1, <1>2, <1>4, <2>2, <3>1 DEF NavOK
  <2>4. ASSUME Sound(v) PROVE Sound(u)
    <3>1. Queue(u)
      BY <1>1, <2>2, <2>4 DEF Sound, Queue
    <3>2. Place(u)
      BY <2>2, <2>4 DEF Sound, Place
    <3>3. u.depth + (IF u.sentinel THEN 1 ELSE 0) <= v.depth + (IF v.sentinel THEN 1 ELSE 0) + 1
      BY <1>2, <2>2
    <3>4. Room(u)
      BY <2>2, <2>3, <2>4, <3>3, RoomShifted DEF Sound
    <3> QED
      BY <3>1, <3>2, <3>4 DEF Sound
  <2> QED
    BY <2>1, <2>2, <2>3, <2>4
<1> QED
  BY <1>3, <1>4

\* A traversal is asked for, and nothing else changes.
Asked(w, v, n, why) ==
  /\ w.on = v.on /\ w.depth = v.depth /\ w.stack = v.stack /\ w.tab = v.tab
  /\ w.suppress = v.suppress /\ w.pending = v.pending /\ w.pos = v.pos
  /\ w.sentinel = v.sentinel
  /\ Len(w.going) = Len(v.going) + 1
  /\ \A i \in 1 .. Len(v.going) : w.going[i] = v.going[i]
  /\ w.going[Len(v.going) + 1] = [by |-> n, why |-> why]

LEMMA GoingIs ==
  ASSUME NEW v, NavOK(v), NEW n \in Nat, NEW why \in {"back", "close"}
  PROVE  Asked(Going(v, n, why), v, n, why)
<1> DEFINE e == [by |-> n, why |-> why]
           g == Append(v.going, e)
           w == Going(v, n, why)
<1>1. e \in Traversals /\ v.going \in Seq(Traversals)
  BY DEF NavOK, Navs, Traversals
<1>2. /\ Len(g) = Len(v.going) + 1
      /\ \A i \in 1 .. Len(v.going) : g[i] = v.going[i]
      /\ g[Len(v.going) + 1] = e
  <2> HIDE DEF e
  <2> QED
    BY <1>1, AppendFront
<1>3. w = [v EXCEPT !.going = g]
  BY DEF Going, NavOK, Navs
<1> HIDE DEF g
<1>4. /\ w.on = v.on /\ w.depth = v.depth /\ w.stack = v.stack /\ w.tab = v.tab
      /\ w.suppress = v.suppress /\ w.pending = v.pending /\ w.pos = v.pos
      /\ w.sentinel = v.sentinel /\ w.going = g
  BY <1>3 DEF NavOK, Navs
<1> QED
  BY <1>2, <1>4 DEF Asked

\* A step back is asked for.
LEMMA BackSound ==
  ASSUME NEW v, NavOK(v), Sound(v)
  PROVE  Sound(Going(v, 1, "back"))
<1> DEFINE w == Going(v, 1, "back")
<1>0. Asked(w, v, 1, "back")
  BY GoingIs
<1> HIDE DEF w
<1>1. /\ w.on = v.on /\ w.depth = v.depth /\ w.stack = v.stack /\ w.tab = v.tab
      /\ w.suppress = v.suppress /\ w.pending = v.pending /\ w.pos = v.pos
      /\ w.sentinel = v.sentinel
      /\ Len(w.going) = Len(v.going) + 1
      /\ \A i \in 1 .. Len(v.going) : w.going[i] = v.going[i]
      /\ w.going[Len(v.going) + 1] = [by |-> 1, why |-> "back"]
  BY <1>0 DEF Asked
<1>2. Len(v.going) \in Nat /\ v.suppress \in Nat /\ v.suppress <= Len(v.going)
  BY DEF NavOK, Navs, Sound, Queue
<1>3. Queue(w)
  <2>1. ASSUME NEW i \in 1 .. Len(w.going)
        PROVE IF i <= w.suppress THEN w.going[i].why = "close"
              ELSE w.going[i].why = "back" /\ w.going[i].by = 1
    <3>1. CASE i \in 1 .. Len(v.going)
      BY <1>1, <1>2, <3>1 DEF Sound, Queue
    <3>2. CASE i = Len(v.going) + 1
      BY <1>1, <1>2, <3>2
    <3> QED
      BY <1>1, <1>2, <2>1, <3>1, <3>2
  <2> QED
    BY <1>1, <1>2, <2>1 DEF Sound, Queue
<1>4. Place(w)
  BY <1>1 DEF Sound, Place
<1>5. Room(w)
  <2>1. PICK at \in [0 .. v.suppress -> Nat \ {0}] : Leads(v, at)
    BY DEF Sound, Room
  <2>2. \A i \in 1 .. v.suppress : w.going[i] = v.going[i]
    BY <1>1, <1>2
  <2>3. Leads(w, at)
    BY <1>1, <2>1, <2>2 DEF Leads
  <2> QED
    BY <1>1, <2>1, <2>3 DEF Room
<1> QED
  BY <1>3, <1>4, <1>5 DEF Sound, w

\* What is closed is counted off, and its entries are left by a traversal of their own.
LEMMA CloseAllIs ==
  ASSUME NEW v, NavOK(v)
  PROVE  /\ NavOK(CloseAll(v)) /\ CloseAll(v).on = v.on /\ CloseAll(v).tab = v.tab
         /\ CloseAll(v).depth = 0
         /\ v.depth = 0 => CloseAll(v).going = v.going
         /\ v.depth > 0 =>
              /\ Len(CloseAll(v).going) = Len(v.going) + 1
              /\ \A i \in 1 .. Len(v.going) : CloseAll(v).going[i] = v.going[i]
              /\ CloseAll(v).going[Len(v.going) + 1].why = "close"
         /\ Sound(v) /\ (v.depth = 0 \/ v.suppress = Len(v.going)) => Sound(CloseAll(v))
<1> DEFINE w == [v EXCEPT !.stack = <<>>]
           k == v.suppress + 1
           u == [w EXCEPT !.depth = 0, !.suppress = k]
           x == Going(u, v.depth, "close")
<1>1. v.depth \in Nat /\ v.suppress \in Nat /\ k \in Nat /\ Len(v.going) \in Nat
  BY DEF NavOK, Navs
<1>2. <<>> \in Seq(Overlays)
  BY EmptySeq
<1>3. CASE ~(v.on /\ v.depth > 0)
  <2>1. CloseAll(v) = w /\ v.depth = 0
    BY <1>1, <1>3 DEF CloseAll, NavOK
  <2>2. /\ w \in Navs /\ w.on = v.on /\ w.depth = v.depth /\ w.stack = <<>> /\ w.tab = v.tab
        /\ w.going = v.going /\ w.suppress = v.suppress /\ w.pos = v.pos /\ w.top = v.top
        /\ w.sentinel = v.sentinel /\ w.pending = v.pending
    BY <1>2 DEF NavOK, Navs
  <2> HIDE DEF w
  <2>3. NavOK(w)
    BY <1>1, <2>1, <2>2, EmptySeq DEF NavOK
  <2>4. ASSUME Sound(v) PROVE Sound(w)
    <3>1. Len(v.stack) = 0 /\ v.stack \in Seq(Overlays)
      BY <2>1, <2>4 DEF Sound, Queue, NavOK, Navs
    <3>2. w.stack = v.stack
      BY <2>2, <3>1, EmptySeq
    <3>3. Queue(w) /\ Room(w)
      BY <2>2, <2>4, <3>2, SoundOfSame DEF Sound
    <3>4. Place(w)
      BY <2>2, <2>4 DEF Sound, Place
    <3> QED
      BY <3>3, <3>4 DEF Sound
  <2> QED
    BY <1>1, <2>1, <2>2, <2>3, <2>4
<1>4. CASE v.on /\ v.depth > 0
  <2>1. CloseAll(v) = x
    BY <1>4 DEF CloseAll, NavOK, Navs
  <2> HIDE DEF k
  <2>2. /\ u \in Navs /\ u.on = v.on /\ u.depth = 0 /\ u.stack = <<>> /\ u.tab = v.tab
        /\ u.going = v.going /\ u.suppress = k /\ u.pos = v.pos /\ u.top = v.top
        /\ u.sentinel = v.sentinel /\ u.pending = v.pending
    BY <1>1, <1>2 DEF NavOK, Navs
  <2> HIDE DEF u
  <2>3. NavOK(u)
    BY <1>1, <2>2, EmptySeq DEF NavOK
  <2>4. NavOK(x) /\ Asked(x, u, v.depth, "close")
    BY <1>1, <2>3, GoingOK, GoingIs
  <2> HIDE DEF x
  <2>5. /\ x.on = v.on /\ x.depth = 0 /\ x.stack = <<>> /\ x.tab = v.tab /\ x.suppress = k
        /\ x.pending = v.pending /\ x.pos = v.pos /\ x.sentinel = v.sentinel
        /\ Len(x.going) = Len(v.going) + 1
        /\ \A i \in 1 .. Len(v.going) : x.going[i] = v.going[i]
        /\ x.going[Len(v.going) + 1] = [by |-> v.depth, why |-> "close"]
    BY <2>2, <2>4 DEF Asked
  <2>6. ASSUME Sound(v), v.suppress = Len(v.going) PROVE Sound(x)
    <3>1. k = Len(v.going) + 1 /\ k = Len(x.going)
      BY <1>1, <2>5, <2>6 DEF k
    <3>2. Queue(x)
      <4>1. \A i \in 1 .. Len(v.going) : v.going[i].why = "close"
        BY <1>1, <2>6 DEF Sound, Queue
      <4>2. ASSUME NEW i \in 1 .. Len(x.going) PROVE x.going[i].why = "close"
        BY <1>1, <2>5, <4>1, <4>2
      <4> QED
        BY <1>1, <1>4, <2>5, <3>1, <4>2, EmptySeq DEF Queue
    <3>3. Place(x)
      BY <1>1, <2>5, <2>6, <3>1 DEF Sound, Place
    <3>4. Room(x)
      <4>1. PICK at \in [0 .. v.suppress -> Nat \ {0}] : Leads(v, at)
        BY <2>6 DEF Sound, Room
      <4> DEFINE z == at[v.suppress] - v.depth
                 to == [i \in 0 .. k |-> IF i = k THEN z ELSE at[i]]
      <4>2. at[v.suppress] \in Nat /\ at[v.suppress] > v.depth + (IF v.sentinel THEN 1 ELSE 0)
        BY <1>1, <4>1 DEF Leads
      <4>3. z \in Nat \ {0} /\ z > (IF v.sentinel THEN 1 ELSE 0) /\ z + v.depth = at[v.suppress]
        BY <1>1, <4>2
      <4> HIDE DEF z
      <4>4. to \in [0 .. x.suppress -> Nat \ {0}]
        BY <1>1, <2>5, <4>1, <4>3 DEF k
      <4>5. ASSUME NEW i \in 1 .. x.suppress PROVE to[i - 1] = to[i] + x.going[i].by
        <5>1. CASE i = k
          <6>1. x.going[i].by = v.depth /\ i - 1 = v.suppress /\ i - 1 # k
            BY <1>1, <2>5, <3>1, <5>1 DEF k
          <6>2. to[i] = z /\ to[i - 1] = at[v.suppress]
            BY <1>1, <5>1, <6>1 DEF k
          <6> QED
            BY <4>3, <6>1, <6>2
        <5>2. CASE i # k
          <6>1. i \in 1 .. v.suppress /\ i - 1 # k /\ i \in 1 .. Len(v.going)
            BY <1>1, <2>5, <2>6, <4>5, <5>2 DEF k
          <6>2. to[i] = at[i] /\ to[i - 1] = at[i - 1] /\ x.going[i] = v.going[i]
            BY <1>1, <2>5, <5>2, <6>1 DEF k
          <6> QED
            BY <4>1, <6>1, <6>2 DEF Leads
        <5> QED
          BY <5>1, <5>2
      <4>6. to[0] = x.pos /\ to[x.suppress] > x.depth + (IF x.sentinel THEN 1 ELSE 0)
        BY <1>1, <2>5, <4>1, <4>3 DEF Leads, k
      <4>7. Leads(x, to)
        BY <4>5, <4>6 DEF Leads
      <4> QED
        BY <4>4, <4>7 DEF Room
    <3> QED
      BY <3>2, <3>3, <3>4 DEF Sound
  <2> QED
    BY <1>1, <1>4, <2>1, <2>4, <2>5, <2>6
<1> QED
  BY <1>3, <1>4

LEMMA PopIs ==
  ASSUME NEW v, NavOK(v)
  PROVE  /\ NavOK(Pop(v)) /\ Pop(v).on = v.on
         /\ Sound(v) => Sound(Pop(v))
<1>1. v.depth \in Nat /\ v.stack \in Seq(Overlays) /\ Len(v.stack) \in Nat
  BY DEF NavOK, Navs
<1>2. CASE v.on /\ v.depth > 0
  <2>1. Pop(v) = Going(v, 1, "back")
    BY <1>2 DEF Pop
  <2>2. Asked(Going(v, 1, "back"), v, 1, "back") /\ NavOK(Going(v, 1, "back"))
    BY GoingIs, GoingOK
  <2> QED
    BY <2>1, <2>2, BackSound DEF Asked
<1>3. CASE ~(v.on /\ v.depth > 0)
  <2>1. Pop(v) = Popped(v) /\ v.depth = 0
    BY <1>1, <1>3 DEF Pop, NavOK
  <2>2. v.stack = <<>> \/ Len(v.stack) > 0
    BY <1>1, EmptySeq, LenProperties
  <2>3. NavOK(Popped(v))
    BY <1>1, <2>1, <2>2, PoppedOK
  <2>4. Popped(v).on = v.on
    BY DEF Popped, NavOK, Navs
  <2>5. ASSUME Sound(v) PROVE Sound(Popped(v))
    <3>1. v.stack = <<>>
      BY <1>1, <2>1, <2>2, <2>5 DEF Sound, Queue
    <3>2. Popped(v) = v
      BY <3>1 DEF Popped, NavOK, Navs
    <3> QED
      BY <2>5, <3>2
  <2> QED
    BY <2>1, <2>3, <2>4, <2>5
<1> QED
  BY <1>2, <1>3

-----------------------------------------------------------------------------
(* The popstate events.                                                    *)

LEMMA PopStateOK ==
  ASSUME NEW v, NavOK(v)
  PROVE  NavOK(PopState(v)) /\ PopState(v).on = v.on
<1> DEFINE k == v.suppress - 1
           d == v.depth - 1
           x == [v EXCEPT !.suppress = 0, !.pending = <<>>]
           y == [v EXCEPT !.suppress = k]
           z == [v EXCEPT !.depth = d]
           t == [v EXCEPT !.sentinel = FALSE, !.tab = "today"]
<1>1. v.suppress \in Nat /\ v.depth \in Nat /\ v.stack \in Seq(Overlays) /\ Len(v.stack) \in Nat
  BY DEF NavOK, Navs
<1>2. CASE ~v.on
  BY <1>2 DEF PopState
<1>3. CASE v.on /\ v.suppress = 1 /\ v.pending # <<>>
  <2>1. PopState(v) = ApplyTab(x, v.pending[1], v.pending[2])
    BY <1>3 DEF PopState
  <2>2. NavOK(x) /\ x.on = v.on
    BY DEF NavOK, Navs
  <2>3. v.pending[1] \in Tabs /\ v.pending[2] \in Tabs
    BY <1>3 DEF NavOK, Navs
  <2> HIDE DEF x
  <2> QED
    BY <2>1, <2>2, <2>3, ApplyTabOK
<1>4. CASE v.on /\ v.suppress > 0 /\ ~(v.suppress = 1 /\ v.pending # <<>>)
  <2>1. PopState(v) = y
    BY <1>4 DEF PopState, NavOK, Navs
  <2>2. k \in Nat
    BY <1>1, <1>4
  <2> HIDE DEF k
  <2>3. NavOK(y) /\ y.on = v.on
    BY <2>2 DEF NavOK, Navs
  <2> QED
    BY <2>1, <2>3
<1>5. CASE v.on /\ ~(v.suppress > 0) /\ v.depth > 0
  <2>1. PopState(v) = Popped(z)
    BY <1>1, <1>5 DEF PopState, NavOK, Navs
  <2>2. d \in Nat /\ d <= Len(v.stack) - 1
    BY <1>1, <1>5 DEF NavOK
  <2> HIDE DEF d
  <2>3. /\ z \in Navs /\ z.on = v.on /\ z.stack = v.stack /\ z.depth = d /\ z.pos = v.pos
        /\ z.top = v.top
    BY <2>2 DEF NavOK, Navs
  <2> HIDE DEF z
  <2>4. NavOK(z)
    BY <1>1, <1>5, <2>2, <2>3 DEF NavOK
  <2>5. Popped(z).on = z.on
    BY <2>3 DEF Popped, Navs
  <2> QED
    BY <2>1, <2>2, <2>3, <2>4, <2>5, PoppedOK
<1>6. CASE v.on /\ ~(v.suppress > 0) /\ ~(v.depth > 0)
  <2>1. PopState(v) \in {t, v}
    BY <1>1, <1>6 DEF PopState
  <2>2. NavOK(t) /\ t.on = v.on
    BY DEF NavOK, Navs, Tabs
  <2> HIDE DEF t
  <2> QED
    BY <2>1, <2>2
<1> QED
  BY <1>2, <1>3, <1>4, <1>5, <1>6

\* The first traversal is over.
LEMMA RestIs ==
  ASSUME NEW v, NavOK(v), v.going # <<>>
  PROVE  LET n == Head(v.going).by
             rest == [v EXCEPT !.going = Tail(@)]
         IN  /\ n \in Nat /\ n = v.going[1].by /\ NavOK(rest)
             /\ n < v.pos => NavOK([rest EXCEPT !.pos = @ - n])
<1> DEFINE n == Head(v.going).by
           tl == Tail(v.going)
           rest == [v EXCEPT !.going = Tail(@)]
<1>1. v.going \in Seq(Traversals) /\ v.pos \in Nat /\ v.top \in Nat /\ v.pos <= v.top
  BY DEF NavOK, Navs
<1>2. Head(v.going) \in Traversals /\ tl \in Seq(Traversals) /\ Head(v.going) = v.going[1]
  BY <1>1, HeadTailProperties
<1>3. n \in Nat /\ n = v.going[1].by
  BY <1>2 DEF Traversals
<1>4. rest = [v EXCEPT !.going = tl]
  BY DEF NavOK, Navs
<1> HIDE DEF tl
<1>5. /\ rest \in Navs /\ rest.depth = v.depth /\ rest.stack = v.stack /\ rest.on = v.on
      /\ rest.pos = v.pos /\ rest.top = v.top
  BY <1>2, <1>4 DEF NavOK, Navs
<1> HIDE DEF rest, n
<1>6. NavOK(rest)
  BY <1>5 DEF NavOK
<1>7. ASSUME n < v.pos PROVE NavOK([rest EXCEPT !.pos = @ - n])
  <2> DEFINE q == v.pos - n
             u == [rest EXCEPT !.pos = q]
  <2>1. q \in Nat \ {0} /\ q <= v.top
    BY <1>1, <1>3, <1>7
  <2>2. [rest EXCEPT !.pos = @ - n] = u
    BY <1>5 DEF Navs
  <2> HIDE DEF q
  <2>3. /\ u \in Navs /\ u.depth = rest.depth /\ u.stack = rest.stack /\ u.on = rest.on
        /\ u.pos = q /\ u.top = rest.top
    BY <1>5, <2>1 DEF Navs
  <2> HIDE DEF u
  <2>4. NavOK(u)
    BY <1>5, <1>6, <2>1, <2>3 DEF NavOK
  <2> QED
    BY <2>2, <2>4
<1> QED
  BY <1>3, <1>6, <1>7 DEF rest, n

\* What is left of the queue when its first traversal is over.
LEMMA QueueShifts ==
  ASSUME NEW v, NavOK(v), Queue(v), v.going # <<>>, NEW w, w.on = v.on,
         w.depth = Len(w.stack), w.going = Tail(v.going),
         v.suppress > 0 => w.suppress = v.suppress - 1, v.suppress = 0 => w.suppress = 0
  PROVE  Queue(w)
<1>1. v.going \in Seq(Traversals) /\ v.suppress \in Nat /\ v.suppress <= Len(v.going)
  BY DEF NavOK, Navs, Queue
<1>2. /\ Len(w.going) = Len(v.going) - 1 /\ Len(v.going) \in Nat \ {0}
      /\ \A i \in 1 .. Len(w.going) : w.going[i] = v.going[i + 1]
  BY <1>1, HeadTailProperties, EmptySeq, LenProperties
<1>3. w.suppress \in Nat /\ w.suppress <= Len(w.going)
  BY <1>1, <1>2
<1>4. ASSUME NEW i \in 1 .. Len(w.going)
      PROVE IF i <= w.suppress THEN w.going[i].why = "close"
            ELSE w.going[i].why = "back" /\ w.going[i].by = 1
  <2>1. i + 1 \in 1 .. Len(v.going) /\ w.going[i] = v.going[i + 1]
        /\ (i <= w.suppress <=> i + 1 <= v.suppress)
    BY <1>1, <1>2, <1>3
  <2> QED
    BY <2>1 DEF Queue
<1> QED
  BY <1>3, <1>4 DEF Queue

\* Where the rest of the closing traversals lead.
LEMMA RoomAfterClose ==
  ASSUME NEW v, NavOK(v), Queue(v), Room(v), v.going # <<>>, v.suppress > 0,
         NEW w, w.going = Tail(v.going), w.suppress = v.suppress - 1,
         w.pos = v.pos - v.going[1].by, w.depth = v.depth, w.sentinel = v.sentinel
  PROVE  Room(w) /\ v.going[1].by < v.pos
<1>1. v.going \in Seq(Traversals) /\ v.suppress \in Nat /\ v.suppress <= Len(v.going)
      /\ v.pos \in Nat
  BY DEF NavOK, Navs, Queue
<1>2. /\ Len(w.going) = Len(v.going) - 1 /\ Len(v.going) \in Nat \ {0}
      /\ \A i \in 1 .. Len(w.going) : w.going[i] = v.going[i + 1]
  BY <1>1, HeadTailProperties, EmptySeq, LenProperties
<1>3. v.going[1].by \in Nat
  <2>1. v.going[1] \in Traversals
    BY <1>1, <1>2, ElementOfSeq
  <2> QED
    BY <2>1 DEF Traversals
<1>4. PICK at \in [0 .. v.suppress -> Nat \ {0}] : Leads(v, at)
  BY DEF Room
<1>5. at[0] = v.pos /\ at[0] = at[1] + v.going[1].by /\ at[1] \in Nat \ {0}
  <2>1. 1 \in 1 .. v.suppress /\ 1 \in 0 .. v.suppress
    BY <1>1
  <2>2. at[1 - 1] = at[1] + v.going[1].by
    BY <1>4, <2>1 DEF Leads
  <2> QED
    BY <1>4, <2>1, <2>2 DEF Leads
<1>6. v.going[1].by < v.pos /\ w.pos = at[1]
  BY <1>1, <1>3, <1>5
<1> DEFINE to == [i \in 0 .. w.suppress |-> at[i + 1]]
<1>7. to \in [0 .. w.suppress -> Nat \ {0}]
  BY <1>1, <1>4
<1>8. ASSUME NEW i \in 1 .. w.suppress PROVE to[i - 1] = to[i] + w.going[i].by
  <2>1. i + 1 \in 1 .. v.suppress /\ w.going[i] = v.going[i + 1]
        /\ i - 1 \in 0 .. w.suppress /\ i \in 0 .. w.suppress /\ (i + 1) - 1 = i /\ (i - 1) + 1 = i
    <3>1. i \in 1 .. (v.suppress - 1) /\ i \in Nat
      BY <1>1
    <3>2. i \in 1 .. Len(w.going)
      BY <1>1, <1>2, <3>1
    <3> QED
      BY <1>1, <1>2, <3>1, <3>2
  <2>2. at[(i + 1) - 1] = at[i + 1] + v.going[i + 1].by
    BY <1>4, <2>1 DEF Leads
  <2>3. to[i - 1] = at[i] /\ to[i] = at[i + 1]
    BY <2>1
  <2> QED
    BY <2>1, <2>2, <2>3
<1>9. to[0] = w.pos /\ to[w.suppress] > w.depth + (IF w.sentinel THEN 1 ELSE 0)
  <2>1. to[0] = at[1] /\ to[w.suppress] = at[v.suppress]
    BY <1>1
  <2> QED
    BY <1>4, <1>6, <2>1 DEF Leads
<1>10. Leads(w, to)
  BY <1>8, <1>9 DEF Leads
<1> QED
  BY <1>6, <1>7, <1>10 DEF Room

LEMMA TraverseSound ==
  ASSUME NEW v, NavOK(v), Sound(v), v.going # <<>>
  PROVE  LET n == Head(v.going).by
             rest == [v EXCEPT !.going = Tail(@)]
         IN  IF n < v.pos THEN Sound(PopState([rest EXCEPT !.pos = @ - n])) ELSE Sound(rest)
<1> DEFINE n == Head(v.going).by
           tl == Tail(v.going)
           rest == [v EXCEPT !.going = Tail(@)]
           q == v.pos - n
           u == [rest EXCEPT !.pos = @ - n]
<1>1. n \in Nat /\ n = v.going[1].by /\ NavOK(rest) /\ (n < v.pos => NavOK(u))
  BY RestIs
<1>2. /\ v.going \in Seq(Traversals) /\ v.suppress \in Nat /\ v.depth \in Nat /\ v.pos \in Nat
      /\ v.on /\ v.depth = Len(v.stack) /\ v.suppress <= Len(v.going)
  BY DEF NavOK, Navs, Sound, Queue
<1>3. /\ rest.on = v.on /\ rest.depth = v.depth /\ rest.stack = v.stack /\ rest.tab = v.tab
      /\ rest.going = tl /\ rest.suppress = v.suppress /\ rest.pos = v.pos
      /\ rest.sentinel = v.sentinel /\ rest.pending = v.pending
  BY DEF NavOK, Navs
<1>4. /\ u.on = v.on /\ u.depth = v.depth /\ u.stack = v.stack /\ u.tab = v.tab
      /\ u.going = tl /\ u.suppress = v.suppress /\ u.pos = q
      /\ u.sentinel = v.sentinel /\ u.pending = v.pending
  BY DEF NavOK, Navs
<1>5. v.suppress = 0 => n = 1
  <2>1. 1 \in 1 .. Len(v.going)
    BY <1>2, EmptySeq, LenProperties
  <2> QED
    BY <1>1, <1>2, <2>1 DEF Sound, Queue
<1>51. Queue(v) /\ Room(v) /\ Place(v)
  BY DEF Sound
<1> HIDE DEF n, tl
<1>6. PICK at \in [0 .. v.suppress -> Nat \ {0}] : Leads(v, at)
  BY DEF Sound, Room
<1>7. CASE ~(n < v.pos)
  <2>1. v.suppress = 0 /\ v.pos = 1 /\ v.depth = 0 /\ ~v.sentinel
    <3>1. v.suppress = 0
      <4>1. ASSUME v.suppress > 0 PROVE v.going[1].by < v.pos
        <5> DEFINE w == [going |-> tl, suppress |-> v.suppress - 1, pos |-> v.pos - v.going[1].by,
                         depth |-> v.depth, sentinel |-> v.sentinel]
        <5>1. /\ w.going = Tail(v.going) /\ w.suppress = v.suppress - 1
              /\ w.pos = v.pos - v.going[1].by /\ w.depth = v.depth /\ w.sentinel = v.sentinel
          BY DEF tl
        <5> HIDE DEF w
        <5> QED
          BY <1>51, <4>1, <5>1, RoomAfterClose
      <4> QED
        BY <1>1, <1>2, <1>7, <4>1
    <3>2. v.pos = 1
      <4>1. v.pos # 0
        BY DEF NavOK, Navs
      <4> QED
        BY <1>2, <1>5, <1>7, <3>1, <4>1
    <3>3. at[0] = v.pos /\ at[0] > v.depth + (IF v.sentinel THEN 1 ELSE 0)
      BY <1>6, <3>1 DEF Leads
    <3>4. CASE v.sentinel
      BY <1>2, <3>1, <3>2, <3>3, <3>4
    <3>5. CASE ~v.sentinel
      BY <1>2, <3>1, <3>2, <3>3, <3>5
    <3> QED
      BY <3>4, <3>5
  <2> HIDE DEF rest
  <2>2. Queue(rest)
    <3>1. rest.on = v.on /\ rest.depth = Len(rest.stack) /\ rest.going = Tail(v.going)
          /\ (v.suppress > 0 => rest.suppress = v.suppress - 1)
          /\ (v.suppress = 0 => rest.suppress = 0)
      BY <1>2, <1>3, <2>1 DEF tl
    <3> QED
      BY <1>51, <3>1, QueueShifts
  <2>3. Place(rest)
    BY <1>3 DEF Sound, Place
  <2>4. Leads(rest, at) /\ at \in [0 .. rest.suppress -> Nat \ {0}]
    BY <1>3, <1>6, <2>1 DEF Leads
  <2> QED
    BY <1>7, <2>2, <2>3, <2>4 DEF Sound, Room, rest, n
<1>8. CASE n < v.pos
  <2> HIDE DEF u
  <2>0. NavOK(u) /\ q \in Nat
    BY <1>1, <1>2, <1>8
  <2>1. CASE v.suppress > 0
    <3> DEFINE k == v.suppress - 1
               y == [u EXCEPT !.suppress = k]
               x == [u EXCEPT !.suppress = 0, !.pending = <<>>]
    <3>1. /\ NavOK(x) /\ x.on = v.on /\ x.depth = v.depth /\ x.stack = v.stack /\ x.tab = v.tab
          /\ x.going = tl /\ x.suppress = 0 /\ x.pos = q /\ x.sentinel = v.sentinel
          /\ x.pending = <<>>
      BY <1>4, <2>0 DEF NavOK, Navs
    <3>2. k \in Nat
      BY <1>2, <2>1
    <3> HIDE DEF k, x
    <3>3. /\ NavOK(y) /\ y.on = v.on /\ y.depth = v.depth /\ y.stack = v.stack /\ y.tab = v.tab
          /\ y.going = tl /\ y.suppress = k /\ y.pos = q /\ y.sentinel = v.sentinel
          /\ y.pending = v.pending
      BY <1>4, <2>0, <3>2 DEF NavOK, Navs
    <3> HIDE DEF y
    <3>4. CASE v.suppress = 1 /\ v.pending # <<>>
      <4> DEFINE a == v.pending[1]
                 b == v.pending[2]
      <4>1. PopState(u) = ApplyTab(x, a, b)
        BY <1>2, <1>4, <3>4 DEF PopState, x
      <4>2. Queue(x)
        <5>1. x.on = v.on /\ x.depth = Len(x.stack) /\ x.going = Tail(v.going)
              /\ (v.suppress > 0 => x.suppress = v.suppress - 1)
              /\ (v.suppress = 0 => x.suppress = 0)
          BY <1>2, <2>1, <3>1, <3>4 DEF tl
        <5> QED
          BY <1>51, <5>1, QueueShifts
      <4>3. Room(x)
        <5>1. /\ x.going = Tail(v.going) /\ x.suppress = v.suppress - 1
              /\ x.pos = v.pos - v.going[1].by /\ x.depth = v.depth /\ x.sentinel = v.sentinel
          BY <1>1, <1>2, <3>1, <3>4 DEF tl
        <5> QED
          BY <1>51, <2>1, <5>1, RoomAfterClose
      <4>4. a \in Tabs /\ b \in Tabs /\ v.tab = b /\ (v.sentinel <=> a # "today")
        BY <3>4 DEF NavOK, Navs, Sound, Place
      <4> HIDE DEF a, b
      <4> DEFINE w == ApplyTab(x, a, b)
      <4>5. /\ NavOK(w) /\ Queue(w) /\ Room(w) /\ (w.sentinel <=> b # "today")
            /\ w.pending = <<>> /\ w.tab = b
        BY <3>1, <4>2, <4>3, <4>4, ApplyTabSound
      <4> HIDE DEF w
      <4>6. Place(w)
        BY <4>5 DEF Place
      <4>7. Sound(w)
        BY <4>5, <4>6 DEF Sound
      <4> QED
        BY <1>8, <4>1, <4>7 DEF u, w, n
    <3>5. CASE ~(v.suppress = 1 /\ v.pending # <<>>)
      <4>1. PopState(u) = y
        BY <1>2, <1>4, <2>0, <2>1, <3>5 DEF PopState, y, k, NavOK, Navs
      <4>2. Queue(y)
        <5>1. y.on = v.on /\ y.depth = Len(y.stack) /\ y.going = Tail(v.going)
              /\ (v.suppress > 0 => y.suppress = v.suppress - 1)
              /\ (v.suppress = 0 => y.suppress = 0)
          BY <1>2, <2>1, <3>3 DEF tl, k
        <5> QED
          BY <1>51, <5>1, QueueShifts
      <4>3. Room(y)
        <5>1. /\ y.going = Tail(v.going) /\ y.suppress = v.suppress - 1
              /\ y.pos = v.pos - v.going[1].by /\ y.depth = v.depth /\ y.sentinel = v.sentinel
          BY <1>1, <3>3 DEF tl, k
        <5> QED
          BY <1>51, <2>1, <5>1, RoomAfterClose
      <4>4. v.pending # <<>> => v.suppress > 1
        BY <1>2, <2>1, <3>5
      <4>5. v.pending # <<>> => y.suppress > 0
        BY <1>2, <3>3, <4>4 DEF k
      <4>6. Place(y)
        BY <3>3, <4>5 DEF Sound, Place
      <4>7. Sound(y)
        BY <4>2, <4>3, <4>6 DEF Sound
      <4> QED
        BY <1>8, <4>1, <4>7 DEF u, n
    <3> QED
      BY <3>4, <3>5
  <2>2. CASE ~(v.suppress > 0)
    <3>1. v.suppress = 0 /\ n = 1 /\ q = v.pos - 1 /\ v.pending = <<>>
          /\ (v.sentinel <=> v.tab # "today")
      BY <1>2, <1>5, <2>2 DEF Sound, Place
    <3>2. v.pos > v.depth + (IF v.sentinel THEN 1 ELSE 0)
      BY <1>6, <3>1 DEF Leads
    <3>3. ASSUME NEW w, w.on = v.on, w.depth = Len(w.stack), w.going = tl, w.suppress = 0,
                 w.pending = <<>>, w.sentinel <=> w.tab # "today", w.pos = q,
                 q > w.depth + (IF w.sentinel THEN 1 ELSE 0)
          PROVE Sound(w)
      <4>1. Queue(w)
        <5>1. w.on = v.on /\ w.depth = Len(w.stack) /\ w.going = Tail(v.going)
              /\ (v.suppress > 0 => w.suppress = v.suppress - 1)
              /\ (v.suppress = 0 => w.suppress = 0)
          BY <3>1, <3>3 DEF tl
        <5> QED
          BY <1>51, <5>1, QueueShifts
      <4>2. Place(w)
        BY <3>3 DEF Place
      <4> DEFINE here == [i \in 0 .. w.suppress |-> q]
      <4>3. q \in Nat \ {0}
        BY <1>2, <1>8, <3>1
      <4>4. here \in [0 .. w.suppress -> Nat \ {0}]
        BY <4>3
      <4>5. here[0] = q /\ 1 .. w.suppress = {}
        BY <3>3
      <4> HIDE DEF here
      <4>6. Leads(w, here)
        BY <3>3, <4>5 DEF Leads
      <4> QED
        BY <4>1, <4>2, <4>4, <4>6 DEF Sound, Room
    <3>4. CASE v.depth > 0
      <4> DEFINE d == v.depth - 1
                 z == [u EXCEPT !.depth = d]
                 w == [u EXCEPT !.depth = d, !.stack = Front(v.stack)]
      <4>1. v.stack \in Seq(Overlays) /\ v.stack # <<>> /\ Len(v.stack) \in Nat
        BY <1>2, <3>4, EmptySeq DEF NavOK, Navs
      <4>2. Len(Front(v.stack)) = Len(v.stack) - 1
        BY <1>2, <3>4, <4>1, SubSeqProperties DEF Front
      <4>3. z.stack = v.stack
        BY <1>4, <2>0 DEF NavOK, Navs
      <4>4. PopState(u) = Popped(z)
        BY <1>2, <1>4, <3>1, <3>4, <2>0 DEF PopState, NavOK, Navs
      <4>5. Popped(z) = w
        BY <2>0, <4>1, <4>3 DEF Popped, NavOK, Navs
      <4>6. /\ w.on = v.on /\ w.depth = v.depth - 1 /\ w.stack = Front(v.stack) /\ w.going = tl
            /\ w.suppress = 0 /\ w.pending = <<>> /\ w.sentinel = v.sentinel /\ w.tab = v.tab
            /\ w.pos = q
        BY <1>4, <2>0, <3>1 DEF NavOK, Navs
      <4> HIDE DEF w, z
      <4>7. w.depth = Len(w.stack) /\ (w.sentinel <=> w.tab # "today")
        BY <1>2, <3>1, <4>2, <4>6
      <4>8. q > w.depth + (IF w.sentinel THEN 1 ELSE 0)
        <5>1. q > d + (IF v.sentinel THEN 1 ELSE 0)
          <6>1. CASE v.sentinel
            BY <1>2, <3>1, <3>2, <6>1
          <6>2. CASE ~v.sentinel
            BY <1>2, <3>1, <3>2, <6>2
          <6> QED
            BY <6>1, <6>2
        <5> QED
          BY <4>6, <5>1
      <4>9. Sound(w)
        BY <3>3, <4>6, <4>7, <4>8
      <4> QED
        BY <1>8, <4>4, <4>5, <4>9 DEF u, n
    <3>5. CASE ~(v.depth > 0) /\ v.sentinel
      <4> DEFINE w == [u EXCEPT !.sentinel = FALSE, !.tab = "today"]
      <4>1. PopState(u) = w
        BY <1>2, <1>4, <3>1, <3>5 DEF PopState
      <4>2. /\ w.on = v.on /\ w.depth = v.depth /\ w.stack = v.stack /\ w.going = tl
            /\ w.suppress = 0 /\ w.pending = <<>> /\ ~w.sentinel /\ w.tab = "today" /\ w.pos = q
        BY <1>4, <2>0, <3>1 DEF NavOK, Navs
      <4> HIDE DEF w
      <4>3. w.depth = Len(w.stack) /\ (w.sentinel <=> w.tab # "today")
        BY <1>2, <4>2
      <4>4. q > w.depth + (IF w.sentinel THEN 1 ELSE 0)
        BY <1>2, <3>1, <3>2, <3>5, <4>2
      <4>5. Sound(w)
        BY <3>3, <4>2, <4>3, <4>4
      <4> QED
        BY <1>8, <4>1, <4>5 DEF u, n
    <3>6. CASE ~(v.depth > 0) /\ ~v.sentinel
      <4>1. PopState(u) = u
        BY <1>2, <1>4, <3>1, <3>6 DEF PopState
      <4>2. u.depth = Len(u.stack) /\ (u.sentinel <=> u.tab # "today")
        BY <1>2, <1>4, <3>1
      <4>3. q > u.depth + (IF u.sentinel THEN 1 ELSE 0)
        BY <1>2, <1>4, <1>8, <3>1, <3>6
      <4>4. Sound(u)
        BY <1>4, <3>1, <3>3, <4>2, <4>3
      <4> QED
        BY <1>8, <4>1, <4>4 DEF u, n
    <3> QED
      BY <3>4, <3>5, <3>6
  <2> QED
    BY <2>1, <2>2
<1> QED
  BY <1>7, <1>8

-----------------------------------------------------------------------------
(* What the handlers make of these.                                        *)

\* Every traversal under way closes something.
Closes(v) == \A i \in 1 .. Len(v.going) : v.going[i].why = "close"

LEMMA ClosesKept ==
  ASSUME NEW v, NavOK(v), Closes(v)
  PROVE  Closes(CloseAll(v)) /\ (Queue(v) => v.suppress = Len(v.going))
<1>1. v.going \in Seq(Traversals) /\ Len(v.going) \in Nat /\ v.depth \in Nat /\ v.suppress \in Nat
  BY DEF NavOK, Navs
<1>2. Closes(CloseAll(v))
  BY <1>1, CloseAllIs DEF Closes
<1>3. ASSUME Queue(v), v.suppress # Len(v.going) PROVE FALSE
  <2>1. v.suppress + 1 \in 1 .. Len(v.going) /\ ~(v.suppress + 1 <= v.suppress)
    BY <1>1, <1>3 DEF Queue
  <2>2. v.going[v.suppress + 1].why = "back"
    BY <1>3, <2>1 DEF Queue
  <2> QED
    BY <2>1, <2>2 DEF Closes
<1> QED
  BY <1>2, <1>3

\* Everything is closed and a tab selected from the one that is open.
LEMMA ToTab ==
  ASSUME NEW v, NavOK(v), NEW t \in Tabs, NEW from \in Tabs
  PROVE  LET w == SelectTab(CloseAll(v), from, t)
         IN  /\ NavOK(w) /\ w.on = v.on /\ w.tab = t /\ w.going = CloseAll(v).going
             /\ Sound(v) /\ from = v.tab /\ (v.depth = 0 \/ v.suppress = Len(v.going)) => Sound(w)
<1> DEFINE c == CloseAll(v)
<1>1. NavOK(c) /\ c.on = v.on /\ c.tab = v.tab
  BY CloseAllIs
<1>2. Sound(v) /\ (v.depth = 0 \/ v.suppress = Len(v.going)) => Sound(c)
  BY CloseAllIs
<1> HIDE DEF c
<1>3. /\ NavOK(SelectTab(c, from, t)) /\ SelectTab(c, from, t).tab = t
      /\ SelectTab(c, from, t).going = c.going /\ SelectTab(c, from, t).on = c.on
  BY <1>1, SelectTabOK
<1>4. Sound(c) => Sound(SelectTab(c, c.tab, t))
  BY <1>1, SelectTabSound
<1> QED
  BY <1>1, <1>2, <1>3, <1>4 DEF c

LEMMA NavigateIs ==
  ASSUME NEW v, NavOK(v), NEW d \in Destinations, NEW from \in Tabs
  PROVE  LET w == Navigate(v, from, d)
         IN  /\ NavOK(w) /\ w.on = v.on /\ w.tab = (IF d \in Tabs THEN d ELSE v.tab)
             /\ w.going = CloseAll(v).going
             /\ Sound(v) /\ (d \in Tabs => from = v.tab)
                  /\ (v.depth = 0 \/ v.suppress = Len(v.going)) => Sound(w)
<1>1. CASE d \in Tabs
  BY <1>1, ToTab DEF Navigate
<1>2. CASE d \notin Tabs
  <2> DEFINE c == CloseAll(v)
  <2>1. d \in Overlays /\ Navigate(v, from, d) = Push(c, d)
    BY <1>2 DEF Destinations, Overlays, Navigate
  <2>2. NavOK(c) /\ c.on = v.on /\ c.tab = v.tab
    BY CloseAllIs
  <2>3. Sound(v) /\ (v.depth = 0 \/ v.suppress = Len(v.going)) => Sound(c)
    BY CloseAllIs
  <2> HIDE DEF c
  <2>4. /\ NavOK(Push(c, d)) /\ Push(c, d).going = c.going /\ Push(c, d).on = c.on
        /\ Sound(c) => Sound(Push(c, d))
    BY <2>1, <2>2, PushIs
  <2>5. Push(c, d).tab = c.tab
    BY <2>2 DEF Push, PushState, NavOK, Navs
  <2> QED
    BY <1>2, <2>1, <2>2, <2>3, <2>4, <2>5 DEF c
<1> QED
  BY <1>1, <1>2

\* The recursion of Replay is well defined.
LEMMA ReplayIs ==
  ASSUME NEW v, clicks \in Seq(Destinations)
  PROVE  \E g : /\ DOMAIN g = 0 .. Len(clicks) /\ g[0] = v /\ Replay(v) = g[Len(clicks)]
                /\ \A i \in 1 .. Len(clicks) : g[i] = Navigate(g[i - 1], v.tab, clicks[i])
<1> DEFINE N == Len(clicks)
           Chain(g, n) == g = [i \in 0 .. n |-> IF i = 0 THEN v
                                                ELSE Navigate(g[i - 1], v.tab, clicks[i])]
           T == {n \in Nat : \E g : Chain(g, n)}
<1>1. N \in Nat
  OBVIOUS
<1>2. 0 \in T
  <2>1. Chain([i \in 0 .. 0 |-> v], 0)
    OBVIOUS
  <2> QED
    BY <2>1
<1>3. ASSUME NEW n \in T PROVE n + 1 \in T
  <2>1. PICK g : Chain(g, n)
    OBVIOUS
  <2> DEFINE h == [i \in 0 .. (n + 1) |-> IF i = n + 1 THEN Navigate(g[n], v.tab, clicks[n + 1])
                                          ELSE g[i]]
             k == [i \in 0 .. (n + 1) |-> IF i = 0 THEN v ELSE Navigate(h[i - 1], v.tab, clicks[i])]
  <2>2. ASSUME NEW i \in 0 .. (n + 1) PROVE h[i] = k[i]
    <3>1. CASE i = n + 1
      <4>1. n \in 0 .. (n + 1) /\ n # n + 1 /\ i - 1 = n /\ i # 0
        BY <3>1
      <4>2. h[i - 1] = g[n]
        BY <4>1
      <4> QED
        BY <3>1, <4>1, <4>2
    <3>2. CASE i = 0
      <4>1. g[0] = v /\ 0 # n + 1
        BY <2>1
      <4> QED
        BY <3>2, <4>1
    <3>3. CASE i # 0 /\ i # n + 1
      <4>1. i \in 0 .. n /\ i - 1 \in 0 .. (n + 1) /\ i - 1 # n + 1
        BY <3>3
      <4>2. h[i] = g[i] /\ h[i - 1] = g[i - 1]
        BY <3>3, <4>1
      <4>3. g[i] = Navigate(g[i - 1], v.tab, clicks[i])
        BY <2>1, <3>3, <4>1
      <4> QED
        BY <3>3, <4>2, <4>3
    <3> QED
      BY <3>1, <3>2, <3>3
  <2>3. h = k
    BY <2>2
  <2>4. Chain(h, n + 1)
    BY <2>3
  <2>5. \E q : Chain(q, n + 1)
    <3> HIDE DEF h, Chain
    <3> QED
      BY <2>4
  <2>6. n + 1 \in Nat
    OBVIOUS
  <2> HIDE DEF Chain
  <2> QED
    BY <2>5, <2>6
<1> HIDE DEF T
<1>4. T = Nat
  <2>1. T \in SUBSET Nat
    BY DEF T
  <2> QED
    BY <1>2, <1>3, <2>1, SetInduction
<1>5. \E g : Chain(g, N)
  BY <1>1, <1>4 DEF T
<1> DEFINE after == CHOOSE g : Chain(g, N)
<1>6. Chain(after, N)
  BY <1>5
<1>7. Replay(v) = after[N]
  BY DEF Replay
<1> HIDE DEF after
<1>8. \A i \in 1 .. N : after[i] = Navigate(after[i - 1], v.tab, clicks[i])
  BY <1>1, <1>6
<1>9. DOMAIN after = 0 .. N /\ after[0] = v
  BY <1>1, <1>6
<1> QED
  BY <1>7, <1>8, <1>9

\* The destinations that waited, replayed one after the other.
Replayed(u, v, k) ==
  /\ NavOK(u) /\ u.on = v.on
  /\ Sound(v) /\ v.going = <<>> /\ ~ReplaysStaleTab(v) =>
       /\ Sound(u) /\ Closes(u)
       /\ u.tab = v.tab \/ \E i \in 1 .. k : clicks[i] \in Tabs \ {v.tab}

LEMMA ReplayStep ==
  ASSUME NEW v, NavOK(v), clicks \in Seq(Destinations), NEW k \in Nat, k + 1 <= Len(clicks),
         NEW u, Replayed(u, v, k)
  PROVE  Replayed(Navigate(u, v.tab, clicks[k + 1]), v, k + 1)
<1> DEFINE d == clicks[k + 1]
           w == Navigate(u, v.tab, d)
           P == Sound(v) /\ v.going = <<>> /\ ~ReplaysStaleTab(v)
<1>1. d \in Destinations /\ v.tab \in Tabs /\ u.tab \in Tabs /\ k + 1 \in DOMAIN clicks
      /\ Len(clicks) \in Nat
  BY DEF Replayed, NavOK, Navs
<1>2. NavOK(u) /\ u.on = v.on
  BY DEF Replayed
<1>3. /\ NavOK(w) /\ w.on = u.on /\ w.tab = (IF d \in Tabs THEN d ELSE u.tab)
      /\ w.going = CloseAll(u).going
      /\ Sound(u) /\ (d \in Tabs => v.tab = u.tab)
           /\ (u.depth = 0 \/ u.suppress = Len(u.going)) => Sound(w)
  <2> HIDE DEF d
  <2> QED
    BY <1>1, <1>2, NavigateIs
<1> HIDE DEF w
<1>4. ASSUME P PROVE Sound(w) /\ Closes(w)
                     /\ (w.tab = v.tab \/ \E i \in 1 .. k + 1 : clicks[i] \in Tabs \ {v.tab})
  <2>1. Sound(u) /\ Closes(u)
        /\ (u.tab = v.tab \/ \E i \in 1 .. k : clicks[i] \in Tabs \ {v.tab})
    BY <1>4 DEF Replayed
  <2>2. u.suppress = Len(u.going) /\ Closes(CloseAll(u))
    BY <1>2, <2>1, ClosesKept DEF Sound
  <2>3. Closes(w)
    BY <1>3, <2>2 DEF Closes
  <2>4. ASSUME d \in Tabs PROVE v.tab = u.tab
    <3>1. SUFFICES ASSUME NEW i \in 1 .. k, clicks[i] \in Tabs \ {v.tab} PROVE FALSE
      BY <2>1
    <3>2. i \in DOMAIN clicks /\ i < k + 1
      BY <1>1, <3>1
    <3>3. ReplaysStaleTab(v)
      BY <1>1, <2>4, <3>1, <3>2 DEF ReplaysStaleTab
    <3> QED
      BY <1>4, <3>3
  <2>5. Sound(w)
    BY <1>3, <2>1, <2>2, <2>4
  <2>6. w.tab = v.tab \/ \E i \in 1 .. k + 1 : clicks[i] \in Tabs \ {v.tab}
    <3>1. CASE d \in Tabs /\ d # v.tab
      <4>1. k + 1 \in 1 .. k + 1
        OBVIOUS
      <4> QED
        BY <3>1, <4>1
    <3>2. CASE d \in Tabs /\ d = v.tab
      BY <1>3, <3>2
    <3>3. CASE d \notin Tabs
      <4>1. w.tab = u.tab
        BY <1>3, <3>3
      <4>2. \A i \in 1 .. k : i \in 1 .. k + 1
        OBVIOUS
      <4> QED
        BY <2>1, <4>1, <4>2
    <3> QED
      BY <3>1, <3>2, <3>3
  <2> QED
    BY <2>3, <2>5, <2>6
<1>5. Replayed(w, v, k + 1)
  <2> HIDE DEF d
  <2> QED
    BY <1>2, <1>3, <1>4 DEF Replayed
<1> QED
  BY <1>5 DEF w

LEMMA ReplayKeeps ==
  ASSUME NEW v, NavOK(v), clicks \in Seq(Destinations)
  PROVE  /\ NavOK(Replay(v)) /\ Replay(v).on = v.on
         /\ Sound(v) /\ v.going = <<>> /\ ~ReplaysStaleTab(v) => Sound(Replay(v))
<1>1. PICK g : /\ DOMAIN g = 0 .. Len(clicks) /\ g[0] = v /\ Replay(v) = g[Len(clicks)]
               /\ \A i \in 1 .. Len(clicks) : g[i] = Navigate(g[i - 1], v.tab, clicks[i])
  BY ReplayIs
<1> DEFINE T == {n \in Nat : n <= Len(clicks) => Replayed(g[n], v, n)}
<1>2. 0 \in T
  <2>1. v.going = <<>> => Closes(v)
    BY DEF Closes
  <2>2. Replayed(g[0], v, 0)
    BY <1>1, <2>1 DEF Replayed
  <2> QED
    BY <2>2
<1>3. ASSUME NEW n \in T PROVE n + 1 \in T
  <2>1. n \in Nat /\ n + 1 \in Nat /\ Len(clicks) \in Nat
    OBVIOUS
  <2>2. ASSUME n + 1 <= Len(clicks) PROVE Replayed(g[n + 1], v, n + 1)
    <3>1. n <= Len(clicks) /\ n + 1 \in 1 .. Len(clicks) /\ (n + 1) - 1 = n
      BY <2>1, <2>2
    <3>2. Replayed(g[n], v, n)
      BY <3>1
    <3>3. g[n + 1] = Navigate(g[n], v.tab, clicks[n + 1])
      BY <1>1, <3>1
    <3>4. Replayed(Navigate(g[n], v.tab, clicks[n + 1]), v, n + 1)
      BY <2>1, <2>2, <3>2, ReplayStep
    <3> QED
      BY <3>3, <3>4
  <2> QED
    BY <2>1, <2>2
<1> HIDE DEF T
<1>4. T = Nat
  <2>1. T \in SUBSET Nat
    BY DEF T
  <2> QED
    BY <1>2, <1>3, <2>1, SetInduction
<1>5. Replayed(g[Len(clicks)], v, Len(clicks))
  <2>1. Len(clicks) \in T
    BY <1>4
  <2> QED
    BY <2>1 DEF T
<1> QED
  BY <1>1, <1>5 DEF Replayed

LEMMA ResetIs ==
  ASSUME NEW v, NavOK(v), NEW on \in BOOLEAN
  PROVE  /\ NavOK(Reset(v, on)) /\ Reset(v, on).on = on /\ Reset(v, on).going = v.going
         /\ on /\ v.stack = <<>> /\ v.tab = "today" /\ v.going = <<>> => Sound(Reset(v, on))
<1> DEFINE w == Reset(v, on)
<1>1. /\ w \in Navs /\ w.on = on /\ w.depth = 0 /\ w.sentinel = FALSE /\ w.suppress = 0
      /\ w.pending = <<>> /\ w.pos = v.pos /\ w.top = v.top /\ w.stack = v.stack /\ w.tab = v.tab
      /\ w.going = v.going /\ v.pos <= v.top /\ v.pos \in Nat \ {0} /\ v.stack \in Seq(Overlays)
  BY DEF Reset, NavOK, Navs
<1> HIDE DEF w
<1>2. NavOK(w)
  BY <1>1 DEF NavOK
<1>3. ASSUME on, v.stack = <<>>, v.tab = "today", v.going = <<>> PROVE Sound(w)
  <2>1. Queue(w)
    BY <1>1, <1>3 DEF Queue
  <2>2. Place(w)
    BY <1>1, <1>3 DEF Place
  <2>3. Room(w)
    <3> DEFINE at == [i \in 0 .. 0 |-> v.pos]
    <3>1. at \in [0 .. w.suppress -> Nat \ {0}] /\ at[0] = v.pos
      BY <1>1
    <3> HIDE DEF at
    <3>2. v.pos > 0 + 0
      BY <1>1
    <3>3. Leads(w, at)
      BY <1>1, <3>1, <3>2 DEF Leads
    <3> QED
      BY <3>1, <3>3 DEF Room
  <2> QED
    BY <2>1, <2>2, <2>3 DEF Sound
<1> QED
  BY <1>1, <1>2, <1>3 DEF w

-----------------------------------------------------------------------------
(* The shell along a behaviour.                                            *)

\* Whoever may claim the invite has started to; nobody does on its landing page.
CanClaim(c) == c[1] /\ c[2] /\ (c[3] \/ c[6]) /\ ~c[4] /\ c[5]

InviteHeld ==
  /\ landing = "invite" => ~started /\ ~claiming /\ claim # "sent"
  /\ started /\ token => claiming
  /\ token /\ CanClaim(ran.claim) => started

ShellHeld ==
  /\ NavOK(nav) /\ Fits(nav)
  /\ nav.on = ran.history /\ (ran.history => ran.user)
  /\ nav.on /\ ~strayed => Sound(nav)

GateTypes ==
  /\ auth \in {"loading", "in", "out"} /\ landing \in Landings \cup {"none"} /\ page \in Pages
  /\ onboarding \in [loading: BOOLEAN, welcome: BOOLEAN, intro: BOOLEAN]
  /\ stored \subseteq {"welcome", "intro"} /\ legacy \subseteq {"welcome", "intro"}
  /\ named \in BOOLEAN /\ skipped \in BOOLEAN /\ reading \in BOOLEAN

OtherTypes ==
  /\ token \in BOOLEAN /\ started \in BOOLEAN /\ claiming \in BOOLEAN /\ intro \in BOOLEAN
  /\ handler \in BOOLEAN /\ strayed \in BOOLEAN
  /\ claim \in {"none", "sent", "orphan"} /\ late \in Late \cup {"none"}
  /\ clicks \in Seq(Destinations) /\ Len(clicks) <= MaxClicks
  /\ ran \in [history: BOOLEAN, user: BOOLEAN, claim: Answers]

Basics == GateTypes /\ OtherTypes

NavInv == Basics /\ ShellHeld /\ InviteHeld

LEMMA ShellStays ==
  ASSUME ShellHeld, UNCHANGED <<nav, ran, strayed>>
  PROVE  ShellHeld'
<1>1. NavOK(nav)' /\ Fits(nav)' /\ (Sound(nav) => Sound(nav)')
  BY DEF ShellHeld, NavOK, Navs, Fits, Sound, Queue, Place, Room, Leads
<1> QED
  BY <1>1 DEF ShellHeld

\* The event has left the shell at w.
LEMMA ShellGoes ==
  ASSUME ShellHeld, NEW w, NavOK(w), Fits(w), w.on = nav.on, nav' = w, ran' = ran,
         nav.on /\ ~strayed' => ~strayed /\ (Sound(nav) => Sound(w))
  PROVE  ShellHeld'
<1>1. NavOK(nav') /\ Fits(nav') /\ (Sound(w) => Sound(nav'))
  OBVIOUS
<1> QED
  BY <1>1 DEF ShellHeld

LEMMA OneGo ==
  ASSUME ShellHeld, NEW w, NavOK(w), w.on = nav.on, Go(w), ran' = ran,
         Sound(nav) /\ ~Overtakes(w) => Sound(w)
  PROVE  ShellHeld'
<1>1. Fits(w) /\ nav' = w /\ (~strayed' => ~strayed /\ ~Overtakes(w))
  BY DEF Go
<1> QED
  BY <1>1, ShellGoes

\* What closes everything does not overtake a step back.
LEMMA NotOvertaking ==
  ASSUME NavOK(nav), Sound(nav), NEW w, w.going = CloseAll(nav).going, ~Overtakes(w)
  PROVE  nav.depth = 0 \/ nav.suppress = Len(nav.going)
<1> DEFINE n == Len(nav.going)
<1>1. SUFFICES ASSUME nav.depth # 0, nav.suppress # n PROVE FALSE
  OBVIOUS
<1>2. nav.depth \in Nat /\ nav.suppress \in Nat /\ n \in Nat /\ nav.suppress <= n
  BY DEF NavOK, Navs, Sound, Queue
<1>3. Len(w.going) = n + 1 /\ \A i \in 1 .. n : w.going[i] = nav.going[i]
  BY <1>1, <1>2, CloseAllIs
<1>4. nav.suppress + 1 \in 1 .. n /\ ~(nav.suppress + 1 <= nav.suppress)
  BY <1>1, <1>2
<1>5. nav.going[nav.suppress + 1].why = "back"
  BY <1>4 DEF Sound, Queue
<1>6. nav.suppress + 2 \in 2 .. Len(w.going) /\ (nav.suppress + 2) - 1 = nav.suppress + 1
      /\ Len(w.going) > Len(nav.going)
  BY <1>2, <1>3, <1>4
<1>7. w.going[(nav.suppress + 2) - 1].why = "back"
  BY <1>3, <1>4, <1>5, <1>6
<1> QED
  BY <1>6, <1>7 DEF Overtakes

\* Everything is closed on the way to w, and nothing else asked of the history.
LEMMA CloseGoes ==
  ASSUME ShellHeld, NEW w, NavOK(w), w.on = nav.on, Go(w), ran' = ran,
         w.going = CloseAll(nav).going,
         Sound(nav) /\ (nav.depth = 0 \/ nav.suppress = Len(nav.going)) => Sound(w)
  PROVE  ShellHeld'
<1>1. NavOK(nav)
  BY DEF ShellHeld
<1>2. Sound(nav) /\ ~Overtakes(w) => Sound(w)
  BY <1>1, NotOvertaking
<1> QED
  BY <1>2, OneGo

\* The effects start the history on a shell in which nothing is open, or leave it alone.
LEMMA EffectsKeepShell ==
  ASSUME Basics, ShellHeld, RunEffects
  PROVE  ShellHeld'
<1> DEFINE moved == ran.user # Deps.user
           synced == IF ran.history # Deps.history THEN Reset(nav, Deps.history) ELSE nav
           w == IF moved /\ auth = "in" THEN Replay(synced) ELSE synced
<1>1. /\ Fits(w) /\ nav' = w /\ ran' = Deps
      /\ strayed' = \/ strayed \/ Overtakes(w)
                    \/ moved /\ auth = "in" /\ synced.on /\ ReplaysStaleTab(synced)
                    \/ /\ synced.on /\ ~nav.on
                       /\ nav.stack # <<>> \/ nav.tab # "today" \/ nav.going # <<>>
  BY DEF RunEffects
<1>2. /\ NavOK(nav) /\ nav.on = ran.history /\ (ran.history => ran.user)
      /\ (nav.on /\ ~strayed => Sound(nav))
      /\ ran.history \in BOOLEAN /\ ran.user \in BOOLEAN /\ clicks \in Seq(Destinations)
  BY DEF ShellHeld, Basics, GateTypes, OtherTypes
<1>3. /\ Deps.history \in BOOLEAN /\ (Deps.history => Deps.user) /\ Deps.user = (auth = "in")
  BY DEF Deps, HistoryEnabled
<1>4. NavOK(synced) /\ synced.on = Deps.history
  BY <1>2, <1>3, ResetIs
<1>5. ASSUME synced.on, ~strayed' PROVE Sound(synced) /\ (moved /\ auth = "in" => synced.going = <<>>)
  <2>1. CASE ran.history # Deps.history
    <3>1. ~nav.on /\ Deps.history
      BY <1>2, <1>3, <1>4, <1>5, <2>1
    <3>2. nav.stack = <<>> /\ nav.tab = "today" /\ nav.going = <<>>
      BY <1>1, <1>5, <3>1
    <3>3. Sound(Reset(nav, Deps.history)) /\ Reset(nav, Deps.history).going = nav.going
      BY <1>2, <1>3, <3>1, <3>2, ResetIs
    <3> QED
      BY <2>1, <3>2, <3>3
  <2>2. CASE ran.history = Deps.history
    <3>1. synced = nav /\ nav.on /\ ~strayed
      BY <1>1, <1>5, <2>2
    <3>2. ran.user /\ Deps.user
      BY <1>2, <1>3, <2>2, <3>1
    <3>3. ~moved
      BY <1>2, <1>3, <3>2
    <3> QED
      BY <1>2, <3>1, <3>3
  <2> QED
    BY <2>1, <2>2
<1> HIDE DEF synced
<1>6. /\ NavOK(Replay(synced)) /\ Replay(synced).on = synced.on
      /\ Sound(synced) /\ synced.going = <<>> /\ ~ReplaysStaleTab(synced) => Sound(Replay(synced))
  BY <1>2, <1>4, ReplayKeeps
<1>7. NavOK(w) /\ w.on = Deps.history
  BY <1>4, <1>6
<1>8. w.on /\ ~strayed' => Sound(w)
  <2>1. SUFFICES ASSUME w.on, ~strayed' PROVE Sound(w)
    OBVIOUS
  <2>2. synced.on
    BY <1>4, <1>7, <2>1
  <2>3. Sound(synced) /\ (moved /\ auth = "in" => synced.going = <<>>)
    BY <1>5, <2>1, <2>2
  <2>4. CASE moved /\ auth = "in"
    <3>1. ~ReplaysStaleTab(synced)
      BY <1>1, <2>1, <2>2, <2>4
    <3> QED
      BY <1>6, <2>3, <2>4, <3>1
  <2>5. CASE ~(moved /\ auth = "in")
    BY <2>3, <2>5
  <2> QED
    BY <2>4, <2>5
<1> HIDE DEF w
<1>9. NavOK(nav') /\ Fits(nav') /\ nav'.on = ran'.history /\ (ran'.history => ran'.user)
      /\ (nav'.on /\ ~strayed' => Sound(nav'))
  BY <1>1, <1>3, <1>7, <1>8
<1> QED
  BY <1>9 DEF ShellHeld

\* Today is opened without a word to the history.
LEMMA TodayShown ==
  ASSUME ShellHeld, NEW t \in Tabs, nav' = [nav EXCEPT !.tab = t], ran' = ran,
         nav.on /\ ~strayed' => ~strayed /\ nav.tab = t
  PROVE  ShellHeld'
<1> DEFINE w == [nav EXCEPT !.tab = t]
<1>1. NavOK(w) /\ Fits(w) /\ w.on = nav.on /\ (nav.tab = t => w = nav)
  BY DEF ShellHeld, NavOK, Navs, Fits
<1>2. nav' = w
  OBVIOUS
<1> HIDE DEF w
<1> QED
  BY <1>1, <1>2, ShellGoes

LEMMA PoppedIs ==
  ASSUME NEW v, NavOK(v), v.depth = 0
  PROVE  Pop(v).going = v.going
<1>1. Pop(v) = Popped(v)
  BY DEF Pop
<1> QED
  BY <1>1 DEF Popped, NavOK, Navs

LEMMA DepthOfTab ==
  ASSUME NEW v, NavOK(v), v.depth = 0, NEW t \in Tabs
  PROVE  SelectTab(v, v.tab, t).depth = 0
<1>1. \A f \in Tabs : ApplyTab(v, f, t).depth = 0
  BY DEF ApplyTab, PushState, NavOK, Navs
<1>2. v.tab \in Tabs
  BY DEF NavOK, Navs
<1>3. SyncTab(v, v.tab, t) \in {v, ApplyTab(v, v.tab, t)} \/
        \E p : SyncTab(v, v.tab, t) = [v EXCEPT !.pending = p]
  BY DEF SyncTab
<1>4. NavOK(ApplyTab(v, v.tab, t)) /\ ApplyTab(v, v.tab, t).depth = 0
  BY <1>1, <1>2, ApplyTabOK
<1>5. \A u : NavOK(u) /\ u.depth = 0 => [u EXCEPT !.tab = t].depth = 0
  BY DEF NavOK, Navs
<1>6. \A p : [[v EXCEPT !.pending = p] EXCEPT !.tab = t].depth = 0
  BY DEF NavOK, Navs
<1> QED
  BY <1>3, <1>4, <1>5, <1>6 DEF SelectTab

LEMMA OverlayShell ==
  ASSUME Basics, ShellHeld, OpenOverlay \/ LeaveOverlay \/ (\E t \in Tabs : TabPress(t))
  PROVE  ShellHeld'
<1>1. NavOK(nav) /\ ran' = ran
  BY DEF ShellHeld, OpenOverlay, LeaveOverlay, TabPress
<1>2. nav.tab \in Tabs
  BY <1>1 DEF NavOK, Navs
<1>3. ASSUME NEW o \in Overlays, Go(Push(nav, o)) PROVE ShellHeld'
  <2>1. NavOK(Push(nav, o)) /\ Push(nav, o).on = nav.on /\ (Sound(nav) => Sound(Push(nav, o)))
    BY <1>1, PushIs
  <2> QED
    BY <1>1, <1>3, <2>1, OneGo
<1>4. ASSUME Go(Pop(nav)) PROVE ShellHeld'
  <2>1. NavOK(Pop(nav)) /\ Pop(nav).on = nav.on /\ (Sound(nav) => Sound(Pop(nav)))
    BY <1>1, PopIs
  <2> QED
    BY <1>1, <1>4, <2>1, OneGo
<1>5. ASSUME Go(CloseAll(nav)) PROVE ShellHeld'
  <2> DEFINE w == CloseAll(nav)
  <2>1. /\ NavOK(w) /\ w.on = nav.on /\ w.going = CloseAll(nav).going
        /\ Sound(nav) /\ (nav.depth = 0 \/ nav.suppress = Len(nav.going)) => Sound(w)
    BY <1>1, CloseAllIs
  <2>2. Go(w)
    BY <1>5
  <2> HIDE DEF w
  <2> QED
    BY <1>1, <2>1, <2>2, CloseGoes
<1>6. ASSUME NEW t \in Tabs, Go(SelectTab(CloseAll(nav), nav.tab, t)) PROVE ShellHeld'
  <2> DEFINE w == SelectTab(CloseAll(nav), nav.tab, t)
  <2>1. /\ NavOK(w) /\ w.on = nav.on /\ w.going = CloseAll(nav).going
        /\ Sound(nav) /\ nav.tab = nav.tab
             /\ (nav.depth = 0 \/ nav.suppress = Len(nav.going)) => Sound(w)
    BY <1>1, <1>2, ToTab
  <2>2. Go(w)
    BY <1>6
  <2> HIDE DEF w
  <2> QED
    BY <1>1, <2>1, <2>2, CloseGoes
<1>7. CASE OpenOverlay
  <2>1. PICK o \in Opens(Screen) : Go(Push(nav, o))
    BY <1>7 DEF OpenOverlay
  <2>2. \A s : s \in Tabs \cup {"habitDetail", "notifications", "addFriend", "friendProfile",
                                "settings"} => Opens(s) \subseteq Overlays
    BY DEF Opens, Tabs, Overlays
  <2>3. \A s : s \notin Tabs \cup {"habitDetail", "notifications", "addFriend", "friendProfile",
                                   "settings"} => Opens(s) = {}
    BY DEF Opens, Tabs
  <2>4. o \in Overlays
    BY <2>1, <2>2, <2>3
  <2> QED
    BY <1>3, <2>1, <2>4
<1>8. CASE LeaveOverlay
  <2>1. PICK w \in Leaving(nav, Screen) \cup Completing(nav, Screen) : Go(w)
    BY <1>8 DEF LeaveOverlay
  <2> DEFINE To(t) == SelectTab(CloseAll(nav), nav.tab, t)
  <2>2. Completing(nav, Screen) \subseteq {To("friends")}
    BY DEF Completing
  <2>3. \A s : Leaving(nav, s) \subseteq {Pop(nav), CloseAll(nav), To("profile"), To("friends")}
    <3>1. SUFFICES ASSUME NEW s
                   PROVE Leaving(nav, s) \subseteq {Pop(nav), CloseAll(nav), To("profile"), To("friends")}
      OBVIOUS
    <3>2. CASE s \in {"editHabit", "createHabit", "createChallenge", "createChallengeInvite", "stats"}
      <4>1. Leaving(nav, s) = {Pop(nav)}
        BY <3>2 DEF Leaving
      <4> QED
        BY <4>1
    <3>3. CASE s \in {"habitDetail", "notifications", "challenges", "todos", "meditation"}
      <4>1. Leaving(nav, s) = {CloseAll(nav)}
        BY <3>3 DEF Leaving
      <4> QED
        BY <4>1
    <3>4. CASE s \in {"editProfile", "settings", "witnessLinks"}
      <4>1. Leaving(nav, s) = {To("profile")}
        BY <3>4 DEF Leaving
      <4> QED
        BY <4>1
    <3>5. CASE s \in {"addFriend", "friendProfile"}
      <4>1. Leaving(nav, s) = {To("friends")}
        BY <3>5 DEF Leaving
      <4> QED
        BY <4>1
    <3>6. CASE s \notin {"editHabit", "createHabit", "createChallenge", "createChallengeInvite", "stats",
                         "habitDetail", "notifications", "challenges", "todos", "meditation",
                         "editProfile", "settings", "witnessLinks", "addFriend", "friendProfile"}
      <4>1. Leaving(nav, s) = {}
        BY <3>6 DEF Leaving
      <4> QED
        BY <4>1
    <3> HIDE DEF To
    <3> QED
      BY <3>2, <3>3, <3>4, <3>5, <3>6
  <2>4. w \in {Pop(nav), CloseAll(nav), To("profile"), To("friends")}
    <3> HIDE DEF To
    <3> QED
      BY <2>1, <2>2, <2>3
  <2>5. "profile" \in Tabs /\ "friends" \in Tabs
    BY DEF Tabs
  <2> QED
    BY <1>4, <1>5, <1>6, <2>1, <2>4, <2>5
<1>9. CASE \E t \in Tabs : TabPress(t)
  BY <1>6, <1>9 DEF TabPress
<1> QED
  BY <1>7, <1>8, <1>9

LEMMA AnswerShell ==
  ASSUME Basics, ShellHeld, \E ok \in BOOLEAN : Answered(ok)
  PROVE  ShellHeld'
<1> DEFINE first == late = "habitSaved" /\ ~onboarding.intro
           Saved == Pop(IF first THEN SelectTab(CloseAll(nav), nav.tab, "today") ELSE CloseAll(nav))
           Edited == Pop(Pop(nav))
<1>1. /\ NavOK(nav) /\ ran' = ran /\ nav.tab \in Tabs
  BY DEF ShellHeld, Answered, NavOK, Navs
<1>2. \/ UNCHANGED <<nav, strayed>>
      \/ Go(Push(nav, "editHabit"))
      \/ Go(CloseAll(nav))
      \/ Go(Saved)
      \/ /\ Fits(Edited) /\ nav' = Edited /\ (~strayed' => ~strayed)
  <2>1. PICK ok \in BOOLEAN : Answered(ok)
    OBVIOUS
  <2>2. CASE ~ok
    BY <2>1, <2>2 DEF Answered
  <2>3. CASE ok /\ late = "edit"
    BY <2>1, <2>3 DEF Answered
  <2>4. CASE ok /\ late = "archive"
    BY <2>1, <2>4 DEF Answered
  <2>5. CASE ok /\ late = "habitSaved"
    BY <2>1, <2>5 DEF Answered
  <2>6. CASE ok /\ late \notin {"edit", "archive", "habitSaved"}
    BY <2>1, <2>6 DEF Answered
  <2> QED
    BY <2>2, <2>3, <2>4, <2>5, <2>6
<1>3. CASE UNCHANGED <<nav, strayed>>
  BY <1>1, <1>3, ShellStays
<1>4. CASE Go(Push(nav, "editHabit"))
  <2>1. "editHabit" \in Overlays
    BY DEF Overlays
  <2>2. /\ NavOK(Push(nav, "editHabit")) /\ Push(nav, "editHabit").on = nav.on
        /\ Sound(nav) => Sound(Push(nav, "editHabit"))
    BY <1>1, <2>1, PushIs
  <2> QED
    BY <1>1, <1>4, <2>2, OneGo
<1>5. CASE Go(CloseAll(nav))
  <2> DEFINE w == CloseAll(nav)
  <2>1. /\ NavOK(w) /\ w.on = nav.on /\ w.going = CloseAll(nav).going
        /\ Sound(nav) /\ (nav.depth = 0 \/ nav.suppress = Len(nav.going)) => Sound(w)
    BY <1>1, CloseAllIs
  <2>2. Go(w)
    BY <1>5
  <2> HIDE DEF w
  <2> QED
    BY <1>1, <2>1, <2>2, CloseGoes
<1>6. CASE Go(Saved)
  <2> DEFINE c == CloseAll(nav)
             t == SelectTab(c, nav.tab, "today")
             u == IF first THEN t ELSE c
  <2>1. /\ NavOK(c) /\ c.on = nav.on /\ c.depth = 0 /\ c.tab = nav.tab
        /\ Sound(nav) /\ (nav.depth = 0 \/ nav.suppress = Len(nav.going)) => Sound(c)
    BY <1>1, CloseAllIs
  <2>2. "today" \in Tabs
    BY DEF Tabs
  <2>3. /\ NavOK(t) /\ t.on = nav.on /\ t.going = c.going
        /\ Sound(nav) /\ nav.tab = nav.tab
             /\ (nav.depth = 0 \/ nav.suppress = Len(nav.going)) => Sound(t)
    BY <1>1, <2>2, ToTab
  <2>4. t.depth = 0
    <3> HIDE DEF c
    <3>1. SelectTab(c, c.tab, "today").depth = 0
      BY <2>1, <2>2, DepthOfTab
    <3> QED
      BY <2>1, <3>1
  <2>5. Go(Pop(u))
    BY <1>6
  <2> HIDE DEF first, t
  <2>6. u.going = CloseAll(nav).going
    BY <2>3
  <2> HIDE DEF c
  <2>7. /\ NavOK(u) /\ u.on = nav.on /\ u.depth = 0
        /\ Sound(nav) /\ (nav.depth = 0 \/ nav.suppress = Len(nav.going)) => Sound(u)
    BY <2>1, <2>3, <2>4
  <2> HIDE DEF u
  <2>8. /\ NavOK(Pop(u)) /\ Pop(u).on = u.on /\ (Sound(u) => Sound(Pop(u))) /\ Pop(u).going = u.going
    BY <2>7, PopIs, PoppedIs
  <2> DEFINE w == Pop(u)
  <2>9. /\ NavOK(w) /\ w.on = nav.on /\ Go(w) /\ w.going = CloseAll(nav).going
        /\ Sound(nav) /\ (nav.depth = 0 \/ nav.suppress = Len(nav.going)) => Sound(w)
    BY <2>5, <2>6, <2>7, <2>8
  <2> HIDE DEF w
  <2> QED
    BY <1>1, <2>9, CloseGoes
<1>7. CASE /\ Fits(Edited) /\ nav' = Edited /\ (~strayed' => ~strayed)
  <2> DEFINE p == Pop(nav)
  <2>1. NavOK(p) /\ p.on = nav.on /\ (Sound(nav) => Sound(p))
    BY <1>1, PopIs
  <2> HIDE DEF p
  <2>2. NavOK(Pop(p)) /\ Pop(p).on = p.on /\ (Sound(p) => Sound(Pop(p)))
    BY <2>1, PopIs
  <2> DEFINE w == Pop(p)
  <2>3. Fits(w) /\ nav' = w /\ (~strayed' => ~strayed)
    BY <1>7 DEF p
  <2>4. NavOK(w) /\ w.on = nav.on /\ (Sound(nav) => Sound(w))
    BY <2>1, <2>2
  <2> HIDE DEF w
  <2> QED
    BY <1>1, <2>3, <2>4, ShellGoes
<1> HIDE DEF Saved, Edited
<1> QED
  BY <1>2, <1>3, <1>4, <1>5, <1>6, <1>7

LEMMA ClickShell ==
  ASSUME Basics, ShellHeld, NEW d \in Destinations, Click(d)
  PROVE  ShellHeld'
<1>1. /\ NavOK(nav) /\ ran' = ran /\ nav.tab \in Tabs
      /\ Go(Navigate(nav, nav.tab, d)) \/ UNCHANGED <<nav, strayed>>
  BY DEF ShellHeld, Click, NavOK, Navs
<1>2. CASE Go(Navigate(nav, nav.tab, d))
  <2> DEFINE w == Navigate(nav, nav.tab, d)
  <2>1. /\ NavOK(w) /\ w.on = nav.on /\ w.going = CloseAll(nav).going
        /\ Sound(nav) /\ (d \in Tabs => nav.tab = nav.tab)
             /\ (nav.depth = 0 \/ nav.suppress = Len(nav.going)) => Sound(w)
    BY <1>1, NavigateIs
  <2>2. Go(w)
    BY <1>2
  <2> HIDE DEF w
  <2> QED
    BY <1>1, <2>1, <2>2, CloseGoes
<1>3. CASE UNCHANGED <<nav, strayed>>
  BY <1>1, <1>3, ShellStays
<1> QED
  BY <1>1, <1>2, <1>3

LEMMA BrowserShell ==
  ASSUME Basics, ShellHeld, Back \/ Forward \/ Traverse
  PROVE  ShellHeld'
<1>1. NavOK(nav) /\ ran' = ran /\ Fits(nav) /\ nav.pos \in Nat \ {0} /\ nav.top \in Nat \ {0}
  BY DEF ShellHeld, Back, Forward, Traverse, NavOK, Navs
<1>2. CASE Back
  <2> DEFINE w == Going(nav, 1, "back")
  <2>1. NavOK(w) /\ w.on = nav.on
    <3>1. Asked(w, nav, 1, "back")
      BY <1>1, GoingIs
    <3>2. NavOK(w)
      BY <1>1, GoingOK
    <3> HIDE DEF w
    <3> QED
      BY <3>1, <3>2 DEF Asked
  <2>2. Sound(nav) => Sound(w)
    BY <1>1, BackSound
  <2>3. Go(w)
    BY <1>2 DEF Back
  <2> HIDE DEF w
  <2> QED
    BY <1>1, <2>1, <2>2, <2>3, OneGo
<1>3. CASE Forward
  <2> DEFINE u == [nav EXCEPT !.pos = @ + 1]
             w == PopState(u)
  <2>1. NavOK(u) /\ u.on = nav.on
    BY <1>1, <1>3 DEF Forward, NavOK, Navs
  <2>2. Fits(w) /\ nav' = w /\ (~strayed' => ~nav.on)
    BY <1>3 DEF Forward
  <2> HIDE DEF u
  <2>3. NavOK(w) /\ w.on = nav.on
    BY <2>1, PopStateOK
  <2> HIDE DEF w
  <2>4. nav.on /\ ~strayed' => ~strayed /\ (Sound(nav) => Sound(w))
    BY <2>2
  <2> QED
    BY <1>1, <2>2, <2>3, <2>4, ShellGoes
<1>4. CASE Traverse
  <2> DEFINE n == Head(nav.going).by
             rest == [nav EXCEPT !.going = Tail(@)]
             u == [rest EXCEPT !.pos = @ - n]
             w == IF n < nav.pos THEN PopState(u) ELSE rest
  <2>1. nav.going # <<>> /\ nav' = w /\ (n < nav.pos => Fits(w)) /\ strayed' = strayed
    BY <1>4 DEF Traverse
  <2>2. NavOK(rest) /\ (n < nav.pos => NavOK(u))
    BY <1>1, <2>1, RestIs
  <2>3. rest.on = nav.on /\ u.on = nav.on
    BY <1>1 DEF NavOK, Navs
  <2>4. Fits(rest)
    <3>1. nav.going \in Seq(Traversals) /\ Len(nav.going) \in Nat /\ Len(nav.going) <= MaxGoing
      BY <1>1 DEF NavOK, Navs, Fits
    <3>2. Len(Tail(nav.going)) = Len(nav.going) - 1
      BY <2>1, <3>1
    <3>3. rest.stack = nav.stack /\ rest.top = nav.top /\ rest.going = Tail(nav.going)
      BY <1>1 DEF NavOK, Navs
    <3> HIDE DEF rest
    <3>4. MaxGoing \in Nat
      BY NavigationAssumption
    <3>5. Len(rest.going) <= MaxGoing
      BY <3>1, <3>2, <3>3, <3>4
    <3> QED
      BY <1>1, <3>3, <3>5 DEF Fits
  <2>5. Sound(nav) => Sound(w)
    BY <1>1, <2>1, TraverseSound
  <2> HIDE DEF u, rest, n
  <2>6. n < nav.pos => NavOK(PopState(u)) /\ PopState(u).on = u.on
    BY <2>2, PopStateOK
  <2>7. NavOK(w) /\ Fits(w) /\ w.on = nav.on
    BY <2>1, <2>2, <2>3, <2>4, <2>6
  <2>8. nav' = w /\ strayed' = strayed
    BY <2>1
  <2> HIDE DEF w
  <2> QED
    BY <1>1, <2>5, <2>7, <2>8, ShellGoes
<1> QED
  BY <1>2, <1>3, <1>4

LEMMA NewNavOK ==
  ASSUME NEW p \in Nat \ {0}, NEW t \in Nat \ {0}, p <= t, t <= MaxEntries
  PROVE  NavOK(NewNav(p, t)) /\ Fits(NewNav(p, t)) /\ NewNav(p, t).on = FALSE
<1> DEFINE w == NewNav(p, t)
<1>1. "today" \in Tabs /\ <<>> \in Seq(Traversals) /\ <<>> \in Seq(Overlays) /\ Len(<<>>) = 0
  BY DEF Tabs
<1>2. /\ w \in Navs /\ w.on = FALSE /\ w.depth = 0 /\ w.pos = p /\ w.top = t /\ w.going = <<>>
      /\ w.stack = <<>>
  BY <1>1 DEF NewNav, Navs
<1> HIDE DEF w
<1>3. NavOK(w) /\ Fits(w)
  BY <1>1, <1>2, NavigationAssumption DEF NavOK, Fits
<1> QED
  BY <1>2, <1>3 DEF w

LEMMA ReloadShell ==
  ASSUME Basics, ShellHeld, Reload
  PROVE  ShellHeld'
<1>1. NavOK(nav) /\ Fits(nav) /\ nav.pos \in Nat \ {0} /\ nav.top \in Nat \ {0}
      /\ nav.pos <= nav.top /\ nav.top <= MaxEntries
  BY DEF ShellHeld, NavOK, Navs, Fits
<1> DEFINE w == NewNav(nav.pos, nav.top)
<1>2. NavOK(w) /\ Fits(w) /\ w.on = FALSE
  BY <1>1, NewNavOK
<1>3. nav' = w /\ ran'.history = FALSE
  BY DEF Reload, Load
<1> HIDE DEF w
<1>4. NavOK(nav') /\ Fits(nav') /\ nav'.on = FALSE
  BY <1>2, <1>3
<1> QED
  BY <1>3, <1>4 DEF ShellHeld

LEMMA AcceptShell ==
  ASSUME Basics, ShellHeld, AcceptInvite
  PROVE  ShellHeld'
<1>1. landing = "invite"
  <2>1. "accept" \in Offers
    BY DEF AcceptInvite
  <2>2. "accept" \notin WitnessOffers(page) /\ "accept" \notin FlameOffers(page)
    BY DEF WitnessOffers, FlameOffers
  <2>3. CASE landing = "witness"
    BY <2>1, <2>2, <2>3 DEF Offers
  <2>4. CASE landing = "flame"
    BY <2>1, <2>2, <2>4 DEF Offers
  <2>5. CASE landing \notin {"invite", "witness", "flame"}
    BY <2>1, <2>5 DEF Offers
  <2> QED
    BY <2>3, <2>4, <2>5
<1>2. ~nav.on
  BY <1>1 DEF AcceptInvite, ShellHeld, Rendered, Deps, HistoryEnabled
<1>3. "today" \in Tabs /\ nav' = [nav EXCEPT !.tab = "today"] /\ ran' = ran
  BY DEF AcceptInvite, Tabs
<1> QED
  BY <1>2, <1>3, TodayShown

LEMMA ClaimShell ==
  ASSUME Basics, ShellHeld, NEW ok \in BOOLEAN, ClaimAnswered(ok)
  PROVE  ShellHeld'
<1> DEFINE t == IF ok THEN "today" ELSE nav.tab
<1>1. t \in Tabs
  BY DEF ShellHeld, NavOK, Navs, Tabs
<1>2. nav' = [nav EXCEPT !.tab = t] /\ ran' = ran
  BY DEF ClaimAnswered
<1>3. ~strayed' => ~strayed /\ nav.tab = t
  BY DEF ClaimAnswered
<1> HIDE DEF t
<1> QED
  BY <1>1, <1>2, <1>3, TodayShown

-----------------------------------------------------------------------------
(* The gates and the invite along a behaviour.                             *)

LEMMA FlagsIn ==
  ASSUME Basics
  PROVE  /\ named \in BOOLEAN /\ skipped \in BOOLEAN /\ reading \in BOOLEAN /\ token \in BOOLEAN
         /\ started \in BOOLEAN /\ claiming \in BOOLEAN /\ intro \in BOOLEAN
         /\ handler \in BOOLEAN /\ strayed \in BOOLEAN
         /\ onboarding.loading \in BOOLEAN /\ onboarding.welcome \in BOOLEAN
         /\ onboarding.intro \in BOOLEAN
BY DEF Basics, GateTypes, OtherTypes

LEMMA FlagsAre ==
  ASSUME named \in BOOLEAN, skipped \in BOOLEAN, reading \in BOOLEAN, token \in BOOLEAN,
         started \in BOOLEAN, claiming \in BOOLEAN, intro \in BOOLEAN,
         handler \in BOOLEAN, strayed \in BOOLEAN
  PROVE  {named, skipped, reading, token, started, claiming, intro, handler, strayed} \subseteq BOOLEAN
OBVIOUS

LEMMA DepsIn ==
  ASSUME Basics
  PROVE  /\ Deps \in [history: BOOLEAN, user: BOOLEAN, claim: Answers]
         /\ Deps.claim = <<auth = "in", landing # "invite", skipped, onboarding.loading,
                           onboarding.welcome, named>>
         /\ CanClaim(Deps.claim) <=>
              /\ auth = "in" /\ landing # "invite" /\ (skipped \/ named)
              /\ ~onboarding.loading /\ onboarding.welcome
<1> DEFINE c == <<auth = "in", landing # "invite", skipped, onboarding.loading,
                  onboarding.welcome, named>>
<1>1. /\ (auth = "in") \in BOOLEAN /\ (landing # "invite") \in BOOLEAN /\ HistoryEnabled \in BOOLEAN
  BY DEF HistoryEnabled
<1>2. c \in Answers
  BY <1>1, FlagsIn DEF Answers
<1>3. Deps = [history |-> HistoryEnabled, user |-> auth = "in", claim |-> c]
  BY DEF Deps
<1> HIDE DEF c
<1>4. Deps \in [history: BOOLEAN, user: BOOLEAN, claim: Answers]
  BY <1>1, <1>2, <1>3
<1>5. Deps.claim = c
  BY <1>3
<1>6. /\ c[1] = (auth = "in") /\ c[2] = (landing # "invite") /\ c[3] = skipped
      /\ c[4] = onboarding.loading /\ c[5] = onboarding.welcome /\ c[6] = named
  BY DEF c
<1>7. CanClaim(c) <=> /\ auth = "in" /\ landing # "invite" /\ (skipped \/ named)
                      /\ ~onboarding.loading /\ onboarding.welcome
  BY <1>6, Zenon DEF CanClaim
<1> QED
  BY <1>4, <1>5, <1>7 DEF c

\* The state besides the shell keeps its type.
LEMMA BasicsKept ==
  ASSUME Basics, Next
  PROVE  Basics'
<1>0. /\ named \in BOOLEAN /\ skipped \in BOOLEAN /\ reading \in BOOLEAN /\ token \in BOOLEAN
      /\ started \in BOOLEAN /\ claiming \in BOOLEAN /\ intro \in BOOLEAN
      /\ handler \in BOOLEAN /\ strayed \in BOOLEAN
  BY FlagsIn
<1>1. CASE OnboardingRead
  <2> DEFINE seen(f) == f \in legacy \/ (ran.user /\ f \in stored)
  <2>1. onboarding' = [loading |-> FALSE, welcome |-> seen("welcome"), intro |-> seen("intro")]
    BY <1>1 DEF OnboardingRead
  <2>2. seen("welcome") \in BOOLEAN /\ seen("intro") \in BOOLEAN
    OBVIOUS
  <2> HIDE DEF seen
  <2>3. onboarding' \in [loading: BOOLEAN, welcome: BOOLEAN, intro: BOOLEAN]
    BY <2>1, <2>2
  <2>4. stored' \subseteq {"welcome", "intro"} /\ reading' = FALSE
    BY <1>1 DEF OnboardingRead, Basics, GateTypes, OtherTypes
  <2>5. /\ auth' = auth /\ landing' = landing /\ page' = page /\ legacy' = legacy /\ claim' = claim
        /\ late' = late /\ clicks' = clicks /\ ran' = ran /\ named' = named /\ skipped' = skipped
        /\ token' = token /\ started' = started /\ claiming' = claiming /\ intro' = intro
        /\ handler' = handler /\ strayed' = strayed
    BY <1>1 DEF OnboardingRead, invite, shell
  <2>6. GateTypes'
    BY <1>0, <2>3, <2>4, <2>5 DEF Basics, GateTypes
  <2>7. OtherTypes'
    BY <1>0, <2>5 DEF Basics, OtherTypes
  <2> QED
    BY <2>6, <2>7 DEF Basics
<1>2. CASE Bootstrap
  BY <1>0, <1>2, DepsIn DEF Basics, GateTypes, OtherTypes, Bootstrap, SetAuth, gates, invite, shell
<1>3. CASE SignIn
  BY <1>0, <1>3, DepsIn DEF Basics, GateTypes, OtherTypes, SignIn, SetAuth, gates, invite, shell
<1>4. CASE SignOut
  BY <1>0, <1>4, DepsIn DEF Basics, GateTypes, OtherTypes, SignOut, SetAuth, gates, invite, shell
<1>5. CASE PageAnswered
  BY <1>0, <1>5, DepsIn DEF Basics, GateTypes, OtherTypes, PageAnswered, ShowPage, PageAnswers,
     Pages, gates, invite, shell
<1>6. CASE RetryPage
  BY <1>0, <1>6, DepsIn DEF Basics, GateTypes, OtherTypes, RetryPage, ShowPage, PageAnswers,
     Pages, gates, invite, shell
<1>7. CASE RefocusPage
  BY <1>0, <1>7, DepsIn DEF Basics, GateTypes, OtherTypes, RefocusPage, ShowPage, PageAnswers,
     Pages, gates, invite, shell
<1>8. CASE LeaveLanding
  BY <1>0, <1>8, DepsIn DEF Basics, GateTypes, OtherTypes, LeaveLanding, Leave, Pages, gates,
     invite, shell
<1>9. CASE JoinByInvite
  BY <1>0, <1>9, DepsIn DEF Basics, GateTypes, OtherTypes, JoinByInvite, Leave, Pages, gates,
     invite, shell
<1>10. CASE AcceptInvite
  <2>1. GateTypes'
    BY <1>10 DEF Basics, GateTypes, AcceptInvite, Leave, Pages
  <2>2. OtherTypes'
    BY <1>10 DEF Basics, OtherTypes, AcceptInvite
  <2> QED
    BY <2>1, <2>2 DEF Basics
<1>11. CASE CompleteProfile
  BY <1>0, <1>11, DepsIn DEF Basics, GateTypes, OtherTypes, CompleteProfile, gates, invite, shell
<1>12. CASE Continue
  <2>1. onboarding' \in [loading: BOOLEAN, welcome: BOOLEAN, intro: BOOLEAN]
        /\ stored' \subseteq {"welcome", "intro"}
    BY <1>12 DEF Basics, GateTypes, Continue, Mark
  <2>2. GateTypes'
    BY <1>12, <2>1 DEF Basics, GateTypes, Continue
  <2>3. OtherTypes'
    BY <1>12 DEF Basics, OtherTypes, Continue, invite, shell
  <2> QED
    BY <2>2, <2>3 DEF Basics
<1>13. CASE \E ok \in BOOLEAN : ClaimAnswered(ok)
  BY <1>0, <1>13, DepsIn DEF Basics, GateTypes, OtherTypes, ClaimAnswered, StillClaiming, gates,
     invite, shell
<1>14. CASE \E ok \in BOOLEAN : Answered(ok)
  <2>1. PICK ok \in BOOLEAN : Answered(ok)
    BY <1>14
  <2>2. UNCHANGED <<gates, invite, clicks, handler, ran>> /\ late' = "none"
    BY <2>1 DEF Answered
  <2>3. intro' \in BOOLEAN /\ strayed' \in BOOLEAN
    <3>1. CASE ~ok
      BY <2>1, <3>1 DEF Answered, Basics, GateTypes, OtherTypes
    <3>2. CASE ok /\ late = "edit"
      BY <2>1, <3>2 DEF Answered, Basics, GateTypes, OtherTypes, Go
    <3>3. CASE ok /\ late = "archive"
      BY <2>1, <3>3 DEF Answered, Basics, GateTypes, OtherTypes, Go
    <3>4. CASE ok /\ late = "habitSaved"
      BY <2>1, <3>4 DEF Answered, Basics, GateTypes, OtherTypes, Go
    <3>5. CASE ok /\ late \notin {"edit", "archive", "habitSaved"}
      BY <2>1, <3>5 DEF Answered, Basics, GateTypes, OtherTypes
    <3> QED
      BY <3>1, <3>2, <3>3, <3>4, <3>5
  <2> QED
    BY <2>2, <2>3 DEF Basics, GateTypes, OtherTypes, gates, invite
<1>15. CASE OrphanAnswered
  BY <1>0, <1>15, DepsIn DEF Basics, GateTypes, OtherTypes, OrphanAnswered, gates, invite, shell
<1>16. CASE OpenOverlay
  BY <1>0, <1>16, DepsIn DEF Basics, GateTypes, OtherTypes, OpenOverlay, Go, gates, invite, shell
<1>17. CASE LeaveOverlay
  BY <1>0, <1>17, DepsIn DEF Basics, GateTypes, OtherTypes, LeaveOverlay, Go, gates, invite, shell
<1>18. CASE Ask
  BY <1>0, <1>18, DepsIn DEF Basics, GateTypes, OtherTypes, Ask, Asks, Late, gates, invite, shell
<1>19. CASE DismissIntro
  <2>1. onboarding' \in [loading: BOOLEAN, welcome: BOOLEAN, intro: BOOLEAN]
        /\ stored' \subseteq {"welcome", "intro"} /\ intro' = FALSE
    BY <1>19 DEF Basics, GateTypes, OtherTypes, DismissIntro, Mark
  <2>2. UNCHANGED <<auth, landing, page, named, skipped, reading, legacy, invite, late, clicks,
                    handler, ran, strayed>>
    BY <1>19 DEF DismissIntro
  <2>3. GateTypes'
    BY <2>1, <2>2 DEF Basics, GateTypes
  <2>4. OtherTypes'
    BY <2>1, <2>2 DEF Basics, OtherTypes, invite
  <2> QED
    BY <2>3, <2>4 DEF Basics
<1>20. CASE \E t \in Tabs : TabPress(t)
  BY <1>0, <1>20, DepsIn DEF Basics, GateTypes, OtherTypes, TabPress, Go, gates, invite, shell
<1>21. CASE \E d \in Destinations : Click(d)
  <2>1. PICK d \in Destinations : Click(d)
    BY <1>21
  <2>2. UNCHANGED <<gates, invite, late, intro, handler, ran>>
    BY <2>1 DEF Click
  <2>3. strayed' \in BOOLEAN
    BY <2>1 DEF Click, Go, Basics, GateTypes, OtherTypes
  <2>4. clicks' \in Seq(Destinations) /\ Len(clicks') <= MaxClicks
    <3>1. CASE handler
      BY <2>1, <3>1 DEF Click, Basics, GateTypes, OtherTypes
    <3>2. CASE ~handler
      <4>1. clicks' = Append(clicks, d) /\ Len(clicks) < MaxClicks /\ clicks \in Seq(Destinations)
        BY <2>1, <3>2 DEF Click, Basics, GateTypes, OtherTypes
      <4>2. MaxClicks \in Nat /\ Len(clicks) \in Nat
        BY <4>1, NavigationAssumption
      <4>3. Len(clicks') = Len(clicks) + 1 /\ clicks' \in Seq(Destinations)
        BY <4>1
      <4> QED
        BY <4>1, <4>2, <4>3
    <3> QED
      BY <3>1, <3>2
  <2> QED
    BY <2>2, <2>3, <2>4 DEF Basics, GateTypes, OtherTypes, gates, invite
<1>22. CASE Back
  BY <1>0, <1>22, DepsIn DEF Basics, GateTypes, OtherTypes, Back, Go, gates, invite, shell
<1>23. CASE Forward
  BY <1>0, <1>23, DepsIn DEF Basics, GateTypes, OtherTypes, Forward, gates, invite, shell
<1>24. CASE Traverse
  BY <1>0, <1>24, DepsIn DEF Basics, GateTypes, OtherTypes, Traverse, gates, invite, shell
<1>25. CASE Reload
  <2> DEFINE c == <<FALSE, landing # "invite", FALSE, TRUE, FALSE, named>>
  <2>1. ran' = [history |-> FALSE, user |-> FALSE, claim |-> c]
    BY <1>25 DEF Reload, Load
  <2>2. c \in Answers
    BY <1>0 DEF Answers
  <2> HIDE DEF c
  <2>3. ran' \in [history: BOOLEAN, user: BOOLEAN, claim: Answers]
    BY <2>1, <2>2
  <2>4. clicks' \in Seq(Destinations) /\ Len(clicks') <= MaxClicks
    BY <1>25, NavigationAssumption DEF Reload, Load
  <2> QED
    BY <1>25, <2>3, <2>4 DEF Basics, GateTypes, OtherTypes, Reload, Load, Pages
<1>26. CASE RunEffects
  <2>1. ran' \in [history: BOOLEAN, user: BOOLEAN, claim: Answers]
    BY <1>26, DepsIn DEF RunEffects
  <2>2. UNCHANGED <<auth, landing, page, named, skipped, stored, legacy, token, late, intro>>
    BY <1>26 DEF RunEffects
  <2>3. strayed' \in BOOLEAN
    BY <1>26 DEF RunEffects
  <2>4. onboarding' \in [loading: BOOLEAN, welcome: BOOLEAN, intro: BOOLEAN]
        /\ reading' \in BOOLEAN /\ handler' \in BOOLEAN
        /\ clicks' \in Seq(Destinations) /\ Len(clicks') <= MaxClicks
    <3>1. CASE ran.user # Deps.user
      <4>1. /\ onboarding' = [loading |-> TRUE, welcome |-> FALSE, intro |-> FALSE]
            /\ reading' = TRUE /\ handler' = (auth = "in")
            /\ clicks' = (IF auth = "in" THEN <<>> ELSE clicks)
        BY <1>26, <3>1 DEF RunEffects
      <4>2. Len(<<>>) = 0 /\ <<>> \in Seq(Destinations)
        OBVIOUS
      <4> QED
        BY <4>1, <4>2, NavigationAssumption DEF Basics, GateTypes, OtherTypes
    <3>2. CASE ran.user = Deps.user
      <4>1. UNCHANGED <<onboarding, reading, handler, clicks>>
        BY <1>26, <3>2 DEF RunEffects
      <4> QED
        BY <4>1 DEF Basics, GateTypes, OtherTypes
    <3> QED
      BY <3>1, <3>2
  <2>5. started' \in BOOLEAN /\ claiming' \in BOOLEAN /\ claim' \in {"none", "sent", "orphan"}
    <3>1. CASE ran.claim # Deps.claim /\ MayClaim
      BY <1>26, <3>1 DEF RunEffects
    <3>2. CASE ~(ran.claim # Deps.claim /\ MayClaim)
      <4>1. /\ claim' = (IF ran.claim # Deps.claim /\ claim = "sent" THEN "orphan" ELSE claim)
            /\ UNCHANGED <<started, claiming>>
        BY <1>26, <3>2 DEF RunEffects
      <4> QED
        BY <4>1 DEF Basics, GateTypes, OtherTypes
    <3> QED
      BY <3>1, <3>2
  <2> QED
    BY <2>1, <2>2, <2>3, <2>4, <2>5 DEF Basics, GateTypes, OtherTypes
<1> QED
  BY <1>1, <1>2, <1>3, <1>4, <1>5, <1>6, <1>7, <1>8, <1>9, <1>10, <1>11, <1>12, <1>13, <1>14,
     <1>15, <1>16, <1>17, <1>18, <1>19, <1>20, <1>21, <1>22, <1>23, <1>24, <1>25, <1>26 DEF Next

\* Steps that leave the claim and what the effects last ran for alone.
LEMMA InviteStays ==
  ASSUME InviteHeld, UNCHANGED invite, ran' = ran, landing' \in {landing, "none"}
  PROVE  InviteHeld'
BY DEF InviteHeld, CanClaim, invite

LEMMA AcceptIsOfInvite ==
  ASSUME "accept" \in Offers \/ "join" \in Offers
  PROVE  landing = "invite"
<1>1. /\ {"accept", "join"} \cap WitnessOffers(page) = {}
      /\ {"accept", "join"} \cap FlameOffers(page) = {}
  BY DEF WitnessOffers, FlameOffers
<1>2. CASE landing = "witness"
  BY <1>1, <1>2 DEF Offers
<1>3. CASE landing = "flame"
  BY <1>1, <1>3 DEF Offers
<1>4. CASE landing \notin {"invite", "witness", "flame"}
  BY <1>4 DEF Offers
<1> QED
  BY <1>2, <1>3, <1>4

LEMMA InviteKept ==
  ASSUME Basics, InviteHeld, Next
  PROVE  InviteHeld'
<1>1. CASE RunEffects
  <2>1. /\ ran'.claim = Deps.claim /\ UNCHANGED <<landing, token>>
        /\ IF ran.claim # Deps.claim /\ MayClaim
           THEN started' = TRUE /\ claim' = "sent" /\ claiming' = TRUE
           ELSE /\ claim' = (IF ran.claim # Deps.claim /\ claim = "sent" THEN "orphan" ELSE claim)
                /\ UNCHANGED <<started, claiming>>
    BY <1>1 DEF RunEffects
  <2>2. MayClaim <=> CanClaim(Deps.claim) /\ token /\ ~started
    <3>1. CanClaim(Deps.claim) <=> /\ auth = "in" /\ landing # "invite" /\ (skipped \/ named)
                                   /\ ~onboarding.loading /\ onboarding.welcome
      BY DepsIn
    <3> QED
      BY <3>1 DEF MayClaim
  <2>3. CASE ran.claim # Deps.claim /\ MayClaim
    <3>1. landing # "invite"
      BY <2>3 DEF MayClaim
    <3> QED
      BY <2>1, <2>3, <3>1 DEF InviteHeld
  <2>4. CASE ran.claim # Deps.claim /\ ~MayClaim
    BY <2>1, <2>2, <2>4 DEF InviteHeld
  <2>5. CASE ran.claim = Deps.claim
    <3>1. ran'.claim = ran.claim
      BY <2>1, <2>5
    <3>2. CanClaim(ran'.claim) = CanClaim(ran.claim)
      BY <3>1
    <3> QED
      BY <2>1, <2>5, <3>2 DEF InviteHeld
  <2> QED
    BY <2>3, <2>4, <2>5
<1>2. CASE OnboardingRead \/ Bootstrap \/ SignIn \/ SignOut \/ PageAnswered \/ RetryPage \/ RefocusPage
  <2>1. UNCHANGED invite /\ ran' = ran /\ landing' = landing
    BY <1>2 DEF OnboardingRead, Bootstrap, SignIn, SignOut, SetAuth, PageAnswered, RetryPage,
                RefocusPage, ShowPage
  <2> QED
    BY <2>1, InviteStays
<1>3. CASE LeaveLanding
  <2>1. UNCHANGED invite /\ ran' = ran /\ landing' = "none"
    BY <1>3 DEF LeaveLanding, Leave
  <2> QED
    BY <2>1, InviteStays
<1>4. CASE JoinByInvite
  <2>1. /\ Rendered /\ "join" \in Offers /\ landing' = "none" /\ ran' = ran
        /\ UNCHANGED <<started, claim, claiming>>
    BY <1>4 DEF JoinByInvite, Leave
  <2>2. landing = "invite"
    BY <2>1, AcceptIsOfInvite
  <2>3. ~CanClaim(ran.claim)
    <3>1. ~CanClaim(Deps.claim)
      BY <2>2, DepsIn
    <3> QED
      BY <2>1, <3>1 DEF Rendered
  <2>4. ~CanClaim(ran'.claim)
    BY <2>1, <2>3
  <2> QED
    BY <2>1, <2>2, <2>4 DEF InviteHeld
<1>5. CASE AcceptInvite
  BY <1>5 DEF AcceptInvite, Leave, InviteHeld
<1>6. CASE CompleteProfile \/ Continue \/ DismissIntro
  <2>1. UNCHANGED invite /\ ran' = ran /\ landing' = landing
    BY <1>6 DEF CompleteProfile, Continue, DismissIntro
  <2> QED
    BY <2>1, InviteStays
<1>7. CASE \E ok \in BOOLEAN : ClaimAnswered(ok)
  BY <1>7 DEF ClaimAnswered, StillClaiming, InviteHeld, gates
<1>8. CASE \E ok \in BOOLEAN : Answered(ok)
  <2>1. UNCHANGED invite /\ ran' = ran /\ landing' = landing
    BY <1>8 DEF Answered, gates
  <2> QED
    BY <2>1, InviteStays
<1>9. CASE OrphanAnswered
  <2>1. UNCHANGED <<landing, token, started, claiming, ran>> /\ claim' # "sent"
    BY <1>9 DEF OrphanAnswered, gates
  <2> QED
    BY <2>1 DEF InviteHeld, CanClaim
<1>10. CASE OpenOverlay \/ LeaveOverlay \/ Ask \/ (\E t \in Tabs : TabPress(t))
            \/ (\E d \in Destinations : Click(d)) \/ Back \/ Forward \/ Traverse
  <2>1. UNCHANGED invite /\ ran' = ran /\ landing' = landing
    BY <1>10 DEF OpenOverlay, LeaveOverlay, Ask, TabPress, Click, Back, Forward, Traverse, gates
  <2> QED
    BY <2>1, InviteStays
<1>11. CASE Reload
  <2>1. /\ started' = FALSE /\ claim' = "none" /\ claiming' = FALSE
        /\ ran'.claim[1] = FALSE
    BY <1>11 DEF Reload, Load
  <2> QED
    BY <2>1 DEF InviteHeld, CanClaim
<1> QED
  BY <1>1, <1>2, <1>3, <1>4, <1>5, <1>6, <1>7, <1>8, <1>9, <1>10, <1>11 DEF Next

LEMMA ShellKept ==
  ASSUME Basics, ShellHeld, Next
  PROVE  ShellHeld'
<1>1. CASE OnboardingRead \/ Bootstrap \/ SignIn \/ SignOut \/ PageAnswered \/ RetryPage \/ RefocusPage
           \/ LeaveLanding \/ JoinByInvite \/ CompleteProfile \/ Continue \/ OrphanAnswered \/ Ask
           \/ DismissIntro
  <2>1. UNCHANGED <<nav, ran, strayed>>
    BY <1>1 DEF OnboardingRead, Bootstrap, SignIn, SignOut, SetAuth, PageAnswered, RetryPage,
                RefocusPage, ShowPage, LeaveLanding, JoinByInvite, CompleteProfile, Continue,
                OrphanAnswered, Ask, DismissIntro, shell
  <2> QED
    BY <2>1, ShellStays
<1>2. CASE RunEffects
  BY <1>2, EffectsKeepShell
<1>3. CASE AcceptInvite
  BY <1>3, AcceptShell
<1>4. CASE \E ok \in BOOLEAN : ClaimAnswered(ok)
  BY <1>4, ClaimShell
<1>5. CASE \E ok \in BOOLEAN : Answered(ok)
  BY <1>5, AnswerShell
<1>6. CASE OpenOverlay \/ LeaveOverlay \/ (\E t \in Tabs : TabPress(t))
  BY <1>6, OverlayShell
<1>7. CASE \E d \in Destinations : Click(d)
  BY <1>7, ClickShell
<1>8. CASE Back \/ Forward \/ Traverse
  BY <1>8, BrowserShell
<1>9. CASE Reload
  BY <1>9, ReloadShell
<1> QED
  BY <1>1, <1>2, <1>3, <1>4, <1>5, <1>6, <1>7, <1>8, <1>9 DEF Next

LEMMA NavInvInit == Init => NavInv
<1> SUFFICES ASSUME Init PROVE NavInv
  OBVIOUS
<1>1. GateTypes
  BY DEF Init, GateTypes, Pages
<1>2. strayed \in BOOLEAN /\ token = FALSE /\ started = FALSE /\ claiming = FALSE /\ claim = "none"
      /\ intro = FALSE /\ handler = FALSE /\ late = "none" /\ ran = Deps
      /\ auth = "loading"
  BY DEF Init
<1>3. clicks \in Seq(Destinations) /\ Len(clicks) <= MaxClicks
  <2>1. clicks = <<>> \/ \E d \in Destinations : clicks = <<d>>
    BY DEF Init
  <2>2. CASE clicks = <<>>
    BY <2>2, NavigationAssumption
  <2>3. CASE \E d \in Destinations : clicks = <<d>>
    BY <2>3, NavigationAssumption
  <2> QED
    BY <2>1, <2>2, <2>3
<1>4. Deps \in [history: BOOLEAN, user: BOOLEAN, claim: Answers] /\ Deps.history = FALSE
  <2>1. skipped \in BOOLEAN /\ named \in BOOLEAN /\ onboarding.loading \in BOOLEAN
        /\ onboarding.welcome \in BOOLEAN
    BY DEF Init
  <2> DEFINE c == <<auth = "in", landing # "invite", skipped, onboarding.loading,
                    onboarding.welcome, named>>
  <2>2. c \in Answers /\ HistoryEnabled = FALSE /\ (auth = "in") \in BOOLEAN
    BY <1>2, <2>1 DEF Answers, HistoryEnabled
  <2>3. Deps = [history |-> HistoryEnabled, user |-> auth = "in", claim |-> c]
    BY DEF Deps
  <2> HIDE DEF c
  <2> QED
    BY <2>2, <2>3
<1>5. OtherTypes
  BY <1>2, <1>3, <1>4 DEF OtherTypes
<1>6. ShellHeld
  <2>1. nav = NewNav(1, 1)
    BY DEF Init
  <2>2. NavOK(NewNav(1, 1)) /\ Fits(NewNav(1, 1)) /\ NewNav(1, 1).on = FALSE
    <3> DEFINE k == 1
    <3>1. k \in Nat \ {0} /\ k <= k /\ k <= MaxEntries
      BY NavigationAssumption
    <3> HIDE DEF k
    <3>2. NavOK(NewNav(k, k)) /\ Fits(NewNav(k, k)) /\ NewNav(k, k).on = FALSE
      BY <3>1, NewNavOK
    <3> QED
      BY <3>2 DEF k
  <2>3. NavOK(nav) /\ Fits(nav) /\ nav.on = FALSE
    BY <2>1, <2>2
  <2> QED
    BY <1>2, <1>4, <2>3 DEF ShellHeld
<1>7. InviteHeld
  BY <1>2 DEF InviteHeld
<1> QED
  BY <1>1, <1>5, <1>6, <1>7 DEF NavInv, Basics

LEMMA NavInvStep == NavInv /\ [Next]_vars => NavInv'
<1>1. CASE NavInv /\ Next
  BY <1>1, BasicsKept, ShellKept, InviteKept DEF NavInv
<1>2. ASSUME NavInv, UNCHANGED vars PROVE NavInv'
  <2>1. ShellHeld'
    BY <1>2, ShellStays DEF NavInv, vars, shell
  <2>2. InviteHeld'
    BY <1>2, InviteStays DEF NavInv, vars, gates
  <2>3. GateTypes'
    BY <1>2 DEF NavInv, vars, gates, Basics, GateTypes
  <2>4. OtherTypes'
    BY <1>2 DEF NavInv, vars, invite, shell, Basics, OtherTypes
  <2> QED
    BY <2>1, <2>2, <2>3, <2>4 DEF NavInv, Basics
<1> QED
  BY <1>1, <1>2

LEMMA NavInvAlways == Spec => []NavInv
<1> QED
  BY NavInvInit, NavInvStep, PTL DEF Spec

-----------------------------------------------------------------------------
(* What follows from it.                                                   *)

LEMMA InvGivesType == NavInv => TypeOK
<1> SUFFICES ASSUME NavInv PROVE TypeOK
  OBVIOUS
<1>1. {named, skipped, reading, token, started, claiming, intro, handler, strayed} \subseteq BOOLEAN
  BY DEF NavInv, Basics, GateTypes, OtherTypes
<1>2. /\ nav \in Navs /\ nav.depth <= Len(nav.stack) /\ nav.pos <= nav.top
      /\ Len(nav.stack) <= MaxDepth /\ nav.top <= MaxEntries /\ Fits(nav)
  BY DEF NavInv, ShellHeld, NavOK, Fits
<1>3. /\ nav.depth \in Nat /\ nav.stack \in Seq(Overlays) /\ nav.pos \in Nat \ {0}
      /\ nav.top \in Nat \ {0} /\ Len(nav.stack) \in Nat
  BY <1>2 DEF Navs
<1>4. nav.depth \in 0 .. MaxDepth /\ nav.pos \in 1 .. MaxEntries /\ nav.top \in 1 .. MaxEntries
  BY <1>2, <1>3, NavigationAssumption
<1>5. nav \in [on: BOOLEAN, depth: 0 .. MaxDepth, sentinel: BOOLEAN, suppress: Nat,
               pending: {<<>>} \cup (Tabs \X Tabs), pos: 1 .. MaxEntries, top: 1 .. MaxEntries,
               going: Seq([by: Nat, why: {"back", "close"}]), stack: Seq(Overlays), tab: Tabs]
  BY <1>2, <1>4 DEF Navs, Traversals
<1>6. /\ auth \in {"loading", "in", "out"} /\ landing \in Landings \cup {"none"} /\ page \in Pages
      /\ onboarding \in [loading: BOOLEAN, welcome: BOOLEAN, intro: BOOLEAN]
      /\ stored \subseteq {"welcome", "intro"} /\ legacy \subseteq {"welcome", "intro"}
  BY DEF NavInv, Basics, GateTypes
<1>7. /\ claim \in {"none", "sent", "orphan"} /\ late \in Late \cup {"none"}
      /\ clicks \in Seq(Destinations) /\ Len(clicks) <= MaxClicks
      /\ ran \in [history: BOOLEAN, user: BOOLEAN, claim: Answers]
  BY DEF NavInv, Basics, OtherTypes
<1> QED
  BY <1>1, <1>2, <1>5, <1>6, <1>7 DEF TypeOK

\* The types of the variables, and the bounds on the shell.
THEOREM TypeInvariant == Spec => []TypeOK
BY NavInvAlways, InvGivesType, PTL

LEMMA SettledIsSound ==
  ASSUME NavInv, Settled
  PROVE  Sound(nav) /\ nav.suppress = 0 /\ nav.pending = <<>>
<1>1. Sound(nav) /\ NavOK(nav) /\ nav.going = <<>>
  BY DEF NavInv, ShellHeld, Settled
<1>2. nav.suppress \in Nat /\ nav.suppress <= Len(nav.going) /\ Len(<<>>) = 0
  BY <1>1 DEF NavOK, Navs, Sound, Queue
<1>3. nav.suppress = 0
  BY <1>1, <1>2
<1>4. nav.pending = <<>>
  BY <1>1, <1>3 DEF Sound, Place
<1> QED
  BY <1>1, <1>3, <1>4

\* useHistorySync's count of the overlays and its tab sentinel agree with what React shows,
\* for any number of overlays and traversals.
THEOREM HistoryStaysInStep == Spec => []HistoryInStep
<1>1. NavInv => HistoryInStep
  BY SettledIsSound DEF HistoryInStep, Sound, Queue, Place
<1> QED
  BY <1>1, NavInvAlways, PTL

\* The Back button closes what is open and never leaves the app over it.
THEOREM BackNeverLeaves == Spec => []BackStaysInside
<1>1. NavInv => BackStaysInside
  <2> SUFFICES ASSUME NavInv, Settled
               PROVE  nav.pos > nav.depth + (IF nav.sentinel THEN 1 ELSE 0)
    BY DEF BackStaysInside
  <2>1. Room(nav) /\ nav.suppress = 0
    BY SettledIsSound DEF Sound
  <2>2. PICK at \in [0 .. nav.suppress -> Nat \ {0}] : Leads(nav, at)
    BY <2>1 DEF Room
  <2>3. at[0] = nav.pos /\ at[0] > nav.depth + (IF nav.sentinel THEN 1 ELSE 0)
    BY <2>1, <2>2 DEF Leads
  <2> QED
    BY <2>3
<1> QED
  BY <1>1, NavInvAlways, PTL

\* Exactly the popstate events of the traversals that closeAll started are swallowed.
THEOREM SuppressedAreClosing == Spec => []SuppressMatches
<1>1. NavInv => SuppressMatches
  <2> SUFFICES ASSUME NavInv, nav.on, ~strayed
               PROVE  nav.suppress = Cardinality({i \in DOMAIN nav.going : nav.going[i].why = "close"})
    BY DEF SuppressMatches
  <2>1. NavOK(nav) /\ Queue(nav)
    BY DEF NavInv, ShellHeld, Sound
  <2>2. nav.suppress \in Nat /\ nav.suppress <= Len(nav.going) /\ nav.going \in Seq(Traversals)
        /\ Len(nav.going) \in Nat /\ DOMAIN nav.going = 1 .. Len(nav.going)
    BY <2>1 DEF NavOK, Navs, Queue
  <2> DEFINE C == {i \in DOMAIN nav.going : nav.going[i].why = "close"}
  <2>3. C = 1 .. nav.suppress
    BY <2>1, <2>2 DEF Queue
  <2>4. Cardinality(1 .. nav.suppress) = nav.suppress
    <3> DEFINE k == nav.suppress
    <3>1. k \in Nat /\ k \in Int /\ 1 \in Int
      BY <2>2
    <3> HIDE DEF k
    <3>2. Cardinality(1 .. k) = IF 1 > k THEN 0 ELSE k - 1 + 1
      BY <3>1, FS_Interval
    <3>3. Cardinality(1 .. k) = k
      BY <3>1, <3>2
    <3> QED
      BY <3>3 DEF k
  <2> QED
    BY <2>3, <2>4
<1> QED
  BY <1>1, NavInvAlways, PTL

\* Whoever signs up for a challenge invite reaches the shell only with it claimed or refused.
THEOREM InviteIsHonoured == Spec => []InviteNotForgotten
<1>1. NavInv => InviteNotForgotten
  <2> SUFFICES ASSUME NavInv, Rendered, Gate = "open", token PROVE FALSE
    BY DEF InviteNotForgotten
  <2>1. /\ landing = "none" /\ auth = "in" /\ (named \/ skipped) /\ ~onboarding.loading
        /\ onboarding.welcome /\ ~claiming
    <3>1. landing = "none"
      BY DEF Gate, NavInv, Basics, GateTypes, Landings
    <3>2. auth = "in"
      BY <3>1 DEF Gate, NavInv, Basics, GateTypes
    <3> QED
      BY <3>1, <3>2 DEF Gate
  <2>2. CanClaim(Deps.claim)
    BY <2>1, DepsIn DEF NavInv
  <2>3. CanClaim(ran.claim)
    BY <2>2 DEF Rendered
  <2> QED
    BY <2>1, <2>3 DEF NavInv, InviteHeld
<1> QED
  BY <1>1, NavInvAlways, PTL
=============================================================================
