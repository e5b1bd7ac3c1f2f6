----------------------------- MODULE FrontendProofs -----------------------------
(***************************************************************************)
(* Theorems about the meditation screen (module Meditation), the           *)
(* notification section of the settings (Push), the friends screens        *)
(* (Circle), the habit form (HabitForm), the challenge wizards (Wizards),  *)
(* the reorder modes (Ordering), the celebration of challenges             *)
(* (Celebration), the to-dos (Todos) and the completions (Completions),    *)
(* each for every value of its constants.  Each runs alone here and the    *)
(* theorems are about one at a time, so a variable that two of them        *)
(* declare under one name is one variable of this module.                  *)
(***************************************************************************)
EXTENDS Integers, Sequences, FiniteSetTheorems, FunctionTheorems, SequenceTheorems,
        WellFoundedInduction, TLAPS

CONSTANTS
  Minutes, MaxClock, DueHabits, Hinted, MaxTimerEvents,             \* of Meditation
  Users, Ops, Puts, MaxEndpoints, MaxPushEvents, MaxMoves,          \* of Push
  People, Native, MaxCalls, MaxCircleTaps, MaxCircleEvents,
  MaxCircleMoves,                                                   \* of Circle
  Texts, MaxPresses, MaxFormEdits, MaxFormEvents,                   \* of HabitForm
  WizardHabits, Rewards, Cap, MaxTarget, DefaultTarget, Stride,
  MaxSends, MaxWizardEdits, MaxWizardEvents,                        \* of Wizards
  ListItems, MaxOrderEvents, MaxOrderEdits,                         \* of Ordering
  CelebratingUsers, CelebratedIds, MaxCelebrationTaps,
  MaxCelebrationEvents,                                             \* of Celebration
  TodoItems, MaxTodoCalls, MaxTodoTaps, MaxTodoEvents,
  MaxTodoMoves,                                                     \* of Todos
  LogCalls, MaxLogTaps, MaxLogEvents, MaxLogMoves                   \* of Completions

VARIABLES
  now, session, durationMin, confirm, ran, saved, sheet, done, shown, call, taken, failed, events,
  user, permission, sub, made, tokens, status, subscribing, op, stored, put, wanted, zone,
  moves, alone, serial,
  rows, fetch, calls, blind, taps, screen, cached, stale, busy, asked, sending, sent,
  editing, default, habits, prefs, cache, given, open, picker, form, touched, pending,
  error, subs, presses, edits, lost, hasty,
  native, kind, shared, step, draft, changed, list, sends, count,
  req, mode, told, accepted, took,
  parties, fresh, loaded, seen, queue, claiming, first, celebrated, looked, slipped, crossed,
  exiting,
  minimum, logged, latest, undo, calendar

M == INSTANCE Meditation WITH Habits <- DueHabits, MaxEvents <- MaxTimerEvents

P == INSTANCE Push WITH MaxEvents <- MaxPushEvents

F == INSTANCE Circle WITH
       MaxTaps <- MaxCircleTaps, MaxEvents <- MaxCircleEvents, MaxMoves <- MaxCircleMoves

H == INSTANCE HabitForm WITH MaxEdits <- MaxFormEdits, MaxEvents <- MaxFormEvents

W == INSTANCE Wizards WITH
       Habits <- WizardHabits, MaxEdits <- MaxWizardEdits, MaxEvents <- MaxWizardEvents

O == INSTANCE Ordering WITH
       Items <- ListItems, MaxEvents <- MaxOrderEvents, MaxEdits <- MaxOrderEdits

E == INSTANCE Celebration WITH
       Users <- CelebratingUsers, Ids <- CelebratedIds, MaxTaps <- MaxCelebrationTaps,
       MaxEvents <- MaxCelebrationEvents

T == INSTANCE Todos WITH
       Items <- TodoItems, MaxCalls <- MaxTodoCalls, MaxTaps <- MaxTodoTaps,
       MaxEvents <- MaxTodoEvents, MaxMoves <- MaxTodoMoves

C == INSTANCE Completions WITH
       Calls <- LogCalls, MaxTaps <- MaxLogTaps, MaxEvents <- MaxLogEvents, MaxMoves <- MaxLogMoves

-----------------------------------------------------------------------------
(* Sequences of calls.                                                     *)

\* What removing one element leaves.
LEMMA Removed ==
  ASSUME NEW S, NEW s \in Seq(S), NEW k \in DOMAIN s
  PROVE  /\ H!RemoveAt(s, k) \in Seq(S)
         /\ Len(H!RemoveAt(s, k)) = Len(s) - 1
         /\ \A j \in DOMAIN H!RemoveAt(s, k) :
              /\ (IF j < k THEN j ELSE j + 1) \in DOMAIN s
              /\ H!RemoveAt(s, k)[j] = s[IF j < k THEN j ELSE j + 1]
<1>1. /\ SubSeq(s, 1, k - 1) \in Seq(S) /\ Len(SubSeq(s, 1, k - 1)) = k - 1
      /\ \A j \in 1 .. (k - 1) : SubSeq(s, 1, k - 1)[j] = s[j]
  OBVIOUS
<1>2. /\ SubSeq(s, k + 1, Len(s)) \in Seq(S) /\ Len(SubSeq(s, k + 1, Len(s))) = Len(s) - k
      /\ \A j \in 1 .. (Len(s) - k) : SubSeq(s, k + 1, Len(s))[j] = s[j + k]
  OBVIOUS
<1>3. /\ Len(s) \in Nat /\ k \in 1 .. Len(s) /\ DOMAIN s = 1 .. Len(s)
  OBVIOUS
<1> DEFINE a == SubSeq(s, 1, k - 1)
           b == SubSeq(s, k + 1, Len(s))
<1>4. H!RemoveAt(s, k) = a \o b
  BY DEF H!RemoveAt
<1> HIDE DEF a, b
<1>5. /\ a \in Seq(S) /\ Len(a) = k - 1 /\ \A j \in 1 .. (k - 1) : a[j] = s[j]
      /\ b \in Seq(S) /\ Len(b) = Len(s) - k /\ \A j \in 1 .. (Len(s) - k) : b[j] = s[j + k]
  BY <1>1, <1>2 DEF a, b
<1>6. /\ a \o b \in Seq(S) /\ Len(a \o b) = Len(s) - 1 /\ DOMAIN (a \o b) = 1 .. (Len(s) - 1)
      /\ \A j \in 1 .. (Len(s) - 1) :
           (a \o b)[j] = IF j <= k - 1 THEN a[j] ELSE b[j - (k - 1)]
  <2>1. /\ a \o b \in Seq(S) /\ Len(a \o b) = Len(a) + Len(b)
        /\ \A j \in 1 .. Len(a) + Len(b) :
             (a \o b)[j] = IF j <= Len(a) THEN a[j] ELSE b[j - Len(a)]
    BY <1>5, ConcatProperties
  <2>2. Len(a) + Len(b) = Len(s) - 1
    BY <1>3, <1>5
  <2>3. DOMAIN (a \o b) = 1 .. Len(a \o b)
    BY <2>1
  <2> QED
    BY <1>5, <2>1, <2>2, <2>3
<1>7. ASSUME NEW j \in 1 .. (Len(s) - 1)
      PROVE  /\ (IF j < k THEN j ELSE j + 1) \in 1 .. Len(s)
             /\ (a \o b)[j] = s[IF j < k THEN j ELSE j + 1]
  <2>1. CASE j < k
    <3>1. j \in 1 .. (k - 1) /\ j <= k - 1 /\ j \in 1 .. Len(s)
      BY <2>1, <1>3
    <3> QED
      BY <2>1, <3>1, <1>5, <1>6
  <2>2. CASE ~(j < k)
    <3>1. j - (k - 1) \in 1 .. (Len(s) - k) /\ j - (k - 1) + k = j + 1
      BY <2>2, <1>3
    <3>2. b[j - (k - 1)] = s[j + 1]
      BY <3>1, <1>5
    <3> QED
      <4>1. ~(j <= k - 1) /\ j + 1 \in 1 .. Len(s)
        BY <2>2, <1>3
      <4> QED
        BY <2>2, <3>2, <4>1, <1>6
  <2> QED
    BY <2>1, <2>2
<1> QED
  BY <1>3, <1>4, <1>6, <1>7

-----------------------------------------------------------------------------
(* Meditation: the session lasts as long as was chosen, however the clock, *)
(* the pauses and the interval interleave.                                 *)


TimeInv == M!SessionOK /\ M!TimeKept /\ session.duration > 0

\* Durations are whole and positive (DURATION_OPTIONS, and the validated storage).
Durations == Minutes \subseteq Nat \ {0}

Sessions == [phase: M!Phases, duration: Minutes, endsAt: Nat, remaining: Nat, completed: Nat]

LEMMA InitTime == ASSUME Durations, M!Init PROVE TimeInv
BY DEF Durations, M!Init, TimeInv, M!SessionOK, M!TimeKept, M!SetupState, M!Phases

\* What the pure functions of meditationTimer.ts keep: a completed session ran its whole
\* duration, because it completes only at its end.
Kept(s, t, r) ==
  /\ s \in Sessions
  /\ s.duration > 0
  /\ CASE s.phase = "setup"   -> r = 0 /\ s.remaining = s.duration
       [] s.phase = "running" -> (s.endsAt - t) + r = s.duration
       [] s.phase = "paused"  -> s.remaining + r = s.duration
       [] OTHER -> s.completed = s.duration /\ r >= s.duration

LEMMA KeptIs == ASSUME M!SessionOK PROVE TimeInv <=> Kept(session, now, ran)
BY DEF M!SessionOK, TimeInv, M!TimeKept, Kept, Sessions

LEMMA CompletesAtEnd ==
  ASSUME Durations, now \in Nat, ran \in Nat, NEW s, Kept(s, now, ran),
         s.phase = "running", now >= s.endsAt
  PROVE  Kept(M!CompleteSession(s), now, ran)
<1>1. s \in Sessions /\ s.duration \in Nat \ {0} /\ s.endsAt \in Nat /\ s.duration <= ran
  BY DEF Kept, Sessions, Durations
<1>2. M!CompleteSession(s) = [s EXCEPT !.phase = "completed", !.endsAt = 0, !.remaining = 0,
                                     !.completed = s.duration]
  <2>1. (IF s.endsAt > now THEN s.endsAt - now ELSE 0) = 0
    BY <1>1
  <2>2. (IF s.phase = "running" THEN s.duration - 0 ELSE s.duration - s.remaining) = s.duration
    BY <1>1
  <2> QED
    BY <2>1, <2>2 DEF M!CompleteSession
<1> DEFINE w == [s EXCEPT !.phase = "completed", !.endsAt = 0, !.remaining = 0,
                          !.completed = s.duration]
<1>3. w \in Sessions /\ w.phase = "completed" /\ w.duration = s.duration
      /\ w.completed = s.duration
  BY <1>1 DEF Sessions, M!Phases
<1> HIDE DEF w
<1>4. Kept(w, now, ran)
  BY <1>1, <1>3 DEF Kept
<1> QED
  BY <1>2, <1>4 DEF w

LEMMA PausesKept ==
  ASSUME Durations, now \in Nat, ran \in Nat, NEW s, Kept(s, now, ran), s.phase = "running"
  PROVE  Kept(M!PauseSession(s), now, ran)
<1>1. CASE s.endsAt <= now
  <2>1. now >= s.endsAt
    BY <1>1 DEF Kept, Sessions
  <2> QED
    BY <1>1, <2>1, CompletesAtEnd DEF M!PauseSession
<1>2. CASE ~(s.endsAt <= now)
  <2> DEFINE w == [s EXCEPT !.phase = "paused", !.endsAt = 0, !.remaining = s.endsAt - now]
  <2>1. M!PauseSession(s) = w
    BY <1>2 DEF M!PauseSession
  <2>2. s.endsAt - now \in Nat /\ (s.endsAt - now) + ran = s.duration
    BY <1>2 DEF Kept, Sessions
  <2>3. w \in Sessions /\ w.phase = "paused" /\ w.duration = s.duration
        /\ w.remaining = s.endsAt - now
    BY <2>2 DEF Kept, Sessions, M!Phases
  <2> HIDE DEF w
  <2> QED
    BY <2>1, <2>2, <2>3 DEF Kept
<1> QED
  BY <1>1, <1>2

LEMMA ResumesKept ==
  ASSUME Durations, now \in Nat, ran \in Nat, NEW s, Kept(s, now, ran)
  PROVE  Kept(M!ResumeSession(s), now, ran)
<1>1. CASE s.phase # "paused"
  BY <1>1 DEF M!ResumeSession
<1>2. CASE s.phase = "paused"
  <2> DEFINE w == [s EXCEPT !.phase = "running", !.endsAt = now + s.remaining]
  <2>1. M!ResumeSession(s) = w
    BY <1>2 DEF M!ResumeSession
  <2>2. s.remaining \in Nat /\ s.remaining + ran = s.duration
    BY <1>2 DEF Kept, Sessions
  <2>3. w \in Sessions /\ w.phase = "running" /\ w.duration = s.duration
        /\ w.endsAt = now + s.remaining
    <3>1. s \in Sessions /\ now + s.remaining \in Nat
      BY <2>2 DEF Kept
    <3> QED
      BY <3>1 DEF Sessions, M!Phases
  <2> HIDE DEF w
  <2> QED
    BY <2>1, <2>2, <2>3 DEF Kept
<1> QED
  BY <1>1, <1>2

\* A session begins with all of the duration chosen.
LEMMA StartsKept ==
  ASSUME Durations, now \in Nat, NEW s \in Sessions, NEW m \in Minutes
  PROVE  Kept(M!StartSession([s EXCEPT !.duration = m, !.remaining = m]), now, 0)
<1> DEFINE v == [s EXCEPT !.duration = m, !.remaining = m]
           w == [v EXCEPT !.phase = "running", !.endsAt = now + v.remaining, !.completed = 0]
<1>1. M!StartSession(v) = w
  BY DEF M!StartSession
<1>2. v \in Sessions /\ v.duration = m /\ v.remaining = m /\ m \in Nat \ {0}
  BY DEF Sessions, Durations
<1> HIDE DEF v
<1>3. w \in Sessions /\ w.phase = "running" /\ w.duration = m /\ w.endsAt = now + m
  <2>1. now + v.remaining = now + m /\ now + m \in Nat
    BY <1>2
  <2> QED
    BY <1>2, <2>1 DEF Sessions, M!Phases
<1> HIDE DEF w
<1>4. Kept(w, now, 0)
  BY <1>2, <1>3 DEF Kept
<1> QED
  BY <1>1, <1>4 DEF v

LEMMA NextTime ==
  ASSUME Durations, TimeInv, [M!Next]_M!vars
  PROVE  TimeInv'
<1> USE Durations
<1>1. /\ now \in Nat /\ ran \in Nat /\ durationMin \in Minutes /\ saved.duration \in Minutes
      /\ Kept(session, now, ran)
  BY KeptIs DEF TimeInv, M!SessionOK
<1>2. ASSUME now' \in Nat, ran' \in Nat, durationMin' \in Minutes, saved'.duration \in Minutes,
             Kept(session', now', ran')
      PROVE  TimeInv'
  BY <1>2 DEF TimeInv, M!SessionOK, M!TimeKept, Kept, Sessions
<1>3. CASE UNCHANGED <<now, session, ran, durationMin>> /\ saved'.duration = saved.duration
  <2>1. Kept(session', now', ran')
    BY <1>1, <1>3
  <2>2. now' \in Nat /\ ran' \in Nat /\ durationMin' \in Minutes /\ saved'.duration \in Minutes
    BY <1>1, <1>3
  <2> QED
    BY <1>2, <2>1, <2>2
<1>4. CASE M!Advance
  <2>1. PICK t \in (now + 1) .. MaxClock :
          now' = t /\ ran' = IF session.phase = "running" THEN ran + (t - now) ELSE ran
    BY <1>4 DEF M!Advance
  <2>2. UNCHANGED <<session, durationMin, saved>> /\ t \in Int /\ t > now
    BY <1>1, <1>4, <2>1 DEF M!Advance
  <2>3. now' \in Nat /\ ran' \in Nat
    BY <1>1, <2>1, <2>2
  <2>4. Kept(session, now', ran')
    <3>1. CASE session.phase = "running"
      <4>1. (session.endsAt - now) + ran = session.duration /\ session \in Sessions
        BY <1>1, <3>1 DEF Kept
      <4>2. (session.endsAt - now') + ran' = session.duration
        BY <1>1, <2>1, <2>2, <3>1, <4>1 DEF Sessions
      <4> QED
        BY <1>1, <3>1, <4>2 DEF Kept
    <3>2. CASE session.phase # "running"
      BY <1>1, <2>1, <3>2 DEF Kept
    <3> QED
      BY <3>1, <3>2
  <2> QED
    BY <1>1, <1>2, <2>2, <2>3, <2>4
<1>5. CASE M!Tick
  <2>1. session.phase = "running" /\ session' = M!SyncSession(session)
        /\ UNCHANGED <<now, ran, durationMin, saved>>
    BY <1>5 DEF M!Tick, M!Show
  <2>2. Kept(M!SyncSession(session), now, ran)
    BY <1>1, <2>1, CompletesAtEnd DEF M!SyncSession
  <2> QED
    BY <1>1, <1>2, <2>1, <2>2
<1>6. ASSUME NEW m \in Minutes, M!SelectDuration(m) PROVE TimeInv'
  <2>1. session' = M!SetupState(m) /\ durationMin' = m /\ session.phase = "setup"
        /\ UNCHANGED <<now, ran, saved>>
    BY <1>6 DEF M!SelectDuration, M!InSetup
  <2>2. Kept(M!SetupState(m), now, ran)
    BY <1>1, <2>1 DEF Kept, Sessions, M!SetupState, M!Phases, Durations
  <2> QED
    BY <1>1, <1>2, <2>1, <2>2
<1>7. CASE M!Begin
  <2>1. /\ session.phase = "setup" /\ saved' = [saved EXCEPT !.duration = durationMin]
        /\ session' = M!StartSession([session EXCEPT !.duration = durationMin,
                                                   !.remaining = durationMin])
        /\ UNCHANGED <<now, ran, durationMin>>
    BY <1>7 DEF M!Begin, M!InSetup
  <2>2. Kept(session', now, ran)
    <3>1. ran = 0 /\ session \in Sessions
      BY <1>1, <2>1 DEF Kept
    <3> QED
      BY <1>1, <2>1, <3>1, StartsKept
  <2>3. saved'.duration \in Minutes
    BY <1>1, <2>1
  <2> QED
    BY <1>1, <1>2, <2>1, <2>2, <2>3
<1>8. CASE M!RingPress
  <2>1. /\ session.phase \in {"running", "paused"}
        /\ session' = IF session.phase = "running" THEN M!PauseSession(session)
                                                   ELSE M!ResumeSession(session)
        /\ UNCHANGED <<now, ran, durationMin, saved>>
    BY <1>8 DEF M!RingPress, M!Active, M!Show
  <2>2. Kept(session', now, ran)
    BY <1>1, <2>1, PausesKept, ResumesKept
  <2> QED
    BY <1>1, <1>2, <2>1, <2>2
<1>9. CASE M!Reopen
  <2>1. session' = M!SetupState(saved.duration) /\ ran' = 0 /\ durationMin' = saved.duration
        /\ UNCHANGED <<now, saved>>
    BY <1>9 DEF M!Reopen
  <2>2. Kept(M!SetupState(saved.duration), now, 0)
    BY <1>1 DEF Kept, Sessions, M!SetupState, M!Phases, Durations
  <2> QED
    BY <1>1, <1>2, <2>1, <2>2
<1>10. CASE M!Logged
  <2>1. saved'.duration = saved.duration /\ UNCHANGED <<now, session, ran, durationMin>>
    BY <1>10 DEF M!Logged, M!timer
  <2> QED
    BY <1>3, <2>1
<1>11. CASE M!RequestClose \/ M!KeepGoing \/ M!Skip \/ M!Log \/ M!Handle \/ M!Lose \/ M!Refetch
  BY <1>3, <1>11 DEF M!RequestClose, M!KeepGoing, M!Skip, M!Log, M!Handle, M!Lose, M!Refetch,
     M!timer, M!log, M!server
<1>12. ASSUME NEW h \in DueHabits, M!Pick(h) \/ M!Elsewhere(h) PROVE TimeInv'
  BY <1>3, <1>12 DEF M!Pick, M!Elsewhere, M!timer, M!log, M!server
<1>13. CASE UNCHANGED M!vars
  BY <1>3, <1>13 DEF M!vars, M!timer
<1> QED
  BY <1>4, <1>5, <1>6, <1>7, <1>8, <1>9, <1>10, <1>11, <1>12, <1>13 DEF M!Next

\* "Completed" claims the whole duration only when all of it has run, and what is left and
\* what has run add up before (meditationTimer.ts), for every duration, pause, throttled
\* interval and hidden page.
THEOREM TimeIsKept == ASSUME Durations PROVE M!Spec => []M!TimeKept
<1>1. M!Init => TimeInv
  BY InitTime
<1>2. TimeInv /\ [M!Next]_M!vars => TimeInv'
  BY NextTime
<1>3. TimeInv => M!TimeKept
  BY DEF TimeInv
<1> QED
  BY <1>1, <1>2, <1>3, PTL DEF M!Spec
\* The sheet and the log under way.
Choices == DueHabits \cup Hinted \cup {M!None}
Sheets == [skipped: BOOLEAN, last: Choices, selected: Choices, logging: BOOLEAN, logged: Choices]
\* What localStorage keeps, as far as the mark needs it.
Remembered(s) == s = [duration |-> s.duration, habit |-> s.habit] /\ s.habit \in Choices

Logs == [phase: {"idle", "sent", "answered"}, habit: Choices, answer: {"ok", "failed"}]

\* A log that was answered is one the server took, or counts as failed; another device may
\* have taken it back since.
Answered(c) == c.phase = "answered" => c.habit \in done \cup taken \cup failed

SheetInv ==
  /\ sheet \in Sheets /\ call \in Logs /\ Remembered(saved)
  /\ Answered(call) /\ M!MarkedWasLogged

LEMMA SuggestedIs == ASSUME NEW last PROVE M!Suggested(last) \subseteq Choices
BY DEF M!Suggested, Choices

\* However the suggestion changes, the mark stays.
LEMMA ShownKeeps ==
  ASSUME NEW new, NEW after \in Sheets, M!SetShown(new, after)
  PROVE  sheet' \in Sheets /\ sheet'.logged = after.logged
<1>1. CASE sheet' = after
  BY <1>1
<1>2. ASSUME NEW h \in M!Suggested(after.last), sheet' = [after EXCEPT !.selected = h]
      PROVE  sheet' \in Sheets /\ sheet'.logged = after.logged
  BY <1>2, SuggestedIs DEF Sheets
<1> QED
  BY <1>1, <1>2 DEF M!SetShown

LEMMA NoSheetIs == M!NoSheet \in Sheets /\ M!NoSheet.logged = M!None
BY DEF M!NoSheet, Sheets, Choices

\* A sheet that mounts has no mark.
LEMMA ShowKeeps ==
  ASSUME NEW s, sheet \in Sheets, saved.habit \in Choices, M!Show(s)
  PROVE  sheet' \in Sheets /\ (sheet'.logged = sheet.logged \/ sheet'.logged = M!None)
<1>1. CASE sheet' = sheet
  BY <1>1
<1>2. ASSUME NEW h \in M!Suggested(saved.habit),
             sheet' = [M!NoSheet EXCEPT !.last = saved.habit, !.selected = h]
      PROVE  sheet' \in Sheets /\ sheet'.logged = M!None
  BY <1>2, SuggestedIs, NoSheetIs DEF Sheets
<1> QED
  BY <1>1, <1>2 DEF M!Show

LEMMA InitSheet == M!Init => SheetInv
BY NoSheetIs DEF Remembered, M!Init, SheetInv, Answered, M!MarkedWasLogged, Logs, Choices

LEMMA NextSheet == SheetInv /\ [M!Next]_(M!vars) => SheetInv'
<1> SUFFICES ASSUME SheetInv, [M!Next]_(M!vars) PROVE SheetInv'
  OBVIOUS
<1>1. /\ sheet \in Sheets /\ call \in Logs /\ Remembered(saved)
      /\ Answered(call) /\ M!MarkedWasLogged
  BY DEF SheetInv
\* What suffices of a step: what the server knew is not forgotten.
<1>2. ASSUME sheet' \in Sheets, sheet'.logged \in {sheet.logged, M!None},
             call' = call, Remembered(saved)',
             done \cup taken \cup failed \subseteq done' \cup taken' \cup failed'
      PROVE  SheetInv'
  BY <1>1, <1>2 DEF Remembered, SheetInv, Answered, M!MarkedWasLogged
<1>3. CASE UNCHANGED <<sheet, call, saved, done, taken, failed>>
  BY <1>1, <1>2, <1>3
<1>4. ASSUME NEW s, M!Show(s), UNCHANGED <<call, saved, done, taken, failed>> PROVE SheetInv'
  BY <1>1, <1>2, <1>4, ShowKeeps DEF Remembered
<1>5. CASE M!Tick \/ M!RingPress
  BY <1>4, <1>5 DEF M!Tick, M!RingPress, M!server
<1>6. CASE M!Begin
  BY <1>1, <1>2, <1>6 DEF Remembered, M!Begin, M!log, M!server
<1>7. CASE M!Reopen
  BY <1>1, <1>2, <1>7, NoSheetIs DEF M!Reopen, M!server
<1>8. CASE M!Skip
  BY <1>1, <1>2, <1>8 DEF M!Skip, M!server, Sheets
<1>9. ASSUME NEW h \in DueHabits, M!Pick(h) PROVE SheetInv'
  <2>1. h \in Choices
    BY DEF Choices
  <2> QED
    BY <1>1, <1>2, <1>9, <2>1 DEF M!Pick, M!server, Sheets
<1>10. CASE M!Refetch
  BY <1>1, <1>2, <1>10, ShownKeeps DEF M!Refetch, M!server
<1>11. ASSUME NEW h \in DueHabits, M!Elsewhere(h) PROVE SheetInv'
  <2>1. done \cup taken \cup failed \subseteq done' \cup taken' \cup failed'
    BY <1>11 DEF M!Elsewhere
  <2> QED
    BY <1>1, <1>2, <1>11, <2>1 DEF M!Elsewhere, M!log
<1>12. CASE M!Log
  <2> DEFINE after == [sheet EXCEPT !.logging = TRUE]
  <2>1. after \in Sheets /\ after.logged = sheet.logged
    BY <1>1 DEF Sheets
  <2> HIDE DEF after
  <2>2. sheet' \in Sheets /\ sheet'.logged = sheet.logged
    <3>1. M!SetShown(shown \cup {sheet.selected}, after)
      BY <1>12 DEF M!Log, after
    <3> QED
      BY <2>1, <3>1, ShownKeeps
  <2>3. call' \in Logs /\ call'.phase = "sent"
    BY <1>1, <1>12 DEF M!Log, Logs, Sheets
  <2> QED
    BY <1>1, <1>12, <2>2, <2>3 DEF M!Log, M!server, SheetInv, Answered, M!MarkedWasLogged
<1>13. CASE M!Handle
  <2>1. call' \in Logs /\ call'.habit = call.habit
    BY <1>1, <1>13 DEF M!Handle, Logs
  <2> QED
    BY <1>1, <1>13, <2>1 DEF M!Handle, SheetInv, Answered, M!MarkedWasLogged
<1>14. CASE M!Lose
  <2>1. call' \in Logs /\ call'.habit = call.habit
    BY <1>1, <1>14 DEF M!Lose, Logs
  <2> QED
    BY <1>1, <1>14, <2>1 DEF M!Lose, SheetInv, Answered, M!MarkedWasLogged
<1>15. CASE M!Logged
  <2> DEFINE after == IF sheet.logging
                      THEN [sheet EXCEPT !.logging = FALSE, !.logged = call.habit] ELSE sheet
  <2>1. call.phase = "answered" /\ call.habit \in Choices /\ UNCHANGED <<done, taken, failed>>
    BY <1>1, <1>15 DEF M!Logged, M!server, Logs
  <2>2. after \in Sheets /\ after.logged \in {sheet.logged, call.habit}
    BY <1>1, <2>1 DEF Sheets
  <2> HIDE DEF after
  <2>3. sheet' \in Sheets /\ sheet'.logged = after.logged
    <3>1. M!SetShown(IF call.answer = "ok" THEN shown ELSE shown \ {call.habit}, after)
      BY <1>15 DEF M!Logged, M!Picked, after
    <3> QED
      BY <2>2, <3>1, ShownKeeps
  <2>4. call' \in Logs /\ call'.phase = "idle"
    BY <1>1, <1>15 DEF M!Logged, Logs
  <2>5. Remembered(saved)'
    BY <1>1, <1>15, <2>1 DEF Remembered, M!Logged, M!Picked
  <2> QED
    BY <1>1, <2>1, <2>2, <2>3, <2>4, <2>5 DEF SheetInv, Answered, M!MarkedWasLogged
<1>16. ASSUME NEW m \in Minutes, M!SelectDuration(m) PROVE SheetInv'
  BY <1>3, <1>16 DEF M!SelectDuration, M!log, M!server
<1>17. CASE M!Advance \/ M!RequestClose \/ M!KeepGoing \/ UNCHANGED M!vars
  BY <1>3, <1>17 DEF M!Advance, M!RequestClose, M!KeepGoing, M!log, M!server, M!vars
<1> QED
  BY <1>5, <1>6, <1>7, <1>8, <1>9, <1>10, <1>11, <1>12, <1>13, <1>14, <1>15, <1>16, <1>17
     DEF M!Next

\* The row that the sheet marks was logged, unless its log failed or another device took it
\* back (MeditationLogSheet.tsx), whatever was selected, suggested or fetched meanwhile.
THEOREM MarkedWasLogged == M!Spec => []M!MarkedWasLogged
<1>1. SheetInv => M!MarkedWasLogged
  BY DEF SheetInv
<1> QED
  BY <1>1, InitSheet, NextSheet, PTL DEF M!Spec

\* The habits whose name suggests meditation are among those that are due.
HintsDue == Hinted \subseteq DueHabits

\* What the server and the screen count as completed are habits that are due.
MarksInv ==
  /\ done \subseteq DueHabits /\ shown \subseteq DueHabits
  /\ taken \subseteq DueHabits /\ failed \subseteq DueHabits
  /\ call.phase # "idle" => call.habit \in DueHabits

LEMMA InitMarks == M!Init => MarksInv
BY DEF M!Init, MarksInv

LEMMA NextMarks == ASSUME HintsDue, SheetInv, MarksInv, [M!Next]_(M!vars) PROVE MarksInv'
<1>1. /\ sheet \in Sheets /\ call \in Logs
  BY DEF SheetInv
<1>2. CASE UNCHANGED <<done, shown, taken, failed, call>>
  BY <1>2 DEF MarksInv
<1>3. CASE \/ M!Advance \/ M!Tick \/ (\E m \in Minutes : M!SelectDuration(m)) \/ M!Begin
           \/ M!RingPress \/ M!RequestClose \/ M!KeepGoing \/ M!Reopen \/ M!Skip
           \/ (\E h \in DueHabits : M!Pick(h)) \/ UNCHANGED M!vars
  BY <1>2, <1>3 DEF M!Advance, M!Tick, M!SelectDuration, M!Begin, M!RingPress, M!RequestClose,
    M!KeepGoing, M!Reopen, M!Skip, M!Pick, M!vars, M!log, M!server
<1>4. CASE M!Log
  <2>1. /\ call' = [phase |-> "sent", habit |-> sheet.selected, answer |-> "ok"]
        /\ shown' = shown \cup {sheet.selected} /\ UNCHANGED <<done, taken, failed>>
        /\ sheet.selected # M!None
    BY <1>4 DEF M!Log, M!SetShown, M!server
  <2>2. sheet.selected \in DueHabits
    BY <1>1, <2>1 DEF Sheets, Choices, HintsDue
  <2> QED
    BY <2>1, <2>2 DEF MarksInv
<1>5. CASE M!Handle \/ M!Lose
  <2>1. call.phase # "idle" /\ call'.habit = call.habit /\ shown' = shown /\ taken' = taken
    BY <1>1, <1>5 DEF M!Handle, M!Lose, Logs
  <2>2. done' \subseteq done \cup {call.habit} /\ failed' \subseteq failed \cup {call.habit}
    BY <1>5 DEF M!Handle, M!Lose
  <2> QED
    BY <2>1, <2>2 DEF MarksInv
<1>6. CASE M!Logged
  <2>1. call'.phase = "idle" /\ shown' \subseteq shown /\ UNCHANGED <<done, taken, failed>>
    BY <1>1, <1>6 DEF M!Logged, M!SetShown, M!server, Logs
  <2> QED
    BY <2>1 DEF MarksInv
<1>7. CASE M!Refetch
  BY <1>7 DEF M!Refetch, M!SetShown, M!server, MarksInv
<1>8. ASSUME NEW h \in DueHabits, M!Elsewhere(h) PROVE MarksInv'
  BY <1>8 DEF M!Elsewhere, M!log, MarksInv
<1> QED
  BY <1>3, <1>4, <1>5, <1>6, <1>7, <1>8 DEF M!Next

\* The types of the variables of the meditation screen.
THEOREM MeditationTyped == ASSUME Durations, HintsDue PROVE M!Spec => []M!TypeOK
<1>1. M!Init => TimeInv /\ SheetInv /\ MarksInv
  BY InitTime, InitSheet, InitMarks
<1>2. TimeInv /\ SheetInv /\ MarksInv /\ [M!Next]_(M!vars)
      => TimeInv' /\ SheetInv' /\ MarksInv'
  BY NextTime, NextSheet, NextMarks
<1>3. TimeInv /\ SheetInv /\ MarksInv => M!TypeOK
  <2> SUFFICES ASSUME TimeInv, SheetInv, MarksInv PROVE M!TypeOK
    OBVIOUS
  <2>1. Choices = DueHabits \cup {M!None}
    BY DEF Choices, HintsDue
  <2>2. {sheet.last, sheet.selected, sheet.logged, saved.habit} \subseteq Choices
    BY DEF SheetInv, Sheets, Remembered
  <2>3. call.phase \in {"idle", "sent", "answered"}
    BY DEF SheetInv, Logs
  <2>4. {done, shown, taken, failed} \subseteq SUBSET DueHabits
    BY DEF MarksInv
  <2>5. M!SessionOK
    BY DEF TimeInv
  <2> QED
    BY <2>1, <2>2, <2>3, <2>4, <2>5 DEF M!TypeOK
<1> QED
  BY <1>1, <1>2, <1>3, PTL DEF M!Spec

-----------------------------------------------------------------------------
(* Push: what the push switch shows.                                       *)

Endpoints == MaxEndpoints \in Nat

OpRecs == [kind : {"none", "subscribe", "unsubscribe"},
           step : {"idle", "ask", "obtain", "register", "answered", "delete", "deleted", "missing"},
           endpoint : Nat, mounted : BOOLEAN]

\* A switching has a kind and is at a step of that kind.
OpOK(x) ==
  /\ x.kind = "none" => x = P!NoOp
  /\ x.kind = "subscribe" => x.step \in {"ask", "obtain", "register", "answered"}
  /\ x.kind = "unsubscribe" => x.step \in {"ask", "delete", "deleted", "missing"}
  /\ x.step \in {"register", "delete"} => x.endpoint # 0

SwitchTypes ==
  /\ user \in Users \cup {P!Nobody} /\ permission \in {"default", "granted", "denied"}
  /\ status \in {"away", "subscribed", "unsubscribed", "denied"} /\ alone \in BOOLEAN
  /\ made \in Nat /\ made <= MaxEndpoints /\ sub \in Nat /\ sub <= made
  /\ op \in [Ops -> OpRecs]
  /\ \A o \in Ops : OpOK(op[o])
  /\ \A o \in Ops : op[o].endpoint <= made
  /\ tokens \subseteq [user : Users, endpoint : 1 .. made]
  /\ user = P!Nobody => status = "away" /\ \A o \in Ops : ~op[o].mounted

\* Where a switching x that is alone has brought the browser and the backend.
Stage(x, shows, endpoint, account, known) ==
  /\ shows = IF ~x.mounted THEN "away"
             ELSE IF x.kind = "subscribe" THEN "unsubscribed" ELSE "subscribed"
  /\ x.kind = "subscribe" /\ x.step \in {"ask", "obtain"} => endpoint = 0
  /\ x.step = "register" => endpoint = x.endpoint
  /\ x.step = "answered" \/ (x.kind = "unsubscribe" /\ x.step = "ask") =>
       endpoint # 0 /\ [user |-> account, endpoint |-> endpoint] \in known
  /\ x.step = "delete" => endpoint = 0 /\ [user |-> account, endpoint |-> x.endpoint] \in known
  /\ x.step = "deleted" => endpoint = 0
  /\ x.step # "missing"

\* Nobody is signed in only at a browser without a subscription, and between switchings the
\* subscription is the account's and the switch shows it.
AloneOK ==
  /\ \A o, q \in Ops : op[o] # P!NoOp /\ op[q] # P!NoOp => o = q
  /\ user = P!Nobody => P!Idle /\ sub = 0
  /\ P!Idle => /\ user # P!Nobody /\ sub # 0 => P!Receives
               /\ status = "subscribed" => sub # 0
               /\ status = "unsubscribed" => sub = 0
  /\ \A o \in Ops : op[o] # P!NoOp => Stage(op[o], status, sub, user, tokens)

SwitchInv == SwitchTypes /\ (alone => AloneOK)

LEMMA InitSwitch == ASSUME Endpoints, P!Init PROVE SwitchInv
BY DEF Endpoints, P!Init, SwitchInv, SwitchTypes, AloneOK, P!Idle, P!NoOp, OpRecs, OpOK,
   P!Nobody, Stage

\* The end of a switching.
LEMMA EndTypes ==
  ASSUME SwitchTypes, NEW o \in Ops, op[o] # P!NoOp, NEW new, P!End(o, new),
         new \in {"away", "subscribed", "unsubscribed", "denied"}
  PROVE  /\ op' \in [Ops -> OpRecs] /\ \A q \in Ops : OpOK(op'[q]) /\ op'[q].endpoint <= made
         /\ status' \in {"away", "subscribed", "unsubscribed", "denied"}
         /\ user = P!Nobody => status' = "away" /\ \A q \in Ops : ~op'[q].mounted
         /\ op'[o] = P!NoOp /\ \A q \in Ops \ {o} : op'[q] = op[q]
         /\ status' = IF op[o].mounted THEN new ELSE status
<1>1. op' = [op EXCEPT ![o] = P!NoOp] /\ status' = IF op[o].mounted THEN new ELSE status
  BY DEF P!End
<1>2. P!NoOp \in OpRecs /\ OpOK(P!NoOp) /\ ~P!NoOp.mounted /\ P!NoOp.endpoint = 0
  BY DEF P!NoOp, OpRecs, OpOK
<1>3. 0 <= made
  BY DEF SwitchTypes
<1> QED
  BY <1>1, <1>2, <1>3 DEF SwitchTypes

\* A switching that was alone ends: none is left.
LEMMA EndsIdle ==
  ASSUME AloneOK, NEW o \in Ops, op[o] # P!NoOp, op'[o] = P!NoOp,
         \A q \in Ops \ {o} : op'[q] = op[q]
  PROVE  \A q \in Ops : op'[q] = P!NoOp
BY DEF AloneOK

\* One step of a switching, not its last.
LEMMA GoesOn ==
  ASSUME SwitchTypes, NEW o \in Ops, op[o] # P!NoOp, NEW x \in OpRecs, OpOK(x), x # P!NoOp,
         op' = [op EXCEPT ![o] = x]
  PROVE  /\ op' \in [Ops -> OpRecs] /\ \A q \in Ops : OpOK(op'[q])
         /\ op'[o] = x /\ \A q \in Ops \ {o} : op'[q] = op[q]
         /\ AloneOK => \A q \in Ops : op'[q] # P!NoOp => q = o
BY DEF SwitchTypes, AloneOK

LEMMA SameOp ==
  ASSUME NEW x \in OpRecs, NEW y \in OpRecs, x.kind = y.kind, x.step = y.step,
         x.endpoint = y.endpoint, x.mounted = y.mounted
  PROVE  x = y
BY DEF OpRecs

LEMMA NextSwitch == ASSUME Endpoints, SwitchInv, [P!Next]_(P!vars) PROVE SwitchInv'
<1> USE DEF SwitchInv
<1>0. SwitchTypes
  OBVIOUS
<1>1. CASE UNCHANGED <<user, P!push>>
  BY <1>1 DEF P!push, SwitchTypes, AloneOK, P!Idle, P!Receives, Stage
<1>2. CASE P!Open
  <2>1. /\ user # P!Nobody /\ status' = P!Checked /\ alone' = (alone /\ P!Idle)
        /\ UNCHANGED <<user, permission, sub, made, tokens, op>>
    BY <1>2 DEF P!Open, P!reminder
  <2>2. SwitchTypes'
    BY <2>1 DEF SwitchTypes, P!Checked
  <2>3. ASSUME alone' PROVE AloneOK'
    BY <2>1, <2>3 DEF AloneOK, P!Idle, P!Receives, P!Checked
  <2> QED
    BY <2>2, <2>3
<1>3. ASSUME user' = user \/ user' = P!Nobody, P!Unmount(status),
             alone' => alone /\ (user' = user \/ (P!Idle /\ sub = 0)),
             UNCHANGED <<permission, sub, made, tokens>>, alone' \in BOOLEAN
      PROVE  SwitchInv'
  <2> DEFINE off(x) == [x EXCEPT !.mounted = FALSE]
  <2>1. status' = "away" /\ op' = [o \in Ops |-> off(op[o])]
    BY <1>3 DEF P!Unmount
  <2>2. ASSUME NEW x \in OpRecs, OpOK(x)
        PROVE  /\ off(x) \in OpRecs /\ OpOK(off(x)) /\ (off(x) = P!NoOp <=> x = P!NoOp)
               /\ off(x).kind = x.kind /\ off(x).step = x.step /\ off(x).endpoint = x.endpoint
               /\ ~off(x).mounted
    <3>1. /\ off(x) \in OpRecs /\ off(x).kind = x.kind /\ off(x).step = x.step
          /\ off(x).endpoint = x.endpoint /\ off(x).mounted = FALSE
      BY <2>2 DEF OpRecs
    <3>2. x = P!NoOp <=> x.kind = "none"
      BY <2>2 DEF OpOK, P!NoOp
    <3>3. P!NoOp.mounted = FALSE /\ P!NoOp \in OpRecs /\ P!NoOp.kind = "none"
      BY DEF P!NoOp, OpRecs
    <3>4. x = P!NoOp => off(x) = P!NoOp
      <4> HIDE DEF off
      <4> QED
        BY <3>1, <3>3, SameOp
    <3>5. off(x) = P!NoOp <=> x = P!NoOp
      BY <3>1, <3>2, <3>3, <3>4
    <3> HIDE DEF off
    <3> QED
      BY <2>2, <3>1, <3>2, <3>5 DEF OpOK
  <2> HIDE DEF off
  <2>3. SwitchTypes'
    BY <1>3, <2>1, <2>2 DEF SwitchTypes
  <2>4. ASSUME alone' PROVE AloneOK'
    <3>1. AloneOK /\ \A o \in Ops : op'[o] = off(op[o]) /\ op[o] \in OpRecs /\ OpOK(op[o])
      BY <1>3, <2>1, <2>4 DEF SwitchTypes
    <3>2. P!Idle' <=> P!Idle
      BY <2>2, <3>1 DEF P!Idle
    <3>3. CASE user' = user
      BY <1>3, <2>1, <2>2, <3>1, <3>2, <3>3 DEF AloneOK, Stage, P!Receives
    <3>4. CASE P!Idle /\ sub = 0
      BY <1>3, <2>1, <2>2, <3>1, <3>2, <3>4 DEF AloneOK, P!Idle
    <3> QED
      BY <1>3, <2>4, <3>3, <3>4
  <2> QED
    BY <2>3, <2>4
<1>4. CASE P!Leave
  BY <1>3, <1>4 DEF P!Leave, P!reminder, SwitchTypes
<1>5. CASE P!SignOut
  <2>1. P!Unmount(status)
    BY <1>5 DEF P!SignOut, P!Unmount
  <2> QED
    BY <1>3, <1>5, <2>1 DEF P!SignOut, SwitchTypes
<1>6. ASSUME NEW u \in Users, P!SignIn(u) PROVE SwitchInv'
  <2>1. user = P!Nobody /\ user' = u /\ UNCHANGED P!push
    BY <1>6 DEF P!SignIn
  <2>2. SwitchTypes'
    BY <2>1 DEF SwitchTypes, P!push
  <2>3. ASSUME alone' PROVE AloneOK'
    BY <2>1, <2>3 DEF AloneOK, P!push, P!Idle, SwitchTypes
  <2> QED
    BY <2>2, <2>3
<1>7. CASE P!BrowserDrops
  <2>1. /\ sub' = 0 /\ alone' = FALSE
        /\ UNCHANGED <<user, permission, made, tokens, status, op>>
    BY <1>7 DEF P!BrowserDrops, P!reminder
  <2>2. 0 \in Nat /\ 0 <= made
    BY DEF SwitchTypes
  <2> QED
    BY <2>1, <2>2 DEF SwitchTypes
<1>8. CASE P!Prune
  <2>1. /\ \E token \in tokens : token.endpoint # sub /\ tokens' = tokens \ {token}
        /\ alone' = (alone /\ P!Idle)
        /\ UNCHANGED <<user, permission, sub, made, status, op>>
    BY <1>8 DEF P!Prune, P!reminder
  <2>2. SwitchTypes'
    BY <2>1 DEF SwitchTypes
  <2>3. ASSUME alone' PROVE AloneOK'
    <3>1. AloneOK /\ P!Idle
      BY <2>1, <2>3
    <3>2. P!Receives => P!Receives'
      BY <2>1 DEF P!Receives
    <3> QED
      BY <2>1, <3>1, <3>2 DEF AloneOK, P!Idle
  <2> QED
    BY <2>2, <2>3
<1>9. ASSUME NEW o \in Ops, P!Subscribe(o) \/ P!Unsubscribe(o) PROVE SwitchInv'
  <2>1. PICK k \in {"subscribe", "unsubscribe"} :
          /\ status = IF k = "subscribe" THEN "unsubscribed" ELSE "subscribed"
          /\ P!Begin(o, k) /\ UNCHANGED <<user, permission, sub, made, tokens, status>>
    BY <1>9 DEF P!Subscribe, P!Unsubscribe, P!Switchable, P!reminder
  <2> DEFINE x == [P!NoOp EXCEPT !.kind = k, !.step = "ask", !.mounted = TRUE]
  <2>2. op[o] = P!NoOp /\ op' = [op EXCEPT ![o] = x] /\ alone' = (alone /\ P!Idle)
    BY <2>1 DEF P!Begin
  <2>3. /\ x \in OpRecs /\ x.kind = k /\ x.step = "ask" /\ x.mounted = TRUE /\ x.endpoint = 0
        /\ x # P!NoOp
    BY DEF P!NoOp, OpRecs
  <2> HIDE DEF x
  <2>4. OpOK(x)
    BY <2>1, <2>3 DEF OpOK
  <2>5. SwitchTypes'
    <3>1. user # P!Nobody
      BY <2>1 DEF SwitchTypes
    <3> QED
      BY <2>1, <2>2, <2>3, <2>4, <3>1 DEF SwitchTypes
  <2>6. ASSUME alone' PROVE AloneOK'
    <3>1. AloneOK /\ P!Idle /\ \A q \in Ops : op'[q] = IF q = o THEN x ELSE op[q]
      BY <2>2, <2>6 DEF SwitchTypes
    <3>2. user # P!Nobody /\ user' = user
      BY <2>1 DEF SwitchTypes
    <3>3. Stage(x, status', sub', user', tokens')
      BY <2>1, <2>3, <3>1, <3>2 DEF AloneOK, Stage, P!Receives
    <3> QED
      BY <2>3, <3>1, <3>2, <3>3 DEF AloneOK, P!Idle
  <2> QED
    BY <2>5, <2>6
\* A switching goes on, or ends.
<1>10. ASSUME NEW o \in Ops, op[o] # P!NoOp, NEW x \in OpRecs, OpOK(x), x # P!NoOp, x.endpoint <= made',
              op' = [op EXCEPT ![o] = x], x.mounted = op[o].mounted,
              UNCHANGED <<user, status, alone>>, permission' \in {"default", "granted", "denied"},
              made' \in Nat, made <= made', made' <= MaxEndpoints, sub' \in Nat, sub' <= made',
              tokens' \subseteq [user : Users, endpoint : 1 .. made'],
              alone => Stage(x, status', sub', user', tokens')
       PROVE  SwitchInv'
  <2>1. /\ op' \in [Ops -> OpRecs] /\ \A q \in Ops : OpOK(op'[q])
        /\ op'[o] = x /\ \A q \in Ops \ {o} : op'[q] = op[q]
        /\ AloneOK => \A q \in Ops : op'[q] # P!NoOp => q = o
    BY <1>0, <1>10, GoesOn
  <2>2. SwitchTypes'
    <3>1. \A q \in Ops : op'[q].endpoint <= made'
      <4>1. ASSUME NEW q \in Ops, q # o PROVE op'[q].endpoint <= made'
        <5>1. op'[q] = op[q] /\ op[q].endpoint \in Nat /\ op[q].endpoint <= made /\ made \in Nat
          BY <2>1, <4>1 DEF SwitchTypes, OpRecs
        <5> QED
          BY <1>10, <5>1
      <4> QED
        BY <1>10, <2>1, <4>1
    <3>2. (user = P!Nobody => status = "away" /\ \A q \in Ops : ~op[q].mounted)'
      BY <1>10, <2>1 DEF SwitchTypes
    <3> QED
      BY <1>10, <2>1, <3>1, <3>2 DEF SwitchTypes
  <2>3. ASSUME alone' PROVE AloneOK'
    <3>1. AloneOK /\ Stage(x, status', sub', user', tokens') /\ user # P!Nobody /\ user' = user
      BY <1>10, <2>3 DEF AloneOK, P!Idle
    <3>2. ~P!Idle'
      BY <1>10, <2>1 DEF P!Idle
    <3> QED
      BY <1>10, <2>1, <3>1, <3>2 DEF AloneOK
  <2> QED
    BY <2>2, <2>3
<1>11. ASSUME NEW o \in Ops, op[o] # P!NoOp, NEW new, P!End(o, new),
              new \in {"away", "subscribed", "unsubscribed", "denied"},
              UNCHANGED <<user, made, tokens>>, permission' \in {"default", "granted", "denied"},
              alone' \in BOOLEAN, sub' \in {0, sub},
              alone' => /\ alone /\ sub' = sub
                        /\ sub # 0 => P!Receives
                        /\ new = "subscribed" => sub # 0
                        /\ new = "unsubscribed" => sub = 0
       PROVE  SwitchInv'
  <2>1. /\ op' \in [Ops -> OpRecs] /\ \A q \in Ops : OpOK(op'[q]) /\ op'[q].endpoint <= made
        /\ status' \in {"away", "subscribed", "unsubscribed", "denied"}
        /\ user = P!Nobody => status' = "away" /\ \A q \in Ops : ~op'[q].mounted
        /\ op'[o] = P!NoOp /\ \A q \in Ops \ {o} : op'[q] = op[q]
        /\ status' = IF op[o].mounted THEN new ELSE status
    BY <1>0, <1>11, EndTypes
  <2>2. SwitchTypes'
    BY <1>11, <2>1 DEF SwitchTypes
  <2>3. ASSUME alone' PROVE AloneOK'
    <3>1. AloneOK /\ Stage(op[o], status, sub, user, tokens) /\ user # P!Nobody /\ user' = user
      BY <1>11, <2>3 DEF AloneOK, P!Idle
    <3>2. \A q \in Ops : op'[q] = P!NoOp
      BY <1>11, <2>1, <3>1, EndsIdle
    <3>3. P!Receives' <=> P!Receives
      BY <1>11, <2>3 DEF P!Receives
    <3>4. status' = new \/ status' = "away"
      BY <2>1, <3>1 DEF Stage
    <3> QED
      BY <1>11, <2>3, <3>1, <3>2, <3>3, <3>4 DEF AloneOK
  <2> QED
    BY <2>2, <2>3
<1>12. ASSUME NEW o \in Ops, P!Ask(o) PROVE SwitchInv'
  <2>1. /\ op[o].kind = "subscribe" /\ op[o].step = "ask" /\ op[o] # P!NoOp
        /\ UNCHANGED <<user, sub, made, tokens, alone>>
    BY <1>12 DEF P!Ask, P!NoOp, P!reminder
  <2>2. PICK answer \in {"default", "granted", "denied"} :
          /\ permission' = answer
          /\ \/ answer = "granted" /\ op' = [op EXCEPT ![o].step = "obtain"] /\ status' = status
             \/ answer = "denied" /\ P!End(o, "denied")
             \/ P!End(o, "unsubscribed")
    BY <1>12, <2>1 DEF P!Ask, P!Failed, SwitchTypes
  <2>3. alone => AloneOK /\ Stage(op[o], status, sub, user, tokens) /\ sub = 0
    BY <2>1 DEF AloneOK, Stage
  <2>4. CASE op' = [op EXCEPT ![o].step = "obtain"] /\ status' = status
    <3> DEFINE x == [op[o] EXCEPT !.step = "obtain"]
    <3>1. op[o] \in OpRecs /\ OpOK(op[o]) /\ op[o].endpoint <= made
      BY DEF SwitchTypes
    <3>2. /\ x \in OpRecs /\ x.kind = "subscribe" /\ x.step = "obtain" /\ x.mounted = op[o].mounted
          /\ x.endpoint = op[o].endpoint /\ x # P!NoOp
      BY <2>1, <3>1 DEF OpRecs, P!NoOp
    <3>3. op' = [op EXCEPT ![o] = x]
      BY <2>4
    <3> HIDE DEF x
    <3>4. OpOK(x)
      BY <3>2 DEF OpOK
    <3>5. alone => Stage(x, status', sub', user', tokens')
      BY <2>1, <2>3, <2>4, <3>2 DEF Stage
    <3>6. /\ made' \in Nat /\ made <= made' /\ made' <= MaxEndpoints /\ sub' \in Nat /\ sub' <= made'
          /\ tokens' \subseteq [user : Users, endpoint : 1 .. made']
          /\ permission' \in {"default", "granted", "denied"}
      BY <2>1, <2>2 DEF SwitchTypes
    <3> QED
      BY <1>10, <3>6, <2>1, <2>2, <2>4, <3>1, <3>2, <3>3, <3>4, <3>5
  <2>5. CASE P!End(o, "denied") \/ P!End(o, "unsubscribed")
    BY <1>11, <2>1, <2>2, <2>3, <2>5 DEF SwitchTypes
  <2> QED
    BY <2>2, <2>4, <2>5
<1>13. ASSUME NEW o \in Ops, P!Obtain(o) PROVE SwitchInv'
  <2> DEFINE x == [op[o] EXCEPT !.step = "register", !.endpoint = sub']
  <2>1. /\ op[o].step = "obtain" /\ (sub # 0 \/ made < MaxEndpoints)
        /\ sub' = (IF sub # 0 THEN sub ELSE made + 1) /\ made' = (IF sub # 0 THEN made ELSE made + 1)
        /\ UNCHANGED <<user, permission, tokens, status, alone>>
    BY <1>13 DEF P!Obtain, P!reminder
  <2>2. op' = [op EXCEPT ![o] = x]
    BY <1>13 DEF P!Obtain
  <2>3. /\ op[o] \in OpRecs /\ OpOK(op[o]) /\ sub' \in Nat /\ sub' # 0 /\ made' \in Nat
        /\ made <= made' /\ sub' <= made' /\ made' <= MaxEndpoints
    BY <2>1 DEF SwitchTypes, Endpoints
  <2>4. op[o] # P!NoOp /\ op[o].kind = "subscribe"
    BY <2>1, <2>3 DEF OpOK, OpRecs, P!NoOp
  <2>5. /\ x \in OpRecs /\ x.kind = "subscribe" /\ x.step = "register" /\ x.mounted = op[o].mounted
        /\ x.endpoint = sub' /\ x # P!NoOp
    BY <2>1, <2>3, <2>4 DEF OpRecs, P!NoOp
  <2> HIDE DEF x
  <2>6. OpOK(x)
    BY <2>3, <2>5 DEF OpOK
  <2>7. alone => Stage(x, status', sub', user', tokens')
    BY <2>1, <2>4, <2>5 DEF Stage, AloneOK
  <2>8. tokens' \subseteq [user : Users, endpoint : 1 .. made']
    BY <2>1, <2>3 DEF SwitchTypes
  <2> QED
    BY <1>10, <2>1, <2>2, <2>3, <2>4, <2>5, <2>6, <2>7, <2>8 DEF SwitchTypes
<1>14. ASSUME NEW o \in Ops, P!Register(o) PROVE SwitchInv'
  <2> DEFINE x == [op[o] EXCEPT !.step = "answered"]
  <2>1. /\ op[o].step = "register" /\ user # P!Nobody
        /\ tokens' = tokens \cup {[user |-> user, endpoint |-> op[o].endpoint]}
        /\ op' = [op EXCEPT ![o] = x]
        /\ UNCHANGED <<user, permission, sub, made, status, alone>>
    BY <1>14 DEF P!Register, P!reminder
  <2>2. /\ op[o] \in OpRecs /\ OpOK(op[o]) /\ op[o].endpoint <= made /\ user \in Users
        /\ made \in Nat
    BY <2>1 DEF SwitchTypes
  <2>3. op[o] # P!NoOp /\ op[o].kind = "subscribe" /\ op[o].endpoint \in 1 .. made
    BY <2>1, <2>2 DEF OpOK, OpRecs, P!NoOp
  <2>4. /\ x \in OpRecs /\ x.kind = "subscribe" /\ x.step = "answered" /\ x.mounted = op[o].mounted
        /\ x.endpoint = op[o].endpoint /\ x # P!NoOp
    BY <2>1, <2>2, <2>3 DEF OpRecs, P!NoOp
  <2> HIDE DEF x
  <2>5. OpOK(x)
    BY <2>4 DEF OpOK
  <2>6. alone => Stage(x, status', sub', user', tokens')
    BY <2>1, <2>3, <2>4 DEF Stage, AloneOK, P!Receives
  <2>7. tokens' \subseteq [user : Users, endpoint : 1 .. made']
    BY <2>1, <2>2, <2>3 DEF SwitchTypes
  <2>8. /\ made' \in Nat /\ made <= made' /\ made' <= MaxEndpoints /\ sub' \in Nat /\ sub' <= made'
        /\ permission' \in {"default", "granted", "denied"}
    BY <2>1 DEF SwitchTypes
  <2> QED
    BY <1>10, <2>1, <2>2, <2>3, <2>4, <2>5, <2>6, <2>7, <2>8
<1>15. ASSUME NEW o \in Ops, P!Subscribed(o) PROVE SwitchInv'
  <2>1. /\ op[o].kind = "subscribe" /\ op[o].step = "answered" /\ P!End(o, "subscribed")
        /\ UNCHANGED <<user, permission, sub, made, tokens, alone>> /\ op[o] # P!NoOp
    BY <1>15 DEF P!Subscribed, P!reminder, P!NoOp
  <2>2. alone => sub # 0 /\ P!Receives
    BY <2>1 DEF AloneOK, Stage, P!Receives
  <2> QED
    BY <1>11, <2>1, <2>2 DEF SwitchTypes
<1>16. ASSUME NEW o \in Ops, P!Drop(o) PROVE SwitchInv'
  <2>1. /\ op[o].kind = "unsubscribe" /\ op[o].step = "ask" /\ op[o] # P!NoOp
        /\ UNCHANGED <<user, permission, made, tokens, alone>>
    BY <1>16 DEF P!Drop, P!reminder, P!NoOp
  <2>2. alone => sub # 0 /\ P!Receives
    BY <2>1 DEF AloneOK, Stage, P!Receives
  <2>3. CASE sub = 0
    <3>1. P!End(o, "unsubscribed") /\ sub' = sub
      BY <1>16, <2>3 DEF P!Drop
    <3> QED
      BY <1>11, <2>1, <2>2, <2>3, <3>1 DEF SwitchTypes
  <2>4. CASE sub # 0
    <3> DEFINE x == [op[o] EXCEPT !.step = "delete", !.endpoint = sub]
    <3>1. sub' = 0 /\ status' = status /\ op' = [op EXCEPT ![o] = x]
      BY <1>16, <2>4 DEF P!Drop, P!Dropped
    <3>2. op[o] \in OpRecs /\ OpOK(op[o]) /\ sub \in Nat /\ sub <= made /\ made \in Nat
      BY DEF SwitchTypes
    <3>3. /\ x \in OpRecs /\ x.kind = "unsubscribe" /\ x.step = "delete" /\ x.mounted = op[o].mounted
          /\ x.endpoint = sub /\ x # P!NoOp
      BY <2>1, <3>2 DEF OpRecs, P!NoOp
    <3> HIDE DEF x
    <3>4. OpOK(x)
      BY <2>4, <3>3 DEF OpOK
    <3>5. alone => Stage(x, status', sub', user', tokens')
      BY <2>1, <2>2, <3>1, <3>3 DEF Stage, AloneOK, P!Receives
    <3>6. /\ made' \in Nat /\ made <= made' /\ made' <= MaxEndpoints /\ sub' \in Nat /\ sub' <= made'
          /\ tokens' \subseteq [user : Users, endpoint : 1 .. made']
          /\ permission' \in {"default", "granted", "denied"}
      BY <2>1, <3>1, <3>2 DEF SwitchTypes
    <3> QED
      BY <1>10, <3>6, <2>1, <2>4, <3>1, <3>2, <3>3, <3>4, <3>5
  <2> QED
    BY <2>3, <2>4
<1>17. ASSUME NEW o \in Ops, P!Unregister(o) PROVE SwitchInv'
  <2> DEFINE token == [user |-> user, endpoint |-> op[o].endpoint]
             x == [op[o] EXCEPT !.step = IF token \in tokens THEN "deleted" ELSE "missing"]
  <2>1. /\ op[o].step = "delete" /\ tokens' = tokens \ {token} /\ op' = [op EXCEPT ![o] = x]
        /\ UNCHANGED <<user, permission, sub, made, status, alone>>
    BY <1>17 DEF P!Unregister, P!reminder
  <2>2. op[o] \in OpRecs /\ OpOK(op[o]) /\ op[o].endpoint <= made
    BY DEF SwitchTypes
  <2>3. op[o] # P!NoOp /\ op[o].kind = "unsubscribe"
    BY <2>1, <2>2 DEF OpOK, OpRecs, P!NoOp
  <2>4. alone => sub = 0 /\ token \in tokens
    BY <2>1, <2>3 DEF AloneOK, Stage
  <2>5. /\ x \in OpRecs /\ x.kind = "unsubscribe" /\ x.mounted = op[o].mounted
        /\ x.step = IF token \in tokens THEN "deleted" ELSE "missing"
        /\ x.endpoint = op[o].endpoint /\ x # P!NoOp
    BY <2>1, <2>2, <2>3 DEF OpRecs, P!NoOp
  <2> HIDE DEF x, token
  <2>6. OpOK(x)
    BY <2>5 DEF OpOK
  <2>7. alone => Stage(x, status', sub', user', tokens')
    BY <2>1, <2>3, <2>4, <2>5 DEF Stage, AloneOK
  <2>8. /\ made' \in Nat /\ made <= made' /\ made' <= MaxEndpoints /\ sub' \in Nat /\ sub' <= made'
        /\ tokens' \subseteq [user : Users, endpoint : 1 .. made']
        /\ permission' \in {"default", "granted", "denied"}
    BY <2>1 DEF SwitchTypes
  <2> QED
    BY <1>10, <2>8, <2>1, <2>2, <2>3, <2>5, <2>6, <2>7
<1>18. ASSUME NEW o \in Ops, P!Unsubscribed(o) PROVE SwitchInv'
  <2>1. /\ op[o].step \in {"deleted", "missing"}
        /\ UNCHANGED <<user, permission, sub, made, tokens, alone>>
        /\ \/ op[o].step = "deleted" /\ P!End(o, "unsubscribed")
           \/ op[o].step = "missing" /\ P!Failed(o)
    BY <1>18 DEF P!Unsubscribed, P!reminder
  <2>2. op[o] \in OpRecs /\ OpOK(op[o])
    BY DEF SwitchTypes
  <2>3. op[o] # P!NoOp /\ op[o].kind = "unsubscribe"
    BY <2>1, <2>2 DEF OpOK, OpRecs, P!NoOp
  <2>4. alone => op[o].step = "deleted" /\ sub = 0
    BY <2>1, <2>3 DEF AloneOK, Stage
  <2>5. CASE op[o].step = "deleted" /\ P!End(o, "unsubscribed")
    BY <1>11, <2>1, <2>3, <2>4, <2>5 DEF SwitchTypes
  <2>6. CASE op[o].step = "missing" /\ P!Failed(o)
    <3>1. ~alone /\ P!End(o, status)
      BY <2>3, <2>4, <2>6 DEF P!Failed
    <3> QED
      BY <1>11, <2>1, <2>3, <3>1 DEF SwitchTypes
  <2> QED
    BY <2>1, <2>5, <2>6
<1>19. ASSUME NEW o \in Ops, P!Lose(o) PROVE SwitchInv'
  <2>1. /\ op[o].step # "idle" /\ P!Failed(o) /\ alone' = FALSE
        /\ UNCHANGED <<user, permission, sub, made, tokens>>
    BY <1>19 DEF P!Lose, P!reminder
  <2>2. op[o] # P!NoOp
    BY <2>1 DEF P!NoOp
  <2>3. PICK new \in {"away", "subscribed", "unsubscribed", "denied"} : P!End(o, new)
    BY <2>1 DEF P!Failed, SwitchTypes
  <2> QED
    BY <1>11, <2>1, <2>2, <2>3 DEF SwitchTypes
<1>20. ASSUME NEW p \in Puts,
              P!SaveReminder(p) \/ P!ReadRow(p) \/ P!WriteRow(p) \/ P!Saved(p) \/ P!LosePut(p)
       PROVE  SwitchInv'
  BY <1>1, <1>20 DEF P!SaveReminder, P!ReadRow, P!WriteRow, P!Saved, P!LosePut
<1> QED
  BY <1>1, <1>2, <1>4, <1>5, <1>6, <1>7, <1>8, <1>9, <1>12, <1>13, <1>14, <1>15, <1>16, <1>17,
     <1>18,
     <1>19, <1>20 DEF P!Next, P!vars, P!Travel

-----------------------------------------------------------------------------
(* Push: what the settings screen shows of the reminders.                  *)

Settings == [on : BOOLEAN, time : {0, 1}, zone : {0, 1}]
Wishes   == [on : BOOLEAN, time : {0, 1}]
Updates  == [phase : {"idle", "sent", "read", "written"}, user : Users \cup {P!Nobody},
             on : BOOLEAN, time : {0, 1}, zone : {0, 1}, patch : SUBSET {"on", "time", "zone"},
             row : Settings]

UpdateOK(q) == /\ q.phase = "idle" => q = P!NoPut
               /\ q # P!NoPut => q.user \in Users

SettingTypes ==
  /\ serial \in BOOLEAN /\ zone \in {0, 1} /\ shown \in Settings
  /\ stored \in [Users -> Settings] /\ wanted \in [Users -> Wishes]
  /\ put \in [Puts -> Updates] /\ \A p \in Puts : UpdateOK(put[p])

Chosen(held, wish) == held.on = wish.on /\ held.time = wish.time

\* What an update asks for over the row it was held against.
Asked(q, held) == [on |-> IF "on" \in q.patch THEN q.on ELSE held.on, time |-> q.time]

\* How far an update q has come that overlaps no other, where held is stored for its user,
\* the screen has the settings on it, and wish was chosen last.
PutStage(q, account, held, onIt, wish) ==
  /\ q.user = account
  /\ q.phase \in {"sent", "read"} => Chosen(Asked(q, held), wish) /\ onIt = held
  /\ q.phase = "read" => q.row = held
  /\ q.phase = "written" => q.row = held /\ Chosen(held, wish)

NoPuts == \A p \in Puts : put[p] = P!NoPut

SerialOK ==
  /\ \A p, q \in Puts : put[p] # P!NoPut /\ put[q] # P!NoPut => p = q
  /\ \A p \in Puts : put[p] # P!NoPut => PutStage(put[p], user, stored[user], shown, wanted[user])
  /\ \A u \in Users : u # user \/ NoPuts => Chosen(stored[u], wanted[u])
  /\ user # P!Nobody /\ NoPuts => shown = stored[user]

SettingInv == SettingTypes /\ (serial => SerialOK)

LEMMA InitSetting == ASSUME P!Init PROVE SettingInv
<1>1. P!NoPut \in Updates /\ UpdateOK(P!NoPut) /\ P!NoSettings \in Settings
  BY DEF P!NoPut, Updates, UpdateOK, P!NoSettings, Settings
<1>2. PICK on \in BOOLEAN : /\ stored = [u \in Users |-> [on |-> on, time |-> 0, zone |-> 0]]
                            /\ wanted = [u \in Users |-> [on |-> on, time |-> 0]]
  BY DEF P!Init
<1>3. stored \in [Users -> Settings] /\ wanted \in [Users -> Wishes]
  BY <1>2 DEF Settings, Wishes
<1>4. \A u \in Users : Chosen(stored[u], wanted[u])
  BY <1>2 DEF Chosen
<1>5. /\ shown = P!NoSettings /\ put = [p \in Puts |-> P!NoPut] /\ zone = 0 /\ serial = TRUE
      /\ user = P!Nobody
  BY DEF P!Init
<1> QED
  BY <1>1, <1>3, <1>4, <1>5 DEF SettingInv, SettingTypes, SerialOK, NoPuts

LEMMA NextSetting ==
  ASSUME SwitchTypes, SettingInv, [P!Next]_(P!vars) PROVE SettingInv'
<1> USE DEF SettingInv
<1>0. SettingTypes /\ user \in Users \cup {P!Nobody}
  BY DEF SwitchTypes
<1>1. CASE UNCHANGED <<user, P!reminder>>
  BY <1>1 DEF P!reminder, SettingTypes, SerialOK, NoPuts
<1>2. CASE P!SignOut
  <2>1. /\ user' = P!Nobody /\ shown' = P!NoSettings /\ serial' = (serial /\ NoPuts)
        /\ UNCHANGED <<stored, put, wanted, zone>>
    BY <1>2 DEF P!SignOut, NoPuts
  <2>2. P!NoSettings \in Settings
    BY DEF P!NoSettings, Settings
  <2>3. SettingTypes'
    BY <2>1, <2>2 DEF SettingTypes
  <2> QED
    BY <2>1, <2>3 DEF SerialOK, NoPuts
<1>3. ASSUME NEW u \in Users, P!SignIn(u) PROVE SettingInv'
  <2>1. /\ user = P!Nobody /\ user' = u /\ shown' = stored[u] /\ serial' = (serial /\ NoPuts)
        /\ UNCHANGED <<stored, wanted, zone>> /\ stored[u] \in Settings
    BY <1>3 DEF P!SignIn, NoPuts, SettingTypes
  <2>2. CASE put' = put
    <3>1. SettingTypes'
      BY <2>1, <2>2 DEF SettingTypes
    <3> QED
      BY <2>1, <2>2, <3>1 DEF SerialOK, NoPuts
  <2>3. CASE \E p \in Puts :
               /\ put[p] = P!NoPut
               /\ put' = [put EXCEPT ![p] = [P!NoPut EXCEPT !.phase = "sent", !.user = u,
                            !.time = stored[u].time, !.zone = zone, !.patch = {"time", "zone"}]]
    <3> DEFINE q == [P!NoPut EXCEPT !.phase = "sent", !.user = u,
                       !.time = stored[u].time, !.zone = zone, !.patch = {"time", "zone"}]
    <3>1. PICK p \in Puts : put[p] = P!NoPut /\ put' = [put EXCEPT ![p] = q]
      BY <2>3
    <3>2. /\ q \in Updates /\ q.phase = "sent" /\ q.user = u /\ q.time = stored[u].time
          /\ q.patch = {"time", "zone"}
      BY <2>1 DEF P!NoPut, Updates, P!NoSettings, Settings, SettingTypes
    <3> HIDE DEF q
    <3>3. UpdateOK(q)
      BY <3>2 DEF UpdateOK
    <3>4. SettingTypes'
      BY <2>1, <3>1, <3>2, <3>3 DEF SettingTypes
    <3>5. ASSUME serial' PROVE SerialOK'
      <4>1. /\ \A w \in Users : Chosen(stored[w], wanted[w])
            /\ put' \in [Puts -> Updates] /\ \A r \in Puts : put'[r] = IF r = p THEN q ELSE P!NoPut
        BY <2>1, <3>1, <3>4, <3>5 DEF SerialOK, NoPuts, SettingTypes
      <4>2. PutStage(q, u, stored[u], stored[u], wanted[u])
        BY <3>2, <4>1 DEF PutStage, Chosen, Asked
      <4>3. q # P!NoPut
        BY <3>2 DEF P!NoPut
      <4> QED
        BY <2>1, <4>1, <4>2, <4>3 DEF SerialOK, NoPuts
    <3> QED
      BY <3>4, <3>5
  <2> QED
    BY <1>3, <2>2, <2>3 DEF P!SignIn
<1>4. ASSUME NEW p \in Puts, P!SaveReminder(p) PROVE SettingInv'
  <2>1. PICK on \in BOOLEAN, time \in {shown.time, 1 - shown.time} :
          /\ put' = [put EXCEPT ![p] = [P!NoPut EXCEPT !.phase = "sent", !.user = user, !.on = on,
                       !.time = time, !.zone = zone, !.patch = {"on", "time", "zone"}]]
          /\ wanted' = [wanted EXCEPT ![user] = [on |-> on, time |-> time]]
    BY <1>4 DEF P!SaveReminder
  <2> DEFINE q == [P!NoPut EXCEPT !.phase = "sent", !.user = user, !.on = on,
                     !.time = time, !.zone = zone, !.patch = {"on", "time", "zone"}]
  <2>2. /\ status # "away" /\ put[p] = P!NoPut /\ serial' = (serial /\ NoPuts)
        /\ UNCHANGED <<user, stored, shown, zone>> /\ put' = [put EXCEPT ![p] = q]
    BY <1>4, <2>1 DEF P!SaveReminder, P!push, NoPuts
  <2>3. user \in Users /\ user # P!Nobody /\ time \in {0, 1}
    BY <2>2 DEF SwitchTypes, SettingTypes, Settings
  <2>4. /\ q \in Updates /\ q.phase = "sent" /\ q.user = user /\ q.time = time /\ q.on = on
        /\ q.patch = {"on", "time", "zone"}
    BY <2>3 DEF P!NoPut, Updates, P!NoSettings, Settings, SettingTypes
  <2> HIDE DEF q
  <2>5. UpdateOK(q)
    BY <2>3, <2>4 DEF UpdateOK
  <2>6. wanted' \in [Users -> Wishes]
    BY <2>1, <2>3 DEF SettingTypes, Wishes
  <2>7. SettingTypes'
    BY <2>2, <2>4, <2>5, <2>6 DEF SettingTypes
  <2>8. ASSUME serial' PROVE SerialOK'
    <3>1. /\ \A w \in Users : Chosen(stored[w], wanted[w])
          /\ \A r \in Puts : put'[r] = IF r = p THEN q ELSE P!NoPut
          /\ shown = stored[user]
      BY <2>2, <2>3, <2>8 DEF SerialOK, NoPuts, SettingTypes
    <3>2. /\ wanted'[user] = [on |-> on, time |-> time]
          /\ \A w \in Users \ {user} : wanted'[w] = wanted[w]
      BY <2>1, <2>3 DEF SettingTypes
    <3>3. PutStage(q, user, stored[user], shown, wanted'[user])
      BY <2>4, <3>1, <3>2 DEF PutStage, Chosen, Asked
    <3>4. q # P!NoPut
      BY <2>4 DEF P!NoPut
    <3> QED
      BY <2>2, <2>3, <3>1, <3>2, <3>3, <3>4 DEF SerialOK, NoPuts
  <2> QED
    BY <2>7, <2>8
\* The steps of an update that is under way.
<1>5. ASSUME NEW p \in Puts, P!ReadRow(p) PROVE SettingInv'
  <2> DEFINE q == [put[p] EXCEPT !.phase = "read", !.row = stored[put[p].user]]
  <2>1. /\ put[p].phase = "sent" /\ put' = [put EXCEPT ![p] = q]
        /\ UNCHANGED <<user, stored, shown, wanted, zone, serial>>
    BY <1>5 DEF P!ReadRow, P!push
  <2>2. put[p] \in Updates /\ UpdateOK(put[p]) /\ put[p] # P!NoPut /\ put[p].user \in Users
    BY <2>1 DEF SettingTypes, UpdateOK, P!NoPut
  <2>3. stored[put[p].user] \in Settings
    BY <2>2 DEF SettingTypes
  <2>4. /\ q \in Updates /\ q.phase = "read" /\ q.user = put[p].user /\ q.time = put[p].time
        /\ q.on = put[p].on /\ q.patch = put[p].patch /\ q.row = stored[put[p].user]
    BY <2>2, <2>3 DEF Updates
  <2> HIDE DEF q
  <2>5. UpdateOK(q) /\ q # P!NoPut
    BY <2>2, <2>4 DEF UpdateOK, P!NoPut
  <2>6. SettingTypes'
    BY <2>1, <2>4, <2>5 DEF SettingTypes
  <2>7. ASSUME serial' PROVE SerialOK'
    <3>1. SerialOK /\ PutStage(put[p], user, stored[user], shown, wanted[user])
      BY <2>1, <2>2, <2>7 DEF SerialOK
    <3>2. PutStage(q, user, stored[user], shown, wanted[user])
      BY <2>1, <2>4, <3>1 DEF PutStage, Chosen, Asked
    <3>3. \A r \in Puts : put'[r] = IF r = p THEN q ELSE put[r]
      BY <2>1 DEF SettingTypes
    <3> QED
      BY <2>1, <2>2, <2>5, <3>1, <3>2, <3>3 DEF SerialOK, NoPuts
  <2> QED
    BY <2>6, <2>7
<1>6. ASSUME NEW p \in Puts, P!WriteRow(p) PROVE SettingInv'
  <2> DEFINE new == P!Merged(put[p])
             q == [put[p] EXCEPT !.phase = "written", !.row = new]
  <2>1. /\ put[p].phase = "read" /\ put' = [put EXCEPT ![p] = q]
        /\ stored' = [stored EXCEPT ![put[p].user] = new]
        /\ UNCHANGED <<user, shown, wanted, zone, serial>>
    BY <1>6 DEF P!WriteRow, P!push
  <2>2. /\ put[p] \in Updates /\ UpdateOK(put[p]) /\ put[p] # P!NoPut /\ put[p].user \in Users
        /\ put[p].row \in Settings
    BY <2>1 DEF SettingTypes, UpdateOK, P!NoPut, Updates
  <2>3. new \in Settings /\ Chosen(new, Asked(put[p], put[p].row))
    BY <2>2 DEF P!Merged, Settings, Updates, Chosen, Asked
  <2> HIDE DEF new
  <2>4. q \in Updates /\ q.phase = "written" /\ q.user = put[p].user /\ q.row = new
    BY <2>2, <2>3 DEF Updates
  <2> HIDE DEF q
  <2>5. UpdateOK(q) /\ q # P!NoPut
    BY <2>2, <2>4 DEF UpdateOK, P!NoPut
  <2>6. stored' \in [Users -> Settings]
    BY <2>1, <2>3 DEF SettingTypes
  <2>7. SettingTypes'
    BY <2>1, <2>4, <2>5, <2>6 DEF SettingTypes
  <2>8. ASSUME serial' PROVE SerialOK'
    <3>1. /\ SerialOK /\ PutStage(put[p], user, stored[user], shown, wanted[user])
          /\ put[p].user = user
      BY <2>1, <2>2, <2>8 DEF SerialOK, PutStage
    <3>2. /\ stored'[user] = new /\ \A w \in Users \ {user} : stored'[w] = stored[w]
          /\ \A r \in Puts : put'[r] = IF r = p THEN q ELSE put[r]
      BY <2>1, <2>2, <3>1 DEF SettingTypes
    <3>3. Chosen(new, wanted[user])
      BY <2>1, <2>3, <3>1 DEF PutStage, Chosen
    <3>4. PutStage(q, user, stored'[user], shown, wanted[user])
      BY <2>4, <3>1, <3>2, <3>3 DEF PutStage
    <3> QED
      BY <2>1, <2>2, <2>5, <3>1, <3>2, <3>4 DEF SerialOK, NoPuts
  <2> QED
    BY <2>7, <2>8
<1>7. ASSUME NEW p \in Puts, P!Saved(p) PROVE SettingInv'
  <2>1. /\ put[p].phase = "written" /\ put' = [put EXCEPT ![p] = P!NoPut]
        /\ shown' = (IF user = put[p].user THEN put[p].row ELSE shown)
        /\ UNCHANGED <<user, stored, wanted, zone, serial>>
    BY <1>7 DEF P!Saved, P!push
  <2>2. /\ put[p] \in Updates /\ put[p] # P!NoPut /\ put[p].user \in Users /\ put[p].row \in Settings
        /\ P!NoPut \in Updates /\ UpdateOK(P!NoPut)
    BY <2>1 DEF SettingTypes, UpdateOK, P!NoPut, Updates, P!NoSettings, Settings
  <2>3. SettingTypes'
    BY <2>1, <2>2 DEF SettingTypes
  <2>4. ASSUME serial' PROVE SerialOK'
    <3>1. /\ SerialOK /\ put[p].user = user /\ put[p].row = stored[user]
          /\ Chosen(stored[user], wanted[user])
      BY <2>1, <2>2, <2>4 DEF SerialOK, PutStage
    <3>2. \A r \in Puts : put'[r] = P!NoPut
      BY <2>1, <2>2, <3>1 DEF SerialOK, SettingTypes
    <3>3. shown' = stored[user]
      BY <2>1, <3>1
    <3> QED
      BY <2>1, <3>1, <3>2, <3>3 DEF SerialOK, NoPuts
  <2> QED
    BY <2>3, <2>4
<1>8. ASSUME NEW p \in Puts, P!LosePut(p) PROVE SettingInv'
  <2>1. P!NoPut \in Updates /\ UpdateOK(P!NoPut)
    BY DEF SettingTypes, UpdateOK, P!NoPut, Updates, P!NoSettings, Settings
  <2> QED
    BY <1>8, <2>1 DEF P!LosePut, P!push, SettingTypes
<1>9. CASE P!Travel
  BY <1>9 DEF P!Travel, P!push, SettingTypes, SerialOK, NoPuts
<1>10. CASE P!Open \/ P!Leave \/ P!BrowserDrops \/ P!Prune
  BY <1>1, <1>10 DEF P!Open, P!Leave, P!BrowserDrops, P!Prune
<1>11. ASSUME NEW o \in Ops, P!Subscribe(o) \/ P!Unsubscribe(o) \/ P!Ask(o) \/ P!Obtain(o)
                             \/ P!Register(o) \/ P!Subscribed(o) \/ P!Drop(o) \/ P!Unregister(o)
                             \/ P!Unsubscribed(o) \/ P!Lose(o)
       PROVE  SettingInv'
  BY <1>1, <1>11 DEF P!Subscribe, P!Unsubscribe, P!Ask, P!Obtain, P!Register, P!Subscribed, P!Drop,
                     P!Unregister, P!Unsubscribed, P!Lose
<1>12. CASE UNCHANGED P!vars
  BY <1>1, <1>12 DEF P!vars
<1> QED
  BY <1>2, <1>3, <1>4, <1>5, <1>6, <1>7, <1>8, <1>9, <1>10, <1>11, <1>12 DEF P!Next

LEMMA PushHolds == ASSUME Endpoints PROVE P!Spec => [](SwitchInv /\ SettingInv)
<1>1. P!Init => SwitchInv /\ SettingInv
  BY InitSwitch, InitSetting
<1>2. SwitchInv /\ SettingInv /\ [P!Next]_(P!vars) => (SwitchInv /\ SettingInv)'
  BY NextSwitch, NextSetting DEF SwitchInv
<1> QED
  BY <1>1, <1>2, PTL DEF P!Spec

\* The push switch tells whether pushes arrive at this browser for this account, under the
\* conditions the module names (usePushNotifications.ts), for any number of accounts,
\* switchings in flight and subscriptions the browser makes.
THEOREM SwitchShowsPush == ASSUME Endpoints PROVE P!Spec => []P!SwitchIsTrue
<1>1. ASSUME SwitchInv PROVE P!SwitchIsTrue
  <2>1. ASSUME alone, P!Idle, status = "subscribed" PROVE P!Receives
    BY <1>1, <2>1 DEF SwitchInv, AloneOK, SwitchTypes
  <2>2. ASSUME alone, P!Idle, status = "unsubscribed" PROVE ~P!Receives
    <3>1. sub = 0 /\ tokens \subseteq [user : Users, endpoint : 1 .. made] /\ made \in Nat
      BY <1>1, <2>2 DEF SwitchInv, AloneOK, SwitchTypes
    <3> QED
      BY <3>1 DEF P!Receives
  <2> QED
    BY <2>1, <2>2 DEF P!SwitchIsTrue
<1> QED
  BY <1>1, PushHolds, PTL

\* The reminder settings on the screen are the stored ones, and those are what was chosen
\* last, once no update is under way and as long as none overlapped another or failed
\* (SettingsScreen.tsx, useReminderTimezoneSync.ts, settings.go).
THEOREM SettingsShowChoice == ASSUME Endpoints PROVE P!Spec => []P!SettingsAreTrue
<1>1. ASSUME SwitchInv, SettingInv PROVE P!SettingsAreTrue
  <2> SUFFICES ASSUME serial, user # P!Nobody, \A p \in Puts : put[p] = P!NoPut
               PROVE  shown = stored[user] /\ [on |-> shown.on, time |-> shown.time] = wanted[user]
    BY DEF P!SettingsAreTrue
  <2>1. user \in Users /\ shown = stored[user] /\ Chosen(stored[user], wanted[user])
        /\ wanted[user] \in Wishes
    BY <1>1 DEF SwitchInv, SwitchTypes, SettingInv, SettingTypes, SerialOK, NoPuts
  <2> QED
    BY <2>1 DEF Chosen, Wishes
<1> QED
  BY <1>1, PushHolds, PTL

\* The types of the variables of the notification section.
THEOREM PushIsTyped == ASSUME Endpoints PROVE P!Spec => []P!TypeOK
<1>1. ASSUME SwitchInv, SettingInv PROVE P!TypeOK
  <2>1. sub \in 0 .. made /\ made \in 0 .. MaxEndpoints
    BY <1>1 DEF SwitchInv, SwitchTypes, Endpoints
  <2>2. tokens \subseteq [user : Users, endpoint : 1 .. MaxEndpoints]
    BY <1>1 DEF SwitchInv, SwitchTypes, Endpoints
  <2>3. stored \in [Users -> [on : BOOLEAN, time : {0, 1}, zone : {0, 1}]]
    BY <1>1 DEF SettingInv, SettingTypes, Settings
  <2>4. \A p \in Puts : put[p].phase \in {"idle", "sent", "read", "written"}
    BY <1>1 DEF SettingInv, SettingTypes, Updates
  <2> QED
    BY <1>1, <2>1, <2>2, <2>3, <2>4 DEF SwitchInv, SwitchTypes, P!TypeOK
<1> QED
  BY <1>1, PushHolds, PTL

-----------------------------------------------------------------------------
(* Circle: no row of the friends screen is answered by two calls at once.  *)

CircleOps == {"accept", "decline", "cancel", "remove", "send"}
CircleAnswers == {"ok", "refused", "failed"}
CircleCalls(Whos, Olds) == [op : CircleOps, who : Whos, phase : {"sent", "answered"}, answer : CircleAnswers,
                            old : Olds, here : BOOLEAN]

\* What a call's button has locked while its screen stays, and which screen that is.
Locked ==
  \A i \in DOMAIN calls : calls[i].here =>
    /\ calls[i].op = "send" <=> screen = "add"
    /\ calls[i].op # "send" => calls[i].who \in busy

\* The row that a question is about stays free while it is open.
AskedFree ==
  /\ asked.op \in {"none", "cancel", "remove"} /\ (asked.op = "none" <=> asked = F!Unasked)
  /\ asked # F!Unasked => screen = "friends" /\ asked.who \notin busy

CircleInv == (\E Whos, Olds : calls \in Seq(CircleCalls(Whos, Olds))) /\ Locked /\ AskedFree /\ F!OneAnswer

LEMMA NoQuestion == asked' = F!Unasked => AskedFree'
<1>1. F!Unasked.op = "none"
  BY DEF F!Unasked
<1> QED
  BY <1>1 DEF AskedFree, F!Unasked

LEMMA RemovedInCircle ==
  ASSUME NEW S, NEW s \in Seq(S), NEW k \in DOMAIN s
  PROVE  /\ F!RemoveAt(s, k) \in Seq(S)
         /\ Len(F!RemoveAt(s, k)) = Len(s) - 1
         /\ \A j \in DOMAIN F!RemoveAt(s, k) :
              /\ (IF j < k THEN j ELSE j + 1) \in DOMAIN s
              /\ F!RemoveAt(s, k)[j] = s[IF j < k THEN j ELSE j + 1]
<1>1. F!RemoveAt(s, k) = H!RemoveAt(s, k)
  BY DEF F!RemoveAt, H!RemoveAt
<1> QED
  BY <1>1, Removed

LEMMA InitCircle == F!Init => CircleInv
<1> SUFFICES ASSUME F!Init PROVE CircleInv
  OBVIOUS
<1>3. AskedFree
  BY DEF F!Init, F!Unasked, AskedFree
<1>1. calls = <<>>
  BY DEF F!Init
<1>2. calls \in Seq(CircleCalls({}, {})) /\ DOMAIN calls = {}
  BY <1>1
<1> QED
  BY <1>2, <1>3 DEF CircleInv, Locked, F!OneAnswer

\* A call is sent: on the search screen, or for a row that was free.
LEMMA CallKeeps ==
  ASSUME CircleInv, NEW verb \in CircleOps, NEW who, NEW key, F!Call(verb, who, key), screen' = screen,
         AskedFree',
         \/ verb = "send" /\ screen = "add" /\ busy' = busy
         \/ verb # "send" /\ screen = "friends" /\ who \notin busy /\ busy' = busy \cup {who}
  PROVE  CircleInv'
<1>1. PICK Whos, Olds : calls \in Seq(CircleCalls(Whos, Olds))
  BY DEF CircleInv
<1> DEFINE c == [op |-> verb, who |-> who, phase |-> "sent", answer |-> "ok", old |-> cached[key],
                 here |-> TRUE]
           X == Whos \cup {who}
           Y == Olds \cup {cached[key]}
<1>2. c \in CircleCalls(X, Y) /\ c.op = verb /\ c.who = who /\ c.here = TRUE
  BY DEF CircleCalls, CircleAnswers
<1>3. calls' = Append(calls, c)
  BY DEF F!Call
<1>4. CircleCalls(Whos, Olds) \subseteq CircleCalls(X, Y)
  BY DEF CircleCalls
<1>5. calls \in Seq(CircleCalls(X, Y))
  BY <1>1, <1>4, SeqMonotonic
<1> HIDE DEF c, X, Y
<1>6. /\ calls' \in Seq(CircleCalls(X, Y)) /\ Len(calls) \in Nat
      /\ DOMAIN calls' = 1 .. (Len(calls) + 1) /\ DOMAIN calls = 1 .. Len(calls)
      /\ \A i \in DOMAIN calls : calls'[i] = calls[i]
      /\ calls'[Len(calls) + 1] = c
  BY <1>2, <1>3, <1>5, AppendProperties
<1>7. \A i \in DOMAIN calls' : \/ i \in DOMAIN calls /\ calls'[i] = calls[i]
                               \/ i = Len(calls) + 1 /\ calls'[i] = c
  BY <1>6
<1>8. Locked'
  BY <1>2, <1>7 DEF CircleInv, Locked
<1>9. F!OneAnswer'
  <2> SUFFICES ASSUME NEW i \in DOMAIN calls', NEW j \in DOMAIN calls', i # j, calls'[i].here,
                      calls'[j].here, calls'[i].op # "send", calls'[j].op # "send"
               PROVE  calls'[i].who # calls'[j].who
    BY DEF F!OneAnswer
  <2>1. CASE i \in DOMAIN calls /\ j \in DOMAIN calls
    <3>1. calls'[i] = calls[i] /\ calls'[j] = calls[j]
      BY <1>6, <2>1
    <3> QED
      BY <2>1, <3>1 DEF CircleInv, F!OneAnswer
  <2>2. CASE i \in DOMAIN calls /\ j = Len(calls) + 1
    <3>1. calls'[i] = calls[i] /\ calls'[j] = c
      BY <1>6, <2>2
    <3>2. calls[i].who \in busy /\ who \notin busy
      BY <1>2, <2>2, <3>1 DEF CircleInv, Locked
    <3> QED
      BY <1>2, <3>1, <3>2
  <2>3. CASE i = Len(calls) + 1 /\ j \in DOMAIN calls
    <3>1. calls'[j] = calls[j] /\ calls'[i] = c
      BY <1>6, <2>3
    <3>2. calls[j].who \in busy /\ who \notin busy
      BY <1>2, <2>3, <3>1 DEF CircleInv, Locked
    <3> QED
      BY <1>2, <3>1, <3>2
  <2> QED
    BY <1>7, <2>1, <2>2, <2>3
<1> QED
  BY <1>6, <1>8, <1>9 DEF CircleInv

LEMMA NextCircle == CircleInv /\ [F!Next]_(F!vars) => CircleInv'
<1> SUFFICES ASSUME CircleInv, [F!Next]_(F!vars) PROVE CircleInv'
  OBVIOUS
<1>0. PICK Whos, Olds : calls \in Seq(CircleCalls(Whos, Olds))
  BY DEF CircleInv
<1>1. CASE UNCHANGED <<calls, screen, busy, asked>>
  BY <1>1 DEF CircleInv, Locked, AskedFree, F!OneAnswer
<1>2. ASSUME NEW r, F!Accept(r) \/ F!Decline(r) PROVE CircleInv'
  <2>1. PICK verb \in CircleOps, key \in {"requests", "friends"} :
          /\ verb # "send" /\ screen = "friends" /\ r \notin busy /\ F!Call(verb, r, key)
          /\ busy' = busy \cup {r} /\ screen' = screen /\ asked' = F!Unasked
    BY <1>2 DEF F!Accept, F!Decline, F!MayPress, F!Answer, F!Free, CircleOps
  <2> QED
    BY <2>1, CallKeeps, NoQuestion
<1>11. CASE F!Cancel \/ F!RemoveFriend
  <2>1. PICK verb \in CircleOps, key \in {"requests", "friends"} :
          /\ verb # "send" /\ screen = "friends" /\ F!Call(verb, asked.who, key)
          /\ busy' = busy \cup {asked.who} /\ screen' = screen /\ asked' = F!Unasked
    BY <1>11 DEF F!Cancel, F!RemoveFriend, F!Answer, CircleOps
  <2>2. asked.who \notin busy
    BY <1>11 DEF CircleInv, AskedFree, F!Cancel, F!RemoveFriend
  <2> QED
    BY <2>1, <2>2, CallKeeps, NoQuestion
<1>12. CASE F!Dismiss
  <2>1. AskedFree'
    BY <1>12, NoQuestion DEF F!Dismiss
  <2> QED
    BY <1>12, <2>1 DEF CircleInv, Locked, F!OneAnswer, F!Dismiss
<1>13. ASSUME NEW verb \in {"cancel", "remove"}, NEW r, F!Ask(verb, r) PROVE CircleInv'
  <2>1. /\ asked' = [op |-> verb, who |-> r] /\ screen = "friends" /\ r \notin busy
        /\ screen' = screen /\ busy' = busy /\ calls' = calls
    BY <1>13 DEF F!Ask, F!MayPress, F!Free
  <2>2. asked'.op = verb /\ asked'.who = r
    BY <2>1
  <2>3. asked' # F!Unasked
    BY <2>2 DEF F!Unasked
  <2>4. AskedFree'
    BY <2>1, <2>2, <2>3 DEF AskedFree, F!Unasked
  <2> QED
    BY <2>1, <2>4 DEF CircleInv, Locked, F!OneAnswer
<1>3. ASSUME NEW p \in People, F!SendRequest(p) PROVE CircleInv'
  <2>1. AskedFree'
    BY <1>3 DEF F!SendRequest, CircleInv, AskedFree
  <2> QED
    BY <1>3, <2>1, CallKeeps DEF F!SendRequest, CircleOps
<1>4. CASE F!Go
  <2>1. calls' = [i \in DOMAIN calls |-> [calls[i] EXCEPT !.here = FALSE]]
    BY <1>4 DEF F!Go
  <2>2. DOMAIN calls = 1 .. Len(calls) /\ Len(calls) \in Nat
    BY <1>0
  <2>3. \A i \in DOMAIN calls : /\ [calls[i] EXCEPT !.here = FALSE] \in CircleCalls(Whos, Olds)
                                /\ [calls[i] EXCEPT !.here = FALSE].here = FALSE
    <3>1. \A i \in DOMAIN calls : calls[i] \in CircleCalls(Whos, Olds)
      BY <1>0
    <3> QED
      BY <3>1 DEF CircleCalls
  <2> DEFINE left(i) == [calls[i] EXCEPT !.here = FALSE]
  <2>5. calls' = [i \in 1 .. Len(calls) |-> left(i)]
    BY <2>1, <2>2
  <2>6. \A i \in 1 .. Len(calls) : left(i) \in CircleCalls(Whos, Olds) /\ left(i).here = FALSE
    BY <2>2, <2>3
  <2> HIDE DEF left
  <2>7. /\ DOMAIN calls' = 1 .. Len(calls)
        /\ \A i \in 1 .. Len(calls) : calls'[i] = left(i)
    BY <2>5
  <2>8. calls' \in [1 .. Len(calls) -> CircleCalls(Whos, Olds)]
    BY <2>5, <2>6
  <2>9. calls' \in Seq(CircleCalls(Whos, Olds))
    BY <2>2, <2>8, IsASeq
  <2>4. /\ calls' \in Seq(CircleCalls(Whos, Olds)) /\ DOMAIN calls' = DOMAIN calls
        /\ \A i \in DOMAIN calls' : calls'[i].here = FALSE
    BY <2>2, <2>6, <2>7, <2>9
  <2>10. AskedFree'
    BY <1>4, NoQuestion DEF F!Go
  <2> QED
    BY <2>4, <2>10 DEF CircleInv, Locked, F!OneAnswer
\* A call's answer changes.
<1>5. ASSUME NEW i \in DOMAIN calls, NEW answer \in CircleAnswers, screen' = screen, busy' = busy, asked' = asked,
             calls' = [calls EXCEPT ![i].phase = "answered", ![i].answer = answer]
      PROVE  CircleInv'
  <2> DEFINE d == [calls[i] EXCEPT !.phase = "answered", !.answer = answer]
  <2>1. calls[i] \in CircleCalls(Whos, Olds)
    BY <1>0
  <2>0. calls' = [calls EXCEPT ![i] = d]
    BY <1>5
  <2>2. d \in CircleCalls(Whos, Olds) /\ d.op = calls[i].op /\ d.who = calls[i].who /\ d.here = calls[i].here
    BY <2>1 DEF CircleCalls
  <2> HIDE DEF d
  <2>3. /\ calls' \in Seq(CircleCalls(Whos, Olds)) /\ DOMAIN calls' = DOMAIN calls
        /\ \A j \in DOMAIN calls : calls'[j] = IF j = i THEN d ELSE calls[j]
    BY <1>0, <2>0, <2>2, ExceptSeq
  <2>4. \A j \in DOMAIN calls : /\ calls'[j].op = calls[j].op /\ calls'[j].who = calls[j].who
                                /\ calls'[j].here = calls[j].here
    BY <2>2, <2>3
  <2>5. Locked' /\ F!OneAnswer'
    BY <1>5, <2>3, <2>4 DEF CircleInv, Locked, F!OneAnswer
  <2>6. AskedFree'
    BY <1>5 DEF CircleInv, AskedFree
  <2> QED
    BY <2>3, <2>5, <2>6 DEF CircleInv
<1>6. ASSUME NEW i \in DOMAIN calls, F!Handle(i) PROVE CircleInv'
  <2>1. PICK answer \in CircleAnswers :
          /\ calls' = [calls EXCEPT ![i].phase = "answered", ![i].answer = answer]
          /\ screen' = screen /\ busy' = busy /\ asked' = asked
    BY <1>6 DEF F!Handle, CircleAnswers
  <2> QED
    BY <1>5, <2>1
<1>7. ASSUME NEW i \in DOMAIN calls, F!Lose(i) PROVE CircleInv'
  <2>1. /\ calls' = [calls EXCEPT ![i].phase = "answered", ![i].answer = "failed"]
        /\ screen' = screen /\ busy' = busy /\ asked' = asked
    BY <1>7 DEF F!Lose
  <2> QED
    BY <1>5, <2>1 DEF CircleAnswers
<1>8. ASSUME NEW i \in DOMAIN calls, F!End(i) PROVE CircleInv'
  <2>1. /\ calls' = F!RemoveAt(calls, i) /\ screen' = screen
        /\ busy' = IF calls[i].here THEN busy \ {calls[i].who} ELSE busy
        /\ asked' = asked
    BY <1>8 DEF F!End
  <2> DEFINE was(j) == IF j < i THEN j ELSE j + 1
  <2>2. /\ calls' \in Seq(CircleCalls(Whos, Olds))
        /\ \A j \in DOMAIN calls' : was(j) \in DOMAIN calls /\ calls'[j] = calls[was(j)]
    BY <1>0, <2>1, RemovedInCircle
  <2>3. /\ \A j \in DOMAIN calls' : was(j) # i
        /\ \A j, k \in DOMAIN calls' : j # k => was(j) # was(k)
    <3>1. DOMAIN calls' = 1 .. Len(calls') /\ Len(calls') \in Nat /\ i \in Nat
      BY <1>0, <2>2
    <3> QED
      BY <3>1
  <2> HIDE DEF was
  <2>4. F!OneAnswer'
    <3> SUFFICES ASSUME NEW j \in DOMAIN calls', NEW k \in DOMAIN calls', j # k, calls'[j].here,
                        calls'[k].here, calls'[j].op # "send", calls'[k].op # "send"
                 PROVE  calls'[j].who # calls'[k].who
      BY DEF F!OneAnswer
    <3> QED
      BY <2>2, <2>3 DEF CircleInv, F!OneAnswer
  <2>5. Locked'
    <3> SUFFICES ASSUME NEW j \in DOMAIN calls', calls'[j].here
                 PROVE  /\ calls'[j].op = "send" <=> screen = "add"
                        /\ calls'[j].op # "send" => calls'[j].who \in busy'
      BY <2>1 DEF Locked
    <3>1. /\ was(j) \in DOMAIN calls /\ calls'[j] = calls[was(j)] /\ was(j) # i
          /\ calls'[j].op = "send" <=> screen = "add"
          /\ calls'[j].op # "send" => calls'[j].who \in busy
      BY <2>2, <2>3 DEF CircleInv, Locked
    <3>2. calls'[j].op # "send" /\ calls[i].here => calls'[j].who # calls[i].who
      BY <3>1 DEF CircleInv, Locked, F!OneAnswer
    <3> QED
      BY <2>1, <3>1, <3>2
  <2>6. AskedFree'
    BY <2>1 DEF CircleInv, AskedFree
  <2> QED
    BY <2>2, <2>4, <2>5, <2>6 DEF CircleInv
<1>9. CASE (\E p \in People : F!Elsewhere(p)) \/ F!ReadOutgoing
           \/ \E k \in F!Keys : F!ReadRows(k) \/ F!Deliver(k) \/ F!FailFetch(k) \/ F!Refresh(k)
  BY <1>1, <1>9 DEF F!Elsewhere, F!ReadOutgoing, F!ReadRows, F!Deliver, F!FailFetch, F!Refresh
<1>10. CASE UNCHANGED F!vars
  BY <1>1, <1>10 DEF F!vars
<1> QED
  BY <1>2, <1>3, <1>4, <1>6, <1>7, <1>8, <1>9, <1>10, <1>11, <1>12, <1>13 DEF F!Next

\* While the friends screen stays, no row is answered by two calls at once (FriendsScreen.tsx),
\* however often the list is read again meanwhile and whatever becomes of the calls.
THEOREM OneAnswerAtATime == F!Spec => []F!OneAnswer
<1>1. CircleInv => F!OneAnswer
  BY DEF CircleInv
<1> QED
  BY <1>1, InitCircle, NextCircle, PTL DEF F!Spec

-----------------------------------------------------------------------------
(* Circle: once nothing is under way, the screens show the server's lists. *)
(* A call owes a fetch of every query it invalidates from its tap to its   *)
(* end, and no request the user sent is ever one to be accepted, so that   *)
(* the server refuses to cancel it.                                        *)

Persons == [p : People, id : Nat]
CircleLists == [in : SUBSET Persons, out : SUBSET Persons]
CircleRows  == [People -> [kind : {"none", "in", "out", "friends"}, id : Nat \ {0}]]

\* A request that is not, and will never be, an incoming one.
NeverIn(r) == rows[r.p].id >= r.id /\ (rows[r.p].id = r.id => rows[r.p].kind # "in")

\* What a query may hold.
Fits(k, v) == CASE k = "friends"  -> v \subseteq Persons
                [] k = "requests" -> v \in CircleLists /\ \A r \in v.out : NeverIn(r)
                [] k = "pending"  -> TRUE

FetchFits(k, f) ==
  /\ f.phase \in {"idle", "sent", "incoming", "answered"}
  /\ f.phase = "idle" <=> f = F!NoFetch
  /\ f.phase = "incoming" => k = "requests" /\ f.value \subseteq Persons
  /\ f.phase = "answered" => Fits(k, f.value)

\* The query that a call changed before its answer, and put back what it kept of it.
KeyOf(verb) == IF verb = "remove" THEN "friends" ELSE "requests"

CallFits(c) ==
  /\ c.op \in CircleOps /\ c.phase \in {"sent", "answered"} /\ c.who \in Persons
  /\ Fits(KeyOf(c.op), c.old) /\ (c.op = "cancel" => NeverIn(c.who))

\* What a question is about: a cancellation is of a request that is not an incoming one.
AskFits == asked # F!Unasked => asked.who \in Persons /\ (asked.op = "cancel" => NeverIn(asked.who))

CircleShape ==
  /\ AskFits
  /\ rows \in CircleRows /\ screen \in {"friends", "add"} /\ stale \subseteq F!Keys /\ blind \subseteq F!Keys
  /\ sending \in People \cup {F!Nobody} /\ sent \subseteq People
  /\ cached = [k \in F!Keys |-> cached[k]] /\ fetch = [k \in F!Keys |-> fetch[k]]
  /\ \A k \in F!Keys : Fits(k, cached[k]) /\ FetchFits(k, fetch[k])
  /\ \A i \in DOMAIN calls : CallFits(calls[i])

QueryTrueAt(k) ==
  k \notin blind =>
    /\ fetch[k] = F!NoFetch => cached[k] = F!Truth(k) \/ (k \in stale /\ ~F!Shown(k))
    /\ k = "requests" /\ fetch[k].phase = "incoming" => fetch[k].value = F!Incoming
    /\ fetch[k].phase = "answered" => fetch[k].value = F!Truth(k)

QueriesTrue == \A k \in F!Keys : (\A i \in DOMAIN calls : k \notin F!Settled(calls[i].op)) => QueryTrueAt(k)

ShownInv == CircleInv /\ CircleShape /\ QueriesTrue

LEMMA CircleFetches ==
  /\ F!NoFetch.phase = "idle" /\ F!SentFetch.phase = "sent" /\ F!NoFetch # F!SentFetch
  /\ \A k : FetchFits(k, F!NoFetch) /\ FetchFits(k, F!SentFetch)
<1>1. F!NoFetch.phase = "idle" /\ F!SentFetch.phase = "sent"
  BY DEF F!NoFetch, F!SentFetch
<1> QED
  BY <1>1 DEF FetchFits

\* What the server answers fits, and changes with the rows only.
LEMMA TruthFits ==
  ASSUME rows \in CircleRows
  PROVE  /\ \A k \in F!Keys : Fits(k, F!Truth(k))
         /\ F!Incoming \subseteq Persons /\ F!Outgoing \subseteq Persons /\ \A r \in F!Outgoing : NeverIn(r)
<1>1. \A p \in People : /\ F!Request(p) \in Persons /\ F!Friend(p) \in Persons
                        /\ F!Request(p).p = p /\ F!Request(p).id = rows[p].id /\ rows[p].id \in Nat
  BY DEF F!Request, F!Friend, Persons, CircleRows
<1>2. F!Incoming \subseteq Persons /\ F!Outgoing \subseteq Persons /\ F!Friends \subseteq Persons
  BY <1>1 DEF F!Incoming, F!Outgoing, F!Friends
<1>3. \A r \in F!Outgoing : NeverIn(r)
  <2> SUFFICES ASSUME NEW r \in F!Outgoing PROVE NeverIn(r)
    OBVIOUS
  <2>1. PICK p \in People : rows[p].kind = "out" /\ r = F!Request(p)
    BY DEF F!Outgoing
  <2> QED
    BY <1>1, <2>1 DEF NeverIn
<1>4. ASSUME NEW k \in F!Keys PROVE Fits(k, F!Truth(k))
  <2>1. CASE k = "friends"
    BY <1>2, <2>1 DEF Fits, F!Truth
  <2>2. CASE k = "requests"
    <3>1. F!Truth(k) = [in |-> F!Incoming, out |-> F!Outgoing]
      BY <2>2 DEF F!Truth
    <3>2. F!Truth(k) \in CircleLists /\ F!Truth(k).out = F!Outgoing
      BY <1>2, <3>1 DEF CircleLists
    <3> QED
      BY <1>3, <2>2, <3>2 DEF Fits
  <2>3. CASE k = "pending"
    BY <2>3 DEF Fits
  <2> QED
    BY <2>1, <2>2, <2>3 DEF F!Keys
<1> QED
  BY <1>2, <1>3, <1>4

\* Whatever happens to the rows, a request that is not incoming stays so.
Moves(old, new) ==
  \A p \in People : /\ new[p].id >= old[p].id
                    /\ new[p].kind = "in" => new[p].id > old[p].id \/ new[p] = old[p]

LEMMA NeverInStays ==
  ASSUME rows \in CircleRows, rows' \in CircleRows, Moves(rows, rows'), NEW r \in Persons, NeverIn(r)
  PROVE  NeverIn(r)'
<1> DEFINE p == r.p
<1>1. p \in People /\ rows[p].id \in Nat /\ rows'[p].id \in Nat /\ r.id \in Nat
  BY DEF Persons, CircleRows
<1>2. rows'[p].id >= rows[p].id /\ rows[p].id >= r.id
  BY <1>1 DEF NeverIn, Moves
<1>3. rows'[p].id = r.id => rows'[p].kind # "in"
  <2> SUFFICES ASSUME rows'[p].id = r.id, rows'[p].kind = "in" PROVE FALSE
    OBVIOUS
  <2>1. rows[p].id = r.id
    BY <1>1, <1>2
  <2>2. rows'[p] = rows[p]
    BY <1>1, <2>1 DEF Moves
  <2> QED
    BY <2>1, <2>2 DEF NeverIn
<1> QED
  BY <1>1, <1>2, <1>3 DEF NeverIn

LEMMA FitsStays ==
  ASSUME rows \in CircleRows, rows' \in CircleRows, Moves(rows, rows'), NEW k \in F!Keys, NEW v, Fits(k, v)
  PROVE  Fits(k, v)'
<1>1. v \in CircleLists => v.out \subseteq Persons
  BY DEF CircleLists
<1>2. k = "requests" => v \in CircleLists /\ \A r \in v.out : NeverIn(r)'
  BY <1>1, NeverInStays DEF Fits
<1>3. CASE k = "requests"
  BY <1>2, <1>3 DEF Fits
<1>4. CASE k # "requests"
  BY <1>4 DEF Fits, F!Keys
<1> QED
  BY <1>3, <1>4

\* A step that changes the rows, and neither the queries nor what is known of the calls.
LEMMA ShapeStays ==
  ASSUME CircleShape, rows' \in CircleRows, Moves(rows, rows'), screen' = screen, stale' = stale,
         blind' \subseteq F!Keys, sending' = sending, sent' = sent, cached' = cached, fetch' = fetch,
         asked' = asked, DOMAIN calls' = DOMAIN calls,
         \A i \in DOMAIN calls : /\ calls'[i].op = calls[i].op /\ calls'[i].who = calls[i].who
                                 /\ calls'[i].old = calls[i].old /\ calls'[i].phase \in {"sent", "answered"}
  PROVE  CircleShape'
<1>1. rows \in CircleRows
  BY DEF CircleShape
<1>2. \A k \in F!Keys : (Fits(k, cached[k]) => Fits(k, cached[k])') /\ (FetchFits(k, fetch[k]) => FetchFits(k, fetch[k])')
  <2> SUFFICES ASSUME NEW k \in F!Keys
               PROVE  (Fits(k, cached[k]) => Fits(k, cached[k])') /\ (FetchFits(k, fetch[k]) => FetchFits(k, fetch[k])')
    OBVIOUS
  <2> DEFINE v == cached[k]
             w == fetch[k].value
  <2>1. v' = v /\ w' = w
    OBVIOUS
  <2>2. (Fits(k, v) => Fits(k, v)') /\ (Fits(k, w) => Fits(k, w)')
    BY <1>1, <2>1, FitsStays
  <2> QED
    BY <2>2 DEF FetchFits
<1>3. \A i \in DOMAIN calls : CallFits(calls[i])'
  <2> SUFFICES ASSUME NEW i \in DOMAIN calls PROVE CallFits(calls[i])'
    OBVIOUS
  <2> DEFINE v == calls[i].old
             k == KeyOf(calls[i].op)
             r == calls[i].who
  <2>1. CallFits(calls[i]) /\ k \in F!Keys
    BY DEF CircleShape, KeyOf, F!Keys
  <2>2. v' = v /\ k' = k /\ r' = r
    BY DEF KeyOf
  <2>3. Fits(k, v) => Fits(k, v)'
    BY <1>1, <2>1, <2>2, FitsStays
  <2>4. r \in Persons /\ NeverIn(r) => NeverIn(r)'
    BY <1>1, <2>2, NeverInStays
  <2> QED
    BY <2>1, <2>2, <2>3, <2>4 DEF CallFits
<1>4. AskFits'
  <2> DEFINE r == asked.who
  <2>1. r' = r /\ (r \in Persons /\ NeverIn(r) => NeverIn(r)')
    BY <1>1, NeverInStays
  <2> QED
    BY <2>1 DEF CircleShape, AskFits
<1> QED
  BY <1>2, <1>3, <1>4 DEF CircleShape

-----------------------------------------------------------------------------
(* The calls of the two screens.                                           *)

\* What a call and its end make of the calls.
LEMMA CallSent ==
  ASSUME CircleInv, NEW verb \in CircleOps, NEW who, NEW key, F!Call(verb, who, key)
  PROVE  \E n : /\ DOMAIN calls' = DOMAIN calls \cup {n} /\ n \notin DOMAIN calls
                /\ \A i \in DOMAIN calls : calls'[i] = calls[i]
                /\ calls'[n] = [op |-> verb, who |-> who, phase |-> "sent", answer |-> "ok",
                                old |-> cached[key], here |-> TRUE]
<1>1. PICK Whos, Olds : calls \in Seq(CircleCalls(Whos, Olds))
  BY DEF CircleInv
<1> DEFINE c == [op |-> verb, who |-> who, phase |-> "sent", answer |-> "ok", old |-> cached[key], here |-> TRUE]
           n == Len(calls) + 1
<1>2. calls' = Append(calls, c)
  BY DEF F!Call
<1> HIDE DEF c
<1>3. /\ Len(calls) \in Nat /\ DOMAIN calls = 1 .. Len(calls) /\ DOMAIN calls' = 1 .. n
      /\ \A i \in 1 .. Len(calls) : calls'[i] = calls[i]
      /\ calls'[n] = c
  BY <1>1, <1>2
<1>4. 1 .. n = (1 .. Len(calls)) \cup {n} /\ n \notin 1 .. Len(calls)
  BY <1>3
<1> QED
  BY <1>3, <1>4 DEF c

\* A tap on a row: its call is on its way, and it owes the query that was changed.
LEMMA TapCircle ==
  ASSUME ShownInv, NEW verb \in CircleOps, NEW who \in Persons, F!Call(verb, who, KeyOf(verb)),
         verb = "cancel" => NeverIn(who), CircleInv',
         rows' = rows, screen' = screen, stale' = stale, sent' = sent, blind' = blind,
         sending' \in People \cup {F!Nobody}, asked' \in {asked, F!Unasked},
         \/ cached' = cached /\ fetch' = fetch
         \/ \E left : /\ cached' = [cached EXCEPT ![KeyOf(verb)] = left] /\ Fits(KeyOf(verb), left)
                      /\ fetch' = [fetch EXCEPT ![KeyOf(verb)] = F!NoFetch]
  PROVE  ShownInv'
<1>1. CircleInv /\ CircleShape /\ QueriesTrue
  BY DEF ShownInv
<1> DEFINE key == KeyOf(verb)
<1>2. key \in F!Keys /\ key \in F!Settled(verb)
  BY DEF KeyOf, F!Keys, F!Settled, CircleOps
<1>3. PICK n : /\ DOMAIN calls' = DOMAIN calls \cup {n} /\ n \notin DOMAIN calls
               /\ \A i \in DOMAIN calls : calls'[i] = calls[i]
               /\ calls'[n] = [op |-> verb, who |-> who, phase |-> "sent", answer |-> "ok",
                               old |-> cached[key], here |-> TRUE]
  <2>1. F!Call(verb, who, key) /\ CircleInv
    BY <1>1
  <2> HIDE DEF key
  <2>2. \E n : /\ DOMAIN calls' = DOMAIN calls \cup {n} /\ n \notin DOMAIN calls
               /\ \A i \in DOMAIN calls : calls'[i] = calls[i]
               /\ calls'[n] = [op |-> verb, who |-> who, phase |-> "sent", answer |-> "ok",
                               old |-> cached[key], here |-> TRUE]
    BY ONLY <2>1, CallSent, verb \in CircleOps
  <2> QED
    BY <2>2
<1>4. CallFits(calls'[n])
  <2>1. Fits(key, cached[key])
    BY <1>1, <1>2 DEF CircleShape
  <2> HIDE DEF key
  <2>2. /\ calls'[n].op = verb /\ calls'[n].who = who /\ calls'[n].phase = "sent" /\ calls'[n].old = cached[key]
    BY <1>3
  <2> QED
    BY <2>1, <2>2 DEF CallFits, key
<1>5. /\ cached' = [k \in F!Keys |-> cached'[k]] /\ fetch' = [k \in F!Keys |-> fetch'[k]]
      /\ \A k \in F!Keys : Fits(k, cached'[k]) /\ FetchFits(k, fetch'[k])
      /\ \A k \in F!Keys \ {key} : cached'[k] = cached[k] /\ fetch'[k] = fetch[k]
  <2>1. CASE cached' = cached /\ fetch' = fetch
    BY <1>1, <2>1 DEF CircleShape
  <2>2. ASSUME NEW left, cached' = [cached EXCEPT ![key] = left], Fits(key, left),
               fetch' = [fetch EXCEPT ![key] = F!NoFetch]
        PROVE  /\ cached' = [k \in F!Keys |-> cached'[k]] /\ fetch' = [k \in F!Keys |-> fetch'[k]]
               /\ \A k \in F!Keys : Fits(k, cached'[k]) /\ FetchFits(k, fetch'[k])
               /\ \A k \in F!Keys \ {key} : cached'[k] = cached[k] /\ fetch'[k] = fetch[k]
    <3> HIDE DEF key
    <3>1. cached = [k \in F!Keys |-> cached[k]] /\ fetch = [k \in F!Keys |-> fetch[k]]
      BY <1>1 DEF CircleShape
    <3>2. /\ \A k \in F!Keys : cached'[k] = IF k = key THEN left ELSE cached[k]
          /\ cached' = [k \in F!Keys |-> cached'[k]]
      BY <1>2, <2>2, <3>1
    <3>3. /\ \A k \in F!Keys : fetch'[k] = IF k = key THEN F!NoFetch ELSE fetch[k]
          /\ fetch' = [k \in F!Keys |-> fetch'[k]]
      BY <1>2, <2>2, <3>1
    <3>4. ASSUME NEW k \in F!Keys PROVE Fits(k, cached'[k]) /\ FetchFits(k, fetch'[k])
      <4>1. Fits(k, cached[k]) /\ FetchFits(k, fetch[k])
        BY <1>1 DEF CircleShape
      <4> QED
        BY <2>2, <3>2, <3>3, <4>1, CircleFetches
    <3> QED
      BY <3>2, <3>3, <3>4
  <2> HIDE DEF key
  <2>3. (cached' = cached /\ fetch' = fetch) \/
        (\E left : /\ cached' = [cached EXCEPT ![key] = left] /\ Fits(key, left)
                   /\ fetch' = [fetch EXCEPT ![key] = F!NoFetch])
    BY DEF key
  <2> QED
    BY <2>1, <2>2, <2>3
<1>6. CircleShape'
  <2>1. \A k \in F!Keys : Fits(k, cached[k])' /\ FetchFits(k, fetch[k])'
    BY <1>5 DEF Fits, FetchFits, NeverIn
  <2>2. \A i \in DOMAIN calls' : CallFits(calls[i])'
    <3>1. \A i \in DOMAIN calls' : CallFits(calls'[i])
      BY <1>1, <1>3, <1>4 DEF CircleShape
    <3> QED
      BY <3>1 DEF CallFits, Fits, NeverIn
  <2>3. AskFits'
    BY <1>1 DEF CircleShape, AskFits, NeverIn
  <2> QED
    BY <1>1, <1>5, <2>1, <2>2, <2>3 DEF CircleShape
<1>7. QueriesTrue'
  <2> SUFFICES ASSUME NEW k \in F!Keys, \A i \in DOMAIN calls' : k \notin F!Settled(calls'[i].op)
               PROVE  QueryTrueAt(k)'
    BY DEF QueriesTrue, F!Settled
  <2>1. calls'[n].op = verb /\ n \in DOMAIN calls'
    BY <1>3
  <2>2. k # key
    BY <1>2, <2>1
  <2>3. QueryTrueAt(k)
    BY <1>1, <1>3 DEF QueriesTrue
  <2>4. F!Truth(k)' = F!Truth(k) /\ F!Incoming' = F!Incoming /\ F!Shown(k)' = F!Shown(k)
    BY DEF F!Truth, F!Friends, F!Incoming, F!Outgoing, F!Friend, F!Request, F!Shown
  <2>5. cached'[k] = cached[k] /\ fetch'[k] = fetch[k]
    BY <1>5, <2>2
  <2> QED
    BY <2>3, <2>4, <2>5 DEF QueryTrueAt
<1> QED
  BY <1>6, <1>7 DEF ShownInv

LEMMA TapsCircle ==
  ASSUME ShownInv, CircleInv',
         \/ \E r \in cached["requests"].in : F!Accept(r) \/ F!Decline(r)
         \/ F!Cancel \/ F!RemoveFriend \/ F!Dismiss
         \/ \E r \in cached["requests"].out : F!Ask("cancel", r)
         \/ \E f \in cached["friends"] : F!Ask("remove", f)
         \/ \E p \in People : F!SendRequest(p)
  PROVE  ShownInv'
<1>1. CircleInv /\ CircleShape
  BY DEF ShownInv
<1> DEFINE q == cached["requests"]
<1>2. q \in CircleLists /\ (\A r \in q.out : NeverIn(r)) /\ cached["friends"] \subseteq Persons
  BY <1>1 DEF CircleShape, Fits, F!Keys
<1>3. q.in \subseteq Persons /\ q.out \subseteq Persons
  BY <1>2 DEF CircleLists
<1>4. ASSUME NEW verb \in CircleOps \ {"send"}, NEW who \in Persons, NEW left, F!Answer(verb, who, KeyOf(verb), left),
             verb = "cancel" => NeverIn(who), Fits(KeyOf(verb), left)
      PROVE  ShownInv'
  <2>1. /\ F!Call(verb, who, KeyOf(verb)) /\ rows' = rows /\ screen' = screen /\ stale' = stale /\ sent' = sent
        /\ blind' = blind /\ sending' = sending /\ cached' = [cached EXCEPT ![KeyOf(verb)] = left]
        /\ fetch' = [fetch EXCEPT ![KeyOf(verb)] = F!NoFetch] /\ asked' = F!Unasked
    BY <1>4 DEF F!Answer
  <2>2. sending' \in People \cup {F!Nobody}
    BY <1>1, <2>1 DEF CircleShape
  <2>3. \E x : /\ cached' = [cached EXCEPT ![KeyOf(verb)] = x] /\ Fits(KeyOf(verb), x)
               /\ fetch' = [fetch EXCEPT ![KeyOf(verb)] = F!NoFetch]
    BY <1>4, <2>1
  <2> QED
    BY <1>4, <2>1, <2>2, <2>3, TapCircle
<1>5. ASSUME NEW r \in q.in, NEW verb \in {"accept", "decline"}, F!Answer(verb, r, "requests", [q EXCEPT !.in = q.in \ {r}])
      PROVE  ShownInv'
  <2> DEFINE left == [q EXCEPT !.in = q.in \ {r}]
  <2>1. left \in CircleLists /\ left.out = q.out
    BY <1>2, <1>3 DEF CircleLists
  <2>2. KeyOf(verb) = "requests" /\ verb \in CircleOps \ {"send"} /\ verb # "cancel" /\ r \in Persons
    BY <1>3, <1>5 DEF KeyOf, CircleOps
  <2>3. Fits("requests", left)
    BY <1>2, <2>1 DEF Fits
  <2>4. F!Answer(verb, r, KeyOf(verb), left)
    BY <1>5, <2>2
  <2> HIDE DEF left
  <2> QED
    BY <1>4, <2>2, <2>3, <2>4
<1>9. asked # F!Unasked => asked.who \in Persons /\ (asked.op = "cancel" => NeverIn(asked.who))
  BY <1>1 DEF CircleShape, AskFits
<1>6. CASE F!Cancel
  <2> DEFINE r == asked.who
             left == [q EXCEPT !.out = q.out \ {r}]
  <2>0. asked.op = "cancel" /\ F!Answer("cancel", r, "requests", left) /\ asked # F!Unasked
    BY <1>6 DEF F!Cancel, F!Unasked
  <2>1. left \in CircleLists /\ left.out = q.out \ {r}
    BY <1>2, <1>3 DEF CircleLists
  <2>2. KeyOf("cancel") = "requests" /\ "cancel" \in CircleOps \ {"send"} /\ r \in Persons /\ NeverIn(r)
    BY <1>9, <2>0 DEF KeyOf, CircleOps
  <2>3. Fits("requests", left)
    BY <1>2, <2>1 DEF Fits
  <2>4. F!Answer("cancel", r, KeyOf("cancel"), left)
    BY <2>0, <2>2
  <2> HIDE DEF left, r
  <2> QED
    BY <1>4, <2>2, <2>3, <2>4
<1>7. CASE F!RemoveFriend
  <2> DEFINE f == asked.who
  <2>0. F!Answer("remove", f, "friends", cached["friends"] \ {f}) /\ asked # F!Unasked
    BY <1>7 DEF F!RemoveFriend, F!Unasked
  <2>1. KeyOf("remove") = "friends" /\ "remove" \in CircleOps \ {"send"} /\ f \in Persons
    BY <1>9, <2>0 DEF KeyOf, CircleOps
  <2>2. Fits("friends", cached["friends"] \ {f})
    BY <1>2 DEF Fits
  <2>3. F!Answer("remove", f, KeyOf("remove"), cached["friends"] \ {f})
    BY <2>0, <2>1
  <2> HIDE DEF f
  <2> QED
    BY <1>4, <2>1, <2>2, <2>3
\* A question is opened or closed.
<1>10. ASSUME rows' = rows, screen' = screen, cached' = cached, fetch' = fetch, stale' = stale, sending' = sending,
              sent' = sent, calls' = calls, blind' = blind, AskFits'
       PROVE  ShownInv'
  <2>1. \A k : F!Truth(k)' = F!Truth(k) /\ F!Incoming' = F!Incoming /\ F!Shown(k)' = F!Shown(k)
    BY <1>10 DEF F!Truth, F!Friends, F!Incoming, F!Outgoing, F!Friend, F!Request, F!Shown
  <2>2. QueriesTrue'
    BY <1>10, <2>1 DEF ShownInv, QueriesTrue, QueryTrueAt, F!Settled
  <2>3. \A k \in F!Keys : Fits(k, cached[k])' /\ FetchFits(k, fetch[k])'
    BY <1>1, <1>10 DEF CircleShape, Fits, FetchFits, NeverIn
  <2>4. \A i \in DOMAIN calls : CallFits(calls[i])'
    <3>1. \A i \in DOMAIN calls : CallFits(calls[i]) /\ calls'[i] = calls[i]
      BY <1>1, <1>10 DEF CircleShape
    <3> QED
      BY <1>10, <3>1 DEF CallFits, Fits, NeverIn
  <2>5. CircleShape'
    BY <1>1, <1>10, <2>3, <2>4 DEF CircleShape
  <2> QED
    BY <2>2, <2>5 DEF ShownInv
<1>11. CASE F!Dismiss
  BY <1>10, <1>11 DEF F!Dismiss, AskFits
<1>12. ASSUME NEW r \in q.out, F!Ask("cancel", r) PROVE ShownInv'
  <2>1. asked' = [op |-> "cancel", who |-> r] /\ r \in Persons /\ NeverIn(r)
    BY <1>2, <1>3, <1>12 DEF F!Ask
  <2>2. asked'.who = r
    BY <2>1
  <2>3. AskFits'
    BY <1>12, <2>1, <2>2 DEF AskFits, NeverIn, F!Ask
  <2> QED
    BY <1>10, <1>12, <2>3 DEF F!Ask
<1>13. ASSUME NEW f \in cached["friends"], F!Ask("remove", f) PROVE ShownInv'
  <2>1. asked' = [op |-> "remove", who |-> f] /\ f \in Persons
    BY <1>2, <1>13 DEF F!Ask
  <2>2. asked'.who = f /\ asked'.op # "cancel"
    BY <2>1
  <2>3. AskFits'
    BY <2>1, <2>2 DEF AskFits
  <2> QED
    BY <1>10, <1>13, <2>3 DEF F!Ask
<1>8. ASSUME NEW p \in People, F!SendRequest(p) PROVE ShownInv'
  <2>1. /\ F!Call("send", F!Friend(p), "requests") /\ rows' = rows /\ screen' = screen /\ stale' = stale
        /\ sent' = sent /\ blind' = blind /\ sending' = p /\ cached' = cached /\ fetch' = fetch /\ asked' = asked
    BY <1>8 DEF F!SendRequest
  <2>2. KeyOf("send") = "requests" /\ "send" \in CircleOps /\ F!Friend(p) \in Persons
    BY DEF KeyOf, CircleOps, F!Friend, Persons
  <2> QED
    BY <2>1, <2>2, TapCircle
<1> QED
  BY <1>5, <1>6, <1>7, <1>8, <1>11, <1>12, <1>13 DEF F!Accept, F!Decline

LEMMA GoCircle ==
  ASSUME ShownInv, F!Go, CircleInv'
  PROVE  ShownInv'
<1>1. CircleInv /\ CircleShape /\ QueriesTrue
  BY DEF ShownInv
<1>2. PICK old \in {{}, {"friends", "requests"}} :
        fetch' = [k \in F!Keys |-> IF screen' = "friends" /\ k \in stale \cup old /\ fetch[k] = F!NoFetch
                                   THEN F!SentFetch ELSE fetch[k]]
  BY DEF F!Go
<1>3. /\ rows' = rows /\ cached' = cached /\ stale' = stale /\ blind' = blind
      /\ screen' = IF screen = "friends" THEN "add" ELSE "friends"
      /\ sending' = F!Nobody /\ sent' = {} /\ asked' = F!Unasked
      /\ calls' = [i \in DOMAIN calls |-> [calls[i] EXCEPT !.here = FALSE]]
  BY DEF F!Go
<1>4. DOMAIN calls' = DOMAIN calls /\ \A i \in DOMAIN calls :
        /\ calls'[i].op = calls[i].op /\ calls'[i].who = calls[i].who /\ calls'[i].old = calls[i].old
        /\ calls'[i].phase = calls[i].phase
  <2>1. PICK Whos, Olds : calls \in Seq(CircleCalls(Whos, Olds))
    BY <1>1 DEF CircleInv
  <2>2. \A i \in DOMAIN calls : calls[i] \in CircleCalls(Whos, Olds)
    BY <2>1
  <2>3. DOMAIN calls' = DOMAIN calls /\ \A i \in DOMAIN calls : calls'[i] = [calls[i] EXCEPT !.here = FALSE]
    BY <1>3
  <2> QED
    BY <2>2, <2>3 DEF CircleCalls
<1>5. \A i \in DOMAIN calls : CallFits(calls[i])'
  <2> SUFFICES ASSUME NEW i \in DOMAIN calls PROVE CallFits(calls[i])'
    OBVIOUS
  <2>1. CallFits(calls[i])
    BY <1>1 DEF CircleShape
  <2>2. KeyOf(calls[i].op)' = KeyOf(calls[i].op)
    BY <1>4 DEF KeyOf
  <2>3. Fits(KeyOf(calls[i].op), calls[i].old)'
    <3>1. Fits(KeyOf(calls[i].op), calls'[i].old)
      BY <1>4, <2>1 DEF CallFits
    <3> QED
      BY <1>3, <2>2, <3>1 DEF Fits, NeverIn
  <2>4. calls[i].op = "cancel" => NeverIn(calls[i].who)'
    BY <1>3, <1>4, <2>1 DEF CallFits, NeverIn
  <2> QED
    BY <1>4, <2>1, <2>3, <2>4 DEF CallFits
<1>6. /\ fetch' = [k \in F!Keys |-> fetch'[k]]
      /\ \A k \in F!Keys : fetch'[k] = IF screen' = "friends" /\ k \in stale \cup old /\ fetch[k] = F!NoFetch
                                       THEN F!SentFetch ELSE fetch[k]
  BY <1>2
<1>7. CircleShape'
  <2>1. \A k \in F!Keys : FetchFits(k, fetch'[k]) /\ Fits(k, cached'[k])
    BY <1>1, <1>3, <1>6, CircleFetches DEF CircleShape
  <2>2. \A k \in F!Keys : FetchFits(k, fetch[k])' /\ Fits(k, cached[k])'
    BY <2>1, <1>3 DEF FetchFits, Fits, NeverIn
  <2>3. AskFits'
    BY <1>3 DEF AskFits
  <2> QED
    BY <1>1, <1>3, <1>4, <1>5, <1>6, <2>2, <2>3 DEF CircleShape
<1>8. QueriesTrue'
  <2> SUFFICES ASSUME NEW k \in F!Keys, \A i \in DOMAIN calls' : k \notin F!Settled(calls'[i].op)
               PROVE  QueryTrueAt(k)'
    BY DEF QueriesTrue, F!Settled
  <2>1. QueryTrueAt(k)
    BY <1>1, <1>4 DEF QueriesTrue
  <2>2. F!Truth(k)' = F!Truth(k) /\ F!Incoming' = F!Incoming
    BY <1>3 DEF F!Truth, F!Friends, F!Incoming, F!Outgoing, F!Friend, F!Request
  <2>3. CASE fetch'[k] = F!SentFetch
    BY <2>3, CircleFetches DEF QueryTrueAt
  <2>4. CASE fetch'[k] = fetch[k] /\ ~(screen' = "friends" /\ k \in stale /\ fetch[k] = F!NoFetch)
    <3>1. fetch[k] = F!NoFetch /\ k \in stale /\ ~F!Shown(k) => ~F!Shown(k)'
      BY <1>1, <1>3, <2>4 DEF F!Shown, CircleShape
    <3> QED
      BY <1>3, <2>1, <2>2, <2>4, <3>1 DEF QueryTrueAt
  <2> QED
    BY <1>6, <2>3, <2>4
<1> QED
  BY <1>7, <1>8 DEF ShownInv

-----------------------------------------------------------------------------
(* The server, and what becomes of the calls.                              *)

LEMMA SameRows ==
  ASSUME rows \in CircleRows, rows' \in CircleRows
  PROVE  /\ (\A p \in People : rows'[p].kind = "friends" <=> rows[p].kind = "friends") => F!Friends' = F!Friends
         /\ (\A p \in People : /\ rows'[p].kind = "in" <=> rows[p].kind = "in"
                               /\ rows[p].kind = "in" => rows'[p].id = rows[p].id) => F!Incoming' = F!Incoming
         /\ (\A p \in People : /\ rows'[p].kind = "out" <=> rows[p].kind = "out"
                               /\ rows[p].kind = "out" => rows'[p].id = rows[p].id) => F!Outgoing' = F!Outgoing
<1>1. (\A p \in People : rows'[p].kind = "friends" <=> rows[p].kind = "friends") => F!Friends' = F!Friends
  BY DEF F!Friends, F!Friend
<1>2. (\A p \in People : /\ rows'[p].kind = "in" <=> rows[p].kind = "in"
                         /\ rows[p].kind = "in" => rows'[p].id = rows[p].id) => F!Incoming' = F!Incoming
  <2> SUFFICES ASSUME \A p \in People : /\ rows'[p].kind = "in" <=> rows[p].kind = "in"
                                        /\ rows[p].kind = "in" => rows'[p].id = rows[p].id
               PROVE  F!Incoming' = F!Incoming
    OBVIOUS
  <2> DEFINE old == {q \in People : rows[q].kind = "in"}
             now_ == {q \in People : rows'[q].kind = "in"}
  <2>1. now_ = old /\ \A p \in old : rows'[p].id = rows[p].id
    OBVIOUS
  <2>2. F!Incoming = {[p |-> p, id |-> rows[p].id] : p \in old} /\ F!Incoming' = {[p |-> p, id |-> rows'[p].id] : p \in now_}
    BY DEF F!Incoming, F!Request
  <2> HIDE DEF old, now_
  <2>3. {[p |-> p, id |-> rows'[p].id] : p \in old} = {[p |-> p, id |-> rows[p].id] : p \in old}
    BY <2>1
  <2> QED
    BY <2>1, <2>2, <2>3
<1>3. (\A p \in People : /\ rows'[p].kind = "out" <=> rows[p].kind = "out"
                         /\ rows[p].kind = "out" => rows'[p].id = rows[p].id) => F!Outgoing' = F!Outgoing
  <2> SUFFICES ASSUME \A p \in People : /\ rows'[p].kind = "out" <=> rows[p].kind = "out"
                                        /\ rows[p].kind = "out" => rows'[p].id = rows[p].id
               PROVE  F!Outgoing' = F!Outgoing
    OBVIOUS
  <2> DEFINE old == {q \in People : rows[q].kind = "out"}
             now_ == {q \in People : rows'[q].kind = "out"}
  <2>1. now_ = old /\ \A p \in old : rows'[p].id = rows[p].id
    OBVIOUS
  <2>2. F!Outgoing = {[p |-> p, id |-> rows[p].id] : p \in old} /\ F!Outgoing' = {[p |-> p, id |-> rows'[p].id] : p \in now_}
    BY DEF F!Outgoing, F!Request
  <2> HIDE DEF old, now_
  <2>3. {[p |-> p, id |-> rows'[p].id] : p \in old} = {[p |-> p, id |-> rows[p].id] : p \in old}
    BY <2>1
  <2> QED
    BY <2>1, <2>2, <2>3
<1> QED
  BY <1>1, <1>2, <1>3

\* Handling a call changes the queries that its end invalidates, and no other.
LEMMA HandledCircle ==
  ASSUME CircleShape, NEW i \in DOMAIN calls, F!Handle(i)
  PROVE  /\ rows' \in CircleRows /\ Moves(rows, rows')
         /\ \A k \in F!Keys \ blind' : k \notin F!Settled(calls[i].op) => F!Truth(k)' = F!Truth(k)
<1> DEFINE c == calls[i]
           p == c.who.p
           row == rows[p]
           ok == F!Carries(c.op, c.who, row.kind, row.id)
<1>1. /\ c.op \in CircleOps /\ c.who \in Persons /\ p \in People /\ (c.op = "cancel" => NeverIn(c.who))
      /\ rows \in CircleRows
  BY DEF CircleShape, CallFits, Persons
<1>2. /\ rows' = IF ok THEN [rows EXCEPT ![p] = F!After(c.op, row)] ELSE rows
      /\ blind' = IF c.op = "remove" /\ row.kind \in {"in", "out"} THEN F!Keys ELSE blind
  BY <1>1 DEF F!Handle, CircleRows
<1>3. CASE ~ok
  <2>1. rows' = rows
    BY <1>2, <1>3
  <2>2. \A k : F!Truth(k)' = F!Truth(k)
    BY <2>1 DEF F!Truth, F!Friends, F!Incoming, F!Outgoing, F!Friend, F!Request
  <2>3. Moves(rows, rows')
    BY <1>1, <2>1 DEF Moves, CircleRows
  <2> QED
    BY <1>1, <2>1, <2>2, <2>3
<1>4. CASE ok
  <2>1. row.kind \in {"none", "in", "out", "friends"} /\ row.id \in Nat \ {0} /\ row = [kind |-> row.kind, id |-> row.id]
    BY <1>1 DEF CircleRows
  <2> DEFINE new == F!After(c.op, row)
  <2>2. /\ new \in [kind : {"none", "in", "out", "friends"}, id : Nat \ {0}] /\ new.id >= row.id /\ new.kind # "in"
        /\ c.op # "send" => new.id = row.id /\ new.kind = IF c.op = "accept" THEN "friends" ELSE "none"
        /\ c.op = "send" => new.kind = "out"
    BY <2>1 DEF F!After
  <2>3. /\ c.op \in {"accept", "decline"} => row.kind = "in"
        /\ c.op # "cancel"
        /\ c.op = "send" => row.kind = "none"
        /\ c.op = "remove" => row.kind # "none"
    BY <1>1, <1>4 DEF F!Carries, NeverIn, CircleOps
  <2> HIDE DEF new
  <2>4. rows' = [rows EXCEPT ![p] = new]
    BY <1>2, <1>4 DEF new
  <2>5. rows' \in CircleRows /\ rows'[p] = new /\ \A q \in People : q # p => rows'[q] = rows[q]
    BY <1>1, <2>2, <2>4 DEF CircleRows
  <2>6. Moves(rows, rows')
    <3>1. ASSUME NEW q \in People
          PROVE  rows'[q].id >= rows[q].id /\ (rows'[q].kind = "in" => rows'[q].id > rows[q].id \/ rows'[q] = rows[q])
      <4>1. CASE q = p
        BY <2>2, <2>5, <4>1
      <4>2. CASE q # p
        <5>1. rows'[q] = rows[q] /\ rows[q].id \in Nat
          BY <1>1, <2>5, <4>2 DEF CircleRows
        <5> QED
          BY <5>1
      <4> QED
        BY <4>1, <4>2
    <3> QED
      BY <3>1 DEF Moves
  <2>7. ASSUME NEW k \in F!Keys \ blind', k \notin F!Settled(c.op) PROVE F!Truth(k)' = F!Truth(k)
    <3> USE <1>1
    <3> HIDE DEF c, p, row, ok
    <3>0. \A q \in People : q # p => rows'[q] = rows[q]
      BY <2>5
    <3>1. CASE c.op = "accept"
      BY <2>7, <3>1 DEF F!Settled
    <3>2. CASE c.op = "decline"
      <4>1. k = "friends"
        BY <2>7, <3>2 DEF F!Settled, F!Keys
      <4>2. rows[p].kind # "friends" /\ rows'[p].kind # "friends"
        BY <2>2, <2>3, <2>5, <3>2 DEF row
      <4>3. F!Friends' = F!Friends
        BY <2>5, <3>0, <4>2, SameRows
      <4> QED
        BY <4>1, <4>3 DEF F!Truth
    <3>3. CASE c.op = "remove"
      <4>1. k \in {"requests", "pending"}
        BY <2>7, <3>3 DEF F!Settled, F!Keys
      <4>2. rows[p].kind \notin {"in", "out"} /\ rows'[p].kind \notin {"in", "out"}
        BY <1>2, <2>2, <2>5, <2>7, <3>3 DEF row
      <4>3. F!Incoming' = F!Incoming /\ F!Outgoing' = F!Outgoing
        BY <2>5, <3>0, <4>2, SameRows
      <4> QED
        BY <4>1, <4>3 DEF F!Truth
    <3>4. CASE c.op = "send"
      <4>1. k \in {"friends", "pending"}
        BY <2>7, <3>4 DEF F!Settled, F!Keys
      <4>2. rows[p].kind = "none" /\ rows'[p].kind = "out"
        BY <2>2, <2>3, <2>5, <3>4 DEF row
      <4>3. F!Incoming' = F!Incoming /\ F!Friends' = F!Friends
        BY <2>5, <3>0, <4>2, SameRows
      <4> QED
        BY <4>1, <4>3 DEF F!Truth
    <3> QED
      BY <2>3, <3>1, <3>2, <3>3, <3>4 DEF CircleOps
  <2> QED
    BY <2>5, <2>6, <2>7
<1> QED
  BY <1>3, <1>4

LEMMA AnswerCircle ==
  ASSUME CircleInv, NEW i \in DOMAIN calls, F!Handle(i) \/ F!Lose(i)
  PROVE  /\ DOMAIN calls' = DOMAIN calls
         /\ \A j \in DOMAIN calls : /\ calls'[j].op = calls[j].op /\ calls'[j].who = calls[j].who
                                    /\ calls'[j].old = calls[j].old /\ calls'[j].phase \in {"sent", "answered"}
<1>1. PICK answer : calls' = [calls EXCEPT ![i].phase = "answered", ![i].answer = answer]
  BY DEF F!Handle, F!Lose
<1>2. PICK Whos, Olds : calls \in Seq(CircleCalls(Whos, Olds))
  BY DEF CircleInv
<1>3. \A j \in DOMAIN calls : calls[j] \in CircleCalls(Whos, Olds)
  BY <1>2
<1> DEFINE new == [[calls[i] EXCEPT !.phase = "answered"] EXCEPT !.answer = answer]
<1>4. /\ new.op = calls[i].op /\ new.who = calls[i].who /\ new.old = calls[i].old /\ new.phase = "answered"
  BY <1>3 DEF CircleCalls
<1>5. calls' = [calls EXCEPT ![i] = new]
  BY <1>1, <1>2
<1> HIDE DEF new
<1>6. DOMAIN calls' = DOMAIN calls /\ \A j \in DOMAIN calls : calls'[j] = IF j = i THEN new ELSE calls[j]
  BY <1>5
<1>7. \A j \in DOMAIN calls : calls[j].phase \in {"sent", "answered"}
  BY <1>3 DEF CircleCalls
<1>8. ASSUME NEW j \in DOMAIN calls
      PROVE  /\ calls'[j].op = calls[j].op /\ calls'[j].who = calls[j].who
             /\ calls'[j].old = calls[j].old /\ calls'[j].phase \in {"sent", "answered"}
  <2>1. CASE j = i
    BY <1>4, <1>6, <2>1
  <2>2. CASE j # i
    BY <1>6, <1>7, <2>2
  <2> QED
    BY <2>1, <2>2
<1> QED
  BY <1>6, <1>8

LEMMA ServerCircle ==
  ASSUME ShownInv, CircleInv', NEW i \in DOMAIN calls, F!Handle(i) \/ F!Lose(i)
  PROVE  ShownInv'
<1>1. CircleInv /\ CircleShape /\ QueriesTrue
  BY DEF ShownInv
<1>2. /\ DOMAIN calls' = DOMAIN calls
      /\ \A j \in DOMAIN calls : /\ calls'[j].op = calls[j].op /\ calls'[j].who = calls[j].who
                                 /\ calls'[j].old = calls[j].old /\ calls'[j].phase \in {"sent", "answered"}
  BY <1>1, AnswerCircle
<1>3. /\ screen' = screen /\ cached' = cached /\ fetch' = fetch /\ stale' = stale /\ sending' = sending /\ sent' = sent
      /\ blind' \in {blind, F!Keys} /\ (F!Lose(i) => rows' = rows) /\ asked' = asked
  BY DEF F!Handle, F!Lose
<1>4. /\ rows' \in CircleRows /\ Moves(rows, rows')
      /\ \A k \in F!Keys \ blind' : k \notin F!Settled(calls[i].op) => F!Truth(k)' = F!Truth(k)
  <2>1. CASE F!Handle(i)
    BY <1>1, <2>1, HandledCircle
  <2>2. CASE F!Lose(i)
    <3>1. rows' = rows /\ rows \in CircleRows
      BY <1>1, <1>3, <2>2 DEF CircleShape
    <3>2. Moves(rows, rows')
      BY <3>1 DEF Moves, CircleRows
    <3>3. \A k : F!Truth(k)' = F!Truth(k)
      BY <3>1 DEF F!Truth, F!Friends, F!Incoming, F!Outgoing, F!Friend, F!Request
    <3> QED
      BY <3>1, <3>2, <3>3
  <2> QED
    BY <2>1, <2>2
<1>5. blind' \subseteq F!Keys /\ \A k \in F!Keys : k \in blind => k \in blind'
  BY <1>1, <1>3 DEF CircleShape
<1>6. CircleShape'
  BY <1>1, <1>2, <1>3, <1>4, <1>5, ShapeStays
<1>7. QueriesTrue'
  <2> SUFFICES ASSUME NEW k \in F!Keys, \A j \in DOMAIN calls' : k \notin F!Settled(calls'[j].op)
               PROVE  QueryTrueAt(k)'
    BY DEF QueriesTrue, F!Settled
  <2>1. QueryTrueAt(k) /\ k \notin F!Settled(calls[i].op)
    BY <1>1, <1>2 DEF QueriesTrue
  <2>2. CASE k \in blind'
    BY <2>2 DEF QueryTrueAt
  <2>3. CASE k \notin blind'
    <3>1. k \notin blind /\ F!Truth(k)' = F!Truth(k)
      BY <1>4, <1>5, <2>1, <2>3
    <3>2. k = "requests" => F!Incoming' = F!Incoming
      <4>1. k = "requests" => F!Truth(k).in = F!Incoming /\ F!Truth(k)'.in = F!Incoming'
        BY DEF F!Truth
      <4> QED
        BY <3>1, <4>1
    <3> QED
      BY <1>3, <2>1, <3>1, <3>2 DEF QueryTrueAt, F!Shown
  <2> QED
    BY <2>2, <2>3
<1> QED
  BY <1>6, <1>7 DEF ShownInv

LEMMA ElsewhereCircle ==
  ASSUME ShownInv, CircleInv', NEW p \in People, F!Elsewhere(p)
  PROVE  ShownInv'
<1>1. CircleInv /\ CircleShape
  BY DEF ShownInv
<1>2. /\ screen' = screen /\ cached' = cached /\ fetch' = fetch /\ stale' = stale /\ sending' = sending /\ sent' = sent
      /\ calls' = calls /\ blind' = F!Keys /\ asked' = asked
  BY DEF F!Elsewhere
<1> DEFINE row == rows[p]
           kinds == CASE row.kind = "none" -> {"in", "out"}
                      [] row.kind \in {"in", "out"} -> {"friends", "none"}
                      [] row.kind = "friends" -> {"none"}
<1>3. rows \in CircleRows /\ row \in [kind : {"none", "in", "out", "friends"}, id : Nat \ {0}]
  BY <1>1 DEF CircleShape, CircleRows
<1>4. PICK kind_ \in kinds : rows' = [rows EXCEPT ![p] = [kind |-> kind_, id |-> IF row.kind = "none" THEN row.id + 1 ELSE row.id]]
  BY <1>3 DEF F!Elsewhere, CircleRows
<1>5. kind_ \in {"none", "in", "out", "friends"} /\ (kind_ = "in" => row.kind = "none")
  BY <1>3, <1>4
<1> DEFINE new == [kind |-> kind_, id |-> IF row.kind = "none" THEN row.id + 1 ELSE row.id]
<1>6. new \in [kind : {"none", "in", "out", "friends"}, id : Nat \ {0}] /\ new.id >= row.id /\ (new.kind = "in" => new.id > row.id)
  BY <1>3, <1>5
<1> HIDE DEF new, kinds
<1>7. rows' = [rows EXCEPT ![p] = new]
  BY <1>4 DEF new
<1>8. rows' \in CircleRows /\ rows'[p] = new /\ \A q \in People : q # p => rows'[q] = rows[q]
  BY <1>3, <1>6, <1>7 DEF CircleRows
<1>9. Moves(rows, rows')
  <2>1. ASSUME NEW q \in People
        PROVE  rows'[q].id >= rows[q].id /\ (rows'[q].kind = "in" => rows'[q].id > rows[q].id \/ rows'[q] = rows[q])
    <3>1. CASE q = p
      BY <1>6, <1>8, <3>1
    <3>2. CASE q # p
      <4>1. rows'[q] = rows[q] /\ rows[q].id \in Nat
        BY <1>3, <1>8, <3>2 DEF CircleRows
      <4> QED
        BY <4>1
    <3> QED
      BY <3>1, <3>2
  <2> QED
    BY <2>1 DEF Moves
<1>10. \A i \in DOMAIN calls : calls[i].phase \in {"sent", "answered"}
  BY <1>1 DEF CircleShape, CallFits
<1>11. CircleShape'
  BY <1>1, <1>2, <1>8, <1>9, <1>10, ShapeStays
<1>12. QueriesTrue'
  BY <1>2 DEF QueriesTrue, QueryTrueAt
<1> QED
  BY <1>11, <1>12 DEF ShownInv

LEMMA EndCircle ==
  ASSUME ShownInv, CircleInv', NEW i \in DOMAIN calls, F!End(i)
  PROVE  ShownInv'
<1>1. CircleInv /\ CircleShape /\ QueriesTrue
  BY DEF ShownInv
<1> DEFINE c == calls[i]
           keys == F!Settled(c.op)
           key == KeyOf(c.op)
           bad == c.answer # "ok" /\ c.op # "send"
<1>2. /\ c.phase = "answered" /\ calls' = F!RemoveAt(calls, i) /\ rows' = rows /\ screen' = screen
      /\ cached' = IF bad THEN [cached EXCEPT ![key] = c.old] ELSE cached
      /\ fetch' = [k \in F!Keys |-> IF k \in keys /\ F!Shown(k) THEN F!SentFetch ELSE fetch[k]]
      /\ stale' = stale \cup {k \in keys : ~F!Shown(k)}
      /\ blind' = blind \cup {k \in keys : ~F!Shown(k) /\ fetch[k] # F!NoFetch}
      /\ sending' \in {sending, F!Nobody} /\ sent' \in {sent, sent \cup {c.who.p}} /\ asked' = asked
  BY DEF F!End, KeyOf
<1>3. CallFits(c) /\ keys \subseteq F!Keys /\ key \in keys /\ key \in F!Keys /\ Fits(key, c.old) /\ c.who.p \in People
  <2>1. CallFits(c)
    BY <1>1 DEF CircleShape
  <2> QED
    BY <2>1 DEF CallFits, F!Settled, F!Keys, KeyOf, CircleOps, Persons
<1> HIDE DEF keys, key, bad
<1>4. /\ \A j \in DOMAIN calls' : \E n \in DOMAIN calls : calls'[j] = calls[n]
      /\ \A n \in DOMAIN calls \ {i} : \E j \in DOMAIN calls' : calls'[j] = calls[n]
  <2>1. PICK Whos, Olds : calls \in Seq(CircleCalls(Whos, Olds))
    BY <1>1 DEF CircleInv
  <2>2. /\ calls' \in Seq(CircleCalls(Whos, Olds)) /\ Len(calls') = Len(calls) - 1
        /\ \A j \in DOMAIN calls' : /\ (IF j < i THEN j ELSE j + 1) \in DOMAIN calls
                                    /\ calls'[j] = calls[IF j < i THEN j ELSE j + 1]
    BY <1>2, <2>1, RemovedInCircle
  <2>3. DOMAIN calls = 1 .. Len(calls) /\ DOMAIN calls' = 1 .. (Len(calls) - 1) /\ Len(calls) \in Nat
    BY <2>1, <2>2
  <2>4. ASSUME NEW n \in DOMAIN calls \ {i} PROVE \E j \in DOMAIN calls' : calls'[j] = calls[n]
    <3>1. CASE n < i
      <4>1. n \in DOMAIN calls' /\ calls'[n] = calls[n]
        BY <2>2, <2>3, <3>1
      <4> QED
        BY <4>1
    <3>2. CASE ~(n < i)
      <4>1. n - 1 \in DOMAIN calls' /\ ~(n - 1 < i) /\ n - 1 + 1 = n
        BY <2>3, <3>2
      <4>2. calls'[n - 1] = calls[n - 1 + 1]
        BY <2>2, <4>1
      <4> QED
        BY <4>1, <4>2
    <3> QED
      BY <3>1, <3>2
  <2> QED
    BY <2>2, <2>4
<1>5. /\ cached' = [k \in F!Keys |-> cached'[k]]
      /\ \A k \in F!Keys : Fits(k, cached'[k]) /\ (k \notin keys => cached'[k] = cached[k])
  <2>1. cached = [k \in F!Keys |-> cached[k]] /\ \A k \in F!Keys : Fits(k, cached[k])
    BY <1>1 DEF CircleShape
  <2>2. CASE ~bad
    BY <1>2, <2>1, <2>2
  <2>3. CASE bad
    <3>1. cached' = [cached EXCEPT ![key] = c.old]
      BY <1>2, <2>3
    <3> HIDE DEF c
    <3>2. \A k \in F!Keys : cached'[k] = IF k = key THEN c.old ELSE cached[k]
      BY <1>3, <2>1, <3>1
    <3>3. cached' = [k \in F!Keys |-> cached'[k]]
      BY <1>3, <2>1, <3>1
    <3> QED
      BY <1>3, <2>1, <3>2, <3>3
  <2> QED
    BY <2>2, <2>3
<1>6. /\ fetch' = [k \in F!Keys |-> fetch'[k]]
      /\ \A k \in F!Keys : fetch'[k] = IF k \in keys /\ F!Shown(k) THEN F!SentFetch ELSE fetch[k]
  BY <1>2
<1>7. CircleShape'
  <2>1. \A k \in F!Keys : Fits(k, cached'[k]) /\ FetchFits(k, fetch'[k])
    BY <1>1, <1>5, <1>6, CircleFetches DEF CircleShape
  <2>2. \A k \in F!Keys : Fits(k, cached[k])' /\ FetchFits(k, fetch[k])'
    <3> SUFFICES ASSUME NEW k \in F!Keys PROVE Fits(k, cached[k])' /\ FetchFits(k, fetch[k])'
      OBVIOUS
    <3>1. Fits(k, cached'[k]) => Fits(k, cached[k])'
      BY <1>2 DEF Fits, NeverIn
    <3>2. FetchFits(k, fetch'[k]) => FetchFits(k, fetch[k])'
      BY <1>2 DEF FetchFits, Fits, NeverIn
    <3> QED
      BY <2>1, <3>1, <3>2
  <2>3. \A j \in DOMAIN calls' : CallFits(calls[j])'
    <3>1. \A j \in DOMAIN calls' : CallFits(calls'[j])
      BY <1>1, <1>4 DEF CircleShape
    <3> QED
      BY <1>2, <3>1 DEF CallFits, Fits, NeverIn
  <2>4. /\ stale' \subseteq F!Keys /\ blind' \subseteq F!Keys /\ sending' \in People \cup {F!Nobody} /\ sent' \subseteq People
    BY <1>1, <1>2, <1>3 DEF CircleShape
  <2>5. AskFits'
    BY <1>1, <1>2 DEF CircleShape, AskFits, NeverIn
  <2> QED
    BY <1>1, <1>2, <1>5, <1>6, <2>2, <2>3, <2>4, <2>5 DEF CircleShape
<1>8. QueriesTrue'
  <2> SUFFICES ASSUME NEW k \in F!Keys, \A j \in DOMAIN calls' : k \notin F!Settled(calls'[j].op)
               PROVE  QueryTrueAt(k)'
    BY DEF QueriesTrue, F!Settled
  <2>1. \A n \in DOMAIN calls \ {i} : k \notin F!Settled(calls[n].op)
    BY <1>4
  <2>2. /\ F!Truth(k)' = F!Truth(k) /\ F!Incoming' = F!Incoming /\ (F!Shown(k)' <=> F!Shown(k))
    BY <1>2 DEF F!Truth, F!Friends, F!Incoming, F!Outgoing, F!Friend, F!Request, F!Shown
  <2>3. CASE k \in keys /\ F!Shown(k)
    <3>1. fetch'[k] = F!SentFetch
      BY <1>6, <2>3
    <3> QED
      BY <3>1, CircleFetches DEF QueryTrueAt
  <2>4. CASE k \in keys /\ ~F!Shown(k)
    <3>1. fetch'[k] = fetch[k] /\ k \in stale' /\ ~F!Shown(k)'
      BY <1>2, <1>6, <2>2, <2>4
    <3>2. CASE fetch[k] # F!NoFetch
      <4>1. k \in blind'
        BY <1>2, <2>4, <3>2
      <4> QED
        BY <4>1 DEF QueryTrueAt
    <3>3. CASE fetch[k] = F!NoFetch
      BY <3>1, <3>3, CircleFetches DEF QueryTrueAt
    <3> QED
      BY <3>2, <3>3
  <2>5. CASE k \notin keys
    <3>1. QueryTrueAt(k)
      BY <1>1, <2>1, <2>5 DEF QueriesTrue, keys
    <3>2. cached'[k] = cached[k] /\ fetch'[k] = fetch[k] /\ (k \in stale => k \in stale') /\ (k \in blind => k \in blind')
      BY <1>2, <1>5, <1>6, <2>5
    <3> QED
      BY <2>2, <3>1, <3>2 DEF QueryTrueAt
  <2> QED
    BY <2>3, <2>4, <2>5
<1> QED
  BY <1>7, <1>8 DEF ShownInv

-----------------------------------------------------------------------------
(* The three queries.                                                      *)

LEMMA ReadCircle ==
  ASSUME ShownInv, CircleInv',
         F!ReadOutgoing \/ \E k \in F!Keys : F!ReadRows(k) \/ F!Deliver(k) \/ F!FailFetch(k) \/ F!Refresh(k)
  PROVE  ShownInv'
<1>1. CircleInv /\ CircleShape /\ QueriesTrue
  BY DEF ShownInv
<1>2. rows \in CircleRows /\ F!Incoming \subseteq Persons /\ F!Outgoing \subseteq Persons /\ \A r \in F!Outgoing : NeverIn(r)
  BY <1>1, TruthFits DEF CircleShape
\* The fetch of one query changes, and with it what is cached of it or whether it is blind.
<1>3. ASSUME NEW k \in F!Keys, NEW f, NEW v, FetchFits(k, f), Fits(k, v),
             fetch' = [fetch EXCEPT ![k] = f], cached' = [cached EXCEPT ![k] = v],
             rows' = rows, screen' = screen, sending' = sending, sent' = sent, calls' = calls, asked' = asked,
             stale' \in {stale, stale \ {k}}, blind' \in {blind, blind \ {k}, blind \cup {k}},
             QueryTrueAt(k) => QueryTrueAt(k)'
      PROVE  ShownInv'
  <2>1. cached = [q \in F!Keys |-> cached[q]] /\ fetch = [q \in F!Keys |-> fetch[q]]
    BY <1>1 DEF CircleShape
  <2>2. /\ cached' = [q \in F!Keys |-> cached'[q]] /\ fetch' = [q \in F!Keys |-> fetch'[q]]
        /\ \A q \in F!Keys : cached'[q] = IF q = k THEN v ELSE cached[q]
        /\ \A q \in F!Keys : fetch'[q] = IF q = k THEN f ELSE fetch[q]
    BY <1>3, <2>1
  <2>3. \A q \in F!Keys : Fits(q, cached'[q]) /\ FetchFits(q, fetch'[q])
    BY <1>1, <1>3, <2>2 DEF CircleShape
  <2>4. \A q \in F!Keys : Fits(q, cached[q])' /\ FetchFits(q, fetch[q])'
    <3> SUFFICES ASSUME NEW q \in F!Keys PROVE Fits(q, cached[q])' /\ FetchFits(q, fetch[q])'
      OBVIOUS
    <3>1. Fits(q, cached'[q]) => Fits(q, cached[q])'
      BY <1>3 DEF Fits, NeverIn
    <3>2. FetchFits(q, fetch'[q]) => FetchFits(q, fetch[q])'
      BY <1>3 DEF FetchFits, Fits, NeverIn
    <3> QED
      BY <2>3, <3>1, <3>2
  <2>5. \A i \in DOMAIN calls : CallFits(calls[i])'
    <3>1. \A i \in DOMAIN calls : CallFits(calls[i]) /\ calls'[i] = calls[i]
      BY <1>1, <1>3 DEF CircleShape
    <3> QED
      BY <1>3, <3>1 DEF CallFits, Fits, NeverIn
  <2>6. stale' \subseteq F!Keys /\ blind' \subseteq F!Keys
    BY <1>1, <1>3 DEF CircleShape
  <2>9. AskFits'
    BY <1>1, <1>3 DEF CircleShape, AskFits, NeverIn
  <2>7. CircleShape'
    BY <1>1, <1>3, <2>2, <2>4, <2>5, <2>6, <2>9 DEF CircleShape
  <2>8. QueriesTrue'
    <3> SUFFICES ASSUME NEW q \in F!Keys, \A j \in DOMAIN calls' : q \notin F!Settled(calls'[j].op)
                 PROVE  QueryTrueAt(q)'
      BY DEF QueriesTrue, F!Settled
    <3>1. QueryTrueAt(q)
      BY <1>1, <1>3 DEF QueriesTrue
    <3>2. CASE q = k
      BY <1>3, <3>1, <3>2
    <3>3. CASE q # k
      <4>1. F!Truth(q)' = F!Truth(q) /\ F!Incoming' = F!Incoming /\ (F!Shown(q)' <=> F!Shown(q))
        BY <1>3 DEF F!Truth, F!Friends, F!Incoming, F!Outgoing, F!Friend, F!Request, F!Shown
      <4>2. cached'[q] = cached[q] /\ fetch'[q] = fetch[q] /\ (q \in stale' <=> q \in stale) /\ (q \in blind' <=> q \in blind)
        BY <1>3, <2>2, <3>3
      <4> QED
        BY <3>1, <4>1, <4>2 DEF QueryTrueAt
    <3> QED
      BY <3>2, <3>3
  <2> QED
    BY <2>7, <2>8 DEF ShownInv
<1>4. \A k \in F!Keys : /\ Fits(k, cached[k]) /\ FetchFits(k, fetch[k])
                        /\ [cached EXCEPT ![k] = cached[k]] = cached
                        /\ \A f : [fetch EXCEPT ![k] = f][k] = f
                        /\ \A v : [cached EXCEPT ![k] = v][k] = v
  <2>1. cached = [q \in F!Keys |-> cached[q]] /\ fetch = [q \in F!Keys |-> fetch[q]]
    BY <1>1 DEF CircleShape
  <2>2. \A k \in F!Keys : Fits(k, cached[k]) /\ FetchFits(k, fetch[k])
    BY <1>1 DEF CircleShape
  <2>3. ASSUME NEW k \in F!Keys PROVE [cached EXCEPT ![k] = cached[k]] = cached
    BY <2>1
  <2> QED
    BY <2>1, <2>2, <2>3
<1>5. ASSUME rows' = rows PROVE F!Incoming' = F!Incoming /\ \A k : F!Truth(k)' = F!Truth(k)
  BY <1>5 DEF F!Truth, F!Friends, F!Incoming, F!Outgoing, F!Friend, F!Request
<1>6. CASE F!ReadOutgoing
  <2> DEFINE f == [phase |-> "answered", value |-> [in |-> fetch["requests"].value, out |-> F!Outgoing]]
  <2>1. /\ fetch["requests"].phase = "incoming" /\ fetch' = [fetch EXCEPT !["requests"] = f]
        /\ rows' = rows /\ screen' = screen /\ cached' = cached /\ stale' = stale /\ sending' = sending /\ sent' = sent
        /\ calls' = calls /\ asked' = asked /\ blind' = blind
    BY <1>6 DEF F!ReadOutgoing
  <2>2. "requests" \in F!Keys
    BY DEF F!Keys
  <2>3. fetch["requests"].value \subseteq Persons
    BY <1>4, <2>1, <2>2 DEF FetchFits
  <2>4. f.phase = "answered" /\ f.value = [in |-> fetch["requests"].value, out |-> F!Outgoing]
    OBVIOUS
  <2>5. f.value \in CircleLists /\ f.value.out = F!Outgoing
    BY <1>2, <2>3, <2>4 DEF CircleLists
  <2>6. FetchFits("requests", f)
    <3>1. f # F!NoFetch
      BY <2>4, CircleFetches
    <3> QED
      BY <1>2, <2>4, <2>5, <3>1 DEF FetchFits, Fits
  <2> HIDE DEF f
  <2>7. fetch'["requests"] = f
    BY <1>4, <2>1, <2>2
  <2>8. QueryTrueAt("requests") => QueryTrueAt("requests")'
    <3>1. "requests" \notin blind /\ QueryTrueAt("requests") => f.value = F!Truth("requests")
      BY <2>1, <2>4 DEF QueryTrueAt, F!Truth
    <3>2. F!Truth("requests")' = F!Truth("requests") /\ f # F!NoFetch
      BY <1>5, <2>1, <2>4, CircleFetches
    <3> QED
      BY <2>1, <2>4, <2>7, <3>1, <3>2 DEF QueryTrueAt
  <2>9. cached' = [cached EXCEPT !["requests"] = cached["requests"]] /\ Fits("requests", cached["requests"])
    BY <1>4, <2>1, <2>2
  <2> QED
    BY <1>3, <2>1, <2>2, <2>6, <2>8, <2>9
<1>7. ASSUME NEW k \in F!Keys, F!ReadRows(k) PROVE ShownInv'
  <2> DEFINE f == IF k = "requests" THEN [phase |-> "incoming", value |-> F!Incoming]
                  ELSE [phase |-> "answered", value |-> F!Truth(k)]
  <2>1. /\ fetch' = [fetch EXCEPT ![k] = f]
        /\ rows' = rows /\ screen' = screen /\ cached' = cached /\ stale' = stale /\ sending' = sending /\ sent' = sent
        /\ calls' = calls /\ asked' = asked /\ blind' = blind \ {k}
    BY <1>7 DEF F!ReadRows
  <2>2. /\ IF k = "requests" THEN f.phase = "incoming" /\ f.value = F!Incoming
                             ELSE f.phase = "answered" /\ f.value = F!Truth(k)
        /\ f # F!NoFetch
    <3>1. IF k = "requests" THEN f.phase = "incoming" /\ f.value = F!Incoming
                            ELSE f.phase = "answered" /\ f.value = F!Truth(k)
      OBVIOUS
    <3> QED
      BY <3>1, CircleFetches
  <2> HIDE DEF f
  <2>3. FetchFits(k, f)
    BY <1>1, <1>2, <2>2, TruthFits DEF FetchFits, CircleShape
  <2>4. fetch'[k] = f
    BY <1>4, <2>1
  <2>5. QueryTrueAt(k)'
    BY <1>5, <2>1, <2>2, <2>4 DEF QueryTrueAt
  <2>6. cached' = [cached EXCEPT ![k] = cached[k]] /\ Fits(k, cached[k])
    BY <1>4, <2>1
  <2> QED
    BY <1>3, <2>1, <2>3, <2>5, <2>6
<1>8. ASSUME NEW k \in F!Keys, F!Deliver(k) PROVE ShownInv'
  <2> DEFINE v == fetch[k].value
  <2>1. /\ fetch[k].phase = "answered" /\ fetch' = [fetch EXCEPT ![k] = F!NoFetch]
        /\ cached' = [cached EXCEPT ![k] = v]
        /\ rows' = rows /\ screen' = screen /\ stale' = stale \ {k} /\ sending' = sending /\ sent' = sent
        /\ calls' = calls /\ asked' = asked /\ blind' = blind
    BY <1>8 DEF F!Deliver
  <2>2. Fits(k, v) /\ FetchFits(k, F!NoFetch)
    BY <1>4, <2>1, CircleFetches DEF FetchFits
  <2>3. fetch'[k] = F!NoFetch /\ cached'[k] = v
    BY <1>4, <2>1
  <2>4. QueryTrueAt(k) => QueryTrueAt(k)'
    BY <1>5, <2>1, <2>3, CircleFetches DEF QueryTrueAt
  <2> HIDE DEF v
  <2> QED
    BY <1>3, <2>1, <2>2, <2>4
<1>9. ASSUME NEW k \in F!Keys, F!FailFetch(k) \/ F!Refresh(k) PROVE ShownInv'
  <2>1. PICK f \in {F!NoFetch, F!SentFetch} :
          /\ fetch' = [fetch EXCEPT ![k] = f]
          /\ blind' = (IF f = F!NoFetch THEN blind \cup {k} ELSE blind)
    BY <1>9, CircleFetches DEF F!FailFetch, F!Refresh
  <2>2. /\ cached' = cached /\ rows' = rows /\ screen' = screen /\ stale' = stale /\ sending' = sending /\ sent' = sent
        /\ calls' = calls /\ asked' = asked
    BY <1>9 DEF F!FailFetch, F!Refresh
  <2>3. FetchFits(k, f) /\ fetch'[k] = f
    BY <1>4, <2>1, CircleFetches
  <2>4. QueryTrueAt(k)'
    BY <2>1, <2>3, CircleFetches DEF QueryTrueAt
  <2>5. cached' = [cached EXCEPT ![k] = cached[k]] /\ Fits(k, cached[k])
    BY <1>4, <2>2
  <2> QED
    BY <1>3, <2>1, <2>2, <2>3, <2>4, <2>5
<1> QED
  BY <1>6, <1>7, <1>8, <1>9

LEMMA InitShown == F!Init => ShownInv
<1> SUFFICES ASSUME F!Init PROVE ShownInv
  OBVIOUS
<1>1. /\ screen = "friends" /\ stale = {} /\ sending = F!Nobody /\ sent = {} /\ calls = <<>> /\ blind = {}
      /\ cached = [k \in F!Keys |-> F!Truth(k)] /\ fetch = [k \in F!Keys |-> F!NoFetch]
      /\ rows \in [People -> [kind : {"none", "in", "out", "friends"}, id : {1}]]
  BY DEF F!Init
<1>2. rows \in CircleRows
  BY <1>1 DEF CircleRows
<1>3. \A k \in F!Keys : /\ cached[k] = F!Truth(k) /\ Fits(k, cached[k])
                        /\ fetch[k] = F!NoFetch /\ FetchFits(k, fetch[k])
  BY <1>1, <1>2, TruthFits, CircleFetches
<1>4. DOMAIN calls = {}
  BY <1>1
<1>5. cached = [k \in F!Keys |-> cached[k]] /\ fetch = [k \in F!Keys |-> fetch[k]]
  BY <1>1
<1>8. AskFits
  BY DEF F!Init, AskFits
<1>6. CircleShape
  BY <1>1, <1>2, <1>3, <1>4, <1>5, <1>8 DEF CircleShape
<1>7. QueriesTrue
  BY <1>3, CircleFetches DEF QueriesTrue, QueryTrueAt
<1> QED
  BY <1>6, <1>7, InitCircle DEF ShownInv

LEMMA NextShown == ShownInv /\ [F!Next]_(F!vars) => ShownInv'
<1> SUFFICES ASSUME ShownInv, [F!Next]_(F!vars) PROVE ShownInv'
  OBVIOUS
<1>1. CircleInv'
  BY NextCircle DEF ShownInv
<1>2. CASE UNCHANGED F!vars
  <2>1. /\ rows' = rows /\ screen' = screen /\ cached' = cached /\ fetch' = fetch /\ stale' = stale /\ sending' = sending
        /\ sent' = sent /\ calls' = calls /\ blind' = blind /\ asked' = asked
    BY <1>2 DEF F!vars
  <2>2. CircleShape'
    <3>1. \A k \in F!Keys : Fits(k, cached[k])' /\ FetchFits(k, fetch[k])'
      BY <2>1 DEF ShownInv, CircleShape, Fits, FetchFits, NeverIn
    <3>2. \A i \in DOMAIN calls : CallFits(calls[i])'
      <4>1. \A i \in DOMAIN calls : CallFits(calls[i]) /\ calls'[i] = calls[i]
        BY <2>1 DEF ShownInv, CircleShape
      <4> QED
        BY <2>1, <4>1 DEF CallFits, Fits, NeverIn
    <3>3. AskFits'
      BY <2>1 DEF ShownInv, CircleShape, AskFits, NeverIn
    <3> QED
      BY <2>1, <3>1, <3>2, <3>3 DEF ShownInv, CircleShape
  <2>3. \A k : F!Truth(k)' = F!Truth(k) /\ (F!Shown(k)' <=> F!Shown(k))
    BY <2>1 DEF F!Shown, F!Truth, F!Friends, F!Incoming, F!Outgoing, F!Friend, F!Request
  <2>4. F!Incoming' = F!Incoming
    BY <2>1 DEF F!Incoming, F!Request
  <2>5. \A k \in F!Keys : QueryTrueAt(k) => QueryTrueAt(k)'
    BY <2>1, <2>3, <2>4 DEF QueryTrueAt
  <2>6. QueriesTrue'
    BY <2>1, <2>5 DEF ShownInv, QueriesTrue, F!Settled
  <2> QED
    BY <1>1, <2>2, <2>6 DEF ShownInv
<1>3. CASE F!Next
  BY <1>1, <1>3, TapsCircle, GoCircle, ServerCircle, ElsewhereCircle, EndCircle, ReadCircle DEF F!Next
<1> QED
  BY <1>2, <1>3

LEMMA ListsAreTracked == F!Spec => []ShownInv
BY InitShown, NextShown, PTL DEF F!Spec

\* Once nothing is under way, the friends, the requests and the badge are what the server
\* has, whatever calls of the two screens overtook each other (useFriends.ts).
THEOREM CircleIsTrue == F!Spec => []F!Truthful
<1>1. ShownInv => F!Truthful
  <2> SUFFICES ASSUME ShownInv, calls = <<>>, NEW k \in F!Keys, F!Shown(k), fetch[k] = F!NoFetch, k \notin blind
               PROVE  cached[k] = F!Truth(k)
    BY DEF F!Truthful
  <2>1. DOMAIN calls = {}
    OBVIOUS
  <2> QED
    BY <2>1 DEF ShownInv, QueriesTrue, QueryTrueAt
<1> QED
  BY <1>1, ListsAreTracked, PTL

\* The types of the variables of the friends screens.
THEOREM CircleTypes == F!Spec => []F!TypeOK
<1>1. ShownInv => F!TypeOK
  BY DEF ShownInv, CircleInv, AskedFree, CircleShape, FetchFits, F!TypeOK, CircleRows
<1> QED
  BY <1>1, ListsAreTracked, PTL

-----------------------------------------------------------------------------
(* HabitForm: a form makes one habit, and has saved what was submitted.    *)

FormTexts == Texts \cup {H!None, CHOOSE t \in Texts : TRUE}
FormFields == [text : FormTexts, weekly : BOOLEAN, days : BOOLEAN, vis : H!Visibilities]
FormRows == [text : FormTexts, weekly : BOOLEAN, vis : H!Visibilities]
FormSubs == [phase : {"saving", "saved", "showing", "shown"}, id : Nat, text : FormTexts,
             weekly : BOOLEAN, vis : H!Visibilities, again : BOOLEAN, answer : {"ok", "failed"},
             old : H!Visibilities \cup {"unread"}]

\* A submission of which the habit, once made, is known to the form.
Knows(s) == s.phase \in {"showing", "shown"} \/ (s.phase = "saved" /\ s.answer = "ok")

\* A submission stands for a habit that is there, but while it is being made.
SubFine(s, n) ==
  /\ s \in FormSubs /\ s.id <= n
  /\ s.phase = "saving" => s.answer = "ok" /\ s.id = (IF editing THEN 1 ELSE 0) /\ ~s.again
  /\ s.phase = "showing" => s.answer = "ok"
  /\ Knows(s) => s.id # 0

\* What it has saved is what the server has.
SubMeant(s, kept) ==
  /\ Knows(s) /\ ~s.again => kept[s.id].text = s.text /\ kept[s.id].weekly = s.weekly
  /\ s.phase = "shown" /\ s.answer = "ok" => kept[s.id].vis = s.vis

Making == \E i \in DOMAIN subs : subs[i].phase = "saving"
Live   == \E i \in DOMAIN subs : subs[i].phase = "saving" \/ Knows(subs[i])

FormTypes ==
  /\ editing \in BOOLEAN /\ default \in H!Visibilities
  /\ habits \in Seq(FormRows) /\ (editing => Len(habits) = 1)
  /\ cache \in H!Visibilities \cup {"unread"} /\ fetch \in H!Visibilities \cup {"idle", "sent"}
  /\ fetch = "idle" \/ editing
  /\ form \in FormFields /\ pending \in 0 .. Len(habits) /\ lost \in Nat /\ hasty \in Nat
  /\ open \in BOOLEAN
  /\ subs \in Seq(FormSubs)

SubsFine ==
  /\ \A i \in DOMAIN subs : SubFine(subs[i], Len(habits))
  /\ \A i, j \in DOMAIN subs :
       subs[i].phase \in {"saving", "saved"} /\ subs[j].phase \in {"saving", "saved"} => i = j

\* Beyond the habits that were lost or made in haste there is one, made or being made, and none
\* while the form would make one at the next press.
Counted ==
  ~editing =>
    /\ Len(habits) + (IF Making THEN 1 ELSE 0) <= 1 + lost + hasty
    /\ ~Live /\ pending = 0 /\ open => Len(habits) <= lost + hasty

Meant ==
  hasty = 0 =>
    /\ Len(subs) <= 1
    /\ \A i \in DOMAIN subs : SubMeant(subs[i], habits)
    /\ done # H!NoDone =>
         /\ subs = <<>> /\ ~open
         /\ habits[done.id].vis = done.vis
         /\ done.again \/ (habits[done.id].text = done.text
                           /\ habits[done.id].weekly = done.weekly)

FormInv == FormTypes /\ SubsFine /\ Counted /\ Meant

LEMMA FreshForm ==
  ASSUME NEW vis \in H!Visibilities
  PROVE  H!Fresh(vis) \in FormFields
<1>1. H!Blank \in FormFields /\ (CHOOSE t \in Texts : TRUE) \in FormTexts
  BY DEF H!Blank, FormFields, FormTexts, H!Visibilities
<1>2. ASSUME NEW t \in FormTexts PROVE [H!Blank EXCEPT !.text = t, !.vis = vis] \in FormFields
  BY <1>1 DEF FormFields
<1> QED
  BY <1>1, <1>2 DEF H!Fresh

LEMMA RemovedInForm ==
  ASSUME NEW S, NEW s \in Seq(S), NEW k \in DOMAIN s
  PROVE  /\ H!RemoveAt(s, k) \in Seq(S)
         /\ Len(H!RemoveAt(s, k)) = Len(s) - 1
         /\ \A j \in DOMAIN H!RemoveAt(s, k) :
              /\ (IF j < k THEN j ELSE j + 1) \in DOMAIN s
              /\ H!RemoveAt(s, k)[j] = s[IF j < k THEN j ELSE j + 1]
<1>1. H!RemoveAt(s, k) = H!RemoveAt(s, k)
  BY DEF H!RemoveAt, H!RemoveAt
<1> QED
  BY <1>1, Removed

LEMMA InitForm == H!Init => FormInv
<1> SUFFICES ASSUME H!Init PROVE FormInv
  OBVIOUS
<1>1. subs = <<>> /\ subs \in Seq(FormSubs) /\ DOMAIN subs = {} /\ Len(subs) = 0
  BY DEF H!Init
<1>2. PICK vis \in H!Visibilities :
        /\ habits = IF editing THEN <<[text |-> CHOOSE t \in Texts : TRUE, weekly |-> FALSE,
                                          vis |-> vis]>> ELSE <<>>
        /\ cache \in IF editing THEN {"unread", vis} ELSE {"unread"}
  BY DEF H!Init
<1>3. /\ habits \in Seq(FormRows) /\ (editing => Len(habits) = 1)
      /\ (~editing => Len(habits) = 0)
  <2>1. [text |-> CHOOSE t \in Texts : TRUE, weekly |-> FALSE, vis |-> vis] \in FormRows
    BY DEF FormRows, FormTexts
  <2>2. CASE editing
    <3>1. habits = <<[text |-> CHOOSE t \in Texts : TRUE, weekly |-> FALSE, vis |-> vis]>>
      BY <1>2, <2>2
    <3> DEFINE r == [text |-> CHOOSE t \in Texts : TRUE, weekly |-> FALSE, vis |-> vis]
    <3>2. habits = <<r>> /\ r \in FormRows
      BY <2>1, <3>1
    <3> HIDE DEF r
    <3> QED
      BY <2>2, <3>2
  <2>3. CASE ~editing
    BY <1>2, <2>3
  <2> QED
    BY <2>2, <2>3
<1>4. cache \in H!Visibilities \cup {"unread"}
  BY <1>2
<1>5. form \in FormFields
  <2>1. H!Given \in H!Visibilities
    BY <1>4 DEF H!Given, H!Visibilities
  <2> QED
    BY <2>1, FreshForm DEF H!Init
<1>6. /\ editing \in BOOLEAN /\ default \in H!Visibilities /\ pending = 0 /\ lost = 0 /\ hasty = 0
      /\ open = TRUE /\ fetch \in {"idle", "sent"} /\ done = H!NoDone
      /\ fetch = "idle" \/ editing
  BY DEF H!Init
<1>7. FormTypes
  <2>1. pending \in 0 .. Len(habits) /\ lost \in Nat /\ hasty \in Nat /\ open \in BOOLEAN
    BY <1>3, <1>6
  <2> QED
    BY <1>1, <1>3, <1>4, <1>5, <1>6, <2>1 DEF FormTypes
<1>8. SubsFine /\ ~Making
  BY <1>1 DEF SubsFine, Making
<1>9. Counted
  BY <1>3, <1>6, <1>8 DEF Counted
<1>10. Meant
  BY <1>1, <1>6 DEF Meant
<1> QED
  BY <1>7, <1>8, <1>9, <1>10 DEF FormInv

\* Nothing of what is counted moves.
LEMMA FormStays ==
  ASSUME FormInv,
         UNCHANGED <<editing, default, habits, subs, done, lost, hasty>>,
         cache' \in H!Visibilities \cup {"unread"}, fetch' \in H!Visibilities \cup {"idle", "sent"},
         fetch' = "idle" \/ editing,
         form' \in FormFields, open' = open \/ open' = FALSE,
         pending' = pending \/ (editing /\ pending' = 0)
  PROVE  FormInv'
<1>0. Len(habits) \in Nat /\ pending \in 0 .. Len(habits) /\ open \in BOOLEAN
  BY DEF FormInv, FormTypes
<1>1. pending' \in 0 .. Len(habits) /\ open' \in BOOLEAN
  <2>1. pending' = pending \/ pending' = 0
    OBVIOUS
  <2>2. pending' \in 0 .. Len(habits)
    BY <1>0, <2>1
  <2>3. open' \in BOOLEAN
    BY <1>0
  <2> QED
    BY <2>2, <2>3
<1>2. FormTypes'
  BY <1>1 DEF FormInv, FormTypes
<1>3. SubsFine'
  BY DEF FormInv, SubsFine, SubFine
<1>4. Making' = Making /\ Live' = Live
  BY DEF Making, Live
<1>5. Counted'
  BY <1>4 DEF FormInv, Counted
<1>6. Meant'
  BY <1>1 DEF FormInv, Meant, H!NoDone
<1> QED
  BY <1>2, <1>3, <1>5, <1>6 DEF FormInv

\* The button is pressed: nothing is saved, what was kept is shown, or a habit is made.
LEMMA SubmitKeeps ==
  ASSUME FormInv, H!HandleSubmit
  PROVE  FormInv'
<1>0. /\ FormTypes /\ SubsFine /\ Counted /\ Meant
      /\ UNCHANGED <<editing, default, habits, form, pending, done, lost, open>>
      /\ open /\ Len(habits) \in Nat
      /\ Len(subs) \in Nat /\ DOMAIN subs = 1 .. Len(subs) /\ subs \in Seq(FormSubs)
      /\ hasty \in Nat /\ lost \in Nat
  BY DEF FormInv, FormTypes, H!HandleSubmit, H!screen
<1>1. /\ ~H!Saving
      /\ hasty' = hasty + IF H!Showing THEN 1 ELSE 0
      /\ \A i \in DOMAIN subs : subs[i].phase \in {"showing", "shown"}
      /\ ~Making
  <2>1. ~H!Saving /\ hasty' = hasty + IF H!Showing THEN 1 ELSE 0
    BY DEF H!HandleSubmit
  <2>3. \A i \in DOMAIN subs : subs[i] \in FormSubs
    BY <1>0
  <2>2. \A i \in DOMAIN subs : subs[i].phase \in {"saving", "saved", "showing", "shown"}
    BY <2>3 DEF FormSubs
  <2> QED
    BY <2>1, <2>2 DEF H!Saving, Making
<1>2. /\ hasty' \in Nat /\ hasty <= hasty'
      /\ hasty' = 0 => hasty = 0 /\ subs = <<>> /\ Len(subs) = 0
      /\ Len(habits) <= 1 + lost + hasty \/ editing
      /\ ~editing /\ pending = 0 => Len(habits) <= lost + hasty'
  <2>1. CASE H!Showing
    <3>1. hasty' = hasty + 1
      BY <1>1, <2>1
    <3>2. editing \/ Len(habits) <= 1 + lost + hasty
      BY <1>0, <1>1 DEF Counted
    <3> QED
      BY <1>0, <3>1, <3>2 DEF FormTypes
  <2>2. CASE ~H!Showing
    <3>1. hasty' = hasty
      BY <1>0, <1>1, <2>2
    <3>2. DOMAIN subs = {}
      BY <1>1, <2>2 DEF H!Showing
    <3>3. Len(subs) = 0 /\ subs = <<>>
      BY <1>0, <3>2
    <3>4. ~Live
      BY <3>2 DEF Live
    <3>5. editing \/ Len(habits) <= 1 + lost + hasty
      BY <1>0, <1>1 DEF Counted
    <3>6. editing \/ pending # 0 \/ Len(habits) <= lost + hasty
      BY <1>0, <3>4 DEF Counted
    <3> QED
      BY <1>0, <3>1, <3>3, <3>5, <3>6
  <2> QED
    BY <2>1, <2>2
<1>3. /\ cache' \in H!Visibilities \cup {"unread"} /\ fetch' \in H!Visibilities \cup {"idle", "sent"}
      /\ fetch' = "idle" \/ editing
  <2>1. form.vis \in H!Visibilities
    BY <1>0 DEF FormTypes, FormFields
  <2>2. /\ cache' = cache \/ cache' = form.vis
        /\ fetch' = fetch \/ fetch' = "idle"
    BY DEF H!HandleSubmit, H!Patch, H!Sub, H!query
  <2> QED
    BY <1>0, <2>1, <2>2 DEF FormTypes
\* A submission is added.
<1>4. ASSUME NEW c, SubFine(c, Len(habits)), c.phase \in {"saving", "showing"},
             subs' = Append(subs, c),
             c.phase = "saving" => pending = 0 /\ ~Knows(c),
             c.phase = "showing" => c.again
      PROVE  FormInv'
  <2>1. c \in FormSubs
    BY <1>4 DEF SubFine
  <2>2. /\ subs' \in Seq(FormSubs) /\ Len(subs') = Len(subs) + 1
        /\ DOMAIN subs' = 1 .. (Len(subs) + 1)
        /\ \A i \in DOMAIN subs : subs'[i] = subs[i]
        /\ subs'[Len(subs) + 1] = c
    BY <1>0, <1>4, <2>1, AppendProperties
  <2>3. \A i \in DOMAIN subs' : \/ i \in DOMAIN subs /\ subs'[i] = subs[i]
                                \/ i = Len(subs) + 1 /\ subs'[i] = c
    BY <1>0, <2>2
  <2>4. FormTypes'
    BY <1>0, <1>2, <1>3, <2>2 DEF FormTypes
  <2>5. SubsFine'
    <3>1. \A i \in DOMAIN subs' : SubFine(subs'[i], Len(habits))
      BY <1>0, <1>4, <2>3 DEF SubsFine
    <3>2. \A i \in DOMAIN subs' : subs'[i].phase \in {"saving", "saved"} => i = Len(subs) + 1
      BY <1>1, <2>3
    <3> QED
      BY <1>0, <3>1, <3>2 DEF SubsFine, SubFine
  <2>6. Live' /\ (Making' => c.phase = "saving")
    <3>1. Len(subs) + 1 \in DOMAIN subs'
      BY <1>0, <2>2
    <3> QED
      BY <1>1, <1>4, <2>2, <2>3, <3>1 DEF Live, Making, Knows
  <2>7. Counted'
    <3> SUFFICES ASSUME ~editing
                 PROVE  Len(habits) + (IF Making' THEN 1 ELSE 0) <= 1 + lost + hasty'
      BY <1>0, <2>6 DEF Counted
    <3>1. CASE Making'
      <4>1. Len(habits) <= lost + hasty'
        BY <1>2, <1>4, <2>6, <3>1
      <4> QED
        BY <1>0, <1>2, <3>1, <4>1
    <3>2. CASE ~Making'
      BY <1>0, <1>2, <3>2
    <3> QED
      BY <3>1, <3>2
  <2>8. Meant'
    <3> SUFFICES ASSUME hasty' = 0 PROVE /\ Len(subs') <= 1
                                         /\ \A i \in DOMAIN subs' : SubMeant(subs'[i], habits)
                                         /\ done = H!NoDone
      BY <1>0 DEF Meant, H!NoDone
    <3>1. hasty = 0 /\ subs = <<>> /\ Len(subs) = 0
      BY <1>2
    <3>2. done = H!NoDone
      BY <1>0, <3>1 DEF Meant
    <3>3. SubMeant(c, habits)
      BY <1>4 DEF SubMeant, Knows
    <3> QED
      BY <1>0, <2>2, <2>3, <3>1, <3>2, <3>3
  <2> QED
    BY <2>4, <2>5, <2>7, <2>8 DEF FormInv
<1>5. CASE pending # 0
  <2> DEFINE c == [H!Sub("showing", pending) EXCEPT !.old = cache]
  <2>1. subs' = Append(subs, c)
    BY <1>5 DEF H!HandleSubmit, H!Resumed
  <2>2. c = [phase |-> "showing", id |-> pending, text |-> form.text, weekly |-> form.weekly,
             vis |-> form.vis, again |-> pending # 0 /\ ~(editing /\ "showing" = "saving"),
             answer |-> "ok", old |-> cache]
    BY DEF H!Sub
  <2>3. /\ form.text \in FormTexts /\ form.weekly \in BOOLEAN /\ form.vis \in H!Visibilities
        /\ pending \in Nat /\ pending <= Len(habits) /\ cache \in H!Visibilities \cup {"unread"}
    BY <1>0 DEF FormTypes, FormFields
  <2>4. c.phase = "showing" /\ c.again = TRUE /\ c.id = pending /\ c.answer = "ok"
    BY <1>5, <2>2
  <2>5. c \in FormSubs
    BY <1>5, <2>2, <2>3 DEF FormSubs
  <2> HIDE DEF c
  <2>6. SubFine(c, Len(habits))
    BY <1>5, <2>3, <2>4, <2>5 DEF SubFine
  <2> QED
    BY <1>4, <2>1, <2>4, <2>6
<1>6. CASE pending = 0 /\ H!Valid
  <2> DEFINE origin == IF editing THEN 1 ELSE 0
             c == H!Sub("saving", origin)
  <2>1. subs' = Append(subs, c)
    BY <1>6 DEF H!HandleSubmit, H!Resumed
  <2>2. c = [phase |-> "saving", id |-> origin, text |-> form.text, weekly |-> form.weekly,
             vis |-> form.vis, again |-> origin # 0 /\ ~(editing /\ "saving" = "saving"),
             answer |-> "ok", old |-> "unread"]
    BY DEF H!Sub
  <2>3. /\ form.text \in FormTexts /\ form.weekly \in BOOLEAN /\ form.vis \in H!Visibilities
    BY <1>0 DEF FormTypes, FormFields
  <2>7. origin \in Nat /\ origin <= Len(habits)
    <3>1. CASE editing
      <4>1. Len(habits) = 1
        BY <1>0, <3>1 DEF FormTypes
      <4>2. origin = 1
        BY <3>1
      <4> QED
        BY <4>1, <4>2
    <3>2. CASE ~editing
      BY <1>0, <3>2
    <3> QED
      BY <3>1, <3>2
  <2>8. (origin # 0 /\ ~(editing /\ "saving" = "saving")) = FALSE
    <3>1. CASE editing
      BY <3>1
    <3>2. CASE ~editing
      BY <3>2
    <3> QED
      BY <3>1, <3>2
  <2>9. c = [phase |-> "saving", id |-> origin, text |-> form.text, weekly |-> form.weekly,
             vis |-> form.vis, again |-> FALSE, answer |-> "ok", old |-> "unread"]
    BY <2>2, <2>8
  <2> HIDE DEF c
  <2>4. c.phase = "saving" /\ c.again = FALSE /\ c.id = origin /\ c.answer = "ok"
    BY <2>9
  <2> HIDE DEF origin
  <2>5. c \in FormSubs
    BY <2>3, <2>7, <2>9 DEF FormSubs
  <2>10. c.id = (IF editing THEN 1 ELSE 0)
    BY <2>4 DEF origin
  <2>6. SubFine(c, Len(habits)) /\ ~Knows(c)
    BY <2>4, <2>5, <2>7, <2>10 DEF SubFine, Knows
  <2> QED
    BY <1>4, <1>6, <2>1, <2>4, <2>6
<1>7. CASE pending = 0 /\ ~H!Valid
  <2>1. subs' = subs
    BY <1>7 DEF H!HandleSubmit, H!Resumed
  <2>2. FormTypes'
    BY <1>0, <1>2, <1>3, <2>1 DEF FormTypes
  <2>3. SubsFine'
    BY <1>0, <2>1 DEF SubsFine, SubFine
  <2>4. ~Making'
    BY <1>1, <2>1 DEF Making
  <2>5. Counted'
    BY <1>0, <1>2, <1>7, <2>4 DEF Counted
  <2>6. Meant'
    BY <1>0, <1>2, <2>1 DEF Meant, H!NoDone
  <2> QED
    BY <2>2, <2>3, <2>5, <2>6 DEF FormInv
<1> QED
  BY <1>5, <1>6, <1>7

\* One submission moves on; no submission begins to make a habit.
LEMMA FormChanges ==
  ASSUME FormInv, NEW i \in DOMAIN subs, NEW d, subs' = [subs EXCEPT ![i] = d],
         UNCHANGED <<editing, default, form, pending, done, hasty, open>>,
         habits' \in Seq(FormRows), Len(habits) <= Len(habits'),
         editing => Len(habits') = 1, lost' \in Nat,
         cache' \in H!Visibilities \cup {"unread"}, fetch' \in H!Visibilities \cup {"idle", "sent"},
         fetch' = "idle" \/ editing,
         SubFine(d, Len(habits')), d.phase # "saving",
         \/ /\ subs[i].phase \in {"saving", "saved"}
            /\ ~editing => /\ Len(habits') <= 1 + lost' + hasty
                           /\ ~Knows(d) => Len(habits') <= lost' + hasty
         \/ /\ subs[i].phase \in {"showing", "shown"} /\ d.phase \in {"showing", "shown"}
            /\ Len(habits') = Len(habits) /\ lost' = lost,
         hasty = 0 /\ SubMeant(subs[i], habits) => SubMeant(d, habits')
  PROVE  FormInv'
<1>0. /\ FormTypes /\ SubsFine /\ Counted /\ Meant /\ Len(habits) \in Nat
      /\ Len(habits') \in Nat /\ Len(subs) \in Nat /\ DOMAIN subs = 1 .. Len(subs)
      /\ subs \in Seq(FormSubs) /\ hasty \in Nat
  BY DEF FormInv, FormTypes
<1>1. d \in FormSubs
  BY DEF SubFine
<1>2. /\ subs' \in Seq(FormSubs) /\ DOMAIN subs' = DOMAIN subs /\ Len(subs') = Len(subs)
      /\ \A j \in DOMAIN subs : subs'[j] = IF j = i THEN d ELSE subs[j]
  BY <1>0, <1>1, ExceptSeq
<1>3. FormTypes'
  <2>1. pending \in 0 .. Len(habits')
    BY <1>0 DEF FormTypes
  <2> QED
    BY <1>0, <1>2, <2>1 DEF FormTypes
<1>4. SubsFine'
  <2>1. ASSUME NEW j \in DOMAIN subs PROVE SubFine(subs'[j], Len(habits'))
    <3>1. CASE j = i
      BY <1>2, <3>1
    <3>2. CASE j # i
      <4>1. SubFine(subs[j], Len(habits)) /\ subs'[j] = subs[j]
        BY <1>0, <1>2, <3>2 DEF SubsFine
      <4>3. subs[j] \in FormSubs
        BY <1>0
      <4>2. subs[j].id \in Nat
        BY <4>3 DEF FormSubs
      <4> QED
        BY <1>0, <4>1, <4>2 DEF SubFine
    <3> QED
      BY <3>1, <3>2
  <2>2. \A j \in DOMAIN subs : subs'[j].phase \in {"saving", "saved"} =>
                                 subs[j].phase \in {"saving", "saved"}
    BY <1>2
  <2>3. \A j, k \in DOMAIN subs' :
          subs'[j].phase \in {"saving", "saved"} /\ subs'[k].phase \in {"saving", "saved"} => j = k
    BY <1>0, <1>2, <2>2 DEF SubsFine
  <2> QED
    BY <1>2, <2>1, <2>3 DEF SubsFine, SubFine
<1>5. Counted'
  <2> SUFFICES ASSUME ~editing
               PROVE  /\ Len(habits') + (IF Making' THEN 1 ELSE 0) <= 1 + lost' + hasty
                      /\ ~Live' /\ pending = 0 /\ open => Len(habits') <= lost' + hasty
    BY DEF Counted
  <2>1. CASE subs[i].phase \in {"saving", "saved"}
    <3>1. ~Making'
      <4>1. \A j \in DOMAIN subs : j # i => subs[j].phase # "saving"
        BY <1>0, <2>1 DEF SubsFine
      <4> QED
        BY <1>2, <4>1 DEF Making
    <3>2. Knows(d) => Live'
      BY <1>2 DEF Live
    <3> QED
      BY <1>0, <2>1, <3>1, <3>2
  <2>2. CASE /\ subs[i].phase \in {"showing", "shown"} /\ d.phase \in {"showing", "shown"}
             /\ Len(habits') = Len(habits) /\ lost' = lost
    <3>1. Making' => Making
      BY <1>2 DEF Making
    <3>2. Live'
      BY <1>2, <2>2 DEF Live, Knows
    <3>3. Len(habits) + (IF Making THEN 1 ELSE 0) <= 1 + lost + hasty
      BY <1>0 DEF Counted
    <3>4. CASE Making'
      BY <1>0, <2>2, <3>1, <3>2, <3>3, <3>4
    <3>5. CASE ~Making'
      BY <1>0, <2>2, <3>1, <3>2, <3>3, <3>5
    <3> QED
      BY <3>4, <3>5
  <2> QED
    BY <2>1, <2>2
<1>6. Meant'
  <2> SUFFICES ASSUME hasty = 0
               PROVE  /\ Len(subs') <= 1
                      /\ \A j \in DOMAIN subs' : SubMeant(subs'[j], habits')
                      /\ done = H!NoDone
    BY DEF Meant, H!NoDone
  <2>1. Len(subs) <= 1 /\ subs # <<>> /\ \A j \in DOMAIN subs : SubMeant(subs[j], habits)
    BY <1>0 DEF Meant
  <2>2. \A j \in DOMAIN subs : j = i
    BY <1>0, <2>1
  <2>3. done = H!NoDone
    BY <1>0, <2>1 DEF Meant
  <2> QED
    BY <1>2, <2>1, <2>2, <2>3
<1> QED
  BY <1>3, <1>4, <1>5, <1>6 DEF FormInv

\* One submission ends: it is not counted, or the form is closed or knows the habit.
LEMMA FormEnds ==
  ASSUME FormInv, NEW i \in DOMAIN subs, subs' = H!RemoveAt(subs, i),
         UNCHANGED <<editing, default, form, habits, lost, hasty>>,
         pending' \in 0 .. Len(habits), open' \in BOOLEAN,
         cache' \in H!Visibilities \cup {"unread"}, fetch' \in H!Visibilities \cup {"idle", "sent"},
         fetch' = "idle" \/ editing,
         \/ ~open'
         \/ pending' # 0
         \/ ~Knows(subs[i]) /\ subs[i].phase # "saving" /\ pending' = pending /\ open' = open,
         \/ done' = done
         \/ /\ ~open' /\ subs[i].phase = "shown" /\ subs[i].answer = "ok"
            /\ done'.id = subs[i].id /\ done'.text = subs[i].text /\ done'.weekly = subs[i].weekly
            /\ done'.vis = subs[i].vis /\ done'.again = subs[i].again
  PROVE  FormInv'
<1>0. /\ FormTypes /\ SubsFine /\ Counted /\ Meant /\ Len(habits) \in Nat
      /\ Len(subs) \in Nat /\ DOMAIN subs = 1 .. Len(subs)
      /\ subs \in Seq(FormSubs) /\ hasty \in Nat
  BY DEF FormInv, FormTypes
<1> DEFINE was(j) == IF j < i THEN j ELSE j + 1
           now_(j) == IF j < i THEN j ELSE j - 1
<1>1. /\ subs' \in Seq(FormSubs) /\ Len(subs') = Len(subs) - 1
      /\ \A j \in DOMAIN subs' : was(j) \in DOMAIN subs /\ subs'[j] = subs[was(j)]
  BY <1>0, RemovedInForm
<1>2. /\ \A j \in DOMAIN subs' : was(j) # i
      /\ \A j, k \in DOMAIN subs' : was(j) = was(k) => j = k
      /\ \A j \in DOMAIN subs : j # i => now_(j) \in DOMAIN subs' /\ was(now_(j)) = j
  <2>1. DOMAIN subs' = 1 .. Len(subs') /\ Len(subs') \in Nat /\ i \in Nat
    BY <1>0, <1>1
  <2> QED
    BY <1>0, <1>1, <2>1
<1> HIDE DEF was, now_
<1>3. FormTypes'
  BY <1>0, <1>1 DEF FormTypes
<1>4. SubsFine'
  <2>1. \A j \in DOMAIN subs' : SubFine(subs'[j], Len(habits))
    BY <1>0, <1>1 DEF SubsFine
  <2>2. \A j, k \in DOMAIN subs' :
          subs'[j].phase \in {"saving", "saved"} /\ subs'[k].phase \in {"saving", "saved"} => j = k
    BY <1>0, <1>1, <1>2 DEF SubsFine
  <2> QED
    BY <2>1, <2>2 DEF SubsFine, SubFine
<1>5. Counted'
  <2> SUFFICES ASSUME ~editing
               PROVE  /\ Len(habits) + (IF Making' THEN 1 ELSE 0) <= 1 + lost + hasty
                      /\ ~Live' /\ pending' = 0 /\ open' => Len(habits) <= lost + hasty
    BY DEF Counted
  <2>0. /\ Len(habits) + (IF Making THEN 1 ELSE 0) <= 1 + lost + hasty
        /\ ~Live /\ pending = 0 /\ open => Len(habits) <= lost + hasty
    BY <1>0 DEF Counted
  <2>1. Making' => Making
    BY <1>1 DEF Making
  <2>2. Len(habits) + (IF Making' THEN 1 ELSE 0) <= 1 + lost + hasty
    <3>1. CASE Making'
      BY <2>0, <2>1, <3>1
    <3>2. CASE ~Making'
      <4>1. lost \in Nat
        BY <1>0 DEF FormTypes
      <4> QED
        BY <1>0, <2>0, <3>2, <4>1
    <3> QED
      BY <3>1, <3>2
  <2>3. ASSUME ~Live', pending' = 0, open' PROVE Len(habits) <= lost + hasty
    <3>1. ~Knows(subs[i]) /\ subs[i].phase # "saving" /\ pending' = pending /\ open' = open
      BY <2>3
    <3>2. ASSUME NEW j \in DOMAIN subs PROVE subs[j].phase # "saving" /\ ~Knows(subs[j])
      <4>1. CASE j = i
        BY <3>1, <4>1
      <4>2. CASE j # i
        <5>1. now_(j) \in DOMAIN subs' /\ subs'[now_(j)] = subs[j]
          BY <1>1, <1>2, <4>2
        <5> QED
          BY <2>3, <5>1 DEF Live
      <4> QED
        BY <4>1, <4>2
    <3>3. ~Live
      BY <3>2 DEF Live
    <3> QED
      BY <2>0, <2>3, <3>1, <3>3
  <2> QED
    BY <2>2, <2>3
<1>6. Meant'
  <2> SUFFICES ASSUME hasty = 0 PROVE Meant'
    BY DEF Meant
  <2>1. /\ Len(subs) <= 1 /\ subs # <<>> /\ done = H!NoDone
        /\ \A j \in DOMAIN subs : SubMeant(subs[j], habits)
    BY <1>0 DEF Meant
  <2>2. Len(subs') = 0 /\ subs' = <<>>
    BY <1>0, <1>1, <2>1
  <2>3. ASSUME done' # H!NoDone
        PROVE  /\ ~open' /\ habits[done'.id].vis = done'.vis
               /\ done'.again \/ (habits[done'.id].text = done'.text
                                  /\ habits[done'.id].weekly = done'.weekly)
    BY <2>1, <2>3 DEF SubMeant, Knows
  <2> QED
    BY <2>2, <2>3 DEF Meant, H!NoDone
<1> QED
  BY <1>3, <1>4, <1>5, <1>6 DEF FormInv

LEMMA NextForm == FormInv /\ [H!Next]_(H!vars) => FormInv'
<1> SUFFICES ASSUME FormInv, [H!Next]_(H!vars) PROVE FormInv'
  OBVIOUS
<1>0. /\ FormTypes /\ SubsFine /\ Counted /\ Meant /\ Len(habits) \in Nat
      /\ Len(subs) \in Nat /\ DOMAIN subs = 1 .. Len(subs) /\ editing \in BOOLEAN
      /\ subs \in Seq(FormSubs) /\ hasty \in Nat /\ lost \in Nat /\ form \in FormFields
      /\ cache \in H!Visibilities \cup {"unread"} /\ fetch \in H!Visibilities \cup {"idle", "sent"}
      /\ (fetch = "idle" \/ editing) /\ (editing => Len(habits) = 1)
      /\ habits \in Seq(FormRows) /\ default \in H!Visibilities
      /\ pending \in 0 .. Len(habits) /\ open \in BOOLEAN
  BY DEF FormInv, FormTypes
<1>1. CASE H!LoadDefault
  <2>1. prefs' \in H!Visibilities
    BY <1>0, <1>1 DEF H!LoadDefault, H!Visibilities
  <2>2. form' \in FormFields
    BY <1>0, <1>1, <2>1 DEF H!LoadDefault, FormFields
  <2> QED
    BY <1>0, <1>1, <2>2, FormStays DEF H!LoadDefault, H!query
<1>2. CASE H!Reset
  <2>1. H!Given \in H!Visibilities
    BY <1>0 DEF H!Given, H!Visibilities
  <2>2. form' \in FormFields
    BY <1>2, <2>1, FreshForm DEF H!Reset
  <2> QED
    BY <1>0, <1>2, <2>2, FormStays DEF H!Reset, H!query, H!counts
<1>3. CASE H!SkipTemplates \/ H!Close
  BY <1>0, <1>3, FormStays DEF H!SkipTemplates, H!Close, H!query, H!counts, H!screen
<1>4. ASSUME H!Edit, form' \in FormFields PROVE FormInv'
  BY <1>0, <1>4, FormStays DEF H!Edit, H!query
<1>5. CASE H!ToggleDays
  <2>1. form' \in FormFields
    BY <1>0, <1>5 DEF H!ToggleDays, FormFields
  <2> QED
    BY <1>4, <1>5, <2>1 DEF H!ToggleDays
<1>6. ASSUME NEW t \in Texts, H!Write(t) \/ H!SelectTemplate(t) PROVE FormInv'
  <2>1. t \in FormTexts
    BY DEF FormTexts
  <2>2. form' \in FormFields
    BY <1>0, <1>6, <2>1 DEF H!Write, H!SelectTemplate, FormFields
  <2>3. CASE H!Write(t)
    BY <1>4, <2>2, <2>3 DEF H!Write
  <2>4. CASE H!SelectTemplate(t)
    BY <1>0, <2>2, <2>4, FormStays DEF H!SelectTemplate, H!query, H!counts
  <2> QED
    BY <1>6, <2>3, <2>4
<1>7. ASSUME NEW weekly \in BOOLEAN, H!SetFrequency(weekly) PROVE FormInv'
  <2>1. form' \in FormFields
    BY <1>0, <1>7 DEF H!SetFrequency, FormFields
  <2> QED
    BY <1>4, <1>7, <2>1 DEF H!SetFrequency
<1>8. ASSUME NEW v \in H!Visibilities, H!PickVisibility(v) PROVE FormInv'
  <2>1. form' \in FormFields
    BY <1>0, <1>8 DEF H!PickVisibility, FormFields
  <2> QED
    BY <1>4, <1>8, <2>1 DEF H!PickVisibility
<1>9. CASE H!HandleSubmit
  BY <1>9, SubmitKeeps
<1>10. CASE H!HandleFetch \/ H!Deliver \/ H!FailFetch
  <2>1. /\ fetch' \in H!Visibilities \cup {"idle", "sent"} /\ cache' \in H!Visibilities \cup {"unread"}
        /\ fetch' = "idle" \/ editing
    <3>1. CASE H!HandleFetch
      <4>1. fetch = "sent" /\ fetch' = habits[1].vis /\ cache' = cache
        BY <3>1 DEF H!HandleFetch
      <4>4. editing /\ Len(habits) = 1
        BY <1>0, <4>1
      <4>5. 1 \in 1 .. Len(habits)
        BY <4>4
      <4>2. editing /\ habits[1] \in FormRows
        BY <1>0, <4>4, <4>5, ElementOfSeq
      <4>3. habits[1].vis \in H!Visibilities
        BY <4>2 DEF FormRows
      <4> QED
        BY <1>0, <4>1, <4>2, <4>3
    <3>2. CASE H!Deliver \/ H!FailFetch
      BY <1>0, <3>2 DEF H!Deliver, H!FailFetch
    <3> QED
      BY <1>10, <3>1, <3>2
  <2> QED
    BY <1>0, <1>10, <2>1, FormStays DEF H!HandleFetch, H!Deliver, H!FailFetch, H!screen, H!counts
<1>11. ASSUME NEW i \in DOMAIN subs,
              H!HandleSave(i) \/ H!HandleShow(i) \/ H!Lose(i) \/ H!EndSave(i) \/ H!EndShow(i)
       PROVE  FormInv'
  <2>0. /\ subs[i] \in FormSubs /\ SubFine(subs[i], Len(habits))
        /\ subs[i].id \in Nat /\ subs[i].phase \in {"saving", "saved", "showing", "shown"}
        /\ subs[i].vis \in H!Visibilities /\ subs[i].text \in FormTexts /\ subs[i].weekly \in BOOLEAN
        /\ subs[i].old \in H!Visibilities \cup {"unread"} /\ subs[i].answer \in {"ok", "failed"}
    <3>1. subs[i] \in FormSubs /\ SubFine(subs[i], Len(habits))
      BY <1>0 DEF SubsFine
    <3> QED
      BY <3>1 DEF FormSubs
  <2>1. CASE H!HandleSave(i)
    <3>0. /\ subs[i].phase = "saving" /\ subs[i].answer = "ok" /\ ~subs[i].again
          /\ subs[i].id = (IF editing THEN 1 ELSE 0)
          /\ UNCHANGED <<editing, default, form, pending, done, hasty, open, cache, fetch, lost>>
      BY <2>0, <2>1 DEF H!HandleSave, H!query, H!screen, H!counts, SubFine
    <3>1. CASE subs[i].id = 0
      <4> DEFINE row1 == [text |-> subs[i].text, weekly |-> subs[i].weekly, vis |-> default]
                 d == [subs[i] EXCEPT !.phase = "saved", !.id = Len(habits) + 1]
      <4>1. /\ habits' = Append(habits, row1)
            /\ subs' = [subs EXCEPT ![i].phase = "saved", ![i].id = Len(habits) + 1]
        BY <2>1, <3>1 DEF H!HandleSave
      <4>2. subs' = [subs EXCEPT ![i] = d]
        BY <4>1
      <4>3. row1 \in FormRows /\ row1.text = subs[i].text /\ row1.weekly = subs[i].weekly
        BY <1>0, <2>0 DEF FormRows
      <4>4. /\ d \in FormSubs /\ d.phase = "saved" /\ d.id = Len(habits) + 1
            /\ d.text = subs[i].text /\ d.weekly = subs[i].weekly /\ d.answer = subs[i].answer
        <5>1. Len(habits) + 1 \in Nat
          BY <1>0
        <5> HIDE DEF row1
        <5> QED
          BY <2>0, <5>1 DEF FormSubs
      <4> HIDE DEF row1, d
      <4>5. /\ habits' \in Seq(FormRows) /\ Len(habits') = Len(habits) + 1
            /\ habits'[Len(habits) + 1] = row1
        BY <1>0, <4>1, <4>3, AppendProperties
      <4>6. SubFine(d, Len(habits')) /\ Knows(d)
        BY <1>0, <3>0, <4>4, <4>5 DEF SubFine, Knows
      <4>7. SubMeant(d, habits')
        BY <4>3, <4>4, <4>5 DEF SubMeant
      <4>8. ~editing
        BY <3>0, <3>1
      <4>9. Len(habits') <= 1 + lost + hasty
        <5>1. Making
          BY <3>0 DEF Making
        <5>2. Len(habits) + 1 <= 1 + lost + hasty
          BY <1>0, <4>8, <5>1 DEF Counted
        <5> QED
          BY <1>0, <4>5, <5>2
      <4>10. Len(habits) <= Len(habits') /\ lost' \in Nat
        BY <1>0, <3>0, <4>5
      <4> QED
        BY <1>0, <3>0, <4>2, <4>4, <4>5, <4>6, <4>7, <4>8, <4>9, <4>10, FormChanges
    <3>2. CASE subs[i].id # 0
      <4> DEFINE k == subs[i].id
                 r == [habits[k] EXCEPT !.text = subs[i].text, !.weekly = subs[i].weekly]
                 d == [subs[i] EXCEPT !.phase = "saved"]
      <4>1. /\ habits' = [habits EXCEPT ![k].text = subs[i].text, ![k].weekly = subs[i].weekly]
            /\ subs' = [subs EXCEPT ![i].phase = "saved"]
        BY <2>1, <3>2 DEF H!HandleSave
      <4>2. subs' = [subs EXCEPT ![i] = d] /\ habits' = [habits EXCEPT ![k] = r]
        BY <4>1
      <4>3. k \in 1 .. Len(habits) /\ habits[k] \in FormRows
        <5>1. k \in 1 .. Len(habits)
          BY <1>0, <2>0, <3>2 DEF SubFine
        <5> QED
          BY <1>0, <5>1, ElementOfSeq
      <4>4. r \in FormRows /\ r.text = subs[i].text /\ r.weekly = subs[i].weekly
        BY <2>0, <4>3 DEF FormRows
      <4>5. /\ d \in FormSubs /\ d.phase = "saved" /\ d.id = k /\ d.again = subs[i].again
            /\ d.text = subs[i].text /\ d.weekly = subs[i].weekly /\ d.answer = subs[i].answer
        BY <2>0 DEF FormSubs
      <4> HIDE DEF r, d
      <4>6. /\ habits' \in Seq(FormRows) /\ Len(habits') = Len(habits)
            /\ habits'[k] = r
        BY <1>0, <4>2, <4>3, <4>4, ExceptSeq
      <4>7. SubFine(d, Len(habits')) /\ Knows(d)
        BY <2>0, <3>0, <3>2, <4>5, <4>6 DEF SubFine, Knows
      <4>8. SubMeant(d, habits')
        BY <4>4, <4>5, <4>6 DEF SubMeant
      <4>9. editing
        BY <1>0, <3>0, <3>2
      <4>10. Len(habits) <= Len(habits') /\ lost' \in Nat /\ Len(habits') = 1
        BY <1>0, <3>0, <4>6, <4>9
      <4> QED
        BY <1>0, <3>0, <4>2, <4>5, <4>6, <4>7, <4>8, <4>9, <4>10, FormChanges
    <3> QED
      BY <3>1, <3>2
  <2>2. CASE H!HandleShow(i)
    <3>0. /\ subs[i].phase = "showing" /\ subs[i].answer = "ok" /\ Knows(subs[i])
          /\ UNCHANGED <<editing, default, form, pending, done, hasty, open, cache, fetch, lost>>
      BY <2>0, <2>2 DEF H!HandleShow, H!query, H!screen, H!counts, SubFine, Knows
    <3> DEFINE k == subs[i].id
               r == [habits[k] EXCEPT !.vis = subs[i].vis]
               d == [subs[i] EXCEPT !.phase = "shown"]
    <3>1. /\ habits' = [habits EXCEPT ![k].vis = subs[i].vis]
          /\ subs' = [subs EXCEPT ![i].phase = "shown"]
      BY <2>2 DEF H!HandleShow
    <3>2. subs' = [subs EXCEPT ![i] = d] /\ habits' = [habits EXCEPT ![k] = r]
      BY <3>1
    <3>3. k \in 1 .. Len(habits) /\ habits[k] \in FormRows
      <4>1. k \in 1 .. Len(habits)
        BY <1>0, <2>0, <3>0 DEF SubFine
      <4> QED
        BY <1>0, <4>1, ElementOfSeq
    <3>4. /\ r \in FormRows /\ r.vis = subs[i].vis /\ r.text = habits[k].text
          /\ r.weekly = habits[k].weekly
      BY <2>0, <3>3 DEF FormRows
    <3>5. /\ d \in FormSubs /\ d.phase = "shown" /\ d.id = k /\ d.again = subs[i].again
          /\ d.text = subs[i].text /\ d.weekly = subs[i].weekly /\ d.answer = subs[i].answer
          /\ d.vis = subs[i].vis
      BY <2>0 DEF FormSubs
    <3> HIDE DEF r, d
    <3>6. /\ habits' \in Seq(FormRows) /\ Len(habits') = Len(habits)
          /\ habits'[k] = r
      BY <1>0, <3>2, <3>3, <3>4, ExceptSeq
    <3>7. SubFine(d, Len(habits')) /\ Knows(d)
      BY <2>0, <3>0, <3>5, <3>6 DEF SubFine, Knows
    <3>8. SubMeant(subs[i], habits) => SubMeant(d, habits')
      BY <3>0, <3>4, <3>5, <3>6 DEF SubMeant
    <3>9. /\ Len(habits) <= Len(habits') /\ lost' \in Nat
          /\ (editing => Len(habits') = 1)
      BY <1>0, <3>0, <3>6
    <3> QED
      BY <1>0, <3>0, <3>2, <3>5, <3>6, <3>7, <3>8, <3>9, FormChanges
  <2>3. CASE H!Lose(i)
    <3> DEFINE to == IF subs[i].phase \in {"saving", "saved"} THEN "saved" ELSE "shown"
               d == [subs[i] EXCEPT !.answer = "failed", !.phase = to]
    <3>0. /\ subs[i].answer = "ok"
          /\ lost' = lost + IF subs[i].phase = "saved" THEN 1 ELSE 0
          /\ UNCHANGED <<editing, default, habits, form, pending, done, hasty, open, cache, fetch>>
      BY <2>3 DEF H!Lose, H!query, H!screen
    <3>1. subs' = [subs EXCEPT ![i].answer = "failed",
                     ![i].phase = IF @ \in {"saving", "saved"} THEN "saved" ELSE "shown"]
      BY <2>3 DEF H!Lose
    <3>2. subs' = [subs EXCEPT ![i] = d]
      BY <3>1
    <3>3. /\ d \in FormSubs /\ d.phase = to /\ d.id = subs[i].id /\ d.again = subs[i].again
          /\ d.text = subs[i].text /\ d.weekly = subs[i].weekly /\ d.answer = "failed"
          /\ d.vis = subs[i].vis
      BY <2>0 DEF FormSubs
    <3> HIDE DEF d
    <3>4. SubFine(d, Len(habits)) /\ d.phase # "saving"
      BY <2>0, <3>0, <3>3 DEF SubFine, Knows
    <3>5. SubMeant(subs[i], habits) => SubMeant(d, habits)
      BY <2>0, <3>0, <3>3 DEF SubMeant, Knows
    <3>6. lost' \in Nat /\ lost <= lost' /\ Len(habits) <= Len(habits)
      BY <1>0, <3>0
    <3>7. CASE subs[i].phase \in {"saving", "saved"}
      <4>1. ASSUME ~editing PROVE Len(habits) <= lost' + hasty
        <5>1. CASE subs[i].phase = "saving"
          <6>1. Making
            BY <5>1 DEF Making
          <6>2. Len(habits) + 1 <= 1 + lost + hasty
            BY <1>0, <4>1, <6>1 DEF Counted
          <6> QED
            BY <1>0, <3>6, <6>2
        <5>2. CASE subs[i].phase = "saved"
          <6>1. lost' = lost + 1
            BY <3>0, <5>2
          <6>2. Len(habits) + (IF Making THEN 1 ELSE 0) <= 1 + lost + hasty
            BY <1>0, <4>1 DEF Counted
          <6>3. ~Making
            BY <1>0, <5>2 DEF Making, SubsFine
          <6> QED
            BY <1>0, <6>1, <6>2, <6>3
        <5> QED
          BY <3>7, <5>1, <5>2
      <4>2. ~editing => /\ Len(habits) <= 1 + lost' + hasty
                        /\ Len(habits) <= lost' + hasty
        BY <1>0, <3>6, <4>1
      <4> QED
        BY <1>0, <3>0, <3>2, <3>4, <3>5, <3>6, <3>7, <4>2, FormChanges
    <3>8. CASE subs[i].phase \in {"showing", "shown"}
      <4>1. lost' = lost /\ d.phase = "shown"
        BY <1>0, <3>0, <3>3, <3>8
      <4> QED
        BY <1>0, <3>0, <3>2, <3>4, <3>5, <3>6, <3>8, <4>1, FormChanges
    <3> QED
      BY <2>0, <3>7, <3>8
  <2>4. CASE H!EndSave(i)
    <3>0. /\ subs[i].phase = "saved"
          /\ UNCHANGED <<editing, default, habits, form, pending, done, hasty, open, lost>>
      BY <2>4 DEF H!EndSave, H!screen, H!counts
    <3>1. CASE subs[i].answer = "ok"
      <4> DEFINE d == [subs[i] EXCEPT !.phase = "showing", !.old = cache]
      <4>1. /\ subs' = [subs EXCEPT ![i].phase = "showing", ![i].old = cache]
            /\ cache' \in H!Visibilities \cup {"unread"} /\ fetch' = "idle"
        BY <1>0, <2>0, <2>4, <3>1 DEF H!EndSave, H!Patch
      <4>2. subs' = [subs EXCEPT ![i] = d]
        BY <4>1
      <4>3. /\ d \in FormSubs /\ d.phase = "showing" /\ d.id = subs[i].id /\ d.again = subs[i].again
            /\ d.text = subs[i].text /\ d.weekly = subs[i].weekly /\ d.answer = "ok"
            /\ d.vis = subs[i].vis
        BY <1>0, <2>0, <3>1 DEF FormSubs
      <4> HIDE DEF d
      <4>4. SubFine(d, Len(habits)) /\ d.phase # "saving" /\ Knows(d)
        BY <2>0, <3>0, <3>1, <4>3 DEF SubFine, Knows
      <4>5. SubMeant(subs[i], habits) => SubMeant(d, habits)
        BY <3>0, <3>1, <4>3 DEF SubMeant, Knows
      <4>6. ~editing => Len(habits) <= 1 + lost + hasty
        <5>1. ASSUME ~editing PROVE Len(habits) + (IF Making THEN 1 ELSE 0) <= 1 + lost + hasty
          BY <1>0, <5>1 DEF Counted
        <5> QED
          BY <1>0, <5>1
      <4>7. Len(habits) <= Len(habits) /\ lost' \in Nat
        BY <1>0, <3>0
      <4> QED
        BY <1>0, <3>0, <4>1, <4>2, <4>3, <4>4, <4>5, <4>6, <4>7, FormChanges
    <3>2. CASE subs[i].answer # "ok"
      <4>1. subs' = H!RemoveAt(subs, i) /\ cache' = cache /\ fetch' = fetch
        BY <2>4, <3>2 DEF H!EndSave, H!query
      <4>2. ~Knows(subs[i])
        BY <3>0, <3>2 DEF Knows
      <4> QED
        BY <1>0, <3>0, <4>1, <4>2, FormEnds
    <3> QED
      BY <3>1, <3>2
  <2>5. CASE H!EndShow(i)
    <3>0. /\ subs[i].phase = "shown" /\ subs[i].id # 0 /\ subs[i].id \in 0 .. Len(habits)
          /\ subs' = H!RemoveAt(subs, i)
          /\ UNCHANGED <<editing, default, habits, form, hasty, lost>>
      BY <1>0, <2>0, <2>5 DEF H!EndShow, H!screen, H!counts, SubFine, Knows
    <3>1. /\ cache' \in H!Visibilities \cup {"unread"}
          /\ fetch' \in H!Visibilities \cup {"idle", "sent"}
          /\ fetch' = "idle" \/ editing
      BY <1>0, <2>0, <2>5 DEF H!EndShow
    <3>2. CASE ~open
      <4>1. UNCHANGED <<open, pending, done>>
        BY <2>5, <3>2 DEF H!EndShow
      <4> QED
        BY <1>0, <3>0, <3>1, <3>2, <4>1, FormEnds
    <3>3. CASE open /\ subs[i].answer = "ok"
      <4>1. /\ open' = FALSE /\ pending' = 0
            /\ done' = [id |-> subs[i].id, text |-> subs[i].text, weekly |-> subs[i].weekly,
                        vis |-> subs[i].vis, again |-> subs[i].again]
        BY <2>5, <3>3 DEF H!EndShow, H!Closes
      <4>2. pending' \in 0 .. Len(habits)
        BY <1>0, <4>1
      <4>3. open' \in BOOLEAN
        BY <4>1
      <4> QED
        BY <3>0, <3>1, <3>3, <4>1, <4>2, <4>3, FormEnds
    <3>4. CASE open /\ subs[i].answer # "ok"
      <4>1. open' = open /\ pending' = subs[i].id /\ done' = done
        BY <2>5, <3>4 DEF H!EndShow, H!Closes
      <4> QED
        BY <1>0, <3>0, <3>1, <4>1, FormEnds
    <3> QED
      BY <1>0, <3>2, <3>3, <3>4
  <2> QED
    BY <1>11, <2>1, <2>2, <2>3, <2>4, <2>5
<1>12. CASE UNCHANGED H!vars
  BY <1>0, <1>12, FormStays DEF H!vars, H!screen, H!query, H!counts
<1> QED
  BY <1>1, <1>2, <1>3, <1>5, <1>6, <1>7, <1>8, <1>9, <1>10, <1>11, <1>12 DEF H!Next

\* However often saving fails and is tried again, one form makes one habit, but for lost answers
\* and presses in haste, which it names (CreateHabitScreen.tsx).
THEOREM FormMakesOne == H!Spec => []H!OneHabit
<1>1. FormInv => H!OneHabit
  <2> SUFFICES ASSUME FormInv, ~editing PROVE Len(habits) <= 1 + lost + hasty
    BY DEF H!OneHabit
  <2>1. Len(habits) + (IF Making THEN 1 ELSE 0) <= 1 + lost + hasty
    BY DEF FormInv, Counted
  <2> QED
    BY <2>1 DEF FormInv, FormTypes
<1> QED
  BY <1>1, InitForm, NextForm, PTL DEF H!Spec

\* A form that closes because it was saved has saved what it was submitted with, however many
\* tries that took (CreateHabitScreen.tsx).
THEOREM FormSavesWhatWasMeant == H!Spec => []H!SavedAsSubmitted
<1>1. FormInv => H!SavedAsSubmitted
  BY DEF FormInv, Meant, H!SavedAsSubmitted
<1> QED
  BY <1>1, InitForm, NextForm, PTL DEF H!Spec

\* There is something to write.
SomeTexts == Texts # {}

\* What the form was told: the visibility it was given, what it says went wrong, and what
\* closed it.
FormTold ==
  /\ given \in H!Visibilities /\ done.id \in 0 .. Len(habits)
  /\ error \in {H!None, "invalid", "failed", "notUpdated", "defaulted"}

LEMMA NextFormTold == ASSUME FormInv, FormTold, [H!Next]_(H!vars) PROVE FormTold'
<1>1. /\ habits \in Seq(FormRows) /\ Len(habits) \in Nat /\ subs \in Seq(FormSubs)
      /\ cache \in H!Visibilities \cup {"unread"}
      /\ \A i \in DOMAIN subs : SubFine(subs[i], Len(habits))
      /\ done.id \in 0 .. Len(habits)
  BY DEF FormInv, FormTypes, SubsFine, FormTold
<1>2. \A i \in DOMAIN subs : /\ subs[i].id \in 0 .. Len(habits)
                             /\ subs[i].phase = "showing" => subs[i].id # 0
  <2> SUFFICES ASSUME NEW i \in DOMAIN subs
               PROVE  /\ subs[i].id \in 0 .. Len(habits)
                      /\ subs[i].phase = "showing" => subs[i].id # 0
    OBVIOUS
  <2>1. SubFine(subs[i], Len(habits)) /\ subs[i] \in FormSubs
    BY <1>1
  <2> QED
    BY <1>1, <2>1 DEF SubFine, FormSubs, Knows
<1>3. H!Given \in H!Visibilities
  BY <1>1 DEF H!Given, H!Visibilities
<1>4. CASE UNCHANGED <<given, done, habits>> /\ error' \in {error, H!None, "invalid", "failed"}
  BY <1>4 DEF FormTold
<1>5. CASE H!LoadDefault \/ H!SkipTemplates \/ H!Close \/ H!ToggleDays \/ UNCHANGED H!vars
  BY <1>4, <1>5 DEF H!LoadDefault, H!SkipTemplates, H!Close, H!ToggleDays, H!Edit, H!vars
<1>6. CASE H!HandleSubmit \/ H!HandleFetch \/ H!Deliver \/ H!FailFetch
  BY <1>4, <1>6 DEF H!HandleSubmit, H!HandleFetch, H!Deliver, H!FailFetch
<1>7. CASE H!Reset
  BY <1>3, <1>7 DEF H!Reset, FormTold, H!counts
<1>8. ASSUME NEW t, H!Write(t) \/ H!SelectTemplate(t) \/ H!SetFrequency(t) \/ H!PickVisibility(t)
      PROVE  FormTold'
  BY <1>4, <1>8 DEF H!Write, H!SelectTemplate, H!SetFrequency, H!PickVisibility, H!Edit
<1>9. ASSUME NEW i \in DOMAIN subs, H!Lose(i) \/ H!EndSave(i) PROVE FormTold'
  BY <1>4, <1>9 DEF H!Lose, H!EndSave
<1>10. ASSUME NEW i \in DOMAIN subs, H!EndShow(i) PROVE FormTold'
  <2>1. /\ UNCHANGED <<habits, given>> /\ done'.id \in {done.id, subs[i].id}
        /\ error' \in {error, "notUpdated", "defaulted"}
    BY <1>10 DEF H!EndShow
  <2> QED
    BY <1>1, <1>2, <2>1 DEF FormTold
<1>11. ASSUME NEW i \in DOMAIN subs, H!HandleSave(i) \/ H!HandleShow(i) PROVE FormTold'
  <2>1. UNCHANGED <<given, done, error>>
    BY <1>11 DEF H!HandleSave, H!HandleShow
  <2>2. Len(habits) <= Len(habits') /\ Len(habits') \in Nat
    <3>1. ASSUME NEW r, habits' = Append(habits, r) PROVE Len(habits') = Len(habits) + 1
      BY <1>1, <3>1
    <3>2. ASSUME NEW k \in 1 .. Len(habits), NEW r \in FormRows, habits' = [habits EXCEPT ![k] = r]
          PROVE  Len(habits') = Len(habits)
      BY <1>1, <3>2, ExceptSeq
    <3>3. ASSUME NEW f, f \in Seq(FormRows), NEW k \in 1 .. Len(f)
          PROVE  f[k] \in FormRows
      BY <3>3
    <3>4. subs[i] \in FormSubs
      BY <1>1, <1>11
    <3>5. CASE H!HandleSave(i) /\ subs[i].id = 0
      BY <1>1, <3>1, <3>5 DEF H!HandleSave
    <3>6. CASE H!HandleSave(i) /\ subs[i].id # 0
      <4> DEFINE k == subs[i].id
                 r == [habits[k] EXCEPT !.text = subs[i].text, !.weekly = subs[i].weekly]
      <4>1. habits' = [habits EXCEPT ![k] = r]
        BY <3>6 DEF H!HandleSave
      <4>2. k \in 1 .. Len(habits)
        BY <1>1, <1>2, <3>6
      <4>3. r \in FormRows
        BY <1>1, <3>3, <3>4, <4>2 DEF FormRows, FormSubs
      <4> HIDE DEF k, r
      <4> QED
        BY <1>1, <3>2, <4>1, <4>2, <4>3
    <3>7. CASE H!HandleShow(i)
      <4> DEFINE k == subs[i].id
                 r == [habits[k] EXCEPT !.vis = subs[i].vis]
      <4>1. habits' = [habits EXCEPT ![k] = r]
        BY <3>7 DEF H!HandleShow
      <4>2. k \in 1 .. Len(habits)
        BY <1>1, <1>2, <3>7 DEF H!HandleShow
      <4>3. r \in FormRows
        BY <1>1, <3>3, <3>4, <4>2 DEF FormRows, FormSubs
      <4> HIDE DEF k, r
      <4> QED
        BY <1>1, <3>2, <4>1, <4>2, <4>3
    <3> QED
      BY <1>1, <1>11, <3>1, <3>5, <3>6, <3>7
  <2> QED
    BY <1>1, <2>1, <2>2 DEF FormTold
<1> QED
  BY <1>5, <1>6, <1>7, <1>8, <1>9, <1>10, <1>11 DEF H!Next

\* The types of the variables of the habit form.
THEOREM FormTyped == ASSUME SomeTexts PROVE H!Spec => []H!TypeOK
<1>1. H!Init => FormTold
  <2> SUFFICES ASSUME H!Init PROVE FormTold
    OBVIOUS
  <2>1. given \in H!Visibilities /\ done.id = 0 /\ error = H!None /\ Len(habits) \in Nat
    <3>1. PICK vis \in H!Visibilities :
            /\ habits = IF editing THEN <<[text |-> CHOOSE t \in Texts : TRUE, weekly |-> FALSE,
                                           vis |-> vis]>> ELSE <<>>
            /\ cache \in IF editing THEN {"unread", vis} ELSE {"unread"}
      BY DEF H!Init
    <3>2. given \in H!Visibilities
      BY <3>1 DEF H!Init, H!Given, H!Visibilities
    <3>3. Len(habits) \in Nat
      BY <3>1
    <3> QED
      BY <3>2, <3>3 DEF H!Init, H!NoDone
  <2> QED
    BY <2>1 DEF FormTold
<1>2. FormInv /\ FormTold => H!TypeOK
  <2> SUFFICES ASSUME FormInv, FormTold PROVE H!TypeOK
    OBVIOUS
  <2>1. FormTexts = Texts \cup {H!None}
    BY DEF FormTexts, SomeTexts
  <2>2. /\ form.text \in Texts \cup {H!None} /\ form.vis \in H!Visibilities
        /\ cache \in H!Visibilities \cup {"unread"} /\ fetch \in H!Visibilities \cup {"idle", "sent"}
        /\ pending \in 0 .. Len(habits)
    BY <2>1 DEF FormInv, FormTypes, FormFields
  <2>3. ASSUME NEW i \in DOMAIN subs
        PROVE  subs[i].id \in 0 .. Len(habits) /\ subs[i].vis \in H!Visibilities
    <3>1. SubFine(subs[i], Len(habits)) /\ Len(habits) \in Nat
      BY DEF FormInv, FormTypes, SubsFine
    <3> QED
      BY <3>1 DEF SubFine, FormSubs
  <2> QED
    BY <2>2, <2>3 DEF FormTold, H!TypeOK
<1>3. FormInv /\ FormTold /\ [H!Next]_(H!vars) => FormInv' /\ FormTold'
  BY NextForm, NextFormTold
<1> QED
  BY <1>1, <1>2, <1>3, InitForm, PTL DEF H!Spec

-----------------------------------------------------------------------------
(* Wizards: one opening of a wizard sets one challenge.                    *)

WizardAnswers == {"ok", "invalid", "conflict", "failed"}
WizardSends(D) == [op : {"create", "revoke"}, row : D, mounted : BOOLEAN,
                   phase : {"sent", "answered", "settling"}, answer : WizardAnswers]

\* The wizard's own request to set the challenge.
Own(s) == s.op = "create" /\ s.mounted

\* What such a request has made, and what it is going to tell of.
Told(s) ==
  /\ s.phase = "settling" => s.answer = "ok"
  /\ Own(s) =>
       /\ step # 5 /\ (changed \/ s.row = draft)
       /\ s.phase = "sent" \/ s.answer # "ok" => made <= lost
       /\ s.phase # "sent" /\ s.answer = "ok" => made >= 1

Asking == \E i \in DOMAIN sends : Own(sends[i])

WizardCounts ==
  /\ made <= 1 + lost
  /\ ~Asking /\ step # 5 => made <= lost
  /\ step = 5 => made >= 1 /\ (changed \/ shown = draft)

WizardInv ==
  /\ made \in Nat /\ lost \in Nat /\ step \in 1 .. 5 /\ changed \in BOOLEAN
  /\ \E D : sends \in Seq(WizardSends(D))
  /\ \A i \in DOMAIN sends : Told(sends[i])
  /\ \A i, j \in DOMAIN sends : Own(sends[i]) /\ Own(sends[j]) => i = j
  /\ WizardCounts

LEMMA RemovedInWizard ==
  ASSUME NEW S, NEW s \in Seq(S), NEW k \in DOMAIN s
  PROVE  /\ W!RemoveAt(s, k) \in Seq(S)
         /\ Len(W!RemoveAt(s, k)) = Len(s) - 1
         /\ \A j \in DOMAIN W!RemoveAt(s, k) :
              /\ (IF j < k THEN j ELSE j + 1) \in DOMAIN s
              /\ W!RemoveAt(s, k)[j] = s[IF j < k THEN j ELSE j + 1]
<1>1. W!RemoveAt(s, k) = H!RemoveAt(s, k)
  BY DEF W!RemoveAt, H!RemoveAt
<1> QED
  BY <1>1, Removed

LEMMA InitWizard == W!Init => WizardInv
<1> SUFFICES ASSUME W!Init PROVE WizardInv
  OBVIOUS
<1>1. sends = <<>> /\ made = 0 /\ lost = 0 /\ step = 1 /\ changed = FALSE
  BY DEF W!Init
<1>2. sends \in Seq(WizardSends({})) /\ DOMAIN sends = {}
  BY <1>1
<1>3. made \in Nat /\ lost \in Nat /\ step \in 1 .. 5 /\ made <= 1 + lost /\ made <= lost /\ step # 5
  BY <1>1
<1>4. changed \in BOOLEAN
  BY <1>1
<1> QED
  BY <1>2, <1>3, <1>4 DEF WizardInv, WizardCounts

\* The user goes to another step, or what the draft is is no longer what was sent.
LEMMA WizardStays ==
  ASSUME WizardInv, UNCHANGED <<shown, made, lost, sends>>, step' \in 1 .. 5,
         step' = step \/ (step # 5 /\ step' # 5), changed' \in BOOLEAN,
         changed' \/ (changed' = changed /\ draft' = draft)
  PROVE  WizardInv'
<1>1. \A i \in DOMAIN sends : Told(sends[i])'
  <2> SUFFICES ASSUME NEW i \in DOMAIN sends PROVE Told(sends[i])'
    OBVIOUS
  <2>1. Told(sends[i]) /\ sends' = sends
    BY DEF WizardInv
  <2> QED
    BY <2>1 DEF Told, Own
<1>2. Asking' = Asking
  BY DEF Asking, Own
<1>3. WizardCounts'
  BY <1>2 DEF WizardInv, WizardCounts
<1> QED
  BY <1>1, <1>3 DEF WizardInv, Own

\* A request moves on: what it has made and lost, or nothing of the wizard's.
LEMMA SendChanges ==
  ASSUME WizardInv, NEW i \in DOMAIN sends, NEW phase \in {"answered", "settling"},
         NEW answer \in WizardAnswers,
         sends' = [sends EXCEPT ![i] = [sends[i] EXCEPT !.phase = phase, !.answer = answer]],
         UNCHANGED <<step, draft, changed, shown>>, phase = "settling" => answer = "ok",
         made' \in Nat, lost' \in Nat,
         ~Own(sends[i]) => UNCHANGED <<made, lost>>,
         Own(sends[i]) => /\ made' <= 1 + lost'
                          /\ answer # "ok" => made' <= lost'
                          /\ answer = "ok" => made' >= 1
  PROVE  WizardInv'
<1>1. PICK D : sends \in Seq(WizardSends(D))
  BY DEF WizardInv
<1> DEFINE d == [sends[i] EXCEPT !.phase = phase, !.answer = answer]
<1>2. sends[i] \in WizardSends(D)
  BY <1>1
<1>3. /\ d \in WizardSends(D) /\ d.op = sends[i].op /\ d.mounted = sends[i].mounted
      /\ d.row = sends[i].row /\ d.phase = phase /\ d.answer = answer
  BY <1>2 DEF WizardSends
<1>4. sends' = [sends EXCEPT ![i] = d]
  OBVIOUS
<1> HIDE DEF d
<1>5. /\ sends' \in Seq(WizardSends(D)) /\ DOMAIN sends' = DOMAIN sends
      /\ \A j \in DOMAIN sends : sends'[j] = IF j = i THEN d ELSE sends[j]
  BY <1>1, <1>3, <1>4, ExceptSeq
<1>6. \A j \in DOMAIN sends : Own(sends'[j]) <=> Own(sends[j])
  BY <1>3, <1>5 DEF Own
<1>7. Asking' <=> Asking
  BY <1>5, <1>6 DEF Asking, Own
<1>8. \A j, k \in DOMAIN sends' : Own(sends'[j]) /\ Own(sends'[k]) => j = k
  BY <1>5, <1>6 DEF WizardInv
<1>9. ASSUME NEW j \in DOMAIN sends PROVE Told(sends[j])'
  <2>0. Told(sends[j])
    BY DEF WizardInv
  <2>1. CASE j = i
    <3>1. sends'[j] = d
      BY <1>5, <2>1
    <3>2. /\ d.phase = "settling" => d.answer = "ok"
          /\ Own(d) => /\ step # 5 /\ (changed \/ d.row = draft)
                       /\ d.phase = "sent" \/ d.answer # "ok" => made' <= lost'
                       /\ d.phase # "sent" /\ d.answer = "ok" => made' >= 1
      BY <1>3, <2>0, <2>1 DEF Told, Own
    <3> QED
      BY <3>1, <3>2 DEF Told, Own
  <2>2. CASE j # i
    <3>1. sends'[j] = sends[j]
      BY <1>5, <2>2
    <3>2. Own(sends[j]) => UNCHANGED <<made, lost>>
      BY <2>2 DEF WizardInv
    <3> QED
      BY <2>0, <3>1, <3>2 DEF Told, Own
  <2> QED
    BY <2>1, <2>2
<1>10. WizardCounts'
  <2>1. CASE Own(sends[i])
    <3>1. Asking /\ step # 5
      BY <2>1 DEF Asking, WizardInv, Told
    <3> QED
      BY <1>7, <2>1, <3>1 DEF WizardCounts
  <2>2. CASE ~Own(sends[i])
    BY <1>7, <2>2 DEF WizardInv, WizardCounts
  <2> QED
    BY <2>1, <2>2
<1> QED
  BY <1>5, <1>8, <1>9, <1>10 DEF WizardInv, Own

\* A request is sent: the wizard's only one to set the challenge, or one to revoke an invite.
LEMMA SendAdds ==
  ASSUME WizardInv, NEW verb \in {"create", "revoke"}, NEW row1, W!Send(verb, row1),
         UNCHANGED <<step, draft, shown, made, lost>>, changed' \in BOOLEAN,
         \/ verb = "create" /\ step = 4 /\ ~Asking /\ row1 = draft
         \/ verb = "revoke" /\ changed' = changed
  PROVE  WizardInv'
<1>1. PICK D : sends \in Seq(WizardSends(D))
  BY DEF WizardInv
<1> DEFINE d == [op |-> verb, row |-> row1, mounted |-> TRUE, phase |-> "sent", answer |-> "ok"]
           X == D \cup {row1}
<1>2. /\ d \in WizardSends(X) /\ d.op = verb /\ d.row = row1 /\ d.mounted = TRUE
      /\ d.phase = "sent"
  BY DEF WizardSends, WizardAnswers
<1>3. sends' = Append(sends, d)
  BY DEF W!Send
<1>4. WizardSends(D) \subseteq WizardSends(X)
  BY DEF WizardSends
<1>5. sends \in Seq(WizardSends(X))
  BY <1>1, <1>4, SeqMonotonic
<1> HIDE DEF d, X
<1>6. /\ sends' \in Seq(WizardSends(X)) /\ Len(sends) \in Nat
      /\ DOMAIN sends' = 1 .. (Len(sends) + 1) /\ DOMAIN sends = 1 .. Len(sends)
      /\ \A i \in DOMAIN sends : sends'[i] = sends[i]
      /\ sends'[Len(sends) + 1] = d
  BY <1>2, <1>3, <1>5, AppendProperties
<1>7. \A i \in DOMAIN sends' : \/ i \in DOMAIN sends /\ sends'[i] = sends[i]
                               \/ i = Len(sends) + 1 /\ sends'[i] = d
  BY <1>6
<1>8. CASE verb = "create" /\ step = 4 /\ ~Asking /\ row1 = draft
  <2>1. Own(d) /\ \A i \in DOMAIN sends' : Own(sends'[i]) => i = Len(sends) + 1 /\ sends'[i] = d
    BY <1>2, <1>7, <1>8 DEF Own, Asking
  <2>2. made <= lost
    BY <1>8 DEF WizardInv, WizardCounts
  <2>3. ASSUME NEW i \in DOMAIN sends' PROVE Told(sends[i])'
    <3>1. sends'[i].phase = "settling" => sends'[i].answer = "ok"
      BY <1>2, <1>7 DEF WizardInv, Told
    <3> QED
      BY <1>2, <1>8, <2>1, <2>2, <3>1 DEF Told, Own
  <2>4. WizardCounts'
    <3>1. Asking'
      BY <1>2, <1>6, <1>8 DEF Asking, Own
    <3> QED
      BY <1>8, <3>1 DEF WizardInv, WizardCounts
  <2> QED
    BY <1>6, <2>1, <2>3, <2>4 DEF WizardInv, Own
<1>9. CASE verb = "revoke" /\ changed' = changed
  <2>1. ~Own(d)
    BY <1>2, <1>9 DEF Own
  <2>2. /\ Asking' <=> Asking
        /\ \A i \in DOMAIN sends' : Own(sends'[i]) => i \in DOMAIN sends /\ sends'[i] = sends[i]
    <3>1. \A i \in DOMAIN sends : i \in DOMAIN sends'
      BY <1>6
    <3>2. \A i \in DOMAIN sends' : Own(sends'[i]) => i \in DOMAIN sends /\ sends'[i] = sends[i]
      BY <1>7, <2>1
    <3> QED
      BY <1>6, <3>1, <3>2 DEF Asking, Own
  <2>3. ASSUME NEW i \in DOMAIN sends' PROVE Told(sends[i])'
    BY <1>2, <1>7, <1>9, <2>1 DEF WizardInv, Told, Own
  <2>4. WizardCounts'
    BY <1>9, <2>2 DEF WizardInv, WizardCounts
  <2>5. \A i, j \in DOMAIN sends' : Own(sends'[i]) /\ Own(sends'[j]) => i = j
    BY <2>2 DEF WizardInv
  <2> QED
    BY <1>6, <1>9, <2>3, <2>4, <2>5 DEF WizardInv, Own
<1> QED
  BY <1>8, <1>9

\* A request ends: the wizard goes to its last step, or stays where it is.
LEMMA SendEnds ==
  ASSUME WizardInv, NEW i \in DOMAIN sends, W!End(i)
  PROVE  WizardInv'
<1>1. PICK D : sends \in Seq(WizardSends(D))
  BY DEF WizardInv
<1>2. sends' = W!RemoveAt(sends, i) /\ UNCHANGED <<draft, changed, made, lost>>
  BY DEF W!End
<1> DEFINE was(j) == IF j < i THEN j ELSE j + 1
           at(j) == IF j < i THEN j ELSE j - 1
<1>3. /\ sends' \in Seq(WizardSends(D)) /\ Len(sends') = Len(sends) - 1
      /\ \A j \in DOMAIN sends' : was(j) \in DOMAIN sends /\ sends'[j] = sends[was(j)]
  BY <1>1, <1>2, RemovedInWizard
<1>4. /\ \A j \in DOMAIN sends' : was(j) # i
      /\ \A j, k \in DOMAIN sends' : was(j) = was(k) => j = k
      /\ \A j \in DOMAIN sends : j # i => at(j) \in DOMAIN sends' /\ was(at(j)) = j
  <2>1. DOMAIN sends' = 1 .. Len(sends') /\ Len(sends') \in Nat /\ i \in Nat
    BY <1>1, <1>3
  <2>2. DOMAIN sends = 1 .. Len(sends) /\ Len(sends) \in Nat
    BY <1>1
  <2> QED
    BY <1>3, <2>1, <2>2
<1> HIDE DEF was, at
<1>5. /\ \A j, k \in DOMAIN sends' : Own(sends'[j]) /\ Own(sends'[k]) => j = k
      /\ Asking' => \E j \in DOMAIN sends : j # i /\ Own(sends[j])
      /\ (\E j \in DOMAIN sends : j # i /\ Own(sends[j])) => Asking'
  <2>1. \A j, k \in DOMAIN sends' : Own(sends'[j]) /\ Own(sends'[k]) => j = k
    BY <1>3, <1>4 DEF WizardInv
  <2>2. Asking' => \E j \in DOMAIN sends : j # i /\ Own(sends[j])
    BY <1>3, <1>4 DEF Asking, Own
  <2>3. ASSUME NEW j \in DOMAIN sends, j # i, Own(sends[j]) PROVE Asking'
    BY <1>3, <1>4, <2>3 DEF Asking, Own
  <2> QED
    BY <2>1, <2>2, <2>3
<1>6. CASE Own(sends[i])
  <2>1. /\ Told(sends[i])
        /\ \A j \in DOMAIN sends : Own(sends[j]) => j = i
        /\ \A j \in DOMAIN sends' : ~Own(sends'[j])
    BY <1>3, <1>4, <1>6 DEF WizardInv
  <2>2. ~Asking'
    BY <1>5, <2>1
  <2>3. \A j \in DOMAIN sends' : Told(sends[j])'
    BY <1>3, <2>1 DEF WizardInv, Told, Own
  <2>4. CASE sends[i].answer = "ok"
    <3>1. step' = 5 /\ shown' = sends[i].row
      BY <1>6, <2>4 DEF W!End, Own
    <3>2. sends[i].phase # "sent"
      BY DEF W!End, W!Settled
    <3>3. made >= 1 /\ (changed \/ sends[i].row = draft)
      BY <1>6, <2>1, <2>4, <3>2 DEF Told
    <3>4. WizardCounts'
      BY <1>2, <3>1, <3>3 DEF WizardInv, WizardCounts
    <3> QED
      BY <1>2, <1>3, <1>5, <2>3, <3>1, <3>4 DEF WizardInv, Own
  <2>5. CASE sends[i].answer # "ok"
    <3>1. step' = step /\ shown' = shown
      BY <1>6, <2>5 DEF W!End, Own
    <3>2. made <= lost /\ step # 5
      BY <1>6, <2>1, <2>5 DEF Told
    <3>3. WizardCounts'
      BY <1>2, <3>1, <3>2 DEF WizardInv, WizardCounts
    <3> QED
      BY <1>2, <1>3, <1>5, <2>3, <3>1, <3>3 DEF WizardInv, Own
  <2> QED
    BY <2>4, <2>5
<1>7. CASE ~Own(sends[i])
  <2>1. step' = step /\ shown' = shown
    BY <1>7 DEF W!End, Own
  <2>2. Asking' <=> Asking
    BY <1>5, <1>7 DEF Asking
  <2>3. \A j \in DOMAIN sends' : Told(sends[j])'
    BY <1>2, <1>3, <2>1 DEF WizardInv, Told, Own
  <2>4. WizardCounts'
    BY <1>2, <2>1, <2>2 DEF WizardInv, WizardCounts
  <2> QED
    BY <1>2, <1>3, <1>5, <2>1, <2>3, <2>4 DEF WizardInv, Own
<1> QED
  BY <1>6, <1>7

LEMMA NextWizard == WizardInv /\ [W!Next]_(W!vars) => WizardInv'
<1> SUFFICES ASSUME WizardInv, [W!Next]_(W!vars) PROVE WizardInv'
  OBVIOUS
<1>0. PICK D : sends \in Seq(WizardSends(D))
  BY DEF WizardInv
<1>1. /\ made \in Nat /\ lost \in Nat /\ step \in 1 .. 5 /\ changed \in BOOLEAN
      /\ \A i \in DOMAIN sends : Told(sends[i])
  BY DEF WizardInv
<1>2. CASE W!GoNext
  <2>1. step \in 1 .. 3 /\ step' = step + 1
    BY <1>1, <1>2 DEF W!GoNext, W!CanProceed
  <2>2. step' \in 1 .. 5 /\ step # 5 /\ step' # 5
    BY <2>1
  <2> QED
    BY <1>1, <1>2, <2>2, WizardStays DEF W!GoNext
<1>3. CASE W!GoBack
  <2>1. step \in 2 .. 4 /\ step' = step - 1
    BY <1>3 DEF W!GoBack
  <2>2. step' \in 1 .. 5 /\ step # 5 /\ step' # 5
    BY <2>1
  <2> QED
    BY <1>1, <1>3, <2>2, WizardStays DEF W!GoBack
<1>4. CASE W!Reopen
  <2> DEFINE left(i) == [sends[i] EXCEPT !.mounted = FALSE]
  <2>1. DOMAIN sends = 1 .. Len(sends) /\ Len(sends) \in Nat
    BY <1>0
  <2>2. sends' = [i \in 1 .. Len(sends) |-> left(i)]
    BY <1>4, <2>1 DEF W!Reopen
  <2>3. \A i \in 1 .. Len(sends) : /\ left(i) \in WizardSends(D) /\ left(i).mounted = FALSE
                                   /\ left(i).phase = sends[i].phase
                                   /\ left(i).answer = sends[i].answer
    <3>1. \A i \in 1 .. Len(sends) : sends[i] \in WizardSends(D)
      BY <1>0, <2>1
    <3> QED
      BY <3>1 DEF WizardSends
  <2> HIDE DEF left
  <2>4. DOMAIN sends' = 1 .. Len(sends) /\ \A i \in 1 .. Len(sends) : sends'[i] = left(i)
    BY <2>2
  <2>5. sends' \in [1 .. Len(sends) -> WizardSends(D)]
    BY <2>2, <2>3
  <2>6. sends' \in Seq(WizardSends(D))
    BY <2>1, <2>5, IsASeq
  <2>7. \A i \in DOMAIN sends' : ~Own(sends'[i]) /\ Told(sends[i])'
    BY <1>1, <2>1, <2>3, <2>4 DEF Own, Told
  <2>8. step' = 1 /\ made' = 0 /\ lost' = 0 /\ changed' = FALSE
    BY <1>4 DEF W!Reopen
  <2>9. /\ made' \in Nat /\ lost' \in Nat /\ step' \in 1 .. 5 /\ made' <= 1 + lost' /\ made' <= lost'
        /\ step' # 5
    BY <2>8
  <2>10. changed' \in BOOLEAN
    BY <2>8
  <2> QED
    BY <2>6, <2>7, <2>9, <2>10 DEF WizardInv, WizardCounts, Own
\* The draft is changed.
<1>5. ASSUME NEW h, W!SelectHabit(h) \/ W!ProposeHabit(h) \/ W!SetTarget(h) \/ W!SetReward(h)
      PROVE  WizardInv'
  <2>1. step' = step /\ changed' = TRUE /\ UNCHANGED <<shown, made, lost, sends>>
    BY <1>5 DEF W!SelectHabit, W!ProposeHabit, W!SetTarget, W!SetReward, W!Edited
  <2> QED
    BY <1>1, <2>1, WizardStays
<1>6. CASE W!HandleSubmit
  <2>1. step = 4 /\ ~Asking
    BY <1>6 DEF W!HandleSubmit, W!Submittable, W!Mine, Asking, Own
  <2>2. /\ W!Send("create", draft) /\ changed' = FALSE
        /\ UNCHANGED <<step, draft, shown, made, lost>>
    BY <1>6 DEF W!HandleSubmit
  <2> QED
    BY <2>1, <2>2, SendAdds
<1>7. ASSUME NEW r, W!Revoke(r) PROVE WizardInv'
  <2>1. W!Send("revoke", r) /\ UNCHANGED <<step, draft, shown, made, lost, changed>>
    BY <1>7 DEF W!Revoke, W!wizard
  <2> QED
    BY <1>1, <2>1, SendAdds
<1>8. ASSUME NEW i \in DOMAIN sends, W!HandleCreate(i) PROVE WizardInv'
  <2> DEFINE v == W!Verdict(sends[i].row)
  <2>1. /\ sends[i].op = "create" /\ sends[i].phase = "sent" /\ W!Answer(i, v)
        /\ made' = made + IF v = "ok" /\ sends[i].mounted THEN 1 ELSE 0
        /\ UNCHANGED <<step, draft, changed, shown, lost>>
    BY <1>8 DEF W!HandleCreate
  <2>2. v \in WizardAnswers
    BY DEF W!Verdict, WizardAnswers
  <2> HIDE DEF v
  <2>3. sends' = [sends EXCEPT ![i] = [sends[i] EXCEPT !.phase = "answered", !.answer = v]]
    BY <2>1 DEF W!Answer
  <2>4. Own(sends[i]) => made <= lost
    BY <1>1, <2>1 DEF Told
  <2>5. ~Own(sends[i]) => made' = made
    BY <1>1, <2>1 DEF Own
  <2>6. /\ made' \in Nat
        /\ Own(sends[i]) => /\ made' <= 1 + lost
                            /\ v # "ok" => made' <= lost
                            /\ v = "ok" => made' >= 1
    <3>1. CASE v = "ok" /\ sends[i].mounted
      BY <1>1, <2>1, <2>4, <3>1
    <3>2. CASE ~(v = "ok" /\ sends[i].mounted)
      BY <1>1, <2>1, <2>4, <3>2 DEF Own
    <3> QED
      BY <3>1, <3>2
  <2> QED
    BY <1>1, <2>1, <2>2, <2>3, <2>5, <2>6, SendChanges
<1>9. ASSUME NEW i \in DOMAIN sends, W!HandleRevoke(i) PROVE WizardInv'
  <2>1. /\ sends[i].op = "revoke" /\ W!Answer(i, "ok") /\ UNCHANGED W!wizard
    BY <1>9 DEF W!HandleRevoke
  <2>2. sends' = [sends EXCEPT ![i] = [sends[i] EXCEPT !.phase = "answered", !.answer = "ok"]]
    BY <2>1 DEF W!Answer
  <2>3. ~Own(sends[i]) /\ UNCHANGED <<step, draft, changed, shown, made, lost>>
    BY <2>1 DEF Own, W!wizard
  <2> QED
    BY <1>1, <2>2, <2>3, SendChanges DEF WizardAnswers
<1>10. ASSUME NEW i \in DOMAIN sends, W!Lose(i) PROVE WizardInv'
  <2>1. /\ sends[i].phase \in {"sent", "answered"} /\ W!Answer(i, "failed")
        /\ lost' = lost + IF sends[i].op = "create" /\ sends[i].mounted /\ sends[i].phase = "answered"
                          THEN 1 ELSE 0
        /\ UNCHANGED <<step, draft, changed, shown, made>>
    BY <1>10 DEF W!Lose
  <2>2. sends' = [sends EXCEPT ![i] = [sends[i] EXCEPT !.phase = "answered", !.answer = "failed"]]
    BY <2>1 DEF W!Answer
  <2>3. ~Own(sends[i]) => lost' = lost
    BY <1>1, <2>1 DEF Own
  <2>4. made <= 1 + lost
    BY DEF WizardInv, WizardCounts
  <2>5. /\ lost' \in Nat
        /\ Own(sends[i]) => made <= lost'
    <3>1. CASE sends[i].op = "create" /\ sends[i].mounted /\ sends[i].phase = "answered"
      BY <1>1, <2>1, <2>4, <3>1
    <3>2. CASE ~(sends[i].op = "create" /\ sends[i].mounted /\ sends[i].phase = "answered")
      BY <1>1, <2>1, <3>2 DEF Own, Told
    <3> QED
      BY <3>1, <3>2
  <2>6. Own(sends[i]) => made <= 1 + lost' /\ made <= lost'
    <3> SUFFICES ASSUME Own(sends[i]) PROVE made <= 1 + lost' /\ made <= lost'
      OBVIOUS
    <3>1. made <= lost' /\ lost' \in Nat
      BY <2>5
    <3>2. made \in Nat
      BY <1>1
    <3>3. ASSUME NEW a \in Nat, NEW b \in Nat, a <= b PROVE a <= 1 + b
      BY <3>3
    <3>4. made <= 1 + lost'
      BY <3>1, <3>2, <3>3
    <3> QED
      BY <3>1, <3>4
  <2> QED
    BY <1>1, <2>1, <2>2, <2>3, <2>5, <2>6, SendChanges DEF WizardAnswers
<1>11. ASSUME NEW i \in DOMAIN sends, W!Refetch(i) PROVE WizardInv'
  <2>1. /\ sends[i].phase = "answered" /\ sends[i].answer = "ok"
        /\ sends' = [sends EXCEPT ![i].phase = "settling"]
        /\ UNCHANGED <<step, draft, changed, shown, made, lost>>
    BY <1>11 DEF W!Refetch, W!wizard
  <2>2. sends[i] \in WizardSends(D)
    BY <1>0
  <2>3. [sends[i] EXCEPT !.phase = "settling"]
          = [sends[i] EXCEPT !.phase = "settling", !.answer = "ok"]
    BY <2>1, <2>2 DEF WizardSends
  <2>4. sends' = [sends EXCEPT ![i] = [sends[i] EXCEPT !.phase = "settling", !.answer = "ok"]]
    BY <2>1, <2>3
  <2>5. made <= 1 + lost
    BY DEF WizardInv, WizardCounts
  <2>6. Own(sends[i]) => made >= 1
    BY <1>1, <2>1 DEF Told
  <2> QED
    BY <1>1, <2>1, <2>4, <2>5, <2>6, SendChanges DEF WizardAnswers
<1>12. ASSUME NEW i \in DOMAIN sends, W!End(i) PROVE WizardInv'
  BY <1>12, SendEnds
<1>13. CASE W!Deliver
  <2>1. /\ step' = step /\ UNCHANGED <<shown, made, lost, sends>>
        /\ changed' = (changed \/ draft' # draft)
    BY <1>13 DEF W!Deliver
  <2>2. changed' \in BOOLEAN /\ (changed' \/ (changed' = changed /\ draft' = draft))
    BY <1>1, <2>1
  <2> QED
    BY <1>1, <2>1, <2>2, WizardStays
<1>14. CASE W!HandleFetch \/ W!FailFetch \/ W!Focus \/ W!Elsewhere \/ UNCHANGED W!vars
  <2>1. UNCHANGED <<step, draft, changed, shown, made, lost, sends>>
    BY <1>14 DEF W!HandleFetch, W!FailFetch, W!Focus, W!Elsewhere, W!wizard, W!vars
  <2> QED
    BY <1>1, <2>1, WizardStays
<1> QED
  BY <1>2, <1>3, <1>4, <1>5, <1>6, <1>7, <1>8, <1>9, <1>10, <1>11, <1>12, <1>13, <1>14 DEF W!Next

\* One opening of a wizard sets one challenge, or one more for every answer that was lost, and
\* its last step tells of what was set (CreateChallengeScreen.tsx, CreateChallengeInviteScreen.tsx).
THEOREM WizardSetsOnce == W!Spec => []W!SetOnce
<1>1. WizardInv => W!SetOnce
  BY DEF WizardInv, WizardCounts, W!SetOnce
<1> QED
  BY <1>1, InitWizard, NextWizard, PTL DEF W!Spec

-----------------------------------------------------------------------------
(* Induction over the numbers up to N, and what filtering a list leaves.   *)

Before == {p \in Nat \X Nat : p[1] < p[2]}

LEMMA BeforeIsWellFounded == IsWellFoundedOn(Before, Nat)
BY NatLessThanWellFounded DEF OpToRel, Before

LEMMA UpTo ==
  ASSUME NEW N \in Nat, NEW Up \in SUBSET (0 .. N), 0 \in Up,
         \A n \in Up : n < N => n + 1 \in Up
  PROVE  Up = 0 .. N
<1> DEFINE Rest == (0 .. N) \ Up
<1>1. SUFFICES ASSUME Rest # {} PROVE FALSE
  OBVIOUS
<1>2. PICK x \in Rest : \A y \in Rest : ~(<<y, x>> \in Before)
  <2>1. Rest \subseteq Nat
    OBVIOUS
  <2> QED
    BY <1>1, <2>1, BeforeIsWellFounded, WFMin
<1>3. x # 0 /\ x - 1 \in 0 .. N /\ x - 1 < N /\ (x - 1) + 1 = x
  OBVIOUS
<1>4. CASE x - 1 \in Up
  <2>1. (x - 1) + 1 \in Up
    BY <1>3, <1>4
  <2> QED
    BY <1>3, <2>1
<1>5. CASE x - 1 \notin Up
  <2>1. <<x - 1, x>> \in Before
    BY <1>3 DEF Before
  <2> QED
    BY <1>2, <1>3, <1>5, <2>1
<1> QED
  BY <1>4, <1>5

\* The prefixes of a list, filtered.
Filters(g, s, S) ==
  /\ DOMAIN g = 0 .. Len(s) /\ g[0] = <<>>
  /\ \A i \in 1 .. Len(s) : g[i] = IF s[i] \in S THEN Append(g[i - 1], s[i]) ELSE g[i - 1]

\* The recursion of Filter is well defined.
LEMMA FilterIs ==
  ASSUME NEW D, NEW s \in Seq(D), NEW S
  PROVE  \E g : Filters(g, s, S) /\ O!Filter(s, S) = g[Len(s)]
<1> DEFINE N == Len(s)
           Chain(g, n) == g = [i \in 0 .. n |-> IF i = 0 THEN <<>>
                                                ELSE IF s[i] \in S THEN Append(g[i - 1], s[i]) ELSE g[i - 1]]
           Up == {n \in 0 .. N : \E g : Chain(g, n)}
<1>1. N \in Nat
  OBVIOUS
<1>2. 0 \in Up
  <2>1. Chain([i \in 0 .. 0 |-> <<>>], 0)
    OBVIOUS
  <2>2. 0 \in 0 .. N
    BY <1>1
  <2> QED
    BY <2>1, <2>2
<1>3. ASSUME NEW n \in Up, n < N PROVE n + 1 \in Up
  <2>1. PICK g : Chain(g, n)
    OBVIOUS
  <2> DEFINE last == IF s[n + 1] \in S THEN Append(g[n], s[n + 1]) ELSE g[n]
             h == [i \in 0 .. (n + 1) |-> IF i = n + 1 THEN last ELSE g[i]]
             k == [i \in 0 .. (n + 1) |-> IF i = 0 THEN <<>>
                                          ELSE IF s[i] \in S THEN Append(h[i - 1], s[i]) ELSE h[i - 1]]
  <2>0. n \in Nat
    BY <1>1
  <2>2. ASSUME NEW i \in 0 .. (n + 1) PROVE h[i] = k[i]
    <3>1. CASE i = n + 1
      <4>1. n \in 0 .. (n + 1) /\ n # n + 1 /\ i - 1 = n /\ i # 0
        BY <2>0, <3>1
      <4>2. h[i - 1] = g[n]
        BY <4>1
      <4> QED
        BY <3>1, <4>1, <4>2
    <3>2. CASE i = 0
      <4>1. g[0] = <<>> /\ 0 # n + 1
        BY <2>0, <2>1
      <4> QED
        BY <3>2, <4>1
    <3>3. CASE i # 0 /\ i # n + 1
      <4>1. i \in 0 .. n /\ i - 1 \in 0 .. (n + 1) /\ i - 1 # n + 1
        BY <2>0, <3>3
      <4>2. h[i] = g[i] /\ h[i - 1] = g[i - 1]
        BY <3>3, <4>1
      <4>3. g[i] = IF s[i] \in S THEN Append(g[i - 1], s[i]) ELSE g[i - 1]
        BY <2>1, <3>3, <4>1
      <4> QED
        BY <3>3, <4>2, <4>3
    <3> QED
      BY <3>1, <3>2, <3>3
  <2>3. h = k
    BY <2>2
  <2>4. Chain(h, n + 1)
    BY <2>3
  <2>5. \E q : Chain(q, n + 1)
    <3> HIDE DEF h, Chain
    <3> QED
      BY <2>4
  <2>6. n + 1 \in 0 .. N
    BY <1>1, <1>3, <2>0
  <2> HIDE DEF Chain
  <2> QED
    BY <2>5, <2>6
<1> HIDE DEF Up
<1>4. Up = 0 .. N
  <2>1. Up \in SUBSET (0 .. N)
    BY DEF Up
  <2> QED
    BY <1>1, <1>2, <1>3, <2>1, UpTo
<1>5. \E g : Chain(g, N)
  <2>1. N \in Up
    BY <1>1, <1>4
  <2> QED
    BY <2>1 DEF Up
<1> DEFINE kept == CHOOSE g : Chain(g, N)
<1>6. Chain(kept, N)
  BY <1>5
<1>7. O!Filter(s, S) = kept[N]
  BY DEF O!Filter
<1> HIDE DEF kept
<1>8. ASSUME NEW i \in 1 .. N
      PROVE  kept[i] = IF s[i] \in S THEN Append(kept[i - 1], s[i]) ELSE kept[i - 1]
  <2> DEFINE next(j) == IF s[j] \in S THEN Append(kept[j - 1], s[j]) ELSE kept[j - 1]
  <2>1. kept = [j \in 0 .. N |-> IF j = 0 THEN <<>> ELSE next(j)]
    BY <1>6
  <2>2. i \in 0 .. N /\ i # 0
    BY <1>1
  <2> HIDE DEF next
  <2>3. kept[i] = next(i)
    BY <2>1, <2>2
  <2> QED
    BY <2>3 DEF next
<1>9. DOMAIN kept = 0 .. N /\ kept[0] = <<>>
  BY <1>1, <1>6
<1> QED
  BY <1>7, <1>8, <1>9 DEF Filters

\* What is left was there, and is in the set; and all of that is left.
LEMMA FilterHas ==
  ASSUME NEW D, NEW s \in Seq(D), NEW S
  PROVE  /\ O!Filter(s, S) \in Seq(D \cap S)
         /\ O!ToSet(O!Filter(s, S)) = O!ToSet(s) \cap S
<1> DEFINE N == Len(s)
           Had(n) == {s[i] : i \in 1 .. n} \cap S
<1>1. PICK g : Filters(g, s, S) /\ O!Filter(s, S) = g[N]
  BY FilterIs
<1>2. N \in Nat /\ DOMAIN s = 1 .. N
  OBVIOUS
<1> DEFINE Up == {n \in 0 .. N : g[n] \in Seq(D \cap S) /\ O!ToSet(g[n]) = Had(n)}
<1>3. 0 \in Up
  <2>1. g[0] = <<>> /\ 0 \in 0 .. N
    BY <1>1, <1>2 DEF Filters
  <2>2. O!ToSet(<<>>) = {}
    BY DEF O!ToSet
  <2>3. Had(0) = {}
    OBVIOUS
  <2>4. g[0] \in Seq(D \cap S) /\ O!ToSet(g[0]) = Had(0)
    BY <2>1, <2>2, <2>3
  <2> QED
    BY <2>1, <2>4
<1>4. ASSUME NEW n \in Up, n < N PROVE n + 1 \in Up
  <2>1. n \in Nat /\ n + 1 \in 1 .. N /\ (n + 1) - 1 = n /\ g[n] \in Seq(D \cap S) /\ O!ToSet(g[n]) = Had(n)
    BY <1>2, <1>4
  <2>2. g[n + 1] = IF s[n + 1] \in S THEN Append(g[n], s[n + 1]) ELSE g[n]
    BY <1>1, <2>1 DEF Filters
  <2>3. s[n + 1] \in D
    BY <1>2, <2>1
  <2>4. {s[i] : i \in 1 .. (n + 1)} = {s[i] : i \in 1 .. n} \cup {s[n + 1]}
    <3>1. \A i \in 1 .. (n + 1) : i \in 1 .. n \/ i = n + 1
      BY <2>1
    <3>2. n + 1 \in 1 .. (n + 1) /\ \A i \in 1 .. n : i \in 1 .. (n + 1)
      BY <2>1
    <3> QED
      BY <3>1, <3>2
  <2>5. CASE s[n + 1] \in S
    <3>1. g[n + 1] = Append(g[n], s[n + 1]) /\ s[n + 1] \in D \cap S
      BY <2>2, <2>3, <2>5
    <3>2. /\ g[n + 1] \in Seq(D \cap S) /\ Len(g[n]) \in Nat
          /\ DOMAIN g[n + 1] = 1 .. (Len(g[n]) + 1) /\ DOMAIN g[n] = 1 .. Len(g[n])
          /\ \A i \in 1 .. Len(g[n]) : g[n + 1][i] = g[n][i]
          /\ g[n + 1][Len(g[n]) + 1] = s[n + 1]
      BY <2>1, <3>1, AppendProperties
    <3>3. O!ToSet(g[n + 1]) = O!ToSet(g[n]) \cup {s[n + 1]}
      <4>1. \A i \in DOMAIN g[n + 1] : i \in DOMAIN g[n] \/ i = Len(g[n]) + 1
        BY <3>2
      <4>2. Len(g[n]) + 1 \in DOMAIN g[n + 1] /\ \A i \in DOMAIN g[n] : i \in DOMAIN g[n + 1]
        BY <3>2
      <4> QED
        BY <3>2, <4>1, <4>2 DEF O!ToSet
    <3> QED
      BY <2>1, <2>4, <2>5, <3>2, <3>3
  <2>6. CASE s[n + 1] \notin S
    <3>1. g[n + 1] = g[n] /\ Had(n + 1) = Had(n)
      BY <2>2, <2>4, <2>6
    <3> QED
      BY <2>1, <3>1
  <2> QED
    BY <2>5, <2>6
<1> HIDE DEF Up
<1>5. Up = 0 .. N
  <2>1. Up \in SUBSET (0 .. N)
    BY DEF Up
  <2> QED
    BY <1>2, <1>3, <1>4, <2>1, UpTo
<1>6. N \in Up
  BY <1>2, <1>5
<1>7. O!ToSet(s) = {s[i] : i \in 1 .. N}
  BY <1>2 DEF O!ToSet
<1> QED
  BY <1>1, <1>6, <1>7 DEF Up

\* Only what the list has matters of the set.
LEMMA FilterSame ==
  ASSUME NEW D, NEW s \in Seq(D), NEW S, NEW U, O!ToSet(s) \cap S = O!ToSet(s) \cap U
  PROVE  O!Filter(s, S) = O!Filter(s, U)
<1> DEFINE N == Len(s)
<1>1. PICK g : Filters(g, s, S) /\ O!Filter(s, S) = g[N]
  BY FilterIs
<1>2. PICK h : Filters(h, s, U) /\ O!Filter(s, U) = h[N]
  BY FilterIs
<1>3. N \in Nat /\ \A i \in 1 .. N : s[i] \in S <=> s[i] \in U
  BY DEF O!ToSet
<1> DEFINE Up == {n \in 0 .. N : g[n] = h[n]}
<1>4. 0 \in Up
  BY <1>1, <1>2, <1>3 DEF Filters
<1>5. ASSUME NEW n \in Up, n < N PROVE n + 1 \in Up
  <2>1. n + 1 \in 1 .. N /\ (n + 1) - 1 = n /\ g[n] = h[n] /\ n + 1 \in 0 .. N
    BY <1>3, <1>5
  <2>2. /\ g[n + 1] = IF s[n + 1] \in S THEN Append(g[n], s[n + 1]) ELSE g[n]
        /\ h[n + 1] = IF s[n + 1] \in U THEN Append(h[n], s[n + 1]) ELSE h[n]
    BY <1>1, <1>2, <2>1 DEF Filters
  <2> QED
    BY <1>3, <2>1, <2>2
<1> HIDE DEF Up
<1>6. Up = 0 .. N
  <2>1. Up \in SUBSET (0 .. N)
    BY DEF Up
  <2> QED
    BY <1>3, <1>4, <1>5, <2>1, UpTo
<1>7. N \in Up
  BY <1>3, <1>6
<1> QED
  BY <1>1, <1>2, <1>7 DEF Up

LEMMA FilterNone ==
  ASSUME NEW D, NEW s \in Seq(D), NEW S, O!ToSet(s) \cap S = {}
  PROVE  O!Filter(s, S) = <<>>
<1>1. O!Filter(s, S) \in Seq(D \cap S) /\ O!ToSet(O!Filter(s, S)) = {}
  BY FilterHas
<1>2. DOMAIN O!Filter(s, S) = {}
  BY <1>1 DEF O!ToSet
<1> QED
  BY <1>1, <1>2

LEMMA FilterAll ==
  ASSUME NEW D, NEW s \in Seq(D), NEW S, O!ToSet(s) \subseteq S
  PROVE  O!Filter(s, S) = s
<1> DEFINE N == Len(s)
<1>1. PICK g : Filters(g, s, S) /\ O!Filter(s, S) = g[N]
  BY FilterIs
<1>2. N \in Nat /\ \A i \in 1 .. N : s[i] \in S /\ s[i] \in D
  BY DEF O!ToSet
<1> DEFINE Up == {n \in 0 .. N : g[n] \in Seq(D) /\ Len(g[n]) = n /\ \A i \in 1 .. n : g[n][i] = s[i]}
<1>3. 0 \in Up
  <2>1. g[0] = <<>> /\ 0 \in 0 .. N
    BY <1>1, <1>2 DEF Filters
  <2>2. <<>> \in Seq(D) /\ Len(<<>>) = 0
    OBVIOUS
  <2>3. g[0] \in Seq(D) /\ Len(g[0]) = 0
    BY <2>1, <2>2
  <2>4. \A i \in 1 .. 0 : g[0][i] = s[i]
    OBVIOUS
  <2> QED
    BY <2>1, <2>3, <2>4
<1>4. ASSUME NEW n \in Up, n < N PROVE n + 1 \in Up
  <2>1. n + 1 \in 1 .. N /\ (n + 1) - 1 = n /\ n + 1 \in 0 .. N /\ n \in Nat
    BY <1>2, <1>4
  <2>2. g[n + 1] = Append(g[n], s[n + 1]) /\ s[n + 1] \in D
    BY <1>1, <1>2, <2>1 DEF Filters
  <2>3. /\ g[n + 1] \in Seq(D) /\ Len(g[n + 1]) = n + 1
        /\ \A i \in 1 .. n : g[n + 1][i] = g[n][i]
        /\ g[n + 1][n + 1] = s[n + 1]
    BY <2>2, AppendProperties
  <2>4. \A i \in 1 .. (n + 1) : i \in 1 .. n \/ i = n + 1
    BY <2>1
  <2> QED
    BY <2>1, <2>3, <2>4
<1> HIDE DEF Up
<1>5. Up = 0 .. N
  <2>1. Up \in SUBSET (0 .. N)
    BY DEF Up
  <2> QED
    BY <1>2, <1>3, <1>4, <2>1, UpTo
<1>6. N \in Up
  BY <1>2, <1>5
<1>7. g[N] \in Seq(D) /\ Len(g[N]) = Len(s) /\ \A i \in 1 .. Len(s) : g[N][i] = s[i]
  BY <1>6 DEF Up
<1>8. g[N] = s
  BY <1>7, SeqEqual
<1> QED
  BY <1>1, <1>8

AppendsToConcat(x, y, e) == Append(x \o y, e) = x \o Append(y, e)

LEMMA AppendToConcat ==
  ASSUME NEW D, NEW x \in Seq(D), NEW y \in Seq(D), NEW e \in D
  PROVE  AppendsToConcat(x, y, e)
<1> DEFINE s == Append(x \o y, e)
           t == x \o Append(y, e)
<1>1. s \in Seq(D) /\ t \in Seq(D)
  OBVIOUS
<1>2. Len(s) = Len(t)
  OBVIOUS
<1>3. ASSUME NEW i \in 1 .. Len(s) PROVE s[i] = t[i]
  OBVIOUS
<1> HIDE DEF s, t
<1>4. s = t
  BY <1>1, <1>2, <1>3, SeqEqual
<1> QED
  BY <1>4 DEF s, t, AppendsToConcat

LEMMA FilterConcat ==
  ASSUME NEW D, NEW a \in Seq(D), NEW b \in Seq(D), NEW S
  PROVE  O!Filter(a \o b, S) = O!Filter(a, S) \o O!Filter(b, S)
<1>0. ASSUME NEW x \in Seq(D), NEW y \in Seq(D), NEW e \in D
      PROVE  AppendsToConcat(x, y, e)
  BY AppendToConcat
<1> DEFINE c == a \o b
           M1 == Len(a)
           M2 == Len(b)
<1>1. /\ c \in Seq(D) /\ Len(c) = M1 + M2 /\ M1 \in Nat /\ M2 \in Nat
      /\ \A i \in 1 .. M1 : c[i] = a[i]
      /\ \A i \in 1 .. M2 : c[M1 + i] = b[i]
  OBVIOUS
<1> HIDE DEF c
<1>2. PICK g : Filters(g, c, S) /\ O!Filter(c, S) = g[Len(c)]
  BY <1>1, FilterIs
<1>3. PICK ga : Filters(ga, a, S) /\ O!Filter(a, S) = ga[M1]
  BY FilterIs
<1>4. PICK gb : Filters(gb, b, S) /\ O!Filter(b, S) = gb[M2]
  BY FilterIs
<1>5. ga[M1] \in Seq(D)
  <2>1. O!Filter(a, S) \in Seq(D \cap S)
    BY FilterHas
  <2> QED
    BY <1>3, <2>1, SeqMonotonic
<1> DEFINE Up == {n \in 0 .. M1 : g[n] = ga[n]}
<1>6. 0 \in Up
  BY <1>1, <1>2, <1>3 DEF Filters
<1>7. ASSUME NEW n \in Up, n < M1 PROVE n + 1 \in Up
  <2>1. /\ n + 1 \in 1 .. M1 /\ n + 1 \in 1 .. Len(c) /\ (n + 1) - 1 = n /\ n + 1 \in 0 .. M1
        /\ g[n] = ga[n]
    BY <1>1, <1>7
  <2>2. /\ g[n + 1] = IF c[n + 1] \in S THEN Append(g[n], c[n + 1]) ELSE g[n]
        /\ ga[n + 1] = IF a[n + 1] \in S THEN Append(ga[n], a[n + 1]) ELSE ga[n]
        /\ c[n + 1] = a[n + 1]
    BY <1>1, <1>2, <1>3, <2>1 DEF Filters
  <2> QED
    BY <2>1, <2>2
<1> HIDE DEF Up
<1>8. Up = 0 .. M1
  <2>1. Up \in SUBSET (0 .. M1)
    BY DEF Up
  <2> QED
    BY <1>1, <1>6, <1>7, <2>1, UpTo
<1>9. g[M1] = ga[M1]
  <2>1. M1 \in Up
    BY <1>1, <1>8
  <2> QED
    BY <2>1 DEF Up
<1> DEFINE V == {n \in 0 .. M2 : gb[n] \in Seq(D) /\ g[M1 + n] = ga[M1] \o gb[n]}
<1>10. 0 \in V
  <2>1. gb[0] = <<>> /\ M1 + 0 = M1 /\ 0 \in 0 .. M2
    BY <1>1, <1>4 DEF Filters
  <2>2. <<>> \in Seq(D) /\ ga[M1] \o <<>> = ga[M1]
    BY <1>5, ConcatEmptySeq
  <2> QED
    BY <1>9, <2>1, <2>2
<1>11. ASSUME NEW n \in V, n < M2 PROVE n + 1 \in V
  <2>0. ASSUME NEW x \in Nat, NEW y \in Nat, NEW z \in 0 .. y, z < y
        PROVE  /\ z + 1 \in 1 .. y /\ (z + 1) - 1 = z /\ z + 1 \in 0 .. y
               /\ x + (z + 1) \in 1 .. (x + y) /\ (x + (z + 1)) - 1 = x + z
    <3>1. z \in Nat /\ z + 1 >= 1 /\ z + 1 <= y
      BY <2>0
    <3>2. z + 1 \in 1 .. y /\ z + 1 \in 0 .. y
      BY <3>1
    <3>3. (z + 1) - 1 = z /\ (x + (z + 1)) - 1 = x + z
      BY <3>1
    <3>4. x + (z + 1) >= 1 /\ x + (z + 1) <= x + y /\ x + (z + 1) \in Int /\ x + y \in Int
      BY <3>1
    <3> QED
      BY <3>2, <3>3, <3>4
  <2>00. n \in 0 .. M2 /\ gb[n] \in Seq(D) /\ g[M1 + n] = ga[M1] \o gb[n]
    BY <1>11
  <2>1. /\ n + 1 \in 1 .. M2 /\ (n + 1) - 1 = n /\ n + 1 \in 0 .. M2
        /\ M1 + (n + 1) \in 1 .. Len(c) /\ (M1 + (n + 1)) - 1 = M1 + n
        /\ gb[n] \in Seq(D) /\ g[M1 + n] = ga[M1] \o gb[n]
    BY <1>1, <1>11, <2>0, <2>00
  <2>2. /\ gb[n + 1] = IF b[n + 1] \in S THEN Append(gb[n], b[n + 1]) ELSE gb[n]
        /\ c[M1 + (n + 1)] = b[n + 1]
    BY <1>1, <1>4, <2>1 DEF Filters
  <2>3. g[M1 + (n + 1)] = IF c[M1 + (n + 1)] \in S THEN Append(g[M1 + n], c[M1 + (n + 1)])
                          ELSE g[M1 + n]
    BY <1>2, <2>1 DEF Filters
  <2>4. b[n + 1] \in D
    BY <2>1
  <2>5. CASE b[n + 1] \in S
    <3>1. gb[n + 1] = Append(gb[n], b[n + 1]) /\ gb[n + 1] \in Seq(D)
      BY <2>1, <2>2, <2>4, <2>5
    <3>2. g[M1 + (n + 1)] = Append(ga[M1] \o gb[n], b[n + 1])
      BY <2>1, <2>2, <2>3, <2>5
    <3>4. g[M1 + (n + 1)] = ga[M1] \o gb[n + 1]
      <4>1. Append(ga[M1] \o gb[n], b[n + 1]) = ga[M1] \o Append(gb[n], b[n + 1])
        <5>1. AppendsToConcat(ga[M1], gb[n], b[n + 1])
          BY <1>0, <1>5, <2>1, <2>4
        <5> QED
          BY <5>1 DEF AppendsToConcat
      <4> QED
        BY <3>1, <3>2, <4>1
    <3> QED
      BY <2>1, <3>1, <3>4
  <2>6. CASE b[n + 1] \notin S
    BY <2>1, <2>2, <2>3, <2>6
  <2> QED
    BY <2>5, <2>6
<1> HIDE DEF V
<1>12. V = 0 .. M2
  <2>1. V \in SUBSET (0 .. M2)
    BY DEF V
  <2> QED
    BY <1>1, <1>10, <1>11, <2>1, UpTo
<1>13. g[M1 + M2] = ga[M1] \o gb[M2]
  <2>1. M2 \in V
    BY <1>1, <1>12
  <2> QED
    BY <2>1 DEF V
<1> QED
  BY <1>1, <1>2, <1>3, <1>4, <1>13 DEF c

-----------------------------------------------------------------------------
(* Wizards: the types.                                                    *)

\* A set of numbers that is not empty has a least one.
LEMMA LeastIs ==
  ASSUME NEW S \in SUBSET Nat, S # {}
  PROVE  \E x \in S : \A y \in S : x <= y
<1>1. PICK x \in S : \A y \in S : ~(<<y, x>> \in Before)
  BY BeforeIsWellFounded, WFMin
<1>2. \A y \in S : x <= y
  <2> SUFFICES ASSUME NEW y \in S PROVE x <= y
    OBVIOUS
  <2>1. ~(y < x) /\ x \in Nat /\ y \in Nat
    BY <1>1 DEF Before
  <2> QED
    BY <2>1
<1> QED
  BY <1>2

\* Removing the first of its kind leaves a list that is no longer.
LEMMA RemovedFirst ==
  ASSUME NEW S, NEW s \in Seq(S), NEW e
  PROVE  W!RemoveFirst(s, e) \in Seq(S) /\ Len(W!RemoveFirst(s, e)) <= Len(s)
<1>1. CASE e \in W!ToSet(s)
  <2> DEFINE I == {i \in DOMAIN s : s[i] = e}
             Least(i) == s[i] = e /\ \A j \in DOMAIN s : s[j] = e => i <= j
             k == CHOOSE i \in DOMAIN s : Least(i)
  <2>1. I # {} /\ I \in SUBSET Nat
    BY <1>1 DEF W!ToSet
  <2>2. \E i \in DOMAIN s : Least(i)
    <3>1. PICK i \in I : \A j \in I : i <= j
      BY <2>1, LeastIs
    <3> QED
      BY <3>1
  <2>3. W!RemoveFirst(s, e) = W!RemoveAt(s, k)
    BY <1>1 DEF W!RemoveFirst
  <2>4. k \in DOMAIN s /\ Len(s) \in Nat
    <3> HIDE DEF Least
    <3> QED
      BY <2>2
  <2> HIDE DEF k
  <2> QED
    BY <2>3, <2>4, RemovedInWizard
<1>2. CASE e \notin W!ToSet(s)
  <2>1. W!RemoveFirst(s, e) = s
    BY <1>2 DEF W!RemoveFirst
  <2> QED
    BY <2>1
<1> QED
  BY <1>1, <1>2

\* A goal can be set, in strides, and there is a bound on the pending invites
\* (CreateChallengeScreen.tsx, invite_service.go).
Goals == MaxTarget \in Nat /\ DefaultTarget \in 1 .. MaxTarget /\ Stride \in Nat /\ Cap \in Nat

Drafts == [habit : WizardHabits \cup {W!None}, target : 1 .. MaxTarget,
           reward : Rewards \cup {W!None}]

\* What the cached list, or a fetch of it, holds: habits, or invites.
Listable == IF kind = "challenge" THEN WizardHabits ELSE Drafts

WizardLists ==
  /\ kind \in {"challenge", "invite"}
  /\ list.set \subseteq Listable
  /\ fetch.phase \in {"idle", "sent", "answered"} /\ fetch.set \subseteq Listable
  /\ shared \subseteq WizardHabits

WizardRows ==
  /\ draft \in Drafts /\ sends \in Seq(WizardSends(Drafts)) /\ rows \in Seq(Drafts)
  /\ kind = "invite" => Len(rows) <= Cap
  /\ error \in {W!None, "invalid", "conflict", "failed"}

LEMMA SingleIs ==
  ASSUME NEW set, set \subseteq Listable PROVE W!Single(set) \in WizardHabits \cup {W!None}
<1>1. CASE kind = "challenge" /\ W!Cardinality(set) = 1
  <2>1. W!Cardinality(set) = Cardinality(set)
    BY DEF W!Cardinality, Cardinality
  <2>2. set # {}
    BY <1>1, <2>1, FS_EmptySet
  <2>3. set \subseteq WizardHabits
    BY <1>1 DEF Listable
  <2> QED
    BY <1>1, <2>2, <2>3 DEF W!Single
<1>2. CASE ~(kind = "challenge" /\ W!Cardinality(set) = 1)
  BY <1>2 DEF W!Single
<1> QED
  BY <1>1, <1>2

LEMMA InitWizardTypes == ASSUME Goals, W!Init PROVE WizardLists /\ WizardRows
<1>1. /\ kind \in {"challenge", "invite"} /\ list.set = {} /\ fetch.set = {} /\ fetch.phase = "sent"
      /\ rows = <<>> /\ sends = <<>> /\ error = W!None
      /\ shared \in IF kind = "challenge" THEN SUBSET WizardHabits ELSE {{}}
      /\ draft = [habit |-> W!None, target |-> DefaultTarget, reward |-> W!None]
  BY DEF W!Init, W!Unread, W!NoFetch, W!Blank
<1>2. draft \in Drafts
  BY <1>1 DEF Drafts, Goals
<1>3. sends \in Seq(WizardSends(Drafts)) /\ rows \in Seq(Drafts) /\ Len(rows) = 0
  BY <1>1
<1>4. 0 <= Cap
  BY DEF Goals
<1>5. WizardRows
  BY <1>1, <1>2, <1>3, <1>4 DEF WizardRows
<1>6. WizardLists
  BY <1>1 DEF WizardLists
<1> QED
  BY <1>5, <1>6

\* The cached list.
LEMMA NextWizardLists ==
  ASSUME WizardLists, WizardRows, [W!Next]_(W!vars) PROVE WizardLists'
<1>1. kind' = kind
  BY DEF W!Next, W!vars, W!GoNext, W!GoBack, W!Reopen, W!HandleSubmit, W!HandleFetch, W!Deliver,
    W!FailFetch, W!Focus, W!Elsewhere, W!SelectHabit, W!ProposeHabit, W!SetTarget, W!SetReward,
    W!Edited, W!Revoke, W!HandleCreate, W!HandleRevoke, W!Lose, W!Refetch, W!End
<1>2. Listable' = Listable
  BY <1>1 DEF Listable
<1>3. CASE UNCHANGED <<list, shared>> /\ (fetch' = fetch \/ fetch' = [W!NoFetch EXCEPT !.phase = "sent"]
                                          \/ fetch' = W!NoFetch)
  <2>1. /\ [W!NoFetch EXCEPT !.phase = "sent"].phase = "sent"
        /\ [W!NoFetch EXCEPT !.phase = "sent"].set = {}
        /\ W!NoFetch.phase = "idle" /\ W!NoFetch.set = {}
    BY DEF W!NoFetch
  <2>2. fetch'.phase \in {"idle", "sent", "answered"} /\ fetch'.set \subseteq Listable
    BY <1>3, <2>1 DEF WizardLists
  <2> QED
    BY <1>1, <1>2, <1>3, <2>2 DEF WizardLists
<1>4. CASE W!GoNext \/ W!GoBack \/ W!Reopen \/ W!HandleSubmit \/ W!FailFetch \/ W!Focus
  BY <1>3, <1>4 DEF W!GoNext, W!GoBack, W!Reopen, W!HandleSubmit, W!FailFetch, W!Focus, W!query,
    W!server
<1>5. ASSUME NEW h, W!SelectHabit(h) \/ W!ProposeHabit(h) \/ W!SetTarget(h) \/ W!SetReward(h)
                    \/ W!Revoke(h)
      PROVE  WizardLists'
  BY <1>3, <1>5 DEF W!SelectHabit, W!ProposeHabit, W!SetTarget, W!SetReward, W!Edited, W!Revoke,
    W!query, W!server
<1>6. ASSUME NEW i, W!HandleCreate(i) \/ W!HandleRevoke(i) \/ W!Lose(i) \/ W!Refetch(i) \/ W!End(i)
      PROVE  WizardLists'
  BY <1>3, <1>6 DEF W!HandleCreate, W!HandleRevoke, W!Lose, W!Refetch, W!End, W!query, W!server
<1>7. CASE W!HandleFetch
  <2>1. fetch' = [phase |-> "answered", set |-> W!Truth] /\ UNCHANGED <<list, shared>>
    BY <1>7 DEF W!HandleFetch, W!server
  <2>2. W!Truth \subseteq Listable
    <3>1. \A i \in DOMAIN rows : rows[i] \in Drafts
      BY DEF WizardRows
    <3> QED
      BY <3>1 DEF W!Truth, Listable, WizardLists
  <2> QED
    BY <1>1, <1>2, <2>1, <2>2 DEF WizardLists
<1>8. CASE W!Deliver
  <2>1. /\ list'.set = fetch.set /\ fetch' = W!NoFetch /\ shared' = shared
    BY <1>8 DEF W!Deliver, W!server
  <2>2. W!NoFetch.phase = "idle" /\ W!NoFetch.set = {}
    BY DEF W!NoFetch
  <2> QED
    BY <1>1, <1>2, <2>1, <2>2 DEF WizardLists
<1>9. CASE W!Elsewhere
  <2>1. UNCHANGED <<list, fetch>> /\ (shared' = shared \/ shared' \subseteq WizardHabits)
    BY <1>9 DEF W!Elsewhere, W!query
  <2> QED
    BY <1>1, <1>2, <2>1 DEF WizardLists
<1>10. CASE UNCHANGED W!vars
  BY <1>3, <1>10 DEF W!vars, W!query, W!server
<1> QED
  BY <1>4, <1>5, <1>6, <1>7, <1>8, <1>9, <1>10 DEF W!Next

\* The requests and the rows.
LEMMA NextWizardRows ==
  ASSUME Goals, WizardLists, WizardRows, [W!Next]_(W!vars) PROVE WizardRows'
<1>0. /\ draft \in Drafts /\ sends \in Seq(WizardSends(Drafts)) /\ rows \in Seq(Drafts)
      /\ kind = "invite" => Len(rows) <= Cap
      /\ error \in {W!None, "invalid", "conflict", "failed"}
      /\ Len(rows) \in Nat /\ Cap \in Nat
  BY DEF WizardRows, Goals
<1>1. kind' = kind
  BY DEF W!Next, W!vars, W!GoNext, W!GoBack, W!Reopen, W!HandleSubmit, W!HandleFetch, W!Deliver,
    W!FailFetch, W!Focus, W!Elsewhere, W!SelectHabit, W!ProposeHabit, W!SetTarget, W!SetReward,
    W!Edited, W!Revoke, W!HandleCreate, W!HandleRevoke, W!Lose, W!Refetch, W!End
<1>2. \A i \in DOMAIN sends : sends[i] \in WizardSends(Drafts)
  BY <1>0
<1>3. CASE W!GoNext \/ W!GoBack \/ W!HandleFetch \/ W!FailFetch \/ W!Focus \/ UNCHANGED W!vars
  <2>1. UNCHANGED <<draft, sends, rows, error>>
    BY <1>3 DEF W!GoNext, W!GoBack, W!HandleFetch, W!FailFetch, W!Focus, W!wizard, W!server, W!vars
  <2> QED
    BY <1>1, <2>1 DEF WizardRows
<1>4. ASSUME NEW h \in WizardHabits \cup {W!None}, draft' = [draft EXCEPT !.habit = h],
             UNCHANGED <<sends, rows, error>>
      PROVE  WizardRows'
  <2>1. draft' \in Drafts
    BY <1>0, <1>4 DEF Drafts
  <2> QED
    BY <1>0, <1>1, <1>4, <2>1 DEF WizardRows
<1>5. ASSUME NEW h \in WizardHabits, W!SelectHabit(h) \/ W!ProposeHabit(h) PROVE WizardRows'
  BY <1>4, <1>5 DEF W!SelectHabit, W!ProposeHabit, W!Edited, W!server
<1>6. ASSUME NEW up \in BOOLEAN, W!SetTarget(up) PROVE WizardRows'
  <2> DEFINE t == draft.target
             n == IF up THEN IF t + Stride > MaxTarget THEN MaxTarget ELSE t + Stride
                  ELSE IF t > Stride THEN t - Stride ELSE 1
  <2>1. draft' = [draft EXCEPT !.target = n] /\ UNCHANGED <<sends, rows, error>>
    BY <1>6 DEF W!SetTarget, W!Edited, W!server
  <2>2. t \in 1 .. MaxTarget
    BY <1>0 DEF Drafts
  <2>3. n \in 1 .. MaxTarget
    BY <2>2 DEF Goals
  <2> HIDE DEF t, n
  <2>4. draft' \in Drafts
    BY <1>0, <2>1, <2>3 DEF Drafts
  <2> QED
    BY <1>0, <1>1, <2>1, <2>4 DEF WizardRows
<1>7. ASSUME NEW r \in Rewards, W!SetReward(r) PROVE WizardRows'
  <2>1. draft' = [draft EXCEPT !.reward = r] /\ UNCHANGED <<sends, rows, error>>
    BY <1>7 DEF W!SetReward, W!Edited, W!server
  <2>2. draft' \in Drafts
    BY <1>0, <2>1 DEF Drafts
  <2> QED
    BY <1>0, <1>1, <2>1, <2>2 DEF WizardRows
<1>8. CASE W!Reopen
  <2>1. /\ error' = W!None /\ rows' = rows
        /\ draft' = [W!Blank EXCEPT !.habit = W!Single(list.set)]
        /\ sends' = [i \in DOMAIN sends |-> [sends[i] EXCEPT !.mounted = FALSE]]
    BY <1>8 DEF W!Reopen, W!server
  <2>2. W!Single(list.set) \in WizardHabits \cup {W!None}
    BY SingleIs DEF WizardLists
  <2>3. W!Blank \in Drafts
    BY DEF W!Blank, Drafts, Goals
  <2>4. draft' \in Drafts
    BY <2>1, <2>2, <2>3 DEF Drafts
  <2> DEFINE left(i) == [sends[i] EXCEPT !.mounted = FALSE]
  <2>5. DOMAIN sends = 1 .. Len(sends) /\ Len(sends) \in Nat
    BY <1>0
  <2>6. sends' = [i \in 1 .. Len(sends) |-> left(i)]
    BY <2>1, <2>5
  <2>7. \A i \in 1 .. Len(sends) : left(i) \in WizardSends(Drafts)
    BY <1>2, <2>5 DEF WizardSends
  <2> HIDE DEF left
  <2>8. sends' \in Seq(WizardSends(Drafts))
    BY <2>5, <2>6, <2>7, IsASeq
  <2> QED
    BY <1>0, <1>1, <2>1, <2>4, <2>8 DEF WizardRows
<1>9. ASSUME NEW o \in {"create", "revoke"}, NEW d \in Drafts, W!Send(o, d)
      PROVE  sends' \in Seq(WizardSends(Drafts))
  <2> DEFINE s == [op |-> o, row |-> d, mounted |-> TRUE, phase |-> "sent", answer |-> "ok"]
  <2>1. s \in WizardSends(Drafts)
    BY DEF WizardSends, WizardAnswers
  <2>2. sends' = Append(sends, s)
    BY <1>9 DEF W!Send
  <2> HIDE DEF s
  <2> QED
    BY <1>0, <2>1, <2>2, AppendProperties
<1>10. CASE W!HandleSubmit
  <2>1. W!Send("create", draft) /\ error' = W!None /\ UNCHANGED <<draft, rows>>
    BY <1>10 DEF W!HandleSubmit, W!server
  <2> QED
    BY <1>0, <1>1, <1>9, <2>1 DEF WizardRows
<1>11. ASSUME NEW d \in list.set, kind = "invite", W!Revoke(d) PROVE WizardRows'
  <2>1. W!Send("revoke", d) /\ UNCHANGED <<draft, rows, error>>
    BY <1>11 DEF W!Revoke, W!wizard, W!server
  <2>2. d \in Drafts
    BY <1>11 DEF WizardLists, Listable
  <2> QED
    BY <1>0, <1>1, <1>9, <2>1, <2>2 DEF WizardRows
<1>12. ASSUME NEW i \in DOMAIN sends, NEW phase \in {"answered", "settling"},
              NEW answer \in WizardAnswers,
              sends' = [sends EXCEPT ![i] = [sends[i] EXCEPT !.phase = phase, !.answer = answer]]
       PROVE  sends' \in Seq(WizardSends(Drafts))
  <2> DEFINE d == [sends[i] EXCEPT !.phase = phase, !.answer = answer]
  <2>1. d \in WizardSends(Drafts)
    BY <1>2 DEF WizardSends
  <2>2. sends' = [sends EXCEPT ![i] = d] /\ i \in 1 .. Len(sends)
    BY <1>0, <1>12
  <2> HIDE DEF d
  <2> QED
    BY <1>0, <2>1, <2>2, ExceptSeq
<1>13. ASSUME NEW i \in DOMAIN sends, W!HandleCreate(i) PROVE WizardRows'
  <2> DEFINE v == W!Verdict(sends[i].row)
  <2>1. /\ W!Answer(i, v) /\ UNCHANGED <<draft, error>>
        /\ rows' = IF v = "ok" THEN Append(rows, sends[i].row) ELSE rows
    BY <1>13 DEF W!HandleCreate
  <2>2. v \in WizardAnswers
    BY DEF W!Verdict, WizardAnswers
  <2>3. v = "ok" /\ kind = "invite" => ~(Len(rows) >= Cap)
    BY DEF W!Verdict
  <2> HIDE DEF v
  <2>4. sends' \in Seq(WizardSends(Drafts))
    BY <1>12, <2>1, <2>2 DEF W!Answer
  <2>5. sends[i].row \in Drafts
    BY <1>2 DEF WizardSends
  <2>6. rows' \in Seq(Drafts) /\ (kind = "invite" => Len(rows') <= Cap)
    <3>1. CASE v = "ok"
      <4>1. rows' \in Seq(Drafts) /\ Len(rows') = Len(rows) + 1
        BY <1>0, <2>1, <2>5, <3>1, AppendProperties
      <4> QED
        BY <1>0, <2>3, <3>1, <4>1
    <3>2. CASE v # "ok"
      BY <1>0, <2>1, <3>2
    <3> QED
      BY <3>1, <3>2
  <2> QED
    BY <1>0, <1>1, <2>1, <2>4, <2>6 DEF WizardRows
<1>14. ASSUME NEW i \in DOMAIN sends, W!HandleRevoke(i) PROVE WizardRows'
  <2>1. /\ W!Answer(i, "ok") /\ UNCHANGED <<draft, error>>
        /\ rows' = W!RemoveFirst(rows, sends[i].row)
    BY <1>14 DEF W!HandleRevoke, W!wizard
  <2>2. sends' \in Seq(WizardSends(Drafts))
    BY <1>12, <2>1 DEF W!Answer, WizardAnswers
  <2>3. rows' \in Seq(Drafts) /\ Len(rows') <= Len(rows) /\ Len(rows') \in Nat
    BY <1>0, <2>1, RemovedFirst
  <2>4. kind = "invite" => Len(rows') <= Cap
    BY <1>0, <2>3
  <2> QED
    BY <1>0, <1>1, <2>1, <2>2, <2>3, <2>4 DEF WizardRows
<1>15. ASSUME NEW i \in DOMAIN sends, W!Lose(i) PROVE WizardRows'
  <2>1. W!Answer(i, "failed") /\ UNCHANGED <<draft, error, rows>>
    BY <1>15 DEF W!Lose, W!server
  <2>2. sends' \in Seq(WizardSends(Drafts))
    BY <1>12, <2>1 DEF W!Answer, WizardAnswers
  <2> QED
    BY <1>0, <1>1, <2>1, <2>2 DEF WizardRows
<1>16. ASSUME NEW i \in DOMAIN sends, W!Refetch(i) PROVE WizardRows'
  <2>1. /\ sends[i].answer = "ok" /\ sends' = [sends EXCEPT ![i].phase = "settling"]
        /\ UNCHANGED <<draft, error, rows>>
    BY <1>16 DEF W!Refetch, W!wizard, W!server
  <2>2. [sends[i] EXCEPT !.phase = "settling"]
          = [sends[i] EXCEPT !.phase = "settling", !.answer = "ok"]
    BY <1>2, <2>1 DEF WizardSends
  <2>3. sends' = [sends EXCEPT ![i] = [sends[i] EXCEPT !.phase = "settling", !.answer = "ok"]]
    BY <2>1, <2>2
  <2>4. sends' \in Seq(WizardSends(Drafts))
    BY <1>12, <2>3 DEF WizardAnswers
  <2> QED
    BY <1>0, <1>1, <2>1, <2>4 DEF WizardRows
<1>17. ASSUME NEW i \in DOMAIN sends, W!End(i) PROVE WizardRows'
  <2>1. sends' = W!RemoveAt(sends, i) /\ UNCHANGED <<draft, rows>>
    BY <1>17 DEF W!End, W!server
  <2>2. sends' \in Seq(WizardSends(Drafts))
    BY <1>0, <2>1, RemovedInWizard
  <2>3. error' \in {W!None, "invalid", "conflict", "failed"}
    <3>1. sends[i].answer \in WizardAnswers
      BY <1>2 DEF WizardSends
    <3> QED
      BY <1>0, <1>17, <3>1 DEF W!End, WizardAnswers
  <2> QED
    BY <1>0, <1>1, <2>1, <2>2, <2>3 DEF WizardRows
<1>18. CASE W!Deliver
  <2>1. list'.set = fetch.set /\ UNCHANGED <<sends, rows, error>>
    BY <1>18 DEF W!Deliver, W!server
  <2> DEFINE one == W!Single(fetch.set)
  <2>2. one \in WizardHabits \cup {W!None}
    BY SingleIs DEF WizardLists
  <2>3. kind = kind' /\ (W!Single(list'.set) = one)
    BY <1>1, <2>1
  <2>4. draft' = draft \/ draft' = [draft EXCEPT !.habit = one]
    BY <1>18, <2>3 DEF W!Deliver
  <2> HIDE DEF one
  <2>5. CASE draft' = draft
    BY <1>0, <1>1, <2>1, <2>5 DEF WizardRows
  <2> QED
    BY <1>4, <2>1, <2>2, <2>4, <2>5
<1>19. CASE W!Elsewhere
  <2>1. UNCHANGED <<draft, sends, error>>
    BY <1>19 DEF W!Elsewhere, W!wizard
  <2>2. rows' = rows \/ \E i \in DOMAIN rows : rows' = W!RemoveAt(rows, i)
    BY <1>19 DEF W!Elsewhere
  <2>3. rows' \in Seq(Drafts) /\ Len(rows') \in Nat /\ Len(rows') <= Len(rows)
    <3>1. CASE rows' = rows
      BY <1>0, <3>1
    <3>2. ASSUME NEW i \in DOMAIN rows, rows' = W!RemoveAt(rows, i)
          PROVE  rows' \in Seq(Drafts) /\ Len(rows') \in Nat /\ Len(rows') <= Len(rows)
      BY <1>0, <3>2, RemovedInWizard
    <3> QED
      BY <2>2, <3>1, <3>2
  <2>4. kind = "invite" => Len(rows') <= Cap
    BY <1>0, <2>3
  <2> QED
    BY <1>0, <1>1, <2>1, <2>3, <2>4 DEF WizardRows
<1> QED
  BY <1>3, <1>5, <1>6, <1>7, <1>8, <1>10, <1>11, <1>13, <1>14, <1>15, <1>16, <1>17, <1>18, <1>19
     DEF W!Next

\* The types of the variables of the wizards, and that the pending invites keep to their cap.
THEOREM WizardTyped == ASSUME Goals PROVE W!Spec => []W!TypeOK
<1>1. W!Init => WizardInv /\ WizardLists /\ WizardRows
  BY InitWizard, InitWizardTypes
<1>2. WizardInv /\ WizardLists /\ WizardRows /\ [W!Next]_(W!vars)
      => WizardInv' /\ WizardLists' /\ WizardRows'
  BY NextWizard, NextWizardLists, NextWizardRows
<1>3. WizardInv /\ WizardLists /\ WizardRows => W!TypeOK
  <2> SUFFICES ASSUME WizardInv, WizardLists, WizardRows PROVE W!TypeOK
    OBVIOUS
  <2>1. step \in 1 .. 5 /\ changed \in BOOLEAN
    BY DEF WizardInv
  <2>2. /\ draft.habit \in WizardHabits \cup {W!None} /\ draft.target \in 1 .. MaxTarget
        /\ draft.reward \in Rewards \cup {W!None}
    BY DEF WizardRows, Drafts
  <2>3. \A i \in DOMAIN sends : sends[i].answer \in {"ok", "invalid", "conflict", "failed"}
    <3>1. \A i \in DOMAIN sends : sends[i] \in WizardSends(Drafts)
      BY DEF WizardRows
    <3> QED
      BY <3>1 DEF WizardSends, WizardAnswers
  <2> QED
    BY <2>1, <2>2, <2>3 DEF WizardLists, WizardRows, W!TypeOK
<1> QED
  BY <1>1, <1>2, <1>3, PTL DEF W!Spec

-----------------------------------------------------------------------------
(* Ordering: what was saved is what was meant.                             *)

OrderItems == IsFiniteSet(ListItems)

ListFetches == [phase : {"idle", "sent", "answered"}, list : Seq(ListItems)]
Commits == [phase : {"idle", "sent", "answered", "reading", "saved", "failed"},
            meant : Seq(ListItems), ids : Seq(ListItems),
            answer : {"ok", "invalid", "conflict", "failed"}, again : BOOLEAN,
            old : Seq(ListItems)]

\* Two lists put what both of them have in the same order.
SameOrder(a, b) == O!Keep(a, b) = O!Keep(b, a)

OrderShape ==
  /\ rows \in Seq(ListItems) /\ cache \in Seq(ListItems) /\ draft \in Seq(ListItems)
  /\ accepted \in Seq(ListItems)
  /\ fetch \in ListFetches /\ req \in Commits

OrderTypes ==
  /\ kind \in {"habits", "todos"} /\ told \in {"nothing", "saved", "failed"}
  /\ mode \in BOOLEAN /\ error \in BOOLEAN /\ busy \in BOOLEAN /\ took \in BOOLEAN

\* What is sent is in the order that was meant, also a second time; and what the commit
\* ends with was accepted since it began.
OrderMeant ==
  /\ req.phase = "sent" => SameOrder(req.ids, req.meant)
  /\ (req.phase = "answered" /\ req.answer = "ok") \/ req.phase = "saved" \/ told = "saved" =>
       took /\ SameOrder(accepted, req.meant)
  /\ req.phase # "idle" => busy /\ told = "nothing"

OrderInv == OrderShape /\ OrderTypes /\ OrderMeant

LEMMA HeldInConcat ==
  ASSUME NEW D, NEW a \in Seq(D), NEW b \in Seq(D)
  PROVE  O!ToSet(a \o b) = O!ToSet(a) \cup O!ToSet(b)
<1>1. /\ a \o b \in Seq(D) /\ DOMAIN (a \o b) = 1 .. (Len(a) + Len(b))
      /\ Len(a) \in Nat /\ Len(b) \in Nat /\ DOMAIN a = 1 .. Len(a) /\ DOMAIN b = 1 .. Len(b)
      /\ \A i \in 1 .. Len(a) : (a \o b)[i] = a[i]
      /\ \A i \in 1 .. Len(b) : (a \o b)[Len(a) + i] = b[i]
  OBVIOUS
<1>2. \A i \in DOMAIN (a \o b) : i \in DOMAIN a \/ (i - Len(a) \in DOMAIN b /\ i = Len(a) + (i - Len(a)))
  BY <1>1
<1>3. /\ \A i \in DOMAIN a : i \in DOMAIN (a \o b)
      /\ \A i \in DOMAIN b : Len(a) + i \in DOMAIN (a \o b)
  BY <1>1
<1> DEFINE c == a \o b
<1> HIDE DEF c
<1>4. \A x \in O!ToSet(c) : x \in O!ToSet(a) \cup O!ToSet(b)
  BY <1>1, <1>2 DEF c, O!ToSet
<1>5. \A x \in O!ToSet(a) \cup O!ToSet(b) : x \in O!ToSet(c)
  BY <1>1, <1>3 DEF c, O!ToSet
<1> QED
  BY <1>4, <1>5 DEF c

LEMMA ReapplyKeeps ==
  ASSUME NEW D, NEW meant \in Seq(D), NEW there \in Seq(D)
  PROVE  O!Reapply(meant, there) \in Seq(D) /\ SameOrder(O!Reapply(meant, there), meant)
<1> DEFINE had == O!ToSet(meant)
           has == O!ToSet(there)
           kept == O!Filter(meant, has)
           rest == O!Filter(there, has \ O!ToSet(kept))
<1>1. O!Reapply(meant, there) = kept \o rest
  BY DEF O!Reapply, O!Keep, O!Drop
<1>2. kept \in Seq(D \cap has) /\ O!ToSet(kept) = had \cap has
  BY FilterHas
<1>3. rest \in Seq(D \cap (has \ O!ToSet(kept))) /\ O!ToSet(rest) = has \cap (has \ O!ToSet(kept))
  BY FilterHas
<1>4. kept \in Seq(D) /\ rest \in Seq(D)
  BY <1>2, <1>3, SeqMonotonic
<1> DEFINE both == kept \o rest
<1>5. both \in Seq(D)
  BY <1>4
<1>6. O!ToSet(both) = has
  <2>1. O!ToSet(both) = O!ToSet(kept) \cup O!ToSet(rest)
    BY <1>4, HeldInConcat
  <2> QED
    BY <1>2, <1>3, <2>1
<1> HIDE DEF has, had, kept, rest
<1>7. O!Filter(both, had) = O!Filter(kept, had) \o O!Filter(rest, had)
  BY <1>4, FilterConcat
<1>8. O!Filter(kept, had) = kept
  BY <1>2, <1>4, FilterAll
<1>9. O!Filter(rest, had) = <<>>
  BY <1>2, <1>3, <1>4, FilterNone
<1>10. O!Keep(both, meant) = kept
  BY <1>4, <1>7, <1>8, <1>9, ConcatEmptySeq DEF had, O!Keep
<1>11. O!Keep(meant, both) = kept
  BY <1>6 DEF kept, O!Keep
<1> QED
  BY <1>1, <1>5, <1>10, <1>11 DEF SameOrder

LEMMA KeepIs ==
  ASSUME NEW D, NEW a \in Seq(D), NEW b
  PROVE  O!Keep(a, b) \in Seq(D)
<1>1. O!Filter(a, O!ToSet(b)) \in Seq(D \cap O!ToSet(b))
  BY FilterHas
<1> QED
  BY <1>1, SeqMonotonic DEF O!Keep

LEMMA ListOfAll ==
  ASSUME NEW S, IsFiniteSet(S)
  PROVE  O!SetToSeq(S) \in Seq(S)
<1>1. Cardinality(S) \in Nat /\ ExistsBijection(1 .. Cardinality(S), S)
  BY FS_CardinalityType
<1>2. PICK f \in Bijection(1 .. Cardinality(S), S) : TRUE
  BY <1>1 DEF ExistsBijection
<1>3. f \in [1 .. Cardinality(S) -> S] /\ \A a, b \in 1 .. Cardinality(S) : a # b => f[a] # f[b]
  <2> DEFINE N == 1 .. Cardinality(S)
  <2> HIDE DEF N
  <2>1. f \in Bijection(N, S)
    BY <1>2 DEF N
  <2>2. f \in [N -> S] /\ \A a, b \in N : f[a] = f[b] => a = b
    BY <2>1, Fun_BijectionProperties
  <2> QED
    BY <2>2 DEF N
<1>4. O!Cardinality(S) = Cardinality(S)
  BY DEF O!Cardinality, Cardinality
<1>5. f \in O!SetToSeqs(S)
  BY <1>3, <1>4 DEF O!SetToSeqs
<1>6. O!SetToSeq(S) \in O!SetToSeqs(S)
  BY <1>5 DEF O!SetToSeq
<1>7. O!SetToSeq(S) \in [1 .. Cardinality(S) -> S]
  BY <1>4, <1>6 DEF O!SetToSeqs
<1> QED
  BY <1>1, <1>7

LEMMA InitOrder == ASSUME OrderItems, O!Init PROVE OrderInv
<1>1. PICK n \in ListItems : rows = O!SetToSeq(ListItems \ {n})
  BY DEF O!Init
<1>2. rows \in Seq(ListItems)
  <2>1. IsFiniteSet(ListItems \ {n})
    BY FS_Subset DEF OrderItems
  <2>2. rows \in Seq(ListItems \ {n})
    BY <1>1, <2>1, ListOfAll
  <2> QED
    BY <2>2, SeqMonotonic
<1>3. /\ cache = rows /\ draft = <<>> /\ accepted = <<>>
      /\ fetch = [phase |-> "idle", list |-> <<>>]
      /\ req = [phase |-> "idle", meant |-> <<>>, ids |-> <<>>, answer |-> "ok", again |-> FALSE,
                old |-> <<>>]
  BY DEF O!Init, O!NoFetch, O!NoReq
<1>4. <<>> \in Seq(ListItems)
  OBVIOUS
<1>5. fetch \in ListFetches
  BY <1>3, <1>4 DEF ListFetches
<1>6. req \in Commits /\ req.phase = "idle"
  BY <1>3, <1>4 DEF Commits
<1>7. OrderTypes /\ told = "nothing"
  BY DEF OrderTypes, O!Init
<1>8. OrderShape
  BY <1>2, <1>3, <1>4, <1>5, <1>6 DEF OrderShape
<1> QED
  BY <1>6, <1>7, <1>8 DEF OrderInv, OrderMeant

LEMMA SameAsItself == \A a : SameOrder(a, a)
BY DEF SameOrder

\* What the commit is does not change, and what was told of it neither.
LEMMA CommitStays ==
  ASSUME OrderInv, OrderShape', OrderTypes', UNCHANGED <<req, told, accepted, took, busy>>
  PROVE  OrderInv'
<1>1. OrderMeant'
  BY DEF OrderInv, OrderMeant, SameOrder
<1> QED
  BY <1>1 DEF OrderInv

LEMMA ScreenOrder ==
  ASSUME OrderInv, O!Enter \/ O!Cancel \/ (\E i \in 1 .. Len(draft) : O!Move(i, i + 1) \/ O!Move(i, i - 1))
  PROVE  OrderInv'
<1>1. UNCHANGED <<kind, rows, cache, fetch, busy, req, told, accepted, took>>
  BY DEF O!Enter, O!Cancel, O!Move
<1>2. draft' \in Seq(ListItems) /\ mode' \in BOOLEAN /\ error' \in BOOLEAN
  <2>1. CASE O!Enter
    BY <2>1 DEF O!Enter, OrderInv, OrderShape
  <2>2. CASE O!Cancel
    <3>1. <<>> \in Seq(ListItems)
      OBVIOUS
    <3> QED
      BY <2>2, <3>1 DEF O!Cancel
  <2>3. ASSUME NEW i \in 1 .. Len(draft), O!Move(i, i + 1) \/ O!Move(i, i - 1)
        PROVE  draft' \in Seq(ListItems) /\ mode' \in BOOLEAN /\ error' \in BOOLEAN
    <3>1. PICK j \in DOMAIN draft : i \in DOMAIN draft /\ draft' = [draft EXCEPT ![i] = draft[j], ![j] = draft[i]]
      BY <2>3 DEF O!Move
    <3>2. draft' \in Seq(ListItems)
      BY <3>1 DEF OrderInv, OrderShape
    <3> QED
      BY <2>3, <3>2 DEF O!Move, OrderInv, OrderTypes
  <2> QED
    BY <2>1, <2>2, <2>3
<1>3. OrderShape'
  BY <1>1, <1>2 DEF OrderInv, OrderShape
<1>4. OrderTypes'
  BY <1>1, <1>2 DEF OrderInv, OrderTypes
<1> QED
  BY <1>1, <1>3, <1>4, CommitStays

LEMMA ListsOrder ==
  ASSUME OrderInv, O!Elsewhere \/ O!HandleFetch \/ O!Deliver \/ O!FailFetch \/ O!Focus
  PROVE  OrderInv'
<1>1. UNCHANGED <<kind, mode, draft, error, busy, req, told, accepted, took>>
  BY DEF O!Elsewhere, O!HandleFetch, O!Deliver, O!FailFetch, O!Focus, O!screen
<1>2. /\ rows \in Seq(ListItems) /\ cache \in Seq(ListItems) /\ fetch \in ListFetches
      /\ fetch.list \in Seq(ListItems) /\ <<>> \in Seq(ListItems)
  BY DEF OrderInv, OrderShape, ListFetches
<1>3. rows' \in Seq(ListItems) /\ cache' \in Seq(ListItems) /\ fetch' \in ListFetches
  <2>1. CASE O!Elsewhere
    <3>1. rows' \in Seq(ListItems)
      <4>1. CASE \E x \in ListItems : rows' = Append(rows, x)
        BY <1>2, <4>1
      <4>2. CASE \E i \in DOMAIN rows : rows' = O!RemoveAt(rows, i)
        <5>1. PICK i \in DOMAIN rows : rows' = O!RemoveAt(rows, i)
          BY <4>2
        <5>2. O!RemoveAt(rows, i) = H!RemoveAt(rows, i)
          BY DEF O!RemoveAt, H!RemoveAt
        <5> QED
          BY <1>2, <5>1, <5>2, Removed
      <4> QED
        BY <2>1, <4>1, <4>2 DEF O!Elsewhere
    <3> QED
      BY <1>2, <2>1, <3>1 DEF O!Elsewhere
  <2>2. CASE O!HandleFetch
    BY <1>2, <2>2 DEF O!HandleFetch, ListFetches
  <2>3. CASE O!Deliver
    BY <1>2, <2>3 DEF O!Deliver, O!NoFetch, ListFetches
  <2>4. CASE O!FailFetch
    BY <1>2, <2>4 DEF O!FailFetch, O!NoFetch, ListFetches
  <2>5. CASE O!Focus
    BY <1>2, <2>5 DEF O!Focus, O!NoFetch, ListFetches
  <2> QED
    BY <2>1, <2>2, <2>3, <2>4, <2>5
<1>4. OrderShape'
  BY <1>1, <1>3 DEF OrderInv, OrderShape
<1>5. OrderTypes'
  BY <1>1 DEF OrderInv, OrderTypes
<1> QED
  BY <1>1, <1>4, <1>5, CommitStays

LEMMA VerdictIs == ASSUME NEW ids PROVE O!Verdict(ids) \in {"ok", "invalid", "conflict", "failed"}
BY DEF O!Verdict

\* A refetch begins.
LEMMA RefetchIs == O!Refetch => fetch' \in ListFetches
<1>1. <<>> \in Seq(ListItems)
  OBVIOUS
<1> QED
  BY <1>1 DEF O!Refetch, O!NoFetch, ListFetches

LEMMA CommitOrder == ASSUME OrderInv, O!Commit PROVE OrderInv'
<1>1. /\ draft \in Seq(ListItems) /\ cache \in Seq(ListItems) /\ <<>> \in Seq(ListItems)
  BY DEF OrderInv, OrderShape
<1>2. req' = [phase |-> "sent", meant |-> draft, ids |-> draft, answer |-> "ok", again |-> FALSE,
              old |-> cache]
  BY DEF O!Commit, O!NoReq
<1>3. req' \in Commits /\ req'.phase = "sent" /\ req'.ids = draft /\ req'.meant = draft
  BY <1>1, <1>2 DEF Commits
<1>4. cache' \in Seq(ListItems)
  BY <1>1, KeepIs DEF O!Commit, O!LocalOrder
<1>5. UNCHANGED <<kind, rows, fetch, mode, draft, accepted>>
  BY DEF O!Commit
<1>6. OrderShape'
  BY <1>3, <1>4, <1>5 DEF OrderInv, OrderShape
<1>7. told' = "nothing" /\ busy' = TRUE /\ took' = FALSE /\ error' = FALSE
  BY DEF O!Commit
<1>8. OrderTypes'
  BY <1>5, <1>7 DEF OrderInv, OrderTypes
<1>9. OrderMeant'
  BY <1>3, <1>7, SameAsItself DEF OrderMeant
<1> QED
  BY <1>6, <1>8, <1>9 DEF OrderInv

LEMMA AnswerOrder == ASSUME OrderInv, O!Handle \/ O!Lose \/ O!Conflicted PROVE OrderInv'
<1>1. req \in Commits /\ req.ids \in Seq(ListItems)
  BY DEF OrderInv, OrderShape, Commits
<1>2. UNCHANGED <<kind, cache, fetch, mode, draft, error, busy, told>>
  BY DEF O!Handle, O!Lose, O!Conflicted, O!screen
<1>3. CASE O!Handle
  <2>1. /\ req.phase = "sent"
        /\ req' = [req EXCEPT !.phase = "answered", !.answer = O!Verdict(req.ids)]
    BY <1>3 DEF O!Handle
  <2>2. O!Verdict(req.ids) \in {"ok", "invalid", "conflict", "failed"}
    BY VerdictIs
  <2>3. /\ req' \in Commits /\ req'.phase = "answered" /\ req'.answer = O!Verdict(req.ids)
        /\ req'.meant = req.meant /\ req'.ids = req.ids
    BY <1>1, <2>1, <2>2 DEF Commits
  <2>4. told = "nothing" /\ busy = TRUE /\ SameOrder(req.ids, req.meant)
    BY <2>1 DEF OrderInv, OrderMeant, OrderTypes
  <2>5. CASE O!Verdict(req.ids) = "ok"
    <3>1. rows' = req.ids /\ accepted' = req.ids /\ took' = TRUE
      BY <1>3, <2>5 DEF O!Handle
    <3>2. OrderShape'
      BY <1>1, <1>2, <2>3, <3>1 DEF OrderInv, OrderShape
    <3>3. OrderTypes'
      BY <1>2, <3>1 DEF OrderInv, OrderTypes
    <3>4. OrderMeant'
      BY <1>2, <2>3, <2>4, <3>1 DEF OrderMeant
    <3> QED
      BY <3>2, <3>3, <3>4 DEF OrderInv
  <2>6. CASE O!Verdict(req.ids) # "ok"
    <3>1. UNCHANGED <<rows, accepted, took>>
      BY <1>3, <2>6 DEF O!Handle
    <3>2. OrderShape'
      BY <1>2, <2>3, <3>1 DEF OrderInv, OrderShape
    <3>3. OrderTypes'
      BY <1>2, <3>1 DEF OrderInv, OrderTypes
    <3>4. OrderMeant'
      BY <1>2, <2>3, <2>4, <2>6 DEF OrderMeant
    <3> QED
      BY <3>2, <3>3, <3>4 DEF OrderInv
  <2> QED
    BY <2>5, <2>6
<1>4. CASE O!Lose \/ O!Conflicted
  <2>1. /\ req.phase \in {"sent", "answered"} /\ UNCHANGED <<rows, accepted, took>>
        /\ \/ req' = [req EXCEPT !.phase = "answered", !.answer = "failed"]
           \/ req' = [req EXCEPT !.phase = "reading"]
    BY <1>4 DEF O!Lose, O!Conflicted
  <2>2. /\ req' \in Commits
        /\ \/ req'.phase = "answered" /\ req'.answer = "failed"
           \/ req'.phase = "reading"
    BY <1>1, <2>1 DEF Commits
  <2>3. told = "nothing" /\ busy = TRUE
    BY <2>1 DEF OrderInv, OrderMeant, OrderTypes
  <2>4. OrderShape'
    BY <1>2, <2>1, <2>2 DEF OrderInv, OrderShape
  <2>5. OrderTypes'
    BY <1>2, <2>1 DEF OrderInv, OrderTypes
  <2>6. OrderMeant'
    BY <1>2, <2>2, <2>3 DEF OrderMeant
  <2> QED
    BY <2>4, <2>5, <2>6 DEF OrderInv
<1> QED
  BY <1>3, <1>4

LEMMA RetryOrder == ASSUME OrderInv, O!Retry PROVE OrderInv'
<1>1. /\ req \in Commits /\ req.meant \in Seq(ListItems) /\ rows \in Seq(ListItems)
      /\ req.phase = "reading"
  BY DEF OrderInv, OrderShape, Commits, O!Retry
<1> DEFINE again == O!Reapply(req.meant, rows)
<1>2. again \in Seq(ListItems) /\ SameOrder(again, req.meant)
  BY <1>1, ReapplyKeeps
<1>3. req' = [req EXCEPT !.phase = "sent", !.ids = again, !.again = TRUE]
  BY DEF O!Retry
<1> HIDE DEF again
<1>4. req' \in Commits /\ req'.phase = "sent" /\ req'.ids = again /\ req'.meant = req.meant
  BY <1>1, <1>2, <1>3 DEF Commits
<1>5. /\ cache' = rows /\ UNCHANGED <<kind, rows, fetch, mode, draft, error, busy, told, accepted, took>>
  BY DEF O!Retry, O!screen
<1>6. told = "nothing" /\ busy = TRUE
  BY <1>1 DEF OrderInv, OrderMeant, OrderTypes
<1>7. OrderShape'
  BY <1>1, <1>4, <1>5 DEF OrderInv, OrderShape
<1>8. OrderTypes'
  BY <1>5 DEF OrderInv, OrderTypes
<1>9. OrderMeant'
  BY <1>2, <1>4, <1>5, <1>6 DEF OrderMeant
<1> QED
  BY <1>7, <1>8, <1>9 DEF OrderInv

\* What a commit ends with.
LEMMA CloseOrder ==
  ASSUME OrderInv, NEW outcome \in {"saved", "failed"}, O!Close(outcome), error' = error,
         UNCHANGED <<kind, rows, accepted, took>>, cache' \in Seq(ListItems), fetch' \in ListFetches,
         outcome = "saved" => took /\ SameOrder(accepted, req.meant)
  PROVE  OrderInv'
<1>1. <<>> \in Seq(ListItems) /\ req \in Commits /\ req.meant \in Seq(ListItems)
  BY DEF OrderInv, OrderShape, Commits
<1>2. /\ mode' = FALSE /\ draft' = <<>> /\ busy' = FALSE /\ told' = outcome
      /\ req' = [phase |-> "idle", meant |-> req.meant, ids |-> <<>>, answer |-> "ok", again |-> FALSE,
                 old |-> <<>>]
  BY DEF O!Close, O!NoReq
<1>3. req' \in Commits /\ req'.phase = "idle" /\ req'.meant = req.meant
  BY <1>1, <1>2 DEF Commits
<1>4. OrderShape'
  BY <1>1, <1>2, <1>3 DEF OrderInv, OrderShape
<1>5. OrderTypes'
  BY <1>2 DEF OrderInv, OrderTypes
<1>6. OrderMeant'
  BY <1>2, <1>3 DEF OrderMeant, SameOrder
<1> QED
  BY <1>4, <1>5, <1>6 DEF OrderInv

LEMMA EndOrder == ASSUME OrderInv, O!Saved \/ O!Failed \/ O!Finish PROVE OrderInv'
<1>1. /\ req \in Commits /\ req.ids \in Seq(ListItems) /\ req.old \in Seq(ListItems)
      /\ cache \in Seq(ListItems) /\ fetch \in ListFetches
  BY DEF OrderInv, OrderShape, Commits
<1>2. CASE O!Saved
  <2>1. /\ req.phase = "answered" /\ req.answer = "ok" /\ UNCHANGED <<kind, rows, accepted, took>>
        /\ fetch' \in ListFetches
    BY <1>2, RefetchIs DEF O!Saved
  <2>2. took /\ SameOrder(accepted, req.meant) /\ busy = TRUE /\ told = "nothing"
    BY <2>1 DEF OrderInv, OrderMeant, OrderTypes
  <2>3. CASE kind = "todos"
    <3>1. O!Close("saved") /\ error' = error /\ cache' = O!Keep(req.ids, cache)
      BY <1>2, <2>3 DEF O!Saved, O!LocalOrder
    <3>2. cache' \in Seq(ListItems)
      BY <1>1, <3>1, KeepIs
    <3> QED
      BY <2>1, <2>2, <3>1, <3>2, CloseOrder
  <2>4. CASE kind # "todos"
    <3>1. /\ req' = [req EXCEPT !.phase = "saved"]
          /\ UNCHANGED <<cache, mode, draft, error, busy, told>>
      BY <1>2, <2>4 DEF O!Saved, O!screen
    <3>2. req' \in Commits /\ req'.phase = "saved" /\ req'.meant = req.meant
      BY <1>1, <3>1 DEF Commits
    <3>3. OrderShape'
      BY <2>1, <3>1, <3>2 DEF OrderInv, OrderShape
    <3>4. OrderTypes'
      BY <2>1, <3>1 DEF OrderInv, OrderTypes
    <3>5. OrderMeant'
      BY <2>1, <2>2, <3>1, <3>2 DEF OrderMeant, SameOrder
    <3> QED
      BY <3>3, <3>4, <3>5 DEF OrderInv
  <2> QED
    BY <2>3, <2>4
<1>3. CASE O!Failed
  <2>1. /\ req.phase \in {"answered", "reading"}
        /\ fetch' \in ListFetches /\ error' = TRUE /\ req' = [req EXCEPT !.phase = "failed"]
        /\ UNCHANGED <<kind, rows, mode, draft, busy, told, accepted, took>>
    BY <1>3, RefetchIs DEF O!Failed
  <2>2. busy = TRUE /\ told = "nothing"
    BY <2>1 DEF OrderInv, OrderMeant, OrderTypes
  <2>3. cache' \in Seq(ListItems)
    BY <1>1, <1>3 DEF O!Failed
  <2>4. req' \in Commits /\ req'.phase = "failed"
    BY <1>1, <2>1 DEF Commits
  <2>5. OrderShape'
    BY <2>1, <2>3, <2>4 DEF OrderInv, OrderShape
  <2>6. OrderTypes'
    BY <2>1 DEF OrderInv, OrderTypes
  <2>7. OrderMeant'
    BY <2>1, <2>2, <2>4 DEF OrderMeant
  <2> QED
    BY <2>5, <2>6, <2>7 DEF OrderInv
<1>4. CASE O!Finish
  <2>1. /\ req.phase \in {"saved", "failed"} /\ O!Close(req.phase) /\ error' = error
        /\ UNCHANGED <<kind, rows, cache, fetch, accepted, took>>
    BY <1>4 DEF O!Finish
  <2>2. req.phase = "saved" => took /\ SameOrder(accepted, req.meant)
    BY DEF OrderInv, OrderMeant
  <2> QED
    BY <1>1, <2>1, <2>2, CloseOrder
<1> QED
  BY <1>2, <1>3, <1>4

LEMMA NextOrder == OrderInv /\ [O!Next]_(O!vars) => OrderInv'
<1> SUFFICES ASSUME OrderInv, [O!Next]_(O!vars) PROVE OrderInv'
  OBVIOUS
<1>1. CASE O!Enter \/ O!Cancel \/ (\E i \in 1 .. Len(draft) : O!Move(i, i + 1) \/ O!Move(i, i - 1))
  BY <1>1, ScreenOrder
<1>2. CASE O!Elsewhere \/ O!HandleFetch \/ O!Deliver \/ O!FailFetch \/ O!Focus
  BY <1>2, ListsOrder
<1>3. CASE O!Commit
  BY <1>3, CommitOrder
<1>4. CASE O!Handle \/ O!Lose \/ O!Conflicted
  BY <1>4, AnswerOrder
<1>5. CASE O!Retry
  BY <1>5, RetryOrder
<1>6. CASE O!Saved \/ O!Failed \/ O!Finish
  BY <1>6, EndOrder
<1>7. CASE UNCHANGED O!vars
  <2>1. UNCHANGED <<kind, rows, cache, fetch, mode, draft, error, busy, req, told, accepted, took>>
    BY <1>7 DEF O!vars, O!screen
  <2>2. OrderShape'
    BY <2>1 DEF OrderInv, OrderShape
  <2>3. OrderTypes'
    BY <2>1 DEF OrderInv, OrderTypes
  <2> QED
    BY <2>1, <2>2, <2>3, CommitStays
<1> QED
  BY <1>1, <1>2, <1>3, <1>4, <1>5, <1>6, <1>7 DEF O!Next

\* When the reorder mode closes without an error, the server took an order during the commit,
\* and the last one it took keeps the order the user meant for everything that was still
\* there: also after a conflict, for lists of any length (reapplyOrderIntent, orderHabits).
THEOREM OrderIsAsMeant == ASSUME OrderItems PROVE O!Spec => []O!SavedAsMeant
<1>1. O!Init => OrderInv
  BY InitOrder
<1>2. OrderInv => O!SavedAsMeant
  BY DEF OrderInv, OrderMeant, SameOrder, O!SavedAsMeant
<1> QED
  BY <1>1, <1>2, NextOrder, PTL DEF O!Spec

\* The types of the variables of the reorder modes.
THEOREM OrderTyped == ASSUME OrderItems PROVE O!Spec => []O!TypeOK
<1>1. O!Init => OrderInv
  BY InitOrder
<1>2. OrderInv => O!TypeOK
  BY DEF OrderInv, OrderTypes, OrderShape, ListFetches, Commits, O!TypeOK
<1> QED
  BY <1>1, <1>2, NextOrder, PTL DEF O!Spec

-----------------------------------------------------------------------------
(* Celebration: a challenge is celebrated once, to one of its parties.     *)

CelebratedOnes == IsFiniteSet(CelebratedIds)

\* The challenges the account that is signed in takes part in.
Partaken == {c \in CelebratedIds : user \in parties[c]}

CelebrationInv ==
  /\ \A c \in CelebratedIds : /\ celebrated[c] \in {0, 1}
                              /\ c \notin seen => celebrated[c] = 0
                              /\ list[c] # E!None => c \in Partaken
                              /\ fetch.phase = "read" /\ fetch.found[c] # E!None => c \in Partaken
  /\ queue \in Seq(Partaken)
  /\ user = E!Nobody => /\ queue = <<>> /\ ~fresh /\ fetch.phase = "idle"
                        /\ \A c \in CelebratedIds : list[c] = E!None

LEMMA InitCelebration == E!Init => CelebrationInv
<1> SUFFICES ASSUME E!Init PROVE CelebrationInv
  OBVIOUS
<1>1. /\ queue = <<>> /\ fresh = FALSE /\ fetch.phase = "idle" /\ list = [c \in CelebratedIds |-> E!None]
      /\ celebrated = [c \in CelebratedIds |-> 0]
  BY DEF E!Init, E!NoList, E!NoFetch
<1>2. queue \in Seq(Partaken)
  BY <1>1
<1> QED
  BY <1>1, <1>2 DEF CelebrationInv

\* The queue, and what it is of, does not change.
LEMMA QueueStays ==
  ASSUME CelebrationInv, UNCHANGED <<parties, user, queue, celebrated>>,
         \A c \in CelebratedIds : c \notin seen' => c \notin seen,
         \A c \in CelebratedIds : /\ list'[c] # E!None => c \in Partaken
                                  /\ fetch'.phase = "read" /\ fetch'.found[c] # E!None => c \in Partaken,
         user = E!Nobody => /\ ~fresh' /\ fetch'.phase = "idle"
                            /\ \A c \in CelebratedIds : list'[c] = E!None
  PROVE  CelebrationInv'
<1>1. Partaken' = Partaken
  BY DEF Partaken
<1>2. queue' \in Seq(Partaken')
  BY <1>1 DEF CelebrationInv
<1> QED
  BY <1>1, <1>2 DEF CelebrationInv

LEMMA ListStep ==
  ASSUME CelebrationInv, E!Poll \/ E!TriggerCheck \/ E!ReadList \/ E!Answer \/ E!FetchFails
  PROVE  CelebrationInv'
<1>1. UNCHANGED <<parties, user, queue, celebrated, seen>>
  BY DEF E!Poll, E!TriggerCheck, E!ReadList, E!Answer, E!FetchFails, E!memory, E!state, E!history
<1>2. CASE E!Poll \/ E!TriggerCheck
  <2>1. user # E!Nobody /\ fetch'.phase = "sent" /\ list' = list
    BY <1>2 DEF E!Poll, E!TriggerCheck, E!NoFetch
  <2> QED
    BY <1>1, <2>1, QueueStays DEF CelebrationInv
<1>3. CASE E!ReadList
  <2>1. /\ fetch.phase = "sent" /\ list' = list /\ fresh' = fresh
        /\ \A c \in CelebratedIds : fetch'.found[c] = IF user \in parties[c] THEN status[c] ELSE E!None
    BY <1>3 DEF E!ReadList
  <2>2. \A c \in CelebratedIds : fetch'.found[c] # E!None => c \in Partaken
    BY <2>1 DEF Partaken
  <2>3. user # E!Nobody
    BY <2>1 DEF CelebrationInv
  <2> QED
    BY <1>1, <2>1, <2>2, <2>3, QueueStays DEF CelebrationInv
<1>4. CASE E!Answer
  <2>1. fetch.phase = "read" /\ list' = fetch.found /\ fetch'.phase = "idle"
    BY <1>4 DEF E!Answer, E!NoFetch
  <2>2. user # E!Nobody
    BY <2>1 DEF CelebrationInv
  <2> QED
    BY <1>1, <2>1, <2>2, QueueStays DEF CelebrationInv
<1>5. CASE E!FetchFails
  <2>1. fetch'.phase = "idle" /\ list' = list /\ fresh' = fresh
    BY <1>5 DEF E!FetchFails, E!NoFetch
  <2> QED
    BY <1>1, <2>1, QueueStays DEF CelebrationInv
<1> QED
  BY <1>2, <1>3, <1>4, <1>5

LEMMA NoticeStep == ASSUME CelebratedOnes, CelebrationInv, E!Notice PROVE CelebrationInv'
<1>1. fresh /\ fresh' = FALSE /\ UNCHANGED <<parties, user, list, fetch>> /\ user # E!Nobody
  BY DEF E!Notice, CelebrationInv
<1>2. CASE ~loaded
  <2>1. UNCHANGED <<queue, celebrated>> /\ seen' = seen \cup E!Old
    BY <1>2 DEF E!Notice
  <2> QED
    BY <1>1, <2>1, QueueStays DEF CelebrationInv
<1>3. CASE loaded
  <2>1. PICK order \in E!SetToSeqs(E!Newly) : queue' = queue \o order
    BY <1>3 DEF E!Notice
  <2>2. /\ seen' = seen \cup E!Newly
        /\ \A c \in CelebratedIds : celebrated'[c] = celebrated[c] + (IF c \in E!Newly THEN 1 ELSE 0)
    BY <1>3 DEF E!Notice
  <2>3. E!Newly \subseteq Partaken /\ E!Newly \subseteq CelebratedIds
    BY DEF E!Newly, CelebrationInv, E!None, Partaken
  <2>4. order \in Seq(Partaken)
    <3>1. IsFiniteSet(E!Newly)
      BY <2>3, FS_Subset DEF CelebratedOnes
    <3>2. Cardinality(E!Newly) \in Nat
      BY <3>1, FS_CardinalityType
    <3>3. E!Cardinality(E!Newly) = Cardinality(E!Newly)
      BY DEF E!Cardinality, Cardinality
    <3>4. order \in [1 .. Cardinality(E!Newly) -> E!Newly]
      BY <3>3 DEF E!SetToSeqs
    <3>5. order \in Seq(E!Newly)
      BY <3>2, <3>4
    <3> QED
      BY <2>3, <3>5, SeqMonotonic
  <2>5. Partaken' = Partaken
    BY <1>1 DEF Partaken
  <2>6. queue' \in Seq(Partaken)
    BY <2>1, <2>4 DEF CelebrationInv
  <2>7. \A c \in CelebratedIds : celebrated'[c] \in {0, 1} /\ (c \notin seen' => celebrated'[c] = 0)
    BY <2>2 DEF CelebrationInv, E!Newly
  <2> QED
    BY <1>1, <2>5, <2>6, <2>7 DEF CelebrationInv
<1> QED
  BY <1>2, <1>3

\* The queue gets shorter.
LEMMA QueueShrinks ==
  ASSUME CelebrationInv, UNCHANGED <<parties, user, list, celebrated, fresh>>,
         queue' \in Seq(Partaken), queue = <<>> => queue' = <<>>, seen \subseteq seen',
         fetch' = fetch \/ (user # E!Nobody /\ fetch'.phase = "sent")
  PROVE  CelebrationInv'
<1>1. Partaken' = Partaken
  BY DEF Partaken
<1> QED
  BY <1>1 DEF CelebrationInv

LEMMA DismissStep == ASSUME CelebrationInv, E!Dismiss PROVE CelebrationInv'
<1>1. /\ queue' = (IF queue = <<>> THEN <<>> ELSE Tail(queue))
      /\ UNCHANGED <<parties, user, list, fetch, fresh, celebrated>> /\ seen \subseteq seen'
  BY DEF E!Dismiss
<1>2. queue' \in Seq(Partaken)
  BY <1>1 DEF CelebrationInv
<1> QED
  BY <1>1, <1>2, QueueShrinks

LEMMA ClaimedStep == ASSUME CelebrationInv, E!Claimed PROVE CelebrationInv'
<1> DEFINE others == CelebratedIds \ {call.id}
<1>1. /\ queue' = E!Filter(queue, others) /\ seen \subseteq seen'
      /\ UNCHANGED <<parties, user, list, fresh, celebrated>>
      /\ fetch' = fetch \/ (user # E!Nobody /\ fetch'.phase = "sent")
  BY DEF E!Claimed, E!history, E!NoFetch
<1>2. E!Filter(queue, others) = O!Filter(queue, others)
  BY DEF E!Filter, O!Filter
<1>3. O!Filter(queue, others) \in Seq(Partaken \cap others)
  BY FilterHas DEF CelebrationInv
<1> HIDE DEF others
<1>4. queue' \in Seq(Partaken)
  BY <1>1, <1>2, <1>3, SeqMonotonic
<1>5. queue = <<>> => queue' = <<>>
  <2> SUFFICES ASSUME queue = <<>> PROVE queue' = <<>>
    OBVIOUS
  <2>1. queue \in Seq({}) /\ O!ToSet(queue) \cap others = {}
    BY DEF O!ToSet
  <2> QED
    BY <1>1, <1>2, <2>1, FilterNone
<1> QED
  BY <1>1, <1>4, <1>5, QueueShrinks

LEMMA SignStep == ASSUME CelebrationInv, (\E u \in CelebratingUsers : E!SignIn(u)) \/ E!SignOut PROVE CelebrationInv'
<1>0. <<>> \in Seq(Partaken')
  OBVIOUS
<1>1. CASE \E u \in CelebratingUsers : E!SignIn(u)
  <2>1. user = E!Nobody /\ UNCHANGED <<parties, list, fetch, fresh, queue, seen, celebrated>>
    BY <1>1 DEF E!SignIn, E!memory, E!state, E!history
  <2> QED
    BY <1>0, <2>1 DEF CelebrationInv
<1>2. CASE E!SignOut
  <2>1. /\ fresh' = FALSE /\ seen' = {} /\ queue' = <<>> /\ fetch'.phase = "idle"
        /\ \A c \in CelebratedIds : list'[c] = E!None /\ celebrated'[c] = 0
    BY <1>2 DEF E!SignOut, E!Cleared, E!NoList, E!NoFetch
  <2> QED
    BY <1>0, <2>1 DEF CelebrationInv
<1> QED
  BY <1>1, <1>2

LEMMA NextCelebration ==
  ASSUME CelebratedOnes PROVE CelebrationInv /\ [E!Next]_(E!vars) => CelebrationInv'
<1> SUFFICES ASSUME CelebrationInv, [E!Next]_(E!vars) PROVE CelebrationInv'
  OBVIOUS
<1>1. CASE E!Poll \/ E!TriggerCheck \/ E!ReadList \/ E!Answer \/ E!FetchFails
  BY <1>1, ListStep
<1>2. CASE E!Notice
  BY <1>2, NoticeStep
<1>3. CASE E!Dismiss
  BY <1>3, DismissStep
<1>4. CASE E!Claimed
  BY <1>4, ClaimedStep
<1>5. CASE (\E u \in CelebratingUsers : E!SignIn(u)) \/ E!SignOut
  BY <1>5, SignStep
<1>6. CASE \/ E!Render \/ E!Elsewhere \/ E!Claim \/ E!HandleClaim \/ E!LoseClaim
           \/ E!NotClaimed \/ E!Settle \/ UNCHANGED E!vars
  <2>1. UNCHANGED <<parties, user, list, fetch, fresh, seen, queue, celebrated>>
    BY <1>6 DEF E!Render, E!Elsewhere, E!Claim, E!HandleClaim, E!LoseClaim, E!NotClaimed,
                E!Settle, E!memory, E!state, E!history, E!vars
  <2> QED
    BY <2>1, QueueStays DEF CelebrationInv
<1> QED
  BY <1>1, <1>2, <1>3, <1>4, <1>5, <1>6 DEF E!Next

\* A challenge is queued once in a session at most, and only for the account that takes part
\* in it: for any number of challenges, accounts and claims (useChallengeCompletion).
THEOREM OneCelebration == ASSUME CelebratedOnes PROVE E!Spec => []E!CelebratedOnce
<1>1. CelebrationInv => E!CelebratedOnce
  <2> SUFFICES ASSUME CelebrationInv, NEW c \in CelebratedIds
               PROVE  celebrated[c] <= 1 /\ (c \in E!ToSet(queue) => user \in parties[c])
    BY DEF E!CelebratedOnce
  <2>1. \A i \in DOMAIN queue : queue[i] \in Partaken
    BY DEF CelebrationInv
  <2> QED
    BY <2>1 DEF CelebrationInv, E!ToSet, Partaken
<1> QED
  BY <1>1, InitCelebration, NextCelebration, PTL DEF E!Spec

\* The form of the variables.
CelebrationForm ==
  /\ status \in [CelebratedIds -> E!Statuses] /\ user \in CelebratingUsers \cup {E!Nobody}
  /\ list \in [CelebratedIds -> E!Statuses \cup {E!None}]
  /\ fetch \in [phase : {"idle", "sent", "read"}, found : [CelebratedIds -> E!Statuses \cup {E!None}]]
  /\ seen \subseteq CelebratedIds /\ queue \in Seq(CelebratedIds) /\ error \in CelebratedIds \cup {E!None}
  /\ looked \subseteq CelebratedIds /\ (screen.current # E!None => screen.current \in looked)
  /\ call \in [id : CelebratedIds \cup {E!None}, phase : {"idle", "sent", "ok", "failed", "settling"}]
  /\ E!Pending => call.id \in CelebratedIds /\ call.phase # "idle"

LEMMA InitCelebrationForm == E!Init => CelebrationForm
<1> SUFFICES ASSUME E!Init PROVE CelebrationForm
  OBVIOUS
<1>1. \A c \in CelebratedIds : "active" \in E!Statuses /\ "completed" \in E!Statuses
  BY DEF E!Statuses
<1>2. status \in [CelebratedIds -> E!Statuses] /\ user \in CelebratingUsers
  BY <1>1 DEF E!Init
<1>3. list \in [CelebratedIds -> E!Statuses \cup {E!None}]
  BY DEF E!Init, E!NoList
<1>4. fetch = [phase |-> "idle", found |-> E!NoList] /\ E!NoList \in [CelebratedIds -> E!Statuses \cup {E!None}]
  BY DEF E!Init, E!NoFetch, E!NoList
<1>5. queue = <<>> /\ seen = {} /\ error = E!None /\ looked = {} /\ screen.current = E!None
  BY DEF E!Init, E!Blank
<1>6. call = [id |-> E!None, phase |-> "idle"] /\ ~E!Pending
  BY DEF E!Init, E!NoCall, E!Pending
<1> QED
  BY <1>2, <1>3, <1>4, <1>5, <1>6 DEF CelebrationForm

\* What was rendered has been looked at.
LEMMA ShownIsLooked ==
  ASSUME CelebrationForm, queue' \in Seq(CelebratedIds), screen' = E!Rendered',
         looked' = looked \cup ({E!Current'} \ {E!None})
  PROVE  looked' \subseteq CelebratedIds /\ (screen'.current # E!None => screen'.current \in looked')
<1>1. screen'.current = E!Current'
  BY DEF E!Rendered
<1>2. E!Current' = IF queue' = <<>> THEN E!None ELSE Head(queue')
  BY DEF E!Current
<1>3. queue' # <<>> => Head(queue') \in CelebratedIds
  OBVIOUS
<1> QED
  BY <1>1, <1>2, <1>3 DEF CelebrationForm

\* What "Notice" appends: each of them, and nothing else.
LEMMA OrderOfNew ==
  ASSUME CelebratedOnes, NEW order \in E!SetToSeqs(E!Newly)
  PROVE  order \in Seq(E!Newly) /\ E!ToSet(order) = E!Newly
<1>1. IsFiniteSet(E!Newly)
  BY FS_Subset DEF CelebratedOnes, E!Newly
<1>2. Cardinality(E!Newly) \in Nat
  BY <1>1, FS_CardinalityType
<1>3. E!Cardinality(E!Newly) = Cardinality(E!Newly)
  BY DEF E!Cardinality, Cardinality
<1> DEFINE n == Cardinality(E!Newly)
<1>4. order \in [1 .. n -> E!Newly] /\ \A i, j \in 1 .. n : i # j => order[i] # order[j]
  BY <1>3 DEF E!SetToSeqs
<1>5. order \in Injection(1 .. n, E!Newly)
  BY <1>4 DEF Injection, IsInjective
<1>6. IsFiniteSet(1 .. n) /\ Cardinality(1 .. n) = n
  BY <1>2, FS_Interval
<1> HIDE DEF n
<1>7. order \in Surjection(1 .. n, E!Newly)
  BY <1>1, <1>5, <1>6, FS_Injection DEF n
<1>8. order \in Seq(E!Newly) /\ DOMAIN order = 1 .. n
  BY <1>2, <1>4 DEF n
<1>9. \A c \in E!Newly : \E i \in 1 .. n : order[i] = c
  BY <1>7 DEF Surjection
<1> QED
  BY <1>4, <1>8, <1>9 DEF E!ToSet

\* The queue after the effect over the list.
LEMMA QueueAfterNotice ==
  ASSUME CelebratedOnes, queue \in Seq(CelebratedIds), E!Notice, loaded
  PROVE  /\ queue' \in Seq(CelebratedIds) /\ E!ToSet(queue') = E!ToSet(queue) \cup E!Newly
         /\ queue # <<>> => queue' # <<>> /\ Head(queue') = Head(queue)
<1>1. PICK order \in E!SetToSeqs(E!Newly) : queue' = queue \o order
  BY DEF E!Notice
<1>2. order \in Seq(E!Newly) /\ E!ToSet(order) = E!Newly
  BY OrderOfNew
<1>3. E!Newly \subseteq CelebratedIds
  BY DEF E!Newly
<1>4. order \in Seq(CelebratedIds)
  BY <1>2, <1>3, SeqMonotonic
<1>5. queue' \in Seq(CelebratedIds) /\ Len(queue') = Len(queue) + Len(order)
  BY <1>1, <1>4
<1>6. \A i \in 1 .. Len(queue) : queue'[i] = queue[i]
  BY <1>1, <1>4
<1>7. \A i \in 1 .. Len(order) : queue'[Len(queue) + i] = order[i]
  BY <1>1, <1>4
<1>8. \A i \in DOMAIN queue' : queue'[i] \in E!ToSet(queue) \cup E!ToSet(order)
  <2> SUFFICES ASSUME NEW i \in DOMAIN queue' PROVE queue'[i] \in E!ToSet(queue) \cup E!ToSet(order)
    OBVIOUS
  <2>1. /\ i \in 1 .. (Len(queue) + Len(order)) /\ Len(queue) \in Nat /\ Len(order) \in Nat
        /\ DOMAIN queue = 1 .. Len(queue) /\ DOMAIN order = 1 .. Len(order)
    BY <1>4, <1>5
  <2>2. CASE i <= Len(queue)
    BY <1>6, <2>1, <2>2 DEF E!ToSet
  <2>3. CASE i > Len(queue)
    <3>1. i - Len(queue) \in 1 .. Len(order) /\ Len(queue) + (i - Len(queue)) = i
      BY <2>1, <2>3
    <3>2. queue'[i] = order[i - Len(queue)]
      BY <1>7, <3>1
    <3> QED
      BY <2>1, <3>1, <3>2 DEF E!ToSet
  <2> QED
    BY <2>1, <2>2, <2>3
<1>9. E!ToSet(queue) \subseteq E!ToSet(queue')
  <2>1. \A i \in DOMAIN queue : i \in DOMAIN queue' /\ queue'[i] = queue[i]
    BY <1>4, <1>5, <1>6
  <2> QED
    BY <2>1 DEF E!ToSet
<1>10. E!ToSet(order) \subseteq E!ToSet(queue')
  <2>1. \A i \in DOMAIN order : Len(queue) + i \in DOMAIN queue' /\ queue'[Len(queue) + i] = order[i]
    <3> SUFFICES ASSUME NEW i \in DOMAIN order
                 PROVE  Len(queue) + i \in DOMAIN queue' /\ queue'[Len(queue) + i] = order[i]
      OBVIOUS
    <3>1. i \in 1 .. Len(order) /\ Len(queue) \in Nat /\ Len(order) \in Nat
      BY <1>4
    <3>2. DOMAIN queue' = 1 .. (Len(queue) + Len(order))
      BY <1>5
    <3> QED
      BY <1>7, <3>1, <3>2
  <2> QED
    BY <2>1 DEF E!ToSet
<1>11. E!ToSet(queue') = E!ToSet(queue) \cup E!Newly
  <2>1. E!ToSet(queue') \subseteq E!ToSet(queue) \cup E!ToSet(order)
    BY <1>8 DEF E!ToSet
  <2> QED
    BY <1>2, <1>9, <1>10, <2>1
<1>12. queue # <<>> => queue' # <<>> /\ Head(queue') = Head(queue)
  BY <1>4, <1>5, <1>6
<1> QED
  BY <1>5, <1>11, <1>12

\* The queue after a claim.
LEMMA QueueAfterClaim ==
  ASSUME queue \in Seq(CelebratedIds), E!Claimed
  PROVE  queue' \in Seq(CelebratedIds) /\ E!ToSet(queue') = E!ToSet(queue) \ {call.id}
<1> DEFINE others == CelebratedIds \ {call.id}
<1>1. queue' = O!Filter(queue, others)
  BY DEF E!Claimed, E!Filter, O!Filter
<1>2. /\ O!Filter(queue, others) \in Seq(CelebratedIds \cap others)
      /\ O!ToSet(O!Filter(queue, others)) = O!ToSet(queue) \cap others
  BY FilterHas
<1>3. O!ToSet(queue') = E!ToSet(queue') /\ O!ToSet(queue) = E!ToSet(queue)
  BY DEF O!ToSet, E!ToSet
<1>4. E!ToSet(queue) \subseteq CelebratedIds
  BY DEF E!ToSet
<1>5. E!ToSet(queue) \cap others = E!ToSet(queue) \ {call.id}
  BY <1>4
<1> HIDE DEF others
<1>6. queue' \in Seq(CelebratedIds)
  BY <1>1, <1>2, SeqMonotonic
<1> QED
  BY <1>1, <1>2, <1>3, <1>5, <1>6

\* The queue after "Later".
LEMMA QueueAfterLater ==
  ASSUME queue \in Seq(CelebratedIds), E!Dismiss
  PROVE  /\ queue' \in Seq(CelebratedIds) /\ E!ToSet(queue') \subseteq E!ToSet(queue)
         /\ \A c \in E!ToSet(queue) : c \in E!ToSet(queue') \/ c = E!Current
<1>1. queue' = IF queue = <<>> THEN <<>> ELSE Tail(queue)
  BY DEF E!Dismiss
<1>2. CASE queue = <<>>
  <2>1. queue' = <<>> /\ E!ToSet(queue) = {}
    BY <1>1, <1>2 DEF E!ToSet
  <2> QED
    BY <2>1 DEF E!ToSet
<1>3. CASE queue # <<>>
  <2>1. /\ queue' \in Seq(CelebratedIds) /\ Len(queue') = Len(queue) - 1
        /\ \A i \in 1 .. (Len(queue) - 1) : queue'[i] = queue[i + 1]
    BY <1>1, <1>3
  <2>2. E!Current = queue[1] /\ DOMAIN queue = 1 .. Len(queue) /\ DOMAIN queue' = 1 .. (Len(queue) - 1)
    BY <1>3, <2>1 DEF E!Current
  <2>3. E!ToSet(queue') \subseteq E!ToSet(queue)
    <3>1. \A i \in DOMAIN queue' : i + 1 \in DOMAIN queue /\ queue'[i] = queue[i + 1]
      BY <1>3, <2>1, <2>2
    <3> QED
      BY <3>1 DEF E!ToSet
  <2>4. \A c \in E!ToSet(queue) : c \in E!ToSet(queue') \/ c = E!Current
    <3> SUFFICES ASSUME NEW i \in DOMAIN queue, i # 1 PROVE queue[i] \in E!ToSet(queue')
      BY <2>2 DEF E!ToSet
    <3>1. i - 1 \in DOMAIN queue' /\ queue'[i - 1] = queue[i]
      BY <1>3, <2>1, <2>2
    <3> QED
      BY <3>1 DEF E!ToSet
  <2> QED
    BY <2>1, <2>3, <2>4
<1> QED
  BY <1>2, <1>3

LEMMA ListForm ==
  ASSUME CelebrationForm, E!Poll \/ E!TriggerCheck \/ E!ReadList \/ E!Answer \/ E!FetchFails
  PROVE  CelebrationForm'
<1>1. /\ UNCHANGED <<status, user, queue, error, seen, looked, screen, call>>
  BY DEF E!Poll, E!TriggerCheck, E!ReadList, E!Answer, E!FetchFails, E!memory, E!state, E!history
<1>2. E!Pending' = E!Pending
  BY <1>1 DEF E!Pending
<1>3. E!NoFetch \in [phase : {"idle", "sent", "read"}, found : [CelebratedIds -> E!Statuses \cup {E!None}]]
  BY DEF E!NoFetch, E!NoList
<1>4. /\ list' \in [CelebratedIds -> E!Statuses \cup {E!None}]
      /\ fetch' \in [phase : {"idle", "sent", "read"}, found : [CelebratedIds -> E!Statuses \cup {E!None}]]
  <2>1. CASE E!Poll \/ E!TriggerCheck
    BY <1>3, <2>1 DEF E!Poll, E!TriggerCheck, CelebrationForm
  <2>2. CASE E!ReadList
    <3>1. /\ list' = list
          /\ fetch' = [phase |-> "read",
                       found |-> [c \in CelebratedIds |-> IF user \in parties[c] THEN status[c] ELSE E!None]]
      BY <2>2 DEF E!ReadList
    <3>2. [c \in CelebratedIds |-> IF user \in parties[c] THEN status[c] ELSE E!None]
            \in [CelebratedIds -> E!Statuses \cup {E!None}]
      BY DEF CelebrationForm
    <3> QED
      BY <3>1, <3>2 DEF CelebrationForm
  <2>3. CASE E!Answer
    BY <1>3, <2>3 DEF E!Answer, CelebrationForm
  <2>4. CASE E!FetchFails
    BY <1>3, <2>4 DEF E!FetchFails, CelebrationForm
  <2> QED
    BY <2>1, <2>2, <2>3, <2>4
<1> QED
  BY <1>1, <1>2, <1>4 DEF CelebrationForm

LEMMA NoticeForm == ASSUME CelebratedOnes, CelebrationForm, E!Notice PROVE CelebrationForm'
<1>1. UNCHANGED <<status, user, list, fetch, error, screen, call, looked>>
  BY DEF E!Notice
<1>2. E!Pending' = E!Pending
  BY <1>1 DEF E!Pending
<1>3. seen' \subseteq CelebratedIds
  BY DEF E!Notice, E!Old, E!Newly, CelebrationForm
<1>4. queue' \in Seq(CelebratedIds)
  <2>1. CASE loaded
    BY <2>1, QueueAfterNotice DEF CelebrationForm
  <2>2. CASE ~loaded
    BY <2>2 DEF E!Notice, CelebrationForm
  <2> QED
    BY <2>1, <2>2
<1> QED
  BY <1>1, <1>2, <1>3, <1>4 DEF CelebrationForm

LEMMA ScreenForm ==
  ASSUME CelebrationForm, E!Render \/ E!Claim \/ E!Dismiss PROVE CelebrationForm'
<1>1. UNCHANGED <<status, user, list, fetch>>
  BY DEF E!Render, E!Claim, E!Dismiss
<1>2. /\ queue' \in Seq(CelebratedIds) /\ seen' \subseteq CelebratedIds
      /\ error' \in CelebratedIds \cup {E!None}
  <2>1. CASE E!Render
    BY <2>1 DEF E!Render, E!memory, E!state, CelebrationForm
  <2>2. CASE E!Claim
    BY <2>2 DEF E!Claim, E!memory, CelebrationForm
  <2>3. CASE E!Dismiss
    <3>1. queue' \in Seq(CelebratedIds)
      BY <2>3, QueueAfterLater DEF CelebrationForm
    <3> QED
      BY <2>3, <3>1 DEF E!Dismiss, CelebrationForm
  <2> QED
    BY <2>1, <2>2, <2>3
<1>3. screen' = E!Rendered' /\ looked' = looked \cup ({E!Current'} \ {E!None})
  <2>1. CASE E!Render
    <3>1. UNCHANGED <<queue, claiming, call>>
      BY <2>1 DEF E!Render, E!state
    <3>2. E!Current' = E!Current /\ E!Rendered' = E!Rendered
      BY <3>1 DEF E!Current, E!Rendered, E!Pending
    <3> QED
      BY <2>1, <3>2 DEF E!Render
  <2>2. CASE E!Claim \/ E!Dismiss
    BY <2>2 DEF E!Claim, E!Dismiss, E!ShownNow
  <2> QED
    BY <2>1, <2>2
<1>4. looked' \subseteq CelebratedIds /\ (screen'.current # E!None => screen'.current \in looked')
  BY <1>2, <1>3, ShownIsLooked
<1>5. /\ call' \in [id : CelebratedIds \cup {E!None}, phase : {"idle", "sent", "ok", "failed", "settling"}]
      /\ E!Pending' => call'.id \in CelebratedIds /\ call'.phase # "idle"
  <2>1. CASE E!Render \/ E!Dismiss
    <3>1. call' = call
      BY <2>1 DEF E!Render, E!Dismiss
    <3> QED
      BY <3>1 DEF E!Pending, CelebrationForm
  <2>2. CASE E!Claim
    BY <2>2 DEF E!Claim, CelebrationForm
  <2> QED
    BY <2>1, <2>2
<1> QED
  BY <1>1, <1>2, <1>4, <1>5 DEF CelebrationForm

LEMMA CallForm ==
  ASSUME CelebrationForm, \/ E!HandleClaim \/ E!LoseClaim \/ E!Claimed \/ E!NotClaimed \/ E!Settle
  PROVE  CelebrationForm'
<1>1. /\ UNCHANGED <<user, list, looked, screen>> /\ call.phase # "idle"
  BY DEF E!HandleClaim, E!LoseClaim, E!Claimed, E!NotClaimed, E!Settle, E!history
<1>2. E!Pending /\ call.id \in CelebratedIds
  BY <1>1 DEF E!Pending, E!NoCall, CelebrationForm
<1>3. /\ call' \in [id : CelebratedIds \cup {E!None}, phase : {"idle", "sent", "ok", "failed", "settling"}]
      /\ E!Pending' => call'.id \in CelebratedIds /\ call'.phase # "idle"
  <2>1. CASE E!HandleClaim \/ E!LoseClaim \/ E!Claimed
    <3>1. PICK p \in {"ok", "failed", "settling"} : call' = [call EXCEPT !.phase = p]
      <4>1. CASE E!HandleClaim
        BY <4>1 DEF E!HandleClaim
      <4>2. CASE E!LoseClaim
        BY <4>2 DEF E!LoseClaim
      <4>3. CASE E!Claimed
        BY <4>3 DEF E!Claimed
      <4> QED
        BY <2>1, <4>1, <4>2, <4>3
    <3>2. call'.id = call.id /\ call'.phase = p /\ DOMAIN call' = DOMAIN call
      BY <3>1 DEF CelebrationForm
    <3>3. call' = [id |-> call.id, phase |-> p]
      BY <3>1 DEF CelebrationForm
    <3> QED
      BY <1>2, <3>2, <3>3
  <2>2. CASE E!NotClaimed \/ E!Settle
    BY <2>2 DEF E!NotClaimed, E!Settle, E!NoCall, E!Pending
  <2> QED
    BY <2>1, <2>2
<1>4. /\ queue' \in Seq(CelebratedIds) /\ seen' \subseteq CelebratedIds
      /\ error' \in CelebratedIds \cup {E!None}
  <2>1. CASE E!Claimed
    <3>1. queue' \in Seq(CelebratedIds)
      BY <2>1, QueueAfterClaim DEF CelebrationForm
    <3> QED
      BY <1>2, <2>1, <3>1 DEF E!Claimed, CelebrationForm
  <2>2. CASE E!NotClaimed
    BY <1>2, <2>2 DEF E!NotClaimed, E!memory, CelebrationForm
  <2>3. CASE E!HandleClaim \/ E!LoseClaim \/ E!Settle
    BY <2>3 DEF E!HandleClaim, E!LoseClaim, E!Settle, E!memory, E!state, CelebrationForm
  <2> QED
    BY <2>1, <2>2, <2>3
<1>5. status' \in [CelebratedIds -> E!Statuses]
  <2>1. CASE E!HandleClaim
    <3>1. status' = status \/ status' = [status EXCEPT ![call.id] = "claimed"]
      BY <2>1 DEF E!HandleClaim
    <3> QED
      BY <3>1 DEF CelebrationForm, E!Statuses
  <2>2. CASE E!LoseClaim \/ E!Claimed \/ E!NotClaimed \/ E!Settle
    BY <2>2 DEF E!LoseClaim, E!Claimed, E!NotClaimed, E!Settle, CelebrationForm
  <2> QED
    BY <2>1, <2>2
<1>6. fetch' \in [phase : {"idle", "sent", "read"}, found : [CelebratedIds -> E!Statuses \cup {E!None}]]
  <2>1. E!NoFetch \in [phase : {"idle", "sent", "read"}, found : [CelebratedIds -> E!Statuses \cup {E!None}]]
    BY DEF E!NoFetch, E!NoList
  <2>2. fetch' = fetch \/ fetch' = [E!NoFetch EXCEPT !.phase = "sent"]
    BY DEF E!HandleClaim, E!LoseClaim, E!Claimed, E!NotClaimed, E!Settle
  <2> QED
    BY <2>1, <2>2 DEF CelebrationForm
<1> QED
  BY <1>1, <1>3, <1>4, <1>5, <1>6 DEF CelebrationForm

LEMMA SignForm ==
  ASSUME CelebrationForm, (\E u \in CelebratingUsers : E!SignIn(u)) \/ E!SignOut \/ E!Elsewhere
  PROVE  CelebrationForm'
<1>0. call' = call /\ E!Pending' = E!Pending
  BY DEF E!SignIn, E!SignOut, E!Elsewhere, E!Pending
<1>1. CASE \E u \in CelebratingUsers : E!SignIn(u)
  BY <1>0, <1>1 DEF E!SignIn, E!memory, E!state, E!history, CelebrationForm
<1>2. CASE E!SignOut
  <2>1. /\ UNCHANGED status /\ user' = E!Nobody /\ list' = E!NoList /\ fetch' = E!NoFetch
        /\ seen' = {} /\ queue' = <<>> /\ error' = E!None /\ looked' = {} /\ screen' = E!Rendered'
    BY <1>2 DEF E!SignOut, E!Cleared
  <2>2. screen'.current = E!None
    BY <2>1 DEF E!Rendered, E!Current
  <2>3. /\ E!NoList \in [CelebratedIds -> E!Statuses \cup {E!None}]
        /\ E!NoFetch \in [phase : {"idle", "sent", "read"}, found : [CelebratedIds -> E!Statuses \cup {E!None}]]
    BY DEF E!NoFetch, E!NoList
  <2> QED
    BY <1>0, <2>1, <2>2, <2>3 DEF CelebrationForm
<1>3. CASE E!Elsewhere
  <2>1. UNCHANGED <<user, list, fetch, seen, queue, error, looked, screen>>
    BY <1>3 DEF E!Elsewhere, E!memory, E!state, E!history
  <2>2. PICK c \in CelebratedIds : \/ status' = [status EXCEPT ![c] = "completed"]
                                   \/ status' = [status EXCEPT ![c] = "claimed"]
    BY <1>3 DEF E!Elsewhere
  <2>3. status' \in [CelebratedIds -> E!Statuses]
    BY <2>2 DEF CelebrationForm, E!Statuses
  <2> QED
    BY <1>0, <2>1, <2>3 DEF CelebrationForm
<1> QED
  BY <1>1, <1>2, <1>3

LEMMA NextCelebrationForm ==
  ASSUME CelebratedOnes PROVE CelebrationForm /\ [E!Next]_(E!vars) => CelebrationForm'
<1> SUFFICES ASSUME CelebrationForm, [E!Next]_(E!vars) PROVE CelebrationForm'
  OBVIOUS
<1>1. CASE E!Poll \/ E!TriggerCheck \/ E!ReadList \/ E!Answer \/ E!FetchFails
  BY <1>1, ListForm
<1>2. CASE E!Notice
  BY <1>2, NoticeForm
<1>3. CASE E!Render \/ E!Claim \/ E!Dismiss
  BY <1>3, ScreenForm
<1>4. CASE E!HandleClaim \/ E!LoseClaim \/ E!Claimed \/ E!NotClaimed \/ E!Settle
  BY <1>4, CallForm
<1>5. CASE (\E u \in CelebratingUsers : E!SignIn(u)) \/ E!SignOut \/ E!Elsewhere
  BY <1>5, SignForm
<1>6. CASE UNCHANGED E!vars
  <2>1. UNCHANGED <<status, user, list, fetch, seen, queue, error, looked, screen, call>>
    BY <1>6 DEF E!vars, E!memory, E!state, E!history
  <2> QED
    BY <2>1 DEF CelebrationForm, E!Pending
<1> QED
  BY <1>1, <1>2, <1>3, <1>4, <1>5, <1>6 DEF E!Next

\* Every variable of the celebration keeps its type (useChallengeCompletion).
THEOREM CelebrationTypes == ASSUME CelebratedOnes PROVE E!Spec => []E!TypeOK
<1>1. CelebrationForm => E!TypeOK
  BY DEF CelebrationForm, E!TypeOK
<1> QED
  BY <1>1, InitCelebrationForm, NextCelebrationForm, PTL DEF E!Spec

\* A challenge that has been completed at least once.
Over(c) == status[c] # "active"

\* A challenge that the session finds over, at its first answer.
Bygone(c) ==
  /\ loaded => (user \in parties[c] => c \in first)
  /\ ~loaded => /\ list[c] # "active"
                /\ fetch.phase = "read" => fetch.found[c] # "active"

\* What is completed is known, and what is known was over at first, waits, or was rendered; a
\* claim may be of an earlier session.
SeenInv ==
  /\ CelebrationForm
  /\ user = E!Nobody => ~loaded
  /\ \A c \in CelebratedIds :
       /\ c \in looked \cup E!ToSet(queue) \cup seen => Over(c)
       /\ list[c] \in {"completed", "claimed"} => Over(c)
       /\ fetch.phase = "read" /\ fetch.found[c] \in {"completed", "claimed"} => Over(c)
       /\ fetch.phase = "read" /\ user \in parties[c] => fetch.found[c] # E!None
       /\ fresh /\ user \in parties[c] => list[c] # E!None
       /\ loaded /\ ~fresh /\ list[c] = "completed" => c \in seen
       /\ list[c] # E!None => user \in parties[c]
       /\ ~slipped /\ c \in seen => Bygone(c) \/ c \in looked \cup E!ToSet(queue)
  /\ E!Pending => Over(call.id) /\ (Bygone(call.id) \/ call.id \in looked)

LEMMA InitSeen == E!Init => SeenInv
<1> SUFFICES ASSUME E!Init PROVE SeenInv
  OBVIOUS
<1>1. /\ queue = <<>> /\ ~fresh /\ fetch.phase = "idle" /\ ~loaded /\ looked = {} /\ seen = {}
      /\ \A c \in CelebratedIds : list[c] = E!None
      /\ ~E!Pending /\ E!ToSet(queue) = {}
  BY DEF E!Init, E!NoList, E!NoFetch, E!Pending, E!ToSet
<1>2. user # E!Nobody \/ user = E!Nobody
  OBVIOUS
<1>3. CelebrationForm
  BY InitCelebrationForm
<1> QED
  BY <1>1, <1>3 DEF SeenInv, E!None

\* A challenge that is over stays so.
LEMMA StaysOver ==
  ASSUME CelebrationForm, [E!Next]_(E!vars) PROVE \A c \in CelebratedIds : Over(c) => Over(c)'
<1>1. \/ status' = status
      \/ \E c \in CelebratedIds : status' = [status EXCEPT ![c] = "completed"]
      \/ \E c \in CelebratedIds : status' = [status EXCEPT ![c] = "claimed"]
  <2>1. CASE E!Elsewhere
    BY <2>1 DEF E!Elsewhere
  <2>2. CASE E!HandleClaim
    <3>1. call.phase = "sent"
      BY <2>2 DEF E!HandleClaim
    <3>2. call.id \in CelebratedIds
      BY <3>1 DEF CelebrationForm, E!Pending, E!NoCall
    <3>3. status' = status \/ status' = [status EXCEPT ![call.id] = "claimed"]
      BY <2>2 DEF E!HandleClaim
    <3> QED
      BY <3>2, <3>3
  <2>3. CASE \/ E!Poll \/ E!TriggerCheck \/ E!ReadList \/ E!Answer \/ E!FetchFails \/ E!Notice \/ E!Render \/ E!Dismiss
             \/ (\E u \in CelebratingUsers : E!SignIn(u)) \/ E!SignOut \/ E!Claim \/ E!LoseClaim \/ E!Claimed
             \/ E!NotClaimed \/ E!Settle \/ UNCHANGED E!vars
    BY <2>3 DEF E!Poll, E!TriggerCheck, E!ReadList, E!Answer, E!FetchFails, E!Notice, E!Render, E!Dismiss,
         E!SignIn, E!SignOut, E!Claim, E!LoseClaim, E!Claimed, E!NotClaimed, E!Settle, E!vars
  <2> QED
    BY <2>1, <2>2, <2>3 DEF E!Next
<1>2. "active" # "completed" /\ "active" # "claimed" /\ DOMAIN status = CelebratedIds
  BY DEF CelebrationForm
<1> SUFFICES ASSUME NEW c \in CelebratedIds, status[c] # "active" PROVE status'[c] # "active"
  BY DEF Over
<1> QED
  BY <1>1, <1>2

LEMMA ListSeen ==
  ASSUME SeenInv, CelebrationForm', \A c \in CelebratedIds : Over(c) => Over(c)',
         E!Poll \/ E!TriggerCheck \/ E!ReadList \/ E!Answer \/ E!FetchFails, CelebrationInv
  PROVE  SeenInv'
<1>1. UNCHANGED <<parties, status, user, queue, seen, looked, first, call, loaded, slipped>>
  BY DEF E!Poll, E!TriggerCheck, E!ReadList, E!Answer, E!FetchFails, E!memory, E!state, E!history
<1>2. E!Pending' = E!Pending /\ E!ToSet(queue)' = E!ToSet(queue) /\ user # E!Nobody
  BY <1>1 DEF E!Pending, E!ToSet, CelebrationInv, E!Poll, E!TriggerCheck, E!ReadList, E!Answer, E!FetchFails
<1>3. E!Pending => call.id \in CelebratedIds
  BY DEF SeenInv, CelebrationForm
<1>4. CASE E!Poll \/ E!TriggerCheck \/ E!FetchFails
  <2>1. UNCHANGED <<list, fresh>> /\ fetch'.phase # "read"
    BY <1>4 DEF E!Poll, E!TriggerCheck, E!FetchFails, E!NoFetch
  <2>2. \A c \in CelebratedIds : Bygone(c) => Bygone(c)'
    BY <1>1, <2>1 DEF Bygone
  <2> QED
    BY <1>1, <1>2, <1>3, <2>1, <2>2 DEF SeenInv
<1>5. CASE E!ReadList
  <2>1. /\ UNCHANGED <<list, fresh>>
        /\ \A c \in CelebratedIds : fetch'.found[c] = IF user \in parties[c] THEN status[c] ELSE E!None
    BY <1>5 DEF E!ReadList
  <2>2. \A c \in CelebratedIds : Over(c) /\ Bygone(c) => Bygone(c)'
    BY <1>1, <2>1 DEF Bygone, Over, E!None
  <2>3. \A c \in CelebratedIds : /\ fetch'.found[c] \in {"completed", "claimed"} => Over(c)
                                 /\ user \in parties[c] => fetch'.found[c] # E!None
    BY <2>1 DEF SeenInv, CelebrationForm, Over, E!None, E!Statuses
  <2> QED
    BY <1>1, <1>2, <1>3, <2>1, <2>2, <2>3 DEF SeenInv
<1>6. CASE E!Answer
  <2>1. /\ fetch.phase = "read" /\ list' = fetch.found /\ fetch'.phase = "idle"
        /\ fresh' = (fresh \/ list' # list \/ ~loaded)
    BY <1>6 DEF E!Answer, E!NoFetch
  <2>2. \A c \in CelebratedIds : Bygone(c) => Bygone(c)'
    BY <1>1, <2>1 DEF Bygone
  <2>3. ASSUME NEW c \in CelebratedIds
        PROVE  /\ list'[c] \in {"completed", "claimed"} => Over(c)
               /\ fresh' /\ user \in parties[c] => list'[c] # E!None
               /\ list'[c] # E!None => user \in parties[c]
    BY <2>1, <2>3 DEF SeenInv, CelebrationInv, Partaken
  <2>4. ASSUME NEW c \in CelebratedIds, loaded', ~fresh', list'[c] = "completed"
        PROVE  c \in seen'
    <3>1. loaded /\ ~fresh /\ list' = list
      BY <1>1, <2>1, <2>4
    <3> QED
      BY <1>1, <2>4, <3>1 DEF SeenInv
  <2> QED
    BY <1>1, <1>2, <1>3, <2>1, <2>2, <2>3, <2>4 DEF SeenInv
<1> QED
  BY <1>4, <1>5, <1>6

LEMMA NoticeSeen ==
  ASSUME CelebratedOnes, SeenInv, CelebrationForm', \A c \in CelebratedIds : Over(c) => Over(c)', E!Notice,
         CelebrationInv
  PROVE  SeenInv'
<1>1. /\ UNCHANGED <<parties, status, user, list, fetch, call, looked, slipped>> /\ fresh /\ fresh' = FALSE
  BY DEF E!Notice
<1>2. E!Pending' = E!Pending /\ (E!Pending => call.id \in CelebratedIds)
  BY <1>1 DEF E!Pending, SeenInv, CelebrationForm
<1>3. CASE ~loaded
  <2>1. /\ loaded' = TRUE /\ seen' = seen \cup E!Old /\ queue' = queue
        /\ first' = {c \in CelebratedIds : list[c] \notin {"active", E!None}}
    BY <1>3 DEF E!Notice
  <2>2. E!ToSet(queue)' = E!ToSet(queue)
    BY <2>1 DEF E!ToSet
  <2>3. \A c \in CelebratedIds : Bygone(c) => Bygone(c)'
    BY <1>1, <1>3, <2>1 DEF Bygone, SeenInv
  <2>4. \A c \in CelebratedIds : c \in E!Old => Bygone(c)' /\ Over(c)
    BY <1>1, <2>1 DEF Bygone, SeenInv, E!Old, E!None
  <2>5. \A c \in CelebratedIds : list[c] = "completed" => c \in E!Old
    BY DEF E!Old
  <2>6. user # E!Nobody
    BY <1>1 DEF CelebrationInv
  <2> QED
    BY <1>1, <1>2, <1>3, <2>1, <2>2, <2>3, <2>4, <2>5, <2>6 DEF SeenInv
<1>4. CASE loaded
  <2>1. UNCHANGED <<loaded, first>> /\ seen' = seen \cup E!Newly
    BY <1>4 DEF E!Notice
  <2>2. E!ToSet(queue') = E!ToSet(queue) \cup E!Newly
    BY <1>4, QueueAfterNotice DEF SeenInv, CelebrationForm
  <2>3. \A c \in CelebratedIds : Bygone(c) => Bygone(c)'
    BY <1>1, <2>1 DEF Bygone
  <2>4. \A c \in CelebratedIds : c \in E!Newly => Over(c)
    BY DEF E!Newly, SeenInv
  <2>5. \A c \in CelebratedIds : list[c] = "completed" => c \in seen \cup E!Newly
    BY DEF E!Newly
  <2> QED
    BY <1>1, <1>2, <1>4, <2>1, <2>2, <2>3, <2>4, <2>5 DEF SeenInv
<1> QED
  BY <1>3, <1>4

LEMMA ScreenSeen ==
  ASSUME SeenInv, CelebrationForm', \A c \in CelebratedIds : Over(c) => Over(c)', E!Render \/ E!Claim
  PROVE  SeenInv'
<1>1. UNCHANGED <<parties, status, user, list, fetch, fresh, loaded, seen, queue, first, slipped>>
  BY DEF E!Render, E!Claim, E!memory, E!state
<1>2. E!ToSet(queue)' = E!ToSet(queue) /\ E!Current' = E!Current
  BY <1>1 DEF E!ToSet, E!Current
<1>3. looked' = looked \cup ({E!Current} \ {E!None})
  BY <1>2 DEF E!Render, E!Claim, E!ShownNow
<1>4. E!Current # E!None => E!Current \in E!ToSet(queue)
  <2>1. queue # <<>> => Head(queue) = queue[1] /\ 1 \in DOMAIN queue
    BY DEF SeenInv, CelebrationForm
  <2> QED
    BY <2>1 DEF E!Current, E!ToSet
<1>5. \A c \in CelebratedIds : (Bygone(c) => Bygone(c)') /\ (Over(c) => Over(c)')
  BY <1>1 DEF Bygone
<1>6. E!Pending' => Over(call.id)' /\ (Bygone(call.id)' \/ call'.id \in looked')
  <2>1. CASE call' = call
    <3>1. E!Pending' = E!Pending /\ (E!Pending => call.id \in CelebratedIds)
      BY <2>1 DEF E!Pending, SeenInv, CelebrationForm
    <3>2. ASSUME E!Pending PROVE Over(call.id)' /\ (Bygone(call.id)' \/ call'.id \in looked')
      <4>1. Over(call.id) => Over(call.id)'
        BY <1>1, <2>1 DEF Over
      <4>2. Bygone(call.id) => Bygone(call.id)'
        BY <1>1, <2>1 DEF Bygone
      <4> QED
        BY <1>3, <2>1, <3>2, <4>1, <4>2 DEF SeenInv
    <3> QED
      BY <3>1, <3>2
  <2>2. CASE call' # call
    <3>1. call' = [id |-> screen.current, phase |-> "sent"] /\ screen.current # E!None
      BY <2>2 DEF E!Render, E!Claim
    <3>2. screen.current \in looked /\ screen.current \in CelebratedIds
      BY <3>1 DEF SeenInv, CelebrationForm
    <3>3. status[call'.id] # "active"
      BY <3>1, <3>2 DEF SeenInv, Over
    <3>4. Over(call.id)'
      BY <1>1, <3>3 DEF Over
    <3> QED
      BY <1>3, <3>1, <3>2, <3>4
  <2> QED
    BY <2>1, <2>2
<1> QED
  BY <1>1, <1>2, <1>3, <1>4, <1>5, <1>6 DEF SeenInv

LEMMA DismissSeen ==
  ASSUME SeenInv, CelebrationForm', \A c \in CelebratedIds : Over(c) => Over(c)', E!Dismiss
  PROVE  SeenInv'
<1>1. /\ UNCHANGED <<parties, status, user, list, fetch, fresh, loaded, call, first>>
      /\ seen' = seen \cup {screen.current} /\ screen.current # E!None
      /\ slipped' = (slipped \/ screen.current # E!Current)
  BY DEF E!Dismiss
<1>2. screen.current \in looked
  BY <1>1 DEF SeenInv, CelebrationForm
<1>3. /\ E!ToSet(queue') \subseteq E!ToSet(queue)
      /\ \A c \in E!ToSet(queue) : c \in E!ToSet(queue') \/ c = E!Current
  BY QueueAfterLater DEF SeenInv, CelebrationForm
<1>4. looked' = looked \cup ({E!Current'} \ {E!None}) /\ (E!Current' = E!None \/ E!Current' \in E!ToSet(queue'))
  <2>1. queue' # <<>> => Head(queue') = queue'[1] /\ 1 \in DOMAIN queue'
    BY DEF CelebrationForm
  <2>2. E!Current' = IF queue' = <<>> THEN E!None ELSE Head(queue')
    BY DEF E!Current
  <2> QED
    BY <2>1, <2>2 DEF E!ToSet, E!Dismiss, E!ShownNow
<1>5. \A c \in CelebratedIds : (Bygone(c) => Bygone(c)') /\ (Over(c) <=> Over(c)')
  BY <1>1 DEF Bygone, Over
<1>6. E!Pending' = E!Pending /\ (E!Pending => call.id \in CelebratedIds)
  BY <1>1 DEF E!Pending, SeenInv, CelebrationForm
<1>7. E!ToSet(queue)' = E!ToSet(queue')
  BY DEF E!ToSet
<1>8. ASSUME NEW c \in CelebratedIds, ~slipped', c \in seen'
      PROVE  Bygone(c)' \/ c \in looked' \cup E!ToSet(queue')
  <2>1. ~slipped /\ screen.current = E!Current
    BY <1>1, <1>8
  <2>2. c \in seen \/ c \in looked
    BY <1>1, <1>2, <1>8
  <2>3. Bygone(c) \/ c \in looked \cup E!ToSet(queue)
    BY <2>1, <2>2 DEF SeenInv
  <2> QED
    BY <1>2, <1>3, <1>4, <1>5, <2>1, <2>3
<1>9. ASSUME NEW c \in CelebratedIds PROVE c \in looked' \cup E!ToSet(queue') \cup seen' => Over(c)
  BY <1>1, <1>2, <1>3, <1>4, <1>9 DEF SeenInv
<1>10. E!Pending' => Over(call.id)' /\ (Bygone(call.id)' \/ call'.id \in looked')
  <2> SUFFICES ASSUME E!Pending PROVE Over(call.id)' /\ (Bygone(call.id)' \/ call'.id \in looked')
    BY <1>6
  <2>1. Over(call.id) => Over(call.id)'
    BY <1>1 DEF Over
  <2>2. Bygone(call.id) => Bygone(call.id)'
    BY <1>1 DEF Bygone
  <2> QED
    BY <1>1, <1>4, <2>1, <2>2 DEF SeenInv
<1> QED
  BY <1>1, <1>5, <1>7, <1>8, <1>9, <1>10 DEF SeenInv

LEMMA ClaimedSeen ==
  ASSUME SeenInv, CelebrationForm', \A c \in CelebratedIds : Over(c) => Over(c)', E!Claimed
  PROVE  SeenInv'
<1>1. /\ UNCHANGED <<parties, status, user, list, fresh, loaded, first, looked, slipped>>
      /\ seen' = seen \cup {call.id} /\ call' = [call EXCEPT !.phase = "settling"]
      /\ call.phase = "ok" /\ (fetch' = fetch \/ fetch'.phase = "sent")
  BY DEF E!Claimed, E!history, E!NoFetch
<1>2. E!Pending /\ call.id \in CelebratedIds /\ call'.id = call.id
  BY <1>1 DEF E!Pending, E!NoCall, SeenInv, CelebrationForm
<1>3. E!ToSet(queue') = E!ToSet(queue) \ {call.id} /\ E!ToSet(queue)' = E!ToSet(queue')
  BY QueueAfterClaim DEF SeenInv, CelebrationForm, E!ToSet
<1>4. \A c \in CelebratedIds : (Bygone(c) => Bygone(c)') /\ (Over(c) => Over(c)')
  BY <1>1 DEF Bygone
<1>5. Over(call.id) /\ (Bygone(call.id) \/ call.id \in looked)
  BY <1>2 DEF SeenInv
<1>6. Over(call.id)' /\ (Bygone(call.id)' \/ call'.id \in looked')
  <2>1. Over(call.id) => Over(call.id)'
    BY <1>1, <1>2 DEF Over
  <2>2. Bygone(call.id) => Bygone(call.id)'
    BY <1>1, <1>2 DEF Bygone
  <2> QED
    BY <1>1, <1>2, <1>5, <2>1, <2>2
<1>7. ASSUME NEW c \in CelebratedIds, ~slipped', c \in seen'
      PROVE  Bygone(c)' \/ c \in looked' \cup E!ToSet(queue')
  <2>1. CASE c = call.id
    BY <1>1, <1>2, <1>4, <1>5, <2>1
  <2>2. CASE c # call.id
    <3>1. Bygone(c) \/ c \in looked \cup E!ToSet(queue)
      BY <1>1, <1>7, <2>2 DEF SeenInv
    <3> QED
      BY <1>1, <1>3, <1>4, <2>2, <3>1
  <2> QED
    BY <2>1, <2>2
<1>8. ASSUME NEW c \in CelebratedIds PROVE c \in looked' \cup E!ToSet(queue') \cup seen' => Over(c)
  BY <1>1, <1>3, <1>5, <1>8 DEF SeenInv
<1> QED
  BY <1>1, <1>3, <1>4, <1>6, <1>7, <1>8 DEF SeenInv

LEMMA CallSeen ==
  ASSUME SeenInv, CelebrationForm', \A c \in CelebratedIds : Over(c) => Over(c)',
         E!HandleClaim \/ E!LoseClaim \/ E!NotClaimed \/ E!Settle \/ E!Elsewhere \/ UNCHANGED E!vars
  PROVE  SeenInv'
<1>1. UNCHANGED <<parties, user, list, fetch, fresh, loaded, seen, queue, first, looked, slipped>>
  BY DEF E!HandleClaim, E!LoseClaim, E!NotClaimed, E!Settle, E!Elsewhere, E!vars, E!memory, E!state, E!history
<1>2. E!ToSet(queue)' = E!ToSet(queue)
  BY <1>1 DEF E!ToSet
<1>3. \A c \in CelebratedIds : (Bygone(c) => Bygone(c)') /\ (Over(c) => Over(c)')
  BY <1>1 DEF Bygone
<1>4. E!Pending' => E!Pending /\ call'.id = call.id
  <2>1. CASE E!HandleClaim \/ E!LoseClaim
    <3>1. call.phase # "idle" /\ call'.id = call.id
      BY <2>1 DEF E!HandleClaim, E!LoseClaim, SeenInv, CelebrationForm
    <3> QED
      BY <3>1 DEF E!Pending, E!NoCall
  <2>2. CASE E!NotClaimed \/ E!Settle
    BY <2>2 DEF E!NotClaimed, E!Settle, E!Pending
  <2>3. CASE E!Elsewhere \/ UNCHANGED E!vars
    <3>1. call' = call
      BY <2>3 DEF E!Elsewhere, E!vars
    <3> QED
      BY <3>1 DEF E!Pending
  <2> QED
    BY <2>1, <2>2, <2>3
<1>5. E!Pending' => Over(call.id)' /\ (Bygone(call.id)' \/ call'.id \in looked')
  <2> SUFFICES ASSUME E!Pending' PROVE Over(call.id)' /\ (Bygone(call.id)' \/ call'.id \in looked')
    OBVIOUS
  <2>1. E!Pending /\ call'.id = call.id
    BY <1>4
  <2>2. call.id \in CelebratedIds /\ Over(call.id) /\ (Bygone(call.id) \/ call.id \in looked)
    BY <2>1 DEF SeenInv, CelebrationForm
  <2>3. status'[call.id] # "active"
    BY <1>3, <2>2 DEF Over
  <2>4. Over(call.id)'
    BY <2>1, <2>3 DEF Over
  <2>5. Bygone(call.id) => Bygone(call.id)'
    BY <1>1, <2>1 DEF Bygone
  <2> QED
    BY <1>1, <2>1, <2>2, <2>4, <2>5
<1> QED
  BY <1>1, <1>2, <1>3, <1>5 DEF SeenInv

LEMMA SignSeen ==
  ASSUME SeenInv, CelebrationForm', \A c \in CelebratedIds : Over(c) => Over(c)', CelebrationInv,
         (\E u \in CelebratingUsers : E!SignIn(u)) \/ E!SignOut
  PROVE  SeenInv'
<1>1. UNCHANGED <<parties, status, call>> /\ E!Pending' = E!Pending
  BY DEF E!SignIn, E!SignOut, E!Pending
<1>2. E!Pending => call.id \in CelebratedIds /\ Over(call.id)
  BY DEF SeenInv, CelebrationForm
<1>3. Over(call.id)' <=> Over(call.id)
  BY <1>1 DEF Over
<1>4. CASE \E u \in CelebratingUsers : E!SignIn(u)
  <2>1. /\ UNCHANGED <<list, fetch, fresh, loaded, seen, queue, first, looked, slipped>> /\ user = E!Nobody
    BY <1>4 DEF E!SignIn, E!memory, E!state, E!history
  <2>2. ~loaded /\ ~fresh /\ fetch.phase = "idle" /\ \A c \in CelebratedIds : list[c] = E!None
    BY <2>1 DEF SeenInv, CelebrationInv
  <2>3. E!ToSet(queue)' = E!ToSet(queue)
    BY <2>1 DEF E!ToSet
  <2>4. \A c \in CelebratedIds : (Over(c) => Over(c)') /\ (Bygone(c) => Bygone(c)')
    BY <2>1, <2>2 DEF Bygone
  <2>5. E!Pending' => Over(call.id)' /\ Bygone(call.id)'
    BY <1>1, <1>2, <1>3, <2>1, <2>2 DEF Bygone, E!None
  <2> QED
    BY <1>1, <2>1, <2>2, <2>3, <2>4, <2>5 DEF SeenInv, E!None
<1>5. CASE E!SignOut
  <2>1. /\ fresh' = FALSE /\ loaded' = FALSE /\ fetch'.phase = "idle" /\ queue' = <<>> /\ seen' = {} /\ looked' = {}
        /\ \A c \in CelebratedIds : list'[c] = E!None
    BY <1>5 DEF E!SignOut, E!Cleared, E!NoList, E!NoFetch
  <2>2. E!ToSet(queue)' = {}
    BY <2>1 DEF E!ToSet
  <2>3. E!Pending' => Over(call.id)' /\ Bygone(call.id)'
    BY <1>1, <1>2, <1>3, <2>1 DEF Bygone, E!None
  <2> QED
    BY <2>1, <2>2, <2>3 DEF SeenInv, E!None
<1> QED
  BY <1>4, <1>5

LEMMA NextSeen ==
  ASSUME CelebratedOnes
  PROVE  SeenInv /\ CelebrationInv /\ [E!Next]_(E!vars) => SeenInv'
<1> SUFFICES ASSUME SeenInv, CelebrationInv, [E!Next]_(E!vars) PROVE SeenInv'
  OBVIOUS
<1>1. CelebrationForm /\ CelebrationForm'
  BY NextCelebrationForm DEF SeenInv
<1>2. \A c \in CelebratedIds : Over(c) => Over(c)'
  BY <1>1, StaysOver
<1>3. CASE E!Poll \/ E!TriggerCheck \/ E!ReadList \/ E!Answer \/ E!FetchFails
  BY <1>1, <1>2, <1>3, ListSeen
<1>4. CASE E!Notice
  BY <1>1, <1>2, <1>4, NoticeSeen
<1>5. CASE E!Render \/ E!Claim
  BY <1>1, <1>2, <1>5, ScreenSeen
<1>6. CASE E!Dismiss
  BY <1>1, <1>2, <1>6, DismissSeen
<1>7. CASE E!Claimed
  BY <1>1, <1>2, <1>7, ClaimedSeen
<1>8. CASE E!HandleClaim \/ E!LoseClaim \/ E!NotClaimed \/ E!Settle \/ E!Elsewhere \/ UNCHANGED E!vars
  BY <1>1, <1>2, <1>8, CallSeen
<1>9. CASE (\E u \in CelebratingUsers : E!SignIn(u)) \/ E!SignOut
  BY <1>1, <1>2, <1>9, SignSeen
<1> QED
  BY <1>3, <1>4, <1>5, <1>6, <1>7, <1>8, <1>9 DEF E!Next

\* Once the effect has run, no completed challenge of the list is passed over, whatever the
\* order of fetches, claims, renders and sessions (useChallengeCompletion).
THEOREM NoneIsMissed == ASSUME CelebratedOnes PROVE E!Spec => []E!NoneMissed
<1>1. SeenInv => E!NoneMissed
  <2> SUFFICES ASSUME SeenInv, user # E!Nobody, loaded, ~fresh, ~slipped, NEW c \in CelebratedIds, list[c] = "completed"
               PROVE  c \in first \cup E!ToSet(queue) \cup looked
    BY DEF E!NoneMissed
  <2>1. c \in seen /\ user \in parties[c]
    BY DEF SeenInv, E!None
  <2>2. Bygone(c) \/ c \in looked \cup E!ToSet(queue)
    BY <2>1 DEF SeenInv
  <2> QED
    BY <2>1, <2>2 DEF Bygone
<1> QED
  BY <1>1, InitSeen, NextSeen, InitCelebration, NextCelebration, PTL DEF E!Spec

\* A claim under way locks the button, an unlocked one is of the first of the queue, and so the
\* error is of it too.
BlameInv ==
  /\ E!Pending => screen.locked
  /\ ~screen.locked /\ screen.current # E!None => screen.current = E!Current
  /\ ~crossed /\ E!Unanswered => queue # <<>> /\ Head(queue) = call.id
  /\ ~crossed /\ error # E!None => queue # <<>> /\ Head(queue) = error

LEMMA InitBlame == E!Init => BlameInv
  BY DEF E!Init, BlameInv, E!Pending, E!Unanswered, E!Blank

\* The first of the queue stays, and so does who is claimed.
LEMMA BlameStays ==
  ASSUME BlameInv, UNCHANGED <<screen, error, crossed>>,
         queue # <<>> => queue' # <<>> /\ Head(queue') = Head(queue),
         E!Pending' => E!Pending,
         E!Unanswered' => E!Unanswered /\ call'.id = call.id
  PROVE  BlameInv'
<1>1. screen.current # E!None /\ screen.current = E!Current => screen.current = E!Current'
  BY DEF E!Current
<1> QED
  BY <1>1 DEF BlameInv

LEMMA CallBlame ==
  ASSUME BlameInv, CelebrationForm,
         E!HandleClaim \/ E!LoseClaim \/ E!NotClaimed \/ E!Settle \/ E!Elsewhere
  PROVE  BlameInv'
<1>1. UNCHANGED <<screen, crossed, queue>>
  BY DEF E!HandleClaim, E!LoseClaim, E!NotClaimed, E!Settle, E!Elsewhere, E!memory, E!state, E!history
<1>2. CASE E!HandleClaim \/ E!LoseClaim
  <2>1. /\ error' = error /\ call.phase # "idle" /\ call.phase # "settling" /\ call'.id = call.id
    BY <1>2 DEF E!HandleClaim, E!LoseClaim, E!state, CelebrationForm
  <2>2. E!Pending /\ E!Unanswered
    BY <2>1 DEF E!Pending, E!Unanswered, E!NoCall
  <2> QED
    BY <1>1, <2>1, <2>2, BlameStays
<1>3. CASE E!NotClaimed
  <2>1. call.phase = "failed" /\ error' = call.id /\ call' = E!NoCall
    BY <1>3 DEF E!NotClaimed
  <2>2. E!Unanswered /\ ~E!Pending' /\ ~E!Unanswered'
    BY <2>1 DEF E!Pending, E!Unanswered, E!NoCall
  <2>3. E!Current' = E!Current
    BY <1>1 DEF E!Current
  <2> QED
    BY <1>1, <2>1, <2>2, <2>3 DEF BlameInv
<1>4. CASE E!Settle \/ E!Elsewhere
  <2>1. error' = error /\ (call' = E!NoCall \/ call' = call)
    BY <1>4 DEF E!Settle, E!Elsewhere, E!state
  <2>2. E!Pending' => E!Pending /\ call' = call
    BY <2>1 DEF E!Pending
  <2>3. E!Unanswered' => E!Unanswered /\ call' = call
    BY <2>1, <2>2 DEF E!Unanswered, E!Pending
  <2> QED
    BY <1>1, <2>1, <2>2, <2>3, BlameStays
<1> QED
  BY <1>2, <1>3, <1>4

LEMMA NextBlame ==
  ASSUME CelebratedOnes
  PROVE  BlameInv /\ CelebrationForm /\ [E!Next]_(E!vars) => BlameInv'
<1> SUFFICES ASSUME BlameInv, CelebrationForm, [E!Next]_(E!vars) PROVE BlameInv'
  OBVIOUS
<1>1. CASE \/ E!Poll \/ E!TriggerCheck \/ E!ReadList \/ E!Answer \/ E!FetchFails
           \/ (\E u \in CelebratingUsers : E!SignIn(u)) \/ UNCHANGED E!vars
  <2>1. UNCHANGED <<screen, error, crossed, queue, call>>
    BY <1>1 DEF E!Poll, E!TriggerCheck, E!ReadList, E!Answer, E!FetchFails, E!SignIn, E!vars, E!state, E!history
  <2>2. E!Pending' = E!Pending /\ E!Unanswered' = E!Unanswered
    BY <2>1 DEF E!Pending, E!Unanswered
  <2> QED
    BY <2>1, <2>2, BlameStays
<1>2. CASE E!Notice
  <2>1. UNCHANGED <<screen, error, crossed, call>>
    BY <1>2 DEF E!Notice
  <2>2. queue # <<>> => queue' # <<>> /\ Head(queue') = Head(queue)
    <3>1. CASE loaded
      BY <1>2, <3>1, QueueAfterNotice DEF CelebrationForm
    <3>2. CASE ~loaded
      BY <1>2, <3>2 DEF E!Notice
    <3> QED
      BY <3>1, <3>2
  <2>3. E!Pending' = E!Pending /\ E!Unanswered' = E!Unanswered
    BY <2>1 DEF E!Pending, E!Unanswered
  <2> QED
    BY <2>1, <2>2, <2>3, BlameStays
<1>3. CASE E!Render
  <2>1. UNCHANGED <<error, crossed, call, queue, claiming>> /\ screen' = E!Rendered
    BY <1>3 DEF E!Render, E!state
  <2>2. E!Pending' = E!Pending /\ E!Unanswered' = E!Unanswered /\ E!Current' = E!Current
    BY <2>1 DEF E!Pending, E!Unanswered, E!Current
  <2>3. screen'.current = E!Current /\ (E!Pending => screen'.locked)
    BY <2>1 DEF E!Rendered
  <2> QED
    BY <2>1, <2>2, <2>3 DEF BlameInv
<1>4. CASE E!Claim
  <2>1. /\ screen.current # E!None /\ ~screen.locked /\ UNCHANGED <<crossed, queue>>
        /\ call'.id = screen.current /\ error' = E!None /\ screen' = E!Rendered' /\ claiming' = TRUE
    BY <1>4 DEF E!Claim, E!ShownNow
  <2>2. screen.current = E!Current /\ E!Current' = E!Current
    BY <2>1 DEF BlameInv, E!Current
  <2>3. queue # <<>> /\ Head(queue) = screen.current
    BY <2>1, <2>2 DEF E!Current
  <2>4. screen'.current = E!Current' /\ screen'.locked
    BY <2>1 DEF E!Rendered
  <2> QED
    BY <2>1, <2>3, <2>4 DEF BlameInv
<1>5. CASE E!Dismiss
  <2>1. /\ error' = E!None /\ crossed' = (crossed \/ E!Unanswered) /\ call' = call /\ screen' = E!Rendered'
    BY <1>5 DEF E!Dismiss, E!ShownNow
  <2>2. screen'.current = E!Current' /\ (E!Pending' => screen'.locked)
    BY <2>1 DEF E!Rendered
  <2>3. E!Unanswered' = E!Unanswered
    BY <2>1 DEF E!Unanswered, E!Pending
  <2> QED
    BY <2>1, <2>2, <2>3 DEF BlameInv
<1>6. CASE E!SignOut
  <2>1. /\ error' = E!None /\ crossed' = E!Unanswered /\ call' = call /\ screen' = E!Rendered'
    BY <1>6 DEF E!SignOut
  <2>2. screen'.current = E!Current' /\ (E!Pending' => screen'.locked)
    BY <2>1 DEF E!Rendered
  <2>3. E!Unanswered' = E!Unanswered
    BY <2>1 DEF E!Unanswered, E!Pending
  <2> QED
    BY <2>1, <2>2, <2>3 DEF BlameInv
<1>7. CASE E!Claimed
  <2>1. /\ call.phase = "ok" /\ error' = E!None /\ screen' = screen /\ call'.phase = "settling"
    BY <1>7 DEF E!Claimed, CelebrationForm
  <2>2. E!Pending /\ ~E!Unanswered'
    BY <2>1 DEF E!Pending, E!Unanswered, E!NoCall
  <2> QED
    BY <2>1, <2>2 DEF BlameInv
<1>8. CASE E!HandleClaim \/ E!LoseClaim \/ E!NotClaimed \/ E!Settle \/ E!Elsewhere
  BY <1>8, CallBlame
<1> QED
  BY <1>1, <1>2, <1>3, <1>4, <1>5, <1>6, <1>7, <1>8 DEF E!Next

\* An error that is shown is of the challenge that is shown, unless that was dismissed, or its
\* user signed out, while it was being claimed (useChallengeCompletion, claimMutation).
THEOREM BlameIsRight == ASSUME CelebratedOnes PROVE E!Spec => []E!ErrorIsItsOwn
<1>1. BlameInv => E!ErrorIsItsOwn
  BY DEF BlameInv, E!ErrorIsItsOwn, E!Rendered, E!Current
<1> QED
  BY <1>1, InitBlame, NextBlame, InitCelebrationForm, NextCelebrationForm, PTL DEF E!Spec

-----------------------------------------------------------------------------
(* Todos: once nothing is under way, the lists hold the server's rows.  A  *)
(* call owes a fetch from when it changed something to its end; a row that *)
(* slides out is, or will be, no longer open when its timer fires.         *)

TodoStates  == {"unborn", "open", "done", "deleted"}
TodoLists   == [T!Keys -> SUBSET TodoItems]
TodoFetches == [phase : {"idle", "sent", "answered"}, set : SUBSET TodoItems]
TodoCalls   == [op : T!Ops, item : TodoItems, phase : {"sent", "answered"},
                answer : {"ok", "not_found", "failed"}, mounted : BOOLEAN, old : TodoLists]

\* There is a bound on the calls in flight.
TodoBound == MaxTodoCalls \in Nat

TodoShape ==
  /\ rows \in [TodoItems -> TodoStates] /\ screen \in {"today", "manage"}
  /\ list \in TodoLists /\ fetch \in [T!Keys -> TodoFetches]
  /\ stale \subseteq T!Keys /\ blind \subseteq T!Keys /\ exiting \subseteq TodoItems
  /\ calls \in Seq(TodoCalls) /\ Len(calls) <= MaxTodoCalls /\ MaxTodoCalls \in Nat
  /\ screen = "manage" => exiting = {}

\* What is listed, was read or is being changed exists; what is being created does not yet,
\* and nothing else is about it.
Born(t) == rows[t] # "unborn"

TodoBirths ==
  /\ \A k \in T!Keys : /\ \A t \in list[k] \cup fetch[k].set : Born(t)
                       /\ \A i \in DOMAIN calls : \A t \in calls[i].old[k] : Born(t)
  /\ \A t \in exiting : Born(t)
  /\ \A i \in DOMAIN calls :
       IF calls[i].op # "create" THEN Born(calls[i].item)
       ELSE /\ calls[i].phase = "sent" => ~Born(calls[i].item)
            /\ calls[i].phase = "answered" /\ calls[i].answer = "ok" => Born(calls[i].item)
            /\ \A j \in DOMAIN calls : calls[j].op = "create" /\ calls[j].item = calls[i].item => i = j

\* A call that may open a row.
Opens(c, t) == c.item = t /\ c.op \in {"create", "uncomplete", "restore"}

\* The call that checks a row, until it is known to have done so.
Checks(c, t) == c.item = t /\ c.op = "complete" /\ c.mounted /\ (c.phase = "sent" \/ c.answer # "ok")

\* A row that slides out is being checked, and nothing sent since opens it, or it was.
Checking(t) == \E i \in DOMAIN calls :
                 Checks(calls[i], t) /\ \A j \in DOMAIN calls : j > i => ~Opens(calls[j], t)
Checked(t)  == rows[t] # "open" /\ \A i \in DOMAIN calls : calls[i].phase = "sent" => ~Opens(calls[i], t)

ExitsSafe == "open" \notin blind => \A t \in exiting : Checking(t) \/ Checked(t)

TodoOwes(c, k) == \/ T!Settles(c.op)
                  \/ c.phase = "answered" /\ c.answer = "ok" /\ (k = "open" \/ c.op # "create")

ListTrueAt(k) ==
  k \notin blind \cup stale =>
    /\ fetch[k].phase = "idle" => list[k] = T!Truth(k)
    /\ fetch[k].phase = "answered" => fetch[k].set = T!Truth(k)

ListsTrue == \A k \in T!Keys : (\A i \in DOMAIN calls : ~TodoOwes(calls[i], k)) => ListTrueAt(k)

TodoInv == TodoShape /\ TodoBirths /\ ExitsSafe /\ ListsTrue

LEMMA CallTyped ==
  ASSUME TodoShape, NEW i \in DOMAIN calls
  PROVE  /\ calls[i] \in TodoCalls /\ calls[i].op \in T!Ops /\ calls[i].item \in TodoItems
         /\ calls[i].phase \in {"sent", "answered"} /\ calls[i].answer \in {"ok", "not_found", "failed"}
         /\ calls[i].mounted \in BOOLEAN /\ calls[i].old \in TodoLists
<1>1. calls[i] \in TodoCalls
  BY DEF TodoShape
<1> QED
  BY <1>1 DEF TodoCalls

LEMMA TodoTruthTyped == \A k : T!Truth(k) \subseteq TodoItems
BY DEF T!Truth

LEMMA NoFetchTyped ==
  /\ T!NoFetch \in TodoFetches /\ T!SentFetch \in TodoFetches
  /\ T!NoFetch.phase = "idle" /\ T!SentFetch.phase = "sent" /\ T!NoFetch.set = {} /\ T!SentFetch.set = {}
BY DEF T!NoFetch, T!SentFetch, TodoFetches

LEMMA InitTodo == ASSUME TodoBound, T!Init PROVE TodoInv
<1>1. /\ rows \in [TodoItems -> TodoStates] /\ screen = "today"
      /\ stale = {"done"} /\ exiting = {} /\ calls = <<>> /\ blind = {}
      /\ list = [open |-> T!Truth("open"), done |-> {}]
      /\ fetch = [k \in T!Keys |-> T!NoFetch]
  BY DEF T!Init, TodoStates
<1>2. list \in TodoLists /\ list["open"] = T!Truth("open") /\ list["done"] = {}
  <2>1. list = [k \in T!Keys |-> IF k = "open" THEN T!Truth("open") ELSE {}]
    BY <1>1 DEF T!Keys
  <2> QED
    BY <2>1, TodoTruthTyped DEF TodoLists, T!Keys
<1>3. calls \in Seq(TodoCalls) /\ Len(calls) = 0 /\ DOMAIN calls = {}
  BY <1>1
<1>4. fetch \in [T!Keys -> TodoFetches] /\ \A k \in T!Keys : fetch[k].phase = "idle" /\ fetch[k].set = {}
  BY <1>1, NoFetchTyped
<1>5. TodoShape
  BY <1>1, <1>2, <1>3, <1>4 DEF TodoShape, TodoBound, T!Keys
<1>6. TodoBirths
  BY <1>1, <1>2, <1>3, <1>4 DEF TodoBirths, Born, T!Truth, T!Keys
<1>7. ExitsSafe
  BY <1>1 DEF ExitsSafe
<1>8. ListsTrue
  BY <1>1, <1>2, <1>4 DEF ListsTrue, ListTrueAt, T!Keys
<1> QED
  BY <1>5, <1>6, <1>7, <1>8 DEF TodoInv

-----------------------------------------------------------------------------
(* The steps that leave the calls alone.                                   *)

\* Rows and calls unchanged, lists and fetches filled from what is known.
LEMMA FetchTodo ==
  ASSUME TodoInv, NEW k \in T!Keys,
         T!HandleFetch(k) \/ T!Deliver(k) \/ T!FailFetch(k) \/ T!Refresh(k)
  PROVE  TodoInv'
<1>1. TodoShape /\ TodoBirths /\ ExitsSafe /\ ListsTrue
  BY DEF TodoInv
<1>2. /\ rows' = rows /\ screen' = screen /\ stale' = stale /\ exiting' = exiting /\ calls' = calls
      /\ \A q : T!Truth(q)' = T!Truth(q)
  BY DEF T!HandleFetch, T!Deliver, T!FailFetch, T!Refresh, T!Truth
<1>3. fetch[k] \in TodoFetches /\ fetch[k].set \subseteq TodoItems
  BY <1>1 DEF TodoShape, TodoFetches
<1> DEFINE Brings(new) ==
      \/ new.phase = "idle" /\ T!Deliver(k)
      \/ new.phase = "idle" /\ blind' = blind \cup {k}
      \/ new.phase = "sent" /\ blind' = blind
      \/ /\ new.phase = "answered" /\ new.set = T!Truth(k)
         /\ blind' = IF k = "open" /\ exiting # {} THEN blind ELSE blind \ {k}
<1>4. PICK new \in TodoFetches :
        fetch' = [fetch EXCEPT ![k] = new] /\ new.set \in {{}, T!Truth(k)} /\ Brings(new)
  <2>1. CASE T!HandleFetch(k)
    <3>1. [phase |-> "answered", set |-> T!Truth(k)] \in TodoFetches
      BY TodoTruthTyped DEF TodoFetches
    <3> QED
      BY <2>1, <3>1 DEF T!HandleFetch
  <2>2. CASE T!Deliver(k)
    <3>1. fetch' = [fetch EXCEPT ![k] = T!NoFetch]
      BY <2>2 DEF T!Deliver
    <3>2. Brings(T!NoFetch)
      BY <2>2, NoFetchTyped
    <3> HIDE DEF Brings
    <3> QED
      BY <3>1, <3>2, NoFetchTyped
  <2>3. CASE T!FailFetch(k)
    <3>1. fetch' = [fetch EXCEPT ![k] = T!NoFetch] /\ blind' = blind \cup {k}
      BY <2>3 DEF T!FailFetch
    <3>2. Brings(T!NoFetch)
      BY <3>1, NoFetchTyped
    <3> HIDE DEF Brings
    <3> QED
      BY <3>1, <3>2, NoFetchTyped
  <2>4. CASE T!Refresh(k)
    <3>1. fetch' = [fetch EXCEPT ![k] = T!SentFetch] /\ blind' = blind
      BY <2>4 DEF T!Refresh
    <3>2. Brings(T!SentFetch)
      BY <3>1, NoFetchTyped
    <3> HIDE DEF Brings
    <3> QED
      BY <3>1, <3>2, NoFetchTyped
  <2> QED
    BY <2>1, <2>2, <2>3, <2>4
<1>5. \/ list' = list
      \/ T!Deliver(k) /\ list' = [list EXCEPT ![k] = fetch[k].set] /\ fetch[k].phase = "answered" /\ blind' = blind
  BY DEF T!HandleFetch, T!Deliver, T!FailFetch, T!Refresh
<1>6. T!Deliver(k) => list' = [list EXCEPT ![k] = fetch[k].set] /\ fetch[k].phase = "answered" /\ blind' = blind
  BY DEF T!Deliver
<1>7. list' \in TodoLists /\ \A q \in T!Keys : list'[q] \subseteq list[q] \cup fetch[q].set
  BY <1>1, <1>3, <1>5 DEF TodoShape, TodoLists
<1>8. blind' \subseteq T!Keys
  BY <1>1, <1>4, <1>6 DEF TodoShape
<1>9. TodoShape'
  BY <1>1, <1>2, <1>4, <1>7, <1>8 DEF TodoShape
<1>10. TodoBirths'
  <2>1. \A t \in T!Truth(k) : Born(t)
    BY DEF T!Truth, T!Keys, Born
  <2>2. \A q \in T!Keys : \A t \in fetch'[q].set : Born(t)
    BY <1>1, <1>4, <2>1 DEF TodoBirths, TodoShape
  <2>3. \A q \in T!Keys : \A t \in list'[q] : Born(t)
    BY <1>1, <1>7 DEF TodoBirths
  <2>4. \A t : Born(t)' <=> Born(t)
    BY <1>2 DEF Born
  <2> QED
    BY <1>1, <1>2, <2>2, <2>3, <2>4 DEF TodoBirths
<1>11. ExitsSafe'
  <2>1. \A t : (Checking(t)' <=> Checking(t)) /\ (Checked(t)' <=> Checked(t))
    BY <1>2 DEF Checking, Checked
  <2>2. CASE exiting = {}
    BY <1>2, <2>2 DEF ExitsSafe
  <2>3. CASE exiting # {}
    <3>1. "open" \notin blind' => "open" \notin blind
      BY <1>4, <1>6, <2>3
    <3> QED
      BY <1>1, <1>2, <2>1, <3>1 DEF ExitsSafe
  <2> QED
    BY <2>2, <2>3
<1>12. ASSUME NEW q \in T!Keys, ListTrueAt(q) PROVE ListTrueAt(q)'
  <2>1. CASE q # k
    <3>1. list'[q] = list[q] /\ fetch'[q] = fetch[q] /\ (q \in blind => q \in blind')
      BY <1>1, <1>4, <1>5, <1>6, <2>1 DEF TodoShape, TodoLists
    <3> QED
      BY <1>2, <1>12, <3>1 DEF ListTrueAt
  <2>2. CASE q = k
    <3>1. fetch'[k] = new
      BY <1>1, <1>4 DEF TodoShape
    <3>2. CASE new.phase = "idle" /\ T!Deliver(k)
      <4>1. list'[k] = fetch[k].set
        BY <1>1, <1>6, <3>2 DEF TodoShape, TodoLists
      <4> QED
        BY <1>2, <1>6, <1>12, <2>2, <3>1, <3>2, <4>1 DEF ListTrueAt
    <3>3. CASE blind' = blind \cup {k}
      BY <2>2, <3>3 DEF ListTrueAt
    <3>4. CASE new.phase = "sent"
      BY <2>2, <3>1, <3>4 DEF ListTrueAt
    <3>5. CASE new.phase = "answered" /\ new.set = T!Truth(k)
      BY <1>2, <2>2, <3>1, <3>5 DEF ListTrueAt
    <3> QED
      BY <1>4, <3>2, <3>3, <3>4, <3>5
  <2> QED
    BY <2>1, <2>2
<1>13. ListsTrue'
  BY <1>1, <1>2, <1>12 DEF ListsTrue
<1> QED
  BY <1>9, <1>10, <1>11, <1>13 DEF TodoInv

LEMMA SwitchTodo ==
  ASSUME TodoInv, T!Switch
  PROVE  TodoInv'
<1>1. TodoShape /\ TodoBirths /\ ExitsSafe /\ ListsTrue
  BY DEF TodoInv
<1> DEFINE keys == T!Observed'
<1>2. /\ rows' = rows /\ list' = list /\ blind' = blind /\ exiting' = {}
      /\ screen' \in {"today", "manage"}
      /\ fetch' = [k \in T!Keys |-> IF k \in stale \cap keys THEN T!SentFetch ELSE fetch[k]]
      /\ stale' = stale \ keys
      /\ calls' = [i \in DOMAIN calls |-> [calls[i] EXCEPT !.mounted = FALSE]]
  BY DEF T!Switch
<1> HIDE DEF keys
<1>3. /\ calls' \in Seq(TodoCalls) /\ Len(calls') = Len(calls) /\ DOMAIN calls' = DOMAIN calls
      /\ \A i \in DOMAIN calls : calls'[i] = [calls[i] EXCEPT !.mounted = FALSE]
  <2>1. \A i \in DOMAIN calls : [calls[i] EXCEPT !.mounted = FALSE] \in TodoCalls
    BY <1>1, CallTyped DEF TodoCalls
  <2>2. Len(calls) \in Nat /\ DOMAIN calls = 1 .. Len(calls)
    BY <1>1 DEF TodoShape
  <2> QED
    BY <1>2, <2>1, <2>2
<1>4. \A i \in DOMAIN calls : /\ calls'[i].op = calls[i].op /\ calls'[i].item = calls[i].item
                              /\ calls'[i].phase = calls[i].phase /\ calls'[i].answer = calls[i].answer
                              /\ calls'[i].old = calls[i].old
  <2> SUFFICES ASSUME NEW i \in DOMAIN calls
               PROVE  /\ calls'[i].op = calls[i].op /\ calls'[i].item = calls[i].item
                      /\ calls'[i].phase = calls[i].phase /\ calls'[i].answer = calls[i].answer
                      /\ calls'[i].old = calls[i].old
    OBVIOUS
  <2>1. calls[i] \in TodoCalls
    BY <1>1, CallTyped
  <2> QED
    BY <1>3, <2>1 DEF TodoCalls
<1>5. fetch' \in [T!Keys -> TodoFetches] /\ \A k \in T!Keys : fetch'[k] = IF k \in stale \cap keys THEN T!SentFetch ELSE fetch[k]
  BY <1>1, <1>2, NoFetchTyped DEF TodoShape
<1>6. TodoShape'
  BY <1>1, <1>2, <1>3, <1>5 DEF TodoShape
<1>7. TodoBirths'
  <2>1. \A t : Born(t)' <=> Born(t)
    BY <1>2 DEF Born
  <2>2. \A k \in T!Keys : \A t \in list'[k] \cup fetch'[k].set : Born(t)
    BY <1>1, <1>2, <1>5, NoFetchTyped DEF TodoBirths
  <2> QED
    BY <1>1, <1>2, <1>3, <1>4, <2>1, <2>2 DEF TodoBirths
<1>8. ExitsSafe'
  BY <1>2 DEF ExitsSafe
<1>9. ASSUME NEW k \in T!Keys, ListTrueAt(k) PROVE ListTrueAt(k)'
  <2>1. T!Truth(k)' = T!Truth(k)
    BY <1>2 DEF T!Truth
  <2> QED
    BY <1>2, <1>5, <1>9, <2>1, NoFetchTyped DEF ListTrueAt
<1>10. ASSUME NEW k \in T!Keys, NEW i \in DOMAIN calls PROVE TodoOwes(calls[i], k)' <=> TodoOwes(calls[i], k)
  BY <1>3, <1>4 DEF TodoOwes, T!Settles
<1>11. ListsTrue'
  BY <1>1, <1>3, <1>9, <1>10 DEF ListsTrue
<1> QED
  BY <1>6, <1>7, <1>8, <1>11 DEF TodoInv

LEMMA ElsewhereTodo ==
  ASSUME TodoInv, T!Elsewhere
  PROVE  TodoInv'
<1>1. TodoShape /\ TodoBirths /\ ExitsSafe /\ ListsTrue
  BY DEF TodoInv
<1>2. /\ screen' = screen /\ list' = list /\ fetch' = fetch /\ stale' = stale /\ exiting' = exiting
      /\ calls' = calls /\ blind' = T!Keys
  BY DEF T!Elsewhere
<1>3. PICK t \in TodoItems, state \in {"open", "done", "deleted"} :
        /\ rows[t] = "unborn" => state = "open" /\ \A i \in DOMAIN calls : calls[i].item # t
        /\ rows' = [rows EXCEPT ![t] = state]
  BY DEF T!Elsewhere
<1>4. TodoShape'
  BY <1>1, <1>2, <1>3 DEF TodoShape, TodoStates
<1>5. \A u \in TodoItems : Born(u) => Born(u)'
  BY <1>1, <1>3 DEF Born, TodoShape
<1>6. \A u \in TodoItems : u # t => (Born(u)' <=> Born(u))
  BY <1>1, <1>3 DEF Born, TodoShape
<1>7. \A i \in DOMAIN calls : calls[i].item \in TodoItems
  BY <1>1, CallTyped
<1>8. \A i \in DOMAIN calls : ~Born(calls[i].item) => ~Born(calls[i].item)'
  BY <1>2, <1>3, <1>6, <1>7 DEF Born
<1>9. TodoBirths'
  <2>1. \A k \in T!Keys : list[k] \cup fetch[k].set \subseteq TodoItems
    BY <1>1 DEF TodoShape, TodoLists, TodoFetches
  <2>2. \A i \in DOMAIN calls, k \in T!Keys : calls[i].old[k] \subseteq TodoItems
    BY <1>1, CallTyped DEF TodoLists
  <2>3. exiting \subseteq TodoItems
    BY <1>1 DEF TodoShape
  <2> QED
    BY <1>1, <1>2, <1>5, <1>7, <1>8, <2>1, <2>2, <2>3 DEF TodoBirths
<1>10. ExitsSafe' /\ ListsTrue'
  BY <1>2 DEF ExitsSafe, ListsTrue, ListTrueAt, T!Keys
<1> QED
  BY <1>4, <1>9, <1>10 DEF TodoInv

LEMMA TimerTodo ==
  ASSUME TodoInv, NEW t \in TodoItems, T!ExitTimer(t)
  PROVE  TodoInv'
<1>1. TodoShape /\ TodoBirths /\ ExitsSafe /\ ListsTrue
  BY DEF TodoInv
<1>2. /\ rows' = rows /\ screen' = screen /\ fetch' = fetch /\ stale' = stale /\ calls' = calls
      /\ blind' = blind /\ exiting' = exiting \ {t} /\ t \in exiting
      /\ list' = [list EXCEPT !["open"] = list["open"] \ {t}]
  BY <1>1 DEF T!ExitTimer, TodoShape
<1>3. /\ list' \in TodoLists /\ "open" \in T!Keys
      /\ \A k \in T!Keys : list'[k] = IF k = "open" THEN list["open"] \ {t} ELSE list[k]
  BY <1>1, <1>2 DEF TodoShape, TodoLists, T!Keys
<1>4. TodoShape'
  BY <1>1, <1>2, <1>3 DEF TodoShape
<1>5. TodoBirths'
  <2>1. \A u : Born(u)' <=> Born(u)
    BY <1>2 DEF Born
  <2> QED
    BY <1>1, <1>2, <1>3, <2>1 DEF TodoBirths
<1>6. ExitsSafe'
  BY <1>1, <1>2 DEF ExitsSafe, Checking, Checked
<1>7. ASSUME NEW k \in T!Keys, \A i \in DOMAIN calls : ~TodoOwes(calls[i], k) PROVE ListTrueAt(k)'
  <2>1. ListTrueAt(k) /\ T!Truth(k)' = T!Truth(k)
    BY <1>1, <1>2, <1>7 DEF ListsTrue, T!Truth
  <2>2. CASE k # "open"
    BY <1>2, <1>3, <2>1, <2>2 DEF ListTrueAt
  <2>3. CASE k = "open" /\ "open" \notin blind
    <3>1. ~Checking(t)
      BY <1>7 DEF Checking, Checks, TodoOwes, T!Settles
    <3>2. rows[t] # "open"
      BY <1>1, <1>2, <2>3, <3>1 DEF ExitsSafe, Checked
    <3>3. T!Truth("open") \ {t} = T!Truth("open")
      BY <3>2 DEF T!Truth
    <3> QED
      BY <1>2, <1>3, <2>1, <2>3, <3>3 DEF ListTrueAt
  <2>4. CASE "open" \in blind /\ k = "open"
    BY <1>2, <2>4 DEF ListTrueAt
  <2> QED
    BY <2>2, <2>3, <2>4
<1>8. ListsTrue'
  BY <1>2, <1>7 DEF ListsTrue
<1> QED
  BY <1>4, <1>5, <1>6, <1>8 DEF TodoInv

-----------------------------------------------------------------------------
(* The mutations.                                                          *)

LEMMA SendTodo ==
  ASSUME TodoShape, NEW verb \in T!Ops, NEW t \in TodoItems, T!Send(verb, t)
  PROVE  /\ calls' \in Seq(TodoCalls) /\ Len(calls') <= MaxTodoCalls
         /\ DOMAIN calls' = DOMAIN calls \cup {Len(calls) + 1} /\ Len(calls) + 1 \notin DOMAIN calls
         /\ \A i \in DOMAIN calls : i \in Nat /\ i < Len(calls) + 1 /\ calls'[i] = calls[i]
         /\ calls'[Len(calls) + 1] = [op |-> verb, item |-> t, phase |-> "sent", answer |-> "ok",
                                      mounted |-> TRUE, old |-> list]
<1> DEFINE new == [op |-> verb, item |-> t, phase |-> "sent", answer |-> "ok", mounted |-> TRUE, old |-> list]
<1>1. new \in TodoCalls
  BY DEF TodoShape, TodoCalls
<1>2. calls' = Append(calls, new) /\ Len(calls) < MaxTodoCalls
  BY DEF T!Send, T!MayTap
<1> HIDE DEF new
<1>3. calls \in Seq(TodoCalls) /\ Len(calls) \in Nat /\ DOMAIN calls = 1 .. Len(calls)
  BY DEF TodoShape
<1>4. /\ calls' \in Seq(TodoCalls) /\ Len(calls') = Len(calls) + 1
      /\ \A i \in 1 .. Len(calls) : calls'[i] = calls[i]
      /\ calls'[Len(calls) + 1] = new
  BY <1>1, <1>2, <1>3
<1>5. DOMAIN calls' = 1 .. Len(calls) + 1
  BY <1>4
<1>6. Len(calls') <= MaxTodoCalls
  BY <1>2, <1>3, <1>4 DEF TodoShape
<1>7. /\ 1 .. Len(calls) + 1 = (1 .. Len(calls)) \cup {Len(calls) + 1} /\ Len(calls) + 1 \notin 1 .. Len(calls)
      /\ \A i \in 1 .. Len(calls) : i \in Nat /\ i < Len(calls) + 1
  BY <1>3
<1> QED
  BY <1>3, <1>4, <1>5, <1>6, <1>7 DEF new

\* A tap: what it may do to the lists, and to the rows that slide out.
LEMMA TapTodo ==
  ASSUME TodoInv, NEW verb \in T!Ops, NEW t \in TodoItems, T!Send(verb, t),
         rows' = rows, screen' = screen, stale' = stale,
         list' \in TodoLists, fetch' \in [T!Keys -> TodoFetches],
         blind' \subseteq T!Keys, blind \subseteq blind', screen = "manage" => exiting' = {},
         \A k \in T!Keys : \A u \in list'[k] \cup fetch'[k].set : Born(u),
         IF verb = "create" THEN ~Born(t) /\ \A i \in DOMAIN calls : calls[i].item # t ELSE Born(t),
         exiting' \subseteq exiting \cup (IF verb = "complete" THEN {t} ELSE {}),
         verb \in {"create", "uncomplete", "restore"} => t \notin exiting',
         T!Settles(verb) \/ (list' = list /\ fetch' = fetch /\ blind' = blind)
  PROVE  TodoInv'
<1>1. TodoShape /\ TodoBirths /\ ExitsSafe /\ ListsTrue
  BY DEF TodoInv
<1> DEFINE n == Len(calls) + 1
<1>2. /\ calls' \in Seq(TodoCalls) /\ Len(calls') <= MaxTodoCalls
      /\ DOMAIN calls' = DOMAIN calls \cup {n} /\ n \notin DOMAIN calls
      /\ \A i \in DOMAIN calls : i \in Nat /\ i < n /\ calls'[i] = calls[i]
      /\ calls'[n] = [op |-> verb, item |-> t, phase |-> "sent", answer |-> "ok", mounted |-> TRUE, old |-> list]
  BY <1>1, SendTodo
<1>3. n \in Nat
  BY <1>1 DEF TodoShape
<1> HIDE DEF n
<1>4. /\ calls'[n].op = verb /\ calls'[n].item = t /\ calls'[n].phase = "sent" /\ calls'[n].answer = "ok"
      /\ calls'[n].mounted = TRUE /\ calls'[n].old = list
  BY <1>2
<1>5. TodoShape'
  <2>1. exiting' \subseteq TodoItems
    BY <1>1 DEF TodoShape
  <2> QED
    BY <1>1, <1>2, <2>1 DEF TodoShape
<1>6. \A u : Born(u)' <=> Born(u)
  BY DEF Born
<1>7. TodoBirths'
  <2>1. \A u \in exiting' : Born(u)
    <3>1. verb = "complete" => Born(t)
      OBVIOUS
    <3> QED
      BY <1>1, <3>1 DEF TodoBirths
  <2>2. \A i \in DOMAIN calls' : \A k \in T!Keys : \A u \in calls'[i].old[k] : Born(u)
    BY <1>1, <1>2, <1>4 DEF TodoBirths
  <2>3. ASSUME NEW i \in DOMAIN calls'
        PROVE  IF calls'[i].op # "create" THEN Born(calls'[i].item)
               ELSE /\ calls'[i].phase = "sent" => ~Born(calls'[i].item)
                    /\ calls'[i].phase = "answered" /\ calls'[i].answer = "ok" => Born(calls'[i].item)
                    /\ \A j \in DOMAIN calls' : calls'[j].op = "create" /\ calls'[j].item = calls'[i].item => i = j
    <3>1. CASE i = n
      <4>1. verb = "create" => \A j \in DOMAIN calls' : calls'[j].item = t => j = n
        BY <1>2
      <4> QED
        BY <3>1, <4>1, <1>4
    <3>2. CASE i # n
      <4>1. i \in DOMAIN calls /\ calls'[i] = calls[i]
        BY <1>2, <3>2
      <4>2. calls[i].op = "create" => \A j \in DOMAIN calls' : calls'[j].op = "create" /\ calls'[j].item = calls[i].item => i = j
        BY <1>1, <1>2, <1>4, <4>1 DEF TodoBirths
      <4> QED
        BY <1>1, <4>1, <4>2 DEF TodoBirths
    <3> QED
      BY <3>1, <3>2
  <2> QED
    BY <1>6, <2>1, <2>2, <2>3 DEF TodoBirths
<1>8. ExitsSafe'
  <2> SUFFICES ASSUME "open" \notin blind', NEW u \in exiting' PROVE Checking(u)' \/ Checked(u)'
    BY DEF ExitsSafe
  <2>1. ~Opens(calls'[n], u)
    BY <1>4 DEF Opens
  <2>2. CASE u \notin exiting
    <3>1. verb = "complete" /\ u = t
      BY <2>2
    <3>2. Checks(calls'[n], u)
      BY <1>4, <3>1 DEF Checks
    <3>3. \A j \in DOMAIN calls' : ~(j > n)
      BY <1>2, <1>3
    <3> QED
      BY <1>2, <3>2, <3>3 DEF Checking
  <2>3. CASE u \in exiting
    <3>1. Checking(u) \/ Checked(u)
      BY <1>1, <2>3 DEF ExitsSafe
    <3>2. CASE Checking(u)
      <4>1. PICK i \in DOMAIN calls : Checks(calls[i], u) /\ \A j \in DOMAIN calls : j > i => ~Opens(calls[j], u)
        BY <3>2 DEF Checking
      <4>2. i \in DOMAIN calls' /\ Checks(calls'[i], u) /\ \A j \in DOMAIN calls' : j > i => ~Opens(calls'[j], u)
        BY <1>2, <2>1, <4>1
      <4> QED
        BY <4>2 DEF Checking
    <3>3. CASE Checked(u)
      <4>1. rows[u] # "open" /\ \A i \in DOMAIN calls' : calls'[i].phase = "sent" => ~Opens(calls'[i], u)
        BY <1>2, <2>1, <3>3 DEF Checked
      <4> QED
        BY <4>1 DEF Checked
    <3> QED
      BY <3>1, <3>2, <3>3
  <2> QED
    BY <2>2, <2>3
<1>9. ListsTrue'
  <2>1. CASE T!Settles(verb)
    <3>1. \A k \in T!Keys : n \in DOMAIN calls' /\ TodoOwes(calls'[n], k)
      BY <1>2, <1>4, <2>1 DEF TodoOwes
    <3> QED
      BY <3>1 DEF ListsTrue, TodoOwes, T!Settles
  <2>2. CASE list' = list /\ fetch' = fetch /\ blind' = blind
    <3>1. \A k \in T!Keys : ListTrueAt(k)' <=> ListTrueAt(k)
      BY <2>2 DEF ListTrueAt, T!Truth
    <3>2. \A k \in T!Keys, i \in DOMAIN calls : i \in DOMAIN calls' /\ (TodoOwes(calls'[i], k) <=> TodoOwes(calls[i], k))
      BY <1>2
    <3>3. \A k \in T!Keys : (\A i \in DOMAIN calls' : ~TodoOwes(calls'[i], k)) => ListTrueAt(k)'
      BY <1>1, <3>1, <3>2 DEF ListsTrue
    <3> QED
      BY <3>3 DEF ListsTrue, TodoOwes, T!Settles
  <2> QED
    BY <2>1, <2>2
<1> QED
  BY <1>5, <1>7, <1>8, <1>9 DEF TodoInv

LEMMA CancelTodo ==
  ASSUME TodoShape, TodoBirths, NEW keys \in SUBSET T!Keys, T!CancelQueries(keys)
  PROVE  /\ fetch' \in [T!Keys -> TodoFetches] /\ \A k \in T!Keys : \A u \in fetch'[k].set : Born(u)
         /\ blind' \subseteq T!Keys /\ blind \subseteq blind'
<1>1. /\ fetch' = [k \in T!Keys |-> IF k \in keys THEN T!NoFetch ELSE fetch[k]]
      /\ blind' = blind \cup T!Unread(keys)
  BY DEF T!CancelQueries
<1>2. /\ fetch' \in [T!Keys -> TodoFetches]
      /\ \A k \in T!Keys : fetch'[k] = IF k \in keys THEN T!NoFetch ELSE fetch[k]
  BY <1>1, NoFetchTyped DEF TodoShape
<1>3. blind' \subseteq T!Keys
  BY <1>1 DEF TodoShape, T!Unread
<1> QED
  BY <1>1, <1>2, <1>3, NoFetchTyped DEF TodoBirths

LEMMA MutateTodo ==
  ASSUME TodoInv, NEW t \in TodoItems,
         \/ T!Create(t) \/ T!Complete(t) \/ T!Uncomplete(t) \/ T!Restore(t) \/ T!Update(t) \/ T!Delete(t)
  PROVE  TodoInv'
<1>1. TodoShape /\ TodoBirths
  BY DEF TodoInv
<1>2. /\ list \in TodoLists /\ fetch \in [T!Keys -> TodoFetches] /\ blind \subseteq T!Keys
      /\ exiting \subseteq TodoItems /\ (screen = "manage" => exiting = {})
      /\ screen \in {"today", "manage"} /\ {"open", "done"} \subseteq T!Keys
      /\ {"open"} \in SUBSET T!Keys /\ T!Keys \in SUBSET T!Keys
  BY <1>1 DEF TodoShape, T!Keys
<1>3. \A k \in T!Keys : \A u \in list[k] \cup fetch[k].set : Born(u)
  BY <1>1 DEF TodoBirths
<1>4. \A u \in exiting : Born(u)
  BY <1>1 DEF TodoBirths
<1>5. CASE T!Create(t)
  <2>1. /\ T!Send("create", t) /\ rows' = rows /\ screen' = screen /\ list' = list /\ fetch' = fetch
        /\ stale' = stale /\ exiting' = exiting /\ blind' = blind
        /\ ~Born(t) /\ \A i \in DOMAIN calls : calls[i].item # t
    BY <1>5 DEF T!Create, Born
  <2>2. t \notin exiting' /\ "create" \in T!Ops /\ exiting' \subseteq exiting \cup {}
    BY <1>4, <2>1 DEF T!Ops
  <2> QED
    BY <1>2, <1>3, <2>1, <2>2, TapTodo
<1>6. CASE T!Complete(t)
  <2>1. /\ T!Send("complete", t) /\ rows' = rows /\ screen' = screen /\ list' = list
        /\ T!CancelQueries({"open"}) /\ stale' = stale /\ exiting' = exiting \cup {t}
        /\ screen = "today" /\ t \in list["open"]
    BY <1>6 DEF T!Complete, T!Checkable
  <2>2. Born(t) /\ "complete" \in T!Ops /\ T!Settles("complete")
    BY <1>2, <1>3, <2>1 DEF T!Ops, T!Settles
  <2>3. /\ fetch' \in [T!Keys -> TodoFetches] /\ \A k \in T!Keys : \A u \in fetch'[k].set : Born(u)
        /\ blind' \subseteq T!Keys /\ blind \subseteq blind'
    BY <1>1, <1>2, <2>1, CancelTodo
  <2> QED
    BY <1>2, <1>3, <2>1, <2>2, <2>3, TapTodo
<1>7. CASE T!Uncomplete(t)
  <2>1. /\ T!Send("uncomplete", t) /\ rows' = rows /\ screen' = screen
        /\ list' = [list EXCEPT !["open"] = list["open"] \cup {t}]
        /\ T!CancelQueries({"open"}) /\ stale' = stale /\ exiting' = exiting \ {t} /\ t \in exiting
    BY <1>2, <1>7 DEF T!Uncomplete, T!CancelExit, TodoLists
  <2>2. Born(t) /\ "uncomplete" \in T!Ops /\ T!Settles("uncomplete")
    BY <1>4, <2>1 DEF T!Ops, T!Settles
  <2>3. /\ fetch' \in [T!Keys -> TodoFetches] /\ \A k \in T!Keys : \A u \in fetch'[k].set : Born(u)
        /\ blind' \subseteq T!Keys /\ blind \subseteq blind'
    BY <1>1, <1>2, <2>1, CancelTodo
  <2>4. list' \in TodoLists /\ \A k \in T!Keys : list'[k] \subseteq list[k] \cup {t}
    BY <1>2, <2>1 DEF TodoLists
  <2>5. \A k \in T!Keys : \A u \in list'[k] : Born(u)
    BY <1>3, <2>2, <2>4
  <2>6. (screen = "manage" => exiting' = {}) /\ exiting' \subseteq exiting \cup {}
    BY <1>2, <2>1
  <2> QED
    BY <2>1, <2>2, <2>3, <2>4, <2>5, <2>6, TapTodo
<1>8. ASSUME NEW verb \in {"restore", "update"}, T!Send(verb, t), rows' = rows, screen' = screen, list' = list,
             fetch' = fetch, stale' = stale, exiting' = exiting, blind' = blind, screen = "manage",
             \E k \in T!Keys : t \in list[k]
      PROVE  TodoInv'
  <2>1. Born(t) /\ verb \in T!Ops /\ verb # "create" /\ exiting' = {}
    BY <1>2, <1>3, <1>8 DEF T!Ops
  <2>2. exiting' \subseteq exiting \cup (IF verb = "complete" THEN {t} ELSE {})
    BY <2>1
  <2> QED
    BY <1>2, <1>3, <1>8, <2>1, <2>2, TapTodo
<1>9. CASE T!Restore(t) \/ T!Update(t)
  <2>1. CASE T!Restore(t)
    <3>1. /\ T!Send("restore", t) /\ rows' = rows /\ screen' = screen /\ list' = list
          /\ fetch' = fetch /\ stale' = stale /\ exiting' = exiting /\ blind' = blind
          /\ screen = "manage" /\ t \in list["done"]
      BY <2>1 DEF T!Restore, T!Restorable
    <3> QED
      BY <1>2, <1>8, <3>1
  <2>2. CASE T!Update(t)
    <3>1. /\ T!Send("update", t) /\ rows' = rows /\ screen' = screen /\ list' = list
          /\ fetch' = fetch /\ stale' = stale /\ exiting' = exiting /\ blind' = blind
          /\ screen = "manage" /\ t \in list["open"]
      BY <2>2 DEF T!Update, T!Manageable
    <3> QED
      BY <1>2, <1>8, <3>1
  <2> QED
    BY <1>9, <2>1, <2>2
<1>10. CASE T!Delete(t)
  <2>1. /\ T!Send("delete", t) /\ rows' = rows /\ screen' = screen
        /\ list' = [k \in T!Keys |-> list[k] \ {t}]
        /\ T!CancelQueries(T!Keys) /\ stale' = stale /\ exiting' = exiting
        /\ screen = "manage" /\ t \in list["open"]
    BY <1>10 DEF T!Delete, T!Manageable
  <2>2. Born(t) /\ "delete" \in T!Ops /\ T!Settles("delete") /\ exiting' = {}
    BY <1>2, <1>3, <2>1 DEF T!Ops, T!Settles
  <2>3. /\ fetch' \in [T!Keys -> TodoFetches] /\ \A k \in T!Keys : \A u \in fetch'[k].set : Born(u)
        /\ blind' \subseteq T!Keys /\ blind \subseteq blind'
    BY <1>1, <1>2, <2>1, CancelTodo
  <2>4. list' \in TodoLists /\ \A k \in T!Keys : list'[k] \subseteq list[k]
    BY <1>2, <2>1 DEF TodoLists
  <2>5. \A k \in T!Keys : \A u \in list'[k] : Born(u)
    BY <1>3, <2>4
  <2> QED
    BY <2>1, <2>2, <2>3, <2>4, <2>5, TapTodo
<1> QED
  BY <1>5, <1>6, <1>7, <1>9, <1>10

-----------------------------------------------------------------------------
(* The server, and its answers.                                            *)

LEMMA AnswerTodo ==
  ASSUME TodoShape, NEW i \in DOMAIN calls, NEW answer \in {"ok", "not_found", "failed"},
         calls' = [calls EXCEPT ![i].phase = "answered", ![i].answer = answer]
  PROVE  /\ calls' \in Seq(TodoCalls) /\ Len(calls') = Len(calls) /\ DOMAIN calls' = DOMAIN calls
         /\ \A j \in DOMAIN calls : /\ calls'[j].op = calls[j].op /\ calls'[j].item = calls[j].item
                                    /\ calls'[j].mounted = calls[j].mounted /\ calls'[j].old = calls[j].old
         /\ calls'[i].phase = "answered" /\ calls'[i].answer = answer
         /\ \A j \in DOMAIN calls \ {i} : calls'[j] = calls[j]
<1> DEFINE new == [[calls[i] EXCEPT !.phase = "answered"] EXCEPT !.answer = answer]
<1>1. calls[i] \in TodoCalls
  BY CallTyped
<1>2. /\ new \in TodoCalls /\ new.phase = "answered" /\ new.answer = answer /\ new.op = calls[i].op
      /\ new.item = calls[i].item /\ new.mounted = calls[i].mounted /\ new.old = calls[i].old
  BY <1>1 DEF TodoCalls
<1>3. calls' = [calls EXCEPT ![i] = new]
  BY DEF TodoShape
<1> HIDE DEF new
<1>4. /\ calls' \in Seq(TodoCalls) /\ Len(calls') = Len(calls) /\ DOMAIN calls' = DOMAIN calls
      /\ calls'[i] = new /\ \A j \in DOMAIN calls \ {i} : calls'[j] = calls[j]
  <2>1. calls \in Seq(TodoCalls) /\ new \in TodoCalls
    BY <1>2 DEF TodoShape
  <2>2. DOMAIN calls' = DOMAIN calls /\ calls'[i] = new /\ \A j \in DOMAIN calls \ {i} : calls'[j] = calls[j]
    BY <1>3, <2>1
  <2>3. i \in 1 .. Len(calls)
    BY <2>1
  <2>4. [calls EXCEPT ![i] = new] \in Seq(TodoCalls) /\ Len([calls EXCEPT ![i] = new]) = Len(calls)
    BY <2>1, <2>3, ExceptSeq
  <2> QED
    BY <1>3, <2>2, <2>4
<1>5. ASSUME NEW j \in DOMAIN calls
      PROVE  /\ calls'[j].op = calls[j].op /\ calls'[j].item = calls[j].item
             /\ calls'[j].mounted = calls[j].mounted /\ calls'[j].old = calls[j].old
  <2>1. CASE j = i
    BY <2>1, <1>2, <1>4
  <2>2. CASE j # i
    BY <2>2, <1>4
  <2> QED
    BY <2>1, <2>2
<1>6. calls'[i].phase = "answered" /\ calls'[i].answer = answer
  BY <1>2, <1>4
<1> QED
  BY <1>4, <1>5, <1>6

\* What a handled call leaves of its row, and of the others.
LEMMA HandledRows ==
  ASSUME TodoShape, TodoBirths, NEW i \in DOMAIN calls, T!Handle(i)
  PROVE  LET c == calls[i] IN
         /\ rows' \in [TodoItems -> TodoStates]
         /\ \A u \in TodoItems : Born(u) => Born(u)'
         /\ \A u \in TodoItems : u # c.item => rows'[u] = rows[u]
         /\ c.op = "create" => ~Born(c.item) /\ rows'[c.item] = "open" /\ calls'[i].answer = "ok"
         /\ calls'[i].answer # "ok" => rows'[c.item] = rows[c.item] /\ calls'[i].answer = "not_found"
         /\ c.op = "complete" /\ calls'[i].answer = "ok" => rows'[c.item] = "done"
         /\ rows[c.item] # "open" /\ rows'[c.item] = "open" => Opens(c, c.item)
<1> DEFINE c == calls[i]
           found == c.op = "create" \/ rows[c.item] \in {"open", "done"}
<1>1. /\ c.phase = "sent"
      /\ rows' = [rows EXCEPT ![c.item] = IF c.op = "create" THEN "open"
                                          ELSE IF found THEN T!After(c.op, rows[c.item]) ELSE rows[c.item]]
      /\ calls' = [calls EXCEPT ![i].phase = "answered", ![i].answer = IF found THEN "ok" ELSE "not_found"]
  BY DEF T!Handle, TodoShape
<1>2. calls'[i].answer = IF found THEN "ok" ELSE "not_found"
  BY <1>1, AnswerTodo
<1>3. c.item \in TodoItems /\ c.op \in T!Ops /\ rows \in [TodoItems -> TodoStates]
  BY CallTyped DEF TodoShape
<1>4. /\ rows'[c.item] = IF c.op = "create" THEN "open" ELSE IF found THEN T!After(c.op, rows[c.item]) ELSE rows[c.item]
      /\ \A u \in TodoItems : u # c.item => rows'[u] = rows[u]
  BY <1>1, <1>3
<1>5. found /\ c.op # "create" => T!After(c.op, rows[c.item]) \in {"open", "done", "deleted"}
  BY <1>3 DEF T!After, T!Ops
<1>6. rows' \in [TodoItems -> TodoStates]
  BY <1>1, <1>3, <1>5 DEF TodoStates
<1>7. \A u \in TodoItems : Born(u) => Born(u)'
  BY <1>4, <1>5 DEF Born
<1>8. c.op = "create" => ~Born(c.item)
  BY <1>1 DEF TodoBirths
<1>9. c.op = "complete" /\ found => rows'[c.item] = "done"
  BY <1>4 DEF T!After
<1>10. rows[c.item] # "open" /\ rows'[c.item] = "open" => Opens(c, c.item)
  <2>1. CASE c.op \in {"create", "uncomplete", "restore"}
    BY <2>1 DEF Opens
  <2>2. CASE c.op \notin {"create", "uncomplete", "restore"}
    BY <1>3, <1>4, <2>2 DEF T!After, T!Ops
  <2> QED
    BY <2>1, <2>2
<1> HIDE DEF found
<1>11. /\ c.op = "create" => calls'[i].answer = "ok" /\ rows'[c.item] = "open"
       /\ calls'[i].answer # "ok" => rows'[c.item] = rows[c.item] /\ calls'[i].answer = "not_found"
  BY <1>2, <1>4 DEF found
<1> QED
  BY <1>2, <1>4, <1>6, <1>7, <1>8, <1>9, <1>10, <1>11

\* A call that is answered, or lost: no fetch becomes due earlier than it was.
LEMMA BirthsAnswered ==
  ASSUME TodoShape, TodoBirths, NEW i \in DOMAIN calls, T!Handle(i) \/ T!Lose(i)
  PROVE  TodoBirths'
<1>1. PICK answer \in {"ok", "not_found", "failed"} :
        calls' = [calls EXCEPT ![i].phase = "answered", ![i].answer = answer]
  BY DEF T!Handle, T!Lose
<1>2. /\ list' = list /\ fetch' = fetch /\ exiting' = exiting
      /\ T!Lose(i) => rows' = rows /\ answer = "failed"
  <2>1. calls'[i].answer = answer
    BY <1>1, AnswerTodo
  <2>2. T!Lose(i) => calls' = [calls EXCEPT ![i].phase = "answered", ![i].answer = "failed"]
    BY DEF T!Lose
  <2>3. T!Lose(i) => calls'[i].answer = "failed"
    BY <2>2, AnswerTodo
  <2> QED
    BY <2>1, <2>3 DEF T!Handle, T!Lose
<1>3. /\ DOMAIN calls' = DOMAIN calls
      /\ \A j \in DOMAIN calls : calls'[j].op = calls[j].op /\ calls'[j].item = calls[j].item /\ calls'[j].old = calls[j].old
      /\ calls'[i].phase = "answered" /\ calls'[i].answer = answer
      /\ \A j \in DOMAIN calls \ {i} : calls'[j] = calls[j]
  BY <1>1, AnswerTodo
<1>4. \A u \in TodoItems : Born(u) => Born(u)'
  <2>1. CASE T!Handle(i)
    BY <2>1, HandledRows
  <2>2. CASE T!Lose(i)
    BY <2>2, <1>2 DEF Born
  <2> QED
    BY <2>1, <2>2
<1>5. \A u \in TodoItems : u # calls[i].item => (Born(u)' <=> Born(u))
  <2>1. CASE T!Handle(i)
    BY <2>1, HandledRows DEF Born
  <2>2. CASE T!Lose(i)
    BY <2>2, <1>2 DEF Born
  <2> QED
    BY <2>1, <2>2
<1>6. calls[i].op = "create" /\ answer = "ok" => Born(calls[i].item)'
  <2>1. CASE T!Handle(i)
    <3>1. calls[i].op = "create" => rows'[calls[i].item] = "open"
      BY <2>1, HandledRows
    <3>2. Born(calls[i].item)' <=> rows'[calls'[i].item] # "unborn"
      BY <1>2 DEF Born
    <3> QED
      BY <3>1, <3>2, <1>3
  <2>2. CASE T!Lose(i)
    BY <2>2, <1>2
  <2> QED
    BY <2>1, <2>2
<1>7. \A j \in DOMAIN calls : calls[j].item \in TodoItems
  BY CallTyped
<1>8. \A k \in T!Keys : list[k] \cup fetch[k].set \subseteq TodoItems /\ \A j \in DOMAIN calls : calls[j].old[k] \subseteq TodoItems
  BY CallTyped DEF TodoShape, TodoLists, TodoFetches
<1>9. exiting \subseteq TodoItems
  BY DEF TodoShape
<1>10. ASSUME NEW j \in DOMAIN calls
       PROVE  IF calls'[j].op # "create" THEN Born(calls[j].item)'
              ELSE /\ calls'[j].phase = "sent" => ~Born(calls[j].item)'
                   /\ calls'[j].phase = "answered" /\ calls'[j].answer = "ok" => Born(calls[j].item)'
                   /\ \A n \in DOMAIN calls : calls'[n].op = "create" /\ calls'[n].item = calls'[j].item => j = n
  <2>1. CASE calls[j].op # "create"
    <3>1. Born(calls[j].item)
      BY <2>1 DEF TodoBirths
    <3>2. rows[calls[j].item] # "unborn" => rows'[calls[j].item] # "unborn"
      BY <1>4, <1>7 DEF Born
    <3> QED
      BY <2>1, <3>1, <3>2, <1>3 DEF Born
  <2>2. CASE calls[j].op = "create"
    <3>1. \A n \in DOMAIN calls : calls[n].op = "create" /\ calls[n].item = calls[j].item => j = n
      BY <2>2 DEF TodoBirths
    <3>2. CASE j = i
      BY <3>1, <3>2, <2>2, <1>3, <1>6
    <3>3. CASE j # i
      <4>1. calls'[j] = calls[j]
        BY <1>3, <3>3
      <4>2. /\ calls[j].phase = "sent" => ~Born(calls[j].item)
            /\ calls[j].phase = "answered" /\ calls[j].answer = "ok" => Born(calls[j].item)
        BY <2>2 DEF TodoBirths
      <4>3. CASE calls[j].item # calls[i].item
        <5>1. (rows'[calls[j].item] # "unborn") <=> (rows[calls[j].item] # "unborn")
          BY <1>5, <1>7, <4>3 DEF Born
        <5> QED
          BY <2>2, <3>1, <4>1, <4>2, <5>1, <1>3 DEF Born
      <4>4. CASE calls[j].item = calls[i].item
        <5>1. calls[i].op # "create"
          BY <3>1, <3>3, <4>4
        <5>2. Born(calls[i].item)
          BY <5>1 DEF TodoBirths
        <5>3. rows[calls[j].item] # "unborn" /\ rows'[calls[j].item] # "unborn"
          BY <5>2, <4>4, <1>4, <1>7 DEF Born
        <5> QED
          BY <2>2, <3>1, <4>1, <4>2, <5>3, <1>3 DEF Born
      <4> QED
        BY <4>3, <4>4
    <3> QED
      BY <3>2, <3>3
  <2> QED
    BY <2>1, <2>2
<1>11. /\ \A k \in T!Keys : /\ \A u \in list'[k] \cup fetch'[k].set : Born(u)'
                            /\ \A j \in DOMAIN calls' : \A u \in calls'[j].old[k] : Born(u)'
       /\ \A u \in exiting' : Born(u)'
  BY <1>2, <1>3, <1>4, <1>8, <1>9 DEF TodoBirths
<1>12. \A j \in DOMAIN calls' :
          IF calls'[j].op # "create" THEN Born(calls[j].item)'
          ELSE /\ calls'[j].phase = "sent" => ~Born(calls[j].item)'
               /\ calls'[j].phase = "answered" /\ calls'[j].answer = "ok" => Born(calls[j].item)'
               /\ \A n \in DOMAIN calls' : calls'[n].op = "create" /\ calls'[n].item = calls'[j].item => j = n
  BY <1>3, <1>10
<1> QED
  BY <1>11, <1>12 DEF TodoBirths

LEMMA HandleTodo ==
  ASSUME TodoInv, NEW i \in DOMAIN calls, T!Handle(i)
  PROVE  TodoInv'
<1>1. TodoShape /\ TodoBirths /\ ExitsSafe /\ ListsTrue
  BY DEF TodoInv
<1>2. PICK answer \in {"ok", "not_found", "failed"} :
        calls' = [calls EXCEPT ![i].phase = "answered", ![i].answer = answer]
  BY DEF T!Handle
<1>3. /\ screen' = screen /\ list' = list /\ fetch' = fetch /\ stale' = stale /\ exiting' = exiting
      /\ calls[i].phase = "sent" /\ blind' = blind \cup (IF T!Overtakes(i) THEN {"open"} ELSE {})
  BY DEF T!Handle
<1>4. /\ calls' \in Seq(TodoCalls) /\ Len(calls') = Len(calls) /\ DOMAIN calls' = DOMAIN calls
      /\ \A j \in DOMAIN calls : /\ calls'[j].op = calls[j].op /\ calls'[j].item = calls[j].item
                                 /\ calls'[j].mounted = calls[j].mounted
      /\ calls'[i].phase = "answered" /\ calls'[i].answer = answer
      /\ \A j \in DOMAIN calls \ {i} : calls'[j] = calls[j]
  BY <1>1, <1>2, AnswerTodo
<1> DEFINE c == calls[i]
<1>5. /\ rows' \in [TodoItems -> TodoStates]
      /\ \A u \in TodoItems : u # c.item => rows'[u] = rows[u]
      /\ c.op = "create" => ~Born(c.item) /\ rows'[c.item] = "open"
      /\ calls'[i].answer # "ok" => rows'[c.item] = rows[c.item]
      /\ c.op = "complete" /\ calls'[i].answer = "ok" => rows'[c.item] = "done"
      /\ rows[c.item] # "open" /\ rows'[c.item] = "open" => Opens(c, c.item)
  BY <1>1, HandledRows
<1>6. c.item \in TodoItems
  BY <1>1, CallTyped
<1>7. TodoShape'
  BY <1>1, <1>3, <1>4, <1>5 DEF TodoShape, T!Keys
<1>8. TodoBirths'
  BY <1>1, BirthsAnswered
<1>9. \A j \in DOMAIN calls, u \in TodoItems : Opens(calls'[j], u) <=> Opens(calls[j], u)
  BY <1>4 DEF Opens
<1>10. \A j \in DOMAIN calls : calls'[j].phase = "sent" => calls[j].phase = "sent" /\ j # i
  BY <1>4
<1>11. ExitsSafe'
  <2> SUFFICES ASSUME "open" \notin blind', NEW u \in exiting PROVE Checking(u)' \/ Checked(u)'
    BY <1>3 DEF ExitsSafe
  <2>1. /\ "open" \notin blind /\ ~T!Overtakes(i) /\ u \in TodoItems
    BY <1>1, <1>3 DEF TodoShape
  <2>2. CASE Checking(u)
    <3>1. PICK p \in DOMAIN calls : Checks(calls[p], u) /\ \A j \in DOMAIN calls : j > p => ~Opens(calls[j], u)
      BY <2>2 DEF Checking
    <3>2. \A j \in DOMAIN calls' : j > p => ~Opens(calls'[j], u)
      BY <1>4, <1>9, <2>1, <3>1
    <3>3. CASE p # i \/ answer # "ok"
      <4>1. Checks(calls'[p], u)
        <5>1. CASE p # i
          BY <1>4, <3>1, <5>1
        <5>2. CASE p = i /\ answer # "ok"
          BY <1>4, <3>1, <5>2 DEF Checks
        <5> QED
          BY <3>3, <5>1, <5>2
      <4>2. p \in DOMAIN calls' /\ Checks(calls'[p], u) /\ \A j \in DOMAIN calls' : j > p => ~Opens(calls'[j], u)
        BY <1>4, <3>1, <3>2, <4>1
      <4> QED
        BY <4>2 DEF Checking
    <3>4. CASE p = i /\ answer = "ok"
      <4>1. c.item = u /\ c.op = "complete"
        BY <3>1, <3>4 DEF Checks
      <4>2. rows'[u] = "done"
        BY <1>4, <1>5, <3>4, <4>1
      <4>3. ASSUME NEW j \in DOMAIN calls', calls'[j].phase = "sent" PROVE ~Opens(calls'[j], u)
        <5>1. j \in DOMAIN calls /\ j # i /\ calls[j].phase = "sent"
          BY <1>4, <1>10, <4>3
        <5>2. DOMAIN calls = 1 .. Len(calls) /\ Len(calls) \in Nat
          BY <1>1 DEF TodoShape
        <5>3. CASE j > i
          BY <3>2, <3>4, <4>3, <5>3
        <5>4. CASE j < i
          <6>1. j \in 1 .. (i - 1)
            BY <5>1, <5>2, <5>4
          <6>2. calls[j].item # c.item
            BY <2>1, <5>1, <6>1 DEF T!Overtakes
          <6> QED
            BY <4>1, <5>1, <6>2, <1>4 DEF Opens
        <5> QED
          BY <5>1, <5>2, <5>3, <5>4
      <4>4. rows'[u] # "open" /\ \A j \in DOMAIN calls' : calls'[j].phase = "sent" => ~Opens(calls'[j], u)
        BY <4>2, <4>3
      <4> QED
        BY <4>4 DEF Checked
    <3> QED
      BY <3>3, <3>4
  <2>3. CASE Checked(u)
    <3>1. rows[u] # "open" /\ \A j \in DOMAIN calls : calls[j].phase = "sent" => ~Opens(calls[j], u)
      BY <2>3 DEF Checked
    <3>2. rows'[u] # "open"
      BY <1>3, <1>5, <1>6, <2>1, <3>1
    <3>3. \A j \in DOMAIN calls' : calls'[j].phase = "sent" => ~Opens(calls'[j], u)
      BY <1>4, <1>9, <1>10, <2>1, <3>1
    <3> QED
      BY <3>2, <3>3 DEF Checked
  <2> QED
    BY <1>1, <2>1, <2>2, <2>3 DEF ExitsSafe
<1>12. ASSUME NEW k \in T!Keys, \A j \in DOMAIN calls' : ~TodoOwes(calls'[j], k) PROVE ListTrueAt(k)'
  <2>1. ASSUME NEW j \in DOMAIN calls PROVE ~TodoOwes(calls[j], k)
    <3>1. CASE j = i
      BY <1>3, <1>4, <1>12, <3>1 DEF TodoOwes, T!Settles
    <3>2. CASE j # i
      BY <1>4, <1>12, <3>2
    <3> QED
      BY <3>1, <3>2
  <2>2. ListTrueAt(k)
    BY <1>1, <2>1 DEF ListsTrue
  <2>3. T!Truth(k)' = T!Truth(k)
    <3>1. CASE answer # "ok"
      BY <1>4, <1>5, <1>6, <3>1 DEF T!Truth
    <3>2. CASE answer = "ok"
      <4>1. k = "done" /\ c.op = "create"
        BY <1>4, <1>12, <3>2 DEF TodoOwes, T!Keys
      <4>2. rows[c.item] = "unborn" /\ rows'[c.item] = "open"
        BY <1>5, <4>1 DEF Born
      <4>3. \A u \in TodoItems : rows'[u] = "done" <=> rows[u] = "done"
        BY <1>5, <4>2
      <4> QED
        BY <4>1, <4>3 DEF T!Truth
    <3> QED
      BY <3>1, <3>2
  <2>4. k \in blind => k \in blind'
    BY <1>3
  <2> QED
    BY <1>3, <2>2, <2>3, <2>4 DEF ListTrueAt
<1>13. ListsTrue'
  <2>1. \A k \in T!Keys : (\A j \in DOMAIN calls' : ~TodoOwes(calls'[j], k)) => ListTrueAt(k)'
    BY <1>12
  <2> QED
    BY <2>1 DEF ListsTrue, TodoOwes
<1> QED
  BY <1>7, <1>8, <1>11, <1>13 DEF TodoInv

LEMMA LoseTodo ==
  ASSUME TodoInv, NEW i \in DOMAIN calls, T!Lose(i)
  PROVE  TodoInv'
<1>1. TodoShape /\ TodoBirths /\ ExitsSafe /\ ListsTrue
  BY DEF TodoInv
<1>2. /\ calls' = [calls EXCEPT ![i].phase = "answered", ![i].answer = "failed"]
      /\ rows' = rows /\ screen' = screen /\ list' = list /\ fetch' = fetch /\ stale' = stale /\ exiting' = exiting
      /\ blind' = blind \cup (IF calls[i].phase = "answered" /\ ~T!Settles(calls[i].op) THEN T!Keys ELSE {})
  BY DEF T!Lose
<1>3. /\ calls' \in Seq(TodoCalls) /\ Len(calls') = Len(calls) /\ DOMAIN calls' = DOMAIN calls
      /\ \A j \in DOMAIN calls : /\ calls'[j].op = calls[j].op /\ calls'[j].item = calls[j].item
                                 /\ calls'[j].mounted = calls[j].mounted
      /\ calls'[i].phase = "answered" /\ calls'[i].answer = "failed"
      /\ \A j \in DOMAIN calls \ {i} : calls'[j] = calls[j]
  BY <1>1, <1>2, AnswerTodo
<1>4. TodoShape'
  BY <1>1, <1>2, <1>3 DEF TodoShape
<1>5. TodoBirths'
  BY <1>1, BirthsAnswered
<1>6. \A j \in DOMAIN calls, u \in TodoItems :
        /\ Opens(calls'[j], u) <=> Opens(calls[j], u)
        /\ calls'[j].phase = "sent" => calls[j].phase = "sent"
        /\ Checks(calls[j], u) => Checks(calls'[j], u)
  <2> SUFFICES ASSUME NEW j \in DOMAIN calls, NEW u \in TodoItems
               PROVE  /\ Opens(calls'[j], u) <=> Opens(calls[j], u)
                      /\ calls'[j].phase = "sent" => calls[j].phase = "sent"
                      /\ Checks(calls[j], u) => Checks(calls'[j], u)
    OBVIOUS
  <2>1. CASE j = i
    BY <1>3, <2>1 DEF Opens, Checks
  <2>2. CASE j # i
    BY <1>3, <2>2
  <2> QED
    BY <2>1, <2>2
<1>7. ExitsSafe'
  <2> SUFFICES ASSUME "open" \notin blind', NEW u \in exiting PROVE Checking(u)' \/ Checked(u)'
    BY <1>2 DEF ExitsSafe
  <2>1. "open" \notin blind /\ u \in TodoItems
    BY <1>1, <1>2 DEF TodoShape
  <2>2. CASE Checking(u)
    <3>1. PICK p \in DOMAIN calls : Checks(calls[p], u) /\ \A j \in DOMAIN calls : j > p => ~Opens(calls[j], u)
      BY <2>2 DEF Checking
    <3>2. p \in DOMAIN calls' /\ Checks(calls'[p], u) /\ \A j \in DOMAIN calls' : j > p => ~Opens(calls'[j], u)
      BY <1>3, <1>6, <2>1, <3>1
    <3> QED
      BY <3>2 DEF Checking
  <2>3. CASE Checked(u)
    <3>1. rows'[u] # "open" /\ \A j \in DOMAIN calls' : calls'[j].phase = "sent" => ~Opens(calls'[j], u)
      BY <1>2, <1>3, <1>6, <2>1, <2>3 DEF Checked
    <3> QED
      BY <3>1 DEF Checked
  <2> QED
    BY <1>1, <2>1, <2>2, <2>3 DEF ExitsSafe
<1>8. ASSUME NEW k \in T!Keys, \A j \in DOMAIN calls' : ~TodoOwes(calls'[j], k) PROVE ListTrueAt(k)'
  <2>1. CASE k \in blind'
    BY <2>1 DEF ListTrueAt
  <2>2. CASE k \notin blind'
    <3>1. k \notin blind /\ (calls[i].phase = "answered" => T!Settles(calls[i].op))
      BY <1>2, <2>2
    <3>2. ASSUME NEW j \in DOMAIN calls PROVE ~TodoOwes(calls[j], k)
      <4>1. CASE j = i
        BY <1>3, <1>8, <3>1, <4>1 DEF TodoOwes, T!Settles
      <4>2. CASE j # i
        BY <1>3, <1>8, <4>2
      <4> QED
        BY <4>1, <4>2
    <3>3. ListTrueAt(k)
      BY <1>1, <3>2 DEF ListsTrue
    <3> QED
      BY <1>2, <3>1, <3>3 DEF ListTrueAt, T!Truth
  <2> QED
    BY <2>1, <2>2
<1>9. ListsTrue'
  <2>1. \A k \in T!Keys : (\A j \in DOMAIN calls' : ~TodoOwes(calls'[j], k)) => ListTrueAt(k)'
    BY <1>8
  <2> QED
    BY <2>1 DEF ListsTrue, TodoOwes
<1> QED
  BY <1>4, <1>5, <1>7, <1>9 DEF TodoInv

\* What ends: one call leaves, and the others keep their order.
LEMMA RemovedTodo ==
  ASSUME TodoShape, NEW i \in DOMAIN calls, calls' = T!RemoveAt(calls, i)
  PROVE  /\ calls' \in Seq(TodoCalls) /\ Len(calls') <= MaxTodoCalls
         /\ \A j \in DOMAIN calls' : /\ (IF j < i THEN j ELSE j + 1) \in DOMAIN calls \ {i}
                                     /\ calls'[j] = calls[IF j < i THEN j ELSE j + 1]
         /\ \A j \in DOMAIN calls \ {i} : /\ (IF j < i THEN j ELSE j - 1) \in DOMAIN calls'
                                          /\ calls'[IF j < i THEN j ELSE j - 1] = calls[j]
<1>1. T!RemoveAt(calls, i) = H!RemoveAt(calls, i)
  BY DEF T!RemoveAt, H!RemoveAt
<1>2. /\ calls \in Seq(TodoCalls) /\ DOMAIN calls = 1 .. Len(calls) /\ Len(calls) \in Nat
      /\ Len(calls) <= MaxTodoCalls /\ MaxTodoCalls \in Nat
  BY DEF TodoShape
<1>3. /\ calls' \in Seq(TodoCalls) /\ Len(calls') = Len(calls) - 1
      /\ \A j \in DOMAIN calls' : /\ (IF j < i THEN j ELSE j + 1) \in DOMAIN calls
                                  /\ calls'[j] = calls[IF j < i THEN j ELSE j + 1]
  <2>1. calls' = H!RemoveAt(calls, i)
    BY <1>1
  <2>2. calls \in Seq(TodoCalls) /\ i \in DOMAIN calls
    BY <1>2
  <2> QED
    BY <2>1, <2>2, Removed
<1>4. DOMAIN calls' = 1 .. (Len(calls) - 1) /\ Len(calls') <= MaxTodoCalls
  BY <1>2, <1>3
<1>5. ASSUME NEW j \in DOMAIN calls' PROVE (IF j < i THEN j ELSE j + 1) \in DOMAIN calls \ {i}
  BY <1>2, <1>3, <1>4
<1>6. ASSUME NEW j \in DOMAIN calls \ {i}
      PROVE  /\ (IF j < i THEN j ELSE j - 1) \in DOMAIN calls'
             /\ calls'[IF j < i THEN j ELSE j - 1] = calls[j]
  <2>1. CASE j < i
    <3>1. j \in DOMAIN calls'
      BY <1>2, <1>4, <2>1
    <3> QED
      BY <2>1, <3>1, <1>3
  <2>2. CASE ~(j < i)
    <3>1. j - 1 \in DOMAIN calls' /\ ~(j - 1 < i) /\ j - 1 + 1 = j
      BY <1>2, <1>4, <2>2
    <3>2. calls'[j - 1] = calls[j - 1 + 1]
      BY <1>3, <3>1
    <3> QED
      BY <2>2, <3>1, <3>2
  <2> QED
    BY <2>1, <2>2
<1> QED
  BY <1>3, <1>4, <1>5, <1>6

LEMMA EndedLists ==
  ASSUME TodoShape, TodoBirths, NEW i \in DOMAIN calls, T!End(i)
  PROVE  /\ list' \in TodoLists /\ \A k \in T!Keys : \A u \in list'[k] : Born(u)
         /\ calls[i].op = "create" /\ calls[i].answer = "ok" => list'["done"] = list["done"]
         /\ ~T!Refetches(calls[i]) => list' = list
<1> DEFINE c == calls[i]
<1>1. /\ c.phase = "answered" /\ list' = IF c.answer = "ok" THEN T!Patched(c) ELSE T!RolledBack(c)
  BY DEF T!End
<1>2. c.op \in T!Ops /\ c.item \in TodoItems /\ c.old \in TodoLists /\ c.answer \in {"ok", "not_found", "failed"}
  BY CallTyped
<1>3. list \in TodoLists /\ \A k \in T!Keys : \A u \in list[k] \cup c.old[k] : Born(u)
  BY DEF TodoShape, TodoBirths
<1>4. c.answer = "ok" => Born(c.item)
  BY <1>1 DEF TodoBirths
<1>5. CASE c.answer # "ok"
  <2>1. list' = [k \in T!Keys |-> IF (k = "open" /\ T!Settles(c.op)) \/ c.op = "delete" THEN c.old[k] ELSE list[k]]
    BY <1>1, <1>5 DEF T!RolledBack
  <2>2. list' \in TodoLists
    BY <2>1, <1>2, <1>3 DEF TodoLists
  <2>3. \A k \in T!Keys : list'[k] \in {c.old[k], list[k]}
    BY <2>1
  <2>4. ~T!Refetches(c) => \A k \in T!Keys : list'[k] = list[k]
    BY <2>1 DEF T!Refetches, T!Settles
  <2>5. ~T!Refetches(c) => list' = list
    BY <2>2, <2>4, <1>3 DEF TodoLists
  <2> QED
    BY <1>3, <1>5, <2>2, <2>3, <2>5
<1>6. CASE c.answer = "ok"
  <2>1. T!Refetches(c)
    BY <1>6 DEF T!Refetches
  <2>2. list' = T!Patched(c)
    BY <1>1, <1>6
  <2>3. CASE c.op = "create"
    <3>1. list' = [list EXCEPT !["open"] = list["open"] \cup {c.item}]
      BY <2>2, <2>3, <1>3 DEF T!Patched, TodoLists
    <3>2. /\ list' \in TodoLists /\ list'["done"] = list["done"]
          /\ \A k \in T!Keys : list'[k] \subseteq list[k] \cup {c.item}
      BY <3>1, <1>2, <1>3 DEF TodoLists, T!Keys
    <3> QED
      BY <2>1, <3>2, <1>3, <1>4, <1>6
  <2>4. CASE c.op = "restore"
    <3>1. list' = [open |-> list["open"] \cup {c.item}, done |-> list["done"] \ {c.item}]
      BY <2>2, <2>4 DEF T!Patched
    <3>2. list' = [k \in T!Keys |-> IF k = "open" THEN list["open"] \cup {c.item} ELSE list["done"] \ {c.item}]
      BY <3>1 DEF T!Keys
    <3>3. /\ list' \in TodoLists /\ \A k \in T!Keys : list'[k] \subseteq list[k] \cup {c.item}
      BY <3>2, <1>2, <1>3 DEF TodoLists, T!Keys
    <3> QED
      BY <2>1, <2>4, <3>3, <1>3, <1>4, <1>6
  <2>5. CASE c.op \notin {"create", "restore"}
    <3>1. list' = list
      BY <2>2, <2>5 DEF T!Patched
    <3> QED
      BY <2>1, <3>1, <1>3
  <2> QED
    BY <2>3, <2>4, <2>5
<1> QED
  BY <1>5, <1>6

LEMMA EndTodo ==
  ASSUME TodoInv, NEW i \in DOMAIN calls, T!End(i)
  PROVE  TodoInv'
<1>1. TodoShape /\ TodoBirths /\ ExitsSafe /\ ListsTrue
  BY DEF TodoInv
<1> DEFINE c == calls[i]
<1>2. /\ c.phase = "answered" /\ calls' = T!RemoveAt(calls, i) /\ rows' = rows /\ screen' = screen
      /\ exiting' = IF c.answer # "ok" /\ c.op = "complete" /\ c.mounted THEN exiting \ {c.item} ELSE exiting
  BY DEF T!End, T!CancelExit
<1>3. /\ calls' \in Seq(TodoCalls) /\ Len(calls') <= MaxTodoCalls
      /\ \A j \in DOMAIN calls' : /\ (IF j < i THEN j ELSE j + 1) \in DOMAIN calls \ {i}
                                  /\ calls'[j] = calls[IF j < i THEN j ELSE j + 1]
      /\ \A j \in DOMAIN calls \ {i} : /\ (IF j < i THEN j ELSE j - 1) \in DOMAIN calls'
                                       /\ calls'[IF j < i THEN j ELSE j - 1] = calls[j]
  BY <1>1, <1>2, RemovedTodo
<1>4. /\ list' \in TodoLists /\ \A k \in T!Keys : \A u \in list'[k] : Born(u)
      /\ c.op = "create" /\ c.answer = "ok" => list'["done"] = list["done"]
      /\ ~T!Refetches(c) => list' = list
  BY <1>1, EndedLists
<1>5. \/ T!Refetches(c) /\ c.op = "create" /\ fetch' = [fetch EXCEPT !["open"] = T!SentFetch]
         /\ blind' = blind \cup T!Unread({"open"}) /\ stale' = stale
      \/ T!Refetches(c) /\ T!InvalidateAll
      \/ ~T!Refetches(c) /\ fetch' = fetch /\ stale' = stale /\ blind' = blind
  BY DEF T!End
<1>6. T!InvalidateAll => /\ fetch' = [k \in T!Keys |-> IF k \in T!Observed THEN T!SentFetch ELSE T!NoFetch]
                         /\ stale' = T!Keys \ T!Observed /\ blind' = blind \cup T!Unread(T!Observed)
  BY DEF T!InvalidateAll
<1>7. "open" \in T!Observed /\ T!Observed \subseteq T!Keys
  BY DEF T!Observed, T!Keys
<1>8. /\ fetch' \in [T!Keys -> TodoFetches] /\ stale' \subseteq T!Keys /\ blind' \subseteq T!Keys /\ blind \subseteq blind'
      /\ \A k \in T!Keys : fetch'[k].set \subseteq fetch[k].set
  <2>1. T!Unread({"open"}) \subseteq T!Keys /\ T!Unread(T!Observed) \subseteq T!Keys
    BY <1>7 DEF T!Unread
  <2>2. blind' \subseteq T!Keys /\ blind \subseteq blind' /\ stale' \subseteq T!Keys
    BY <1>1, <1>5, <1>6, <2>1 DEF TodoShape
  <2>3. fetch' \in [T!Keys -> TodoFetches] /\ \A k \in T!Keys : fetch'[k] \in {fetch[k], T!SentFetch, T!NoFetch}
    BY <1>1, <1>5, <1>6, NoFetchTyped DEF TodoShape
  <2> QED
    BY <2>2, <2>3, NoFetchTyped
<1>9. TodoShape'
  <2>1. exiting' \subseteq exiting
    BY <1>2
  <2> QED
    BY <1>1, <1>2, <1>3, <1>4, <1>8, <2>1 DEF TodoShape
<1>10. \A u : Born(u)' <=> Born(u)
  BY <1>2 DEF Born
<1>11. DOMAIN calls \subseteq Nat /\ DOMAIN calls' \subseteq Nat /\ i \in Nat
  BY <1>1, <1>3 DEF TodoShape
<1>12. TodoBirths'
  <2>1. \A k \in T!Keys : \A u \in list'[k] \cup fetch'[k].set : Born(u)
    BY <1>1, <1>4, <1>8 DEF TodoBirths
  <2>2. \A j \in DOMAIN calls' : \A k \in T!Keys : \A u \in calls'[j].old[k] : Born(u)
    BY <1>1, <1>3 DEF TodoBirths
  <2>3. \A u \in exiting' : Born(u)
    BY <1>1, <1>2 DEF TodoBirths
  <2>4. ASSUME NEW j \in DOMAIN calls'
        PROVE  IF calls'[j].op # "create" THEN Born(calls'[j].item)
               ELSE /\ calls'[j].phase = "sent" => ~Born(calls'[j].item)
                    /\ calls'[j].phase = "answered" /\ calls'[j].answer = "ok" => Born(calls'[j].item)
                    /\ \A n \in DOMAIN calls' : calls'[n].op = "create" /\ calls'[n].item = calls'[j].item => j = n
    <3> DEFINE p == IF j < i THEN j ELSE j + 1
    <3>1. p \in DOMAIN calls /\ calls'[j] = calls[p]
      BY <1>3
    <3>2. ASSUME NEW n \in DOMAIN calls', calls[p].op = "create", calls'[n].op = "create", calls'[n].item = calls[p].item
          PROVE  j = n
      <4> DEFINE q == IF n < i THEN n ELSE n + 1
      <4>1. q \in DOMAIN calls /\ calls'[n] = calls[q]
        BY <1>3
      <4>2. p = q
        BY <1>1, <3>1, <3>2, <4>1 DEF TodoBirths
      <4> QED
        BY <4>2, <1>11
    <3> HIDE DEF p
    <3> QED
      BY <1>1, <3>1, <3>2 DEF TodoBirths
  <2> QED
    BY <1>10, <2>1, <2>2, <2>3, <2>4 DEF TodoBirths
<1>13. ExitsSafe'
  <2> SUFFICES ASSUME "open" \notin blind', NEW u \in exiting' PROVE Checking(u)' \/ Checked(u)'
    BY DEF ExitsSafe
  <2>1. "open" \notin blind /\ u \in exiting
    BY <1>2, <1>8
  <2>2. CASE Checking(u)
    <3>1. PICK p \in DOMAIN calls : Checks(calls[p], u) /\ \A j \in DOMAIN calls : j > p => ~Opens(calls[j], u)
      BY <2>2 DEF Checking
    <3>2. p # i
      BY <1>2, <3>1 DEF Checks
    <3> DEFINE n == IF p < i THEN p ELSE p - 1
    <3>3. n \in DOMAIN calls' /\ calls'[n] = calls[p]
      BY <1>3, <3>1, <3>2
    <3>4. ASSUME NEW j \in DOMAIN calls', j > n PROVE ~Opens(calls'[j], u)
      <4> DEFINE q == IF j < i THEN j ELSE j + 1
      <4>1. q \in DOMAIN calls /\ calls'[j] = calls[q]
        BY <1>3
      <4>2. q > p
        BY <1>11, <3>1, <3>2, <3>4
      <4> QED
        BY <3>1, <4>1, <4>2
    <3>5. n \in DOMAIN calls' /\ Checks(calls'[n], u) /\ \A j \in DOMAIN calls' : j > n => ~Opens(calls'[j], u)
      BY <3>1, <3>3, <3>4
    <3> HIDE DEF n
    <3> QED
      BY <3>5 DEF Checking
  <2>3. CASE Checked(u)
    <3>1. rows'[u] # "open" /\ \A j \in DOMAIN calls' : calls'[j].phase = "sent" => ~Opens(calls'[j], u)
      BY <1>2, <1>3, <2>3 DEF Checked
    <3> QED
      BY <3>1 DEF Checked
  <2> QED
    BY <1>1, <2>1, <2>2, <2>3 DEF ExitsSafe
<1>14. ASSUME NEW k \in T!Keys, \A j \in DOMAIN calls' : ~TodoOwes(calls'[j], k) PROVE ListTrueAt(k)'
  <2>1. T!Truth(k)' = T!Truth(k)
    BY <1>2 DEF T!Truth
  <2>2. ASSUME NEW j \in DOMAIN calls \ {i} PROVE ~TodoOwes(calls[j], k)
    BY <1>3, <1>14
  <2>3. ~TodoOwes(c, k) => ListTrueAt(k)
    BY <1>1, <2>2 DEF ListsTrue
  <2>4. CASE T!InvalidateAll
    <3>1. k \in stale' \/ fetch'[k] = T!SentFetch
      BY <1>6, <2>4
    <3> QED
      BY <3>1, NoFetchTyped DEF ListTrueAt
  <2>5. CASE ~T!Refetches(c) /\ fetch' = fetch /\ stale' = stale /\ blind' = blind
    <3>1. ~TodoOwes(c, k) /\ list' = list
      BY <1>4, <2>5 DEF T!Refetches, TodoOwes
    <3> QED
      BY <2>1, <2>3, <2>5, <3>1 DEF ListTrueAt
  <2>6. CASE T!Refetches(c) /\ c.op = "create" /\ fetch' = [fetch EXCEPT !["open"] = T!SentFetch] /\ stale' = stale
    <3>1. CASE k = "open"
      <4>1. fetch'[k] = T!SentFetch
        BY <1>1, <2>6, <3>1 DEF TodoShape
      <4> QED
        BY <4>1, NoFetchTyped DEF ListTrueAt
    <3>2. CASE k = "done"
      <4>1. fetch'[k] = fetch[k]
        BY <1>1, <2>6, <3>2 DEF TodoShape
      <4>2. c.answer = "ok" /\ ~TodoOwes(c, k)
        BY <2>6, <3>2 DEF T!Refetches, T!Settles, TodoOwes
      <4>3. list'[k] = list[k]
        BY <1>4, <2>6, <3>2, <4>2
      <4>4. k \in blind => k \in blind'
        BY <1>8
      <4> QED
        BY <2>1, <2>3, <2>6, <4>1, <4>2, <4>3, <4>4 DEF ListTrueAt
    <3> QED
      BY <3>1, <3>2 DEF T!Keys
  <2> QED
    BY <1>5, <2>4, <2>5, <2>6
<1>15. ListsTrue'
  <2>1. \A k \in T!Keys : (\A j \in DOMAIN calls' : ~TodoOwes(calls'[j], k)) => ListTrueAt(k)'
    BY <1>14
  <2> QED
    BY <2>1 DEF ListsTrue, TodoOwes
<1> QED
  BY <1>9, <1>12, <1>13, <1>15 DEF TodoInv

LEMMA NextTodo == TodoInv /\ [T!Next]_(T!vars) => TodoInv'
<1> SUFFICES ASSUME TodoInv, [T!Next]_(T!vars) PROVE TodoInv'
  OBVIOUS
<1>1. CASE UNCHANGED T!vars
  <2>1. /\ rows' = rows /\ screen' = screen /\ list' = list /\ fetch' = fetch /\ stale' = stale
        /\ exiting' = exiting /\ calls' = calls /\ blind' = blind
    BY <1>1 DEF T!vars
  <2>2. TodoShape' /\ TodoBirths'
    BY <2>1 DEF TodoInv, TodoShape, TodoBirths, Born
  <2>3. ExitsSafe' /\ ListsTrue'
    BY <2>1 DEF TodoInv, ExitsSafe, Checking, Checked, ListsTrue, ListTrueAt, T!Truth
  <2> QED
    BY <2>2, <2>3 DEF TodoInv
<1>2. CASE T!Next
  BY <1>2, FetchTodo, SwitchTodo, ElsewhereTodo, TimerTodo, MutateTodo, HandleTodo, LoseTodo, EndTodo DEF T!Next
<1> QED
  BY <1>1, <1>2

LEMMA TodosAreTracked == ASSUME TodoBound PROVE T!Spec => []TodoInv
BY InitTodo, NextTodo, PTL DEF T!Spec

\* Once no call is under way and no row slides out, the lists on the screen are the server's
\* rows, in whatever order taps, timers, rollbacks and answers of useTodos come.
THEOREM TodosAreTrue == ASSUME TodoBound PROVE T!Spec => []T!Truthful
<1>1. TodoInv => T!Truthful
  <2> SUFFICES ASSUME TodoInv, calls = <<>>, NEW k \in T!Observed \ (blind \cup stale), fetch[k].phase = "idle"
               PROVE  list[k] = T!Truth(k)
    BY DEF T!Truthful
  <2>1. DOMAIN calls = {} /\ k \in T!Keys
    BY DEF T!Observed, T!Keys
  <2> QED
    BY <2>1 DEF TodoInv, ListsTrue, ListTrueAt
<1> QED
  BY <1>1, TodosAreTracked, PTL

\* The rows, the lists and the calls of the to-dos stay typed, and no more calls are in
\* flight than the bound allows.
THEOREM TodoTypes == ASSUME TodoBound PROVE T!Spec => []T!TypeOK
<1>1. TodoInv => T!TypeOK
  <2> SUFFICES ASSUME TodoInv PROVE T!TypeOK
    OBVIOUS
  <2>1. TodoShape
    BY DEF TodoInv
  <2>2. \A k \in T!Keys : /\ list[k] \subseteq TodoItems /\ fetch[k].set \subseteq TodoItems
                          /\ fetch[k].phase \in {"idle", "sent", "answered"}
    BY <2>1 DEF TodoShape, TodoLists, TodoFetches
  <2>3. \A i \in DOMAIN calls : calls[i].op \in T!Ops /\ calls[i].answer \in {"ok", "not_found", "failed"}
    BY <2>1, CallTyped
  <2> QED
    BY <2>1, <2>2, <2>3 DEF TodoShape, T!TypeOK, TodoStates
<1> QED
  BY <1>1, TodosAreTracked, PTL

-----------------------------------------------------------------------------
(* Completions: once nothing is under way, both queries hold what was      *)
(* logged.  A call owes a fetch from when it changed something, in the     *)
(* cache or at the server, to its end.                                     *)

LogCycles == [act : {"complete", "uncomplete", "updateKind"}, kind : C!Kinds]
LogRecords == [phase : {"idle", "sent", "answered"}, from : {"today", "detail"}, mounted : BOOLEAN,
               cell : C!Cells, act : {"complete", "uncomplete", "updateKind"}, kind : C!Kinds,
               before : C!Kinds, offer : BOOLEAN,
               answer : {"ok", "conflict", "not_found", "failed"}, old : [C!Keys -> C!Data]]
LogFetches == [phase : {"idle", "sent", "answered"}, data : C!Data]
LogChips   == [cell : C!Cells, kind : C!Kinds] \cup {C!NoChip}

LogShape ==
  /\ minimum \in BOOLEAN /\ logged \in C!Days /\ calendar \in C!Days
  /\ screen \in {"today", "detail"}
  /\ cache \in [C!Keys -> C!Data] /\ fetch \in [C!Keys -> LogFetches]
  /\ call \in [LogCalls -> LogRecords] /\ latest \in LogCalls \cup {C!None}
  /\ undo \in LogChips /\ blind \subseteq C!Keys

Owes(m) == call[m].phase # "idle" /\ (call[m].from = "today" \/ (call[m].phase = "answered" /\ call[m].answer = "ok"))

\* What a query shows and what its fetch brings is what the server has, unless it is blind.
LogTrueAt(k) ==
  k \notin blind => /\ fetch[k].phase = "idle" => cache[k] = C!Truth(k)
                    /\ fetch[k].phase = "answered" => fetch[k].data = C!Truth(k)

LogTrue == (\A m \in LogCalls : ~Owes(m)) => \A k \in C!Keys : LogTrueAt(k)

LogInv == LogShape /\ LogTrue

LEMMA NothingLogged ==
  /\ [c \in C!Cells |-> C!None] \in C!Days /\ C!NoFetch.data \in C!Data /\ C!NoFetch \in LogFetches
  /\ [C!NoFetch EXCEPT !.phase = "sent"] \in LogFetches /\ C!NoFetch.phase = "idle"
  /\ [C!NoFetch EXCEPT !.phase = "sent"].phase = "sent"
  /\ C!NoFetch.data.days \in C!Days
<1>1. [c \in C!Cells |-> C!None] \in C!Days /\ C!None \in C!Kinds
  BY DEF C!Days, C!Cells, C!Kinds, C!None
<1>2. [days |-> [c \in C!Cells |-> C!None], today |-> C!None] \in C!Data
  BY <1>1 DEF C!Data
<1> QED
  BY <1>1, <1>2 DEF C!NoFetch, LogFetches

LEMMA IdleCall == C!Idle \in LogRecords /\ C!Idle.phase = "idle" /\ C!Idle.old \in [C!Keys -> C!Data]
BY NothingLogged DEF C!Idle, LogRecords, C!Cells, C!Kinds

LEMMA LogTruthTyped == ASSUME LogShape, NEW k \in C!Keys PROVE C!Truth(k) \in C!Data
<1>1. logged \in C!Days /\ (IF k = "stats" THEN logged["today"] ELSE C!None) \in C!Kinds
  BY DEF LogShape, C!Days, C!Cells, C!Kinds, C!None
<1> QED
  BY <1>1 DEF C!Truth, C!Data

LEMMA InitLog == C!Init => LogInv
<1> SUFFICES ASSUME C!Init PROVE LogInv
  OBVIOUS
<1>1. logged \in C!Days
  <2>1. (IF minimum THEN C!Kinds ELSE {"none", "full"}) \subseteq C!Kinds
    BY DEF C!Kinds
  <2> DEFINE S == IF minimum THEN C!Kinds ELSE {"none", "full"}
  <2>2. logged \in [C!Cells -> S]
    BY DEF C!Init
  <2> HIDE DEF S
  <2> QED
    BY <2>1, <2>2 DEF C!Days, S
<1>2. \A k \in C!Keys : C!Truth(k) \in C!Data
  <2>1. ASSUME NEW k \in C!Keys PROVE (IF k = "stats" THEN logged["today"] ELSE C!None) \in C!Kinds
    BY <1>1 DEF C!Days, C!Cells, C!Kinds, C!None
  <2> QED
    BY <1>1, <2>1 DEF C!Truth, C!Data
<1>3. /\ fetch \in [C!Keys -> LogFetches] /\ \A k \in C!Keys : fetch[k].phase = "idle"
      /\ call \in [LogCalls -> LogRecords] /\ \A m \in LogCalls : call[m].phase = "idle"
      /\ calendar \in C!Days
  BY NothingLogged, IdleCall DEF C!Init
<1>4. cache \in [C!Keys -> C!Data] /\ \A k \in C!Keys : cache[k] = C!Truth(k)
  BY <1>2 DEF C!Init
<1>5. LogShape
  BY <1>1, <1>3, <1>4 DEF C!Init, LogShape, LogChips
<1>6. LogTrue
  BY <1>3, <1>4 DEF LogTrue, LogTrueAt
<1> QED
  BY <1>5, <1>6 DEF LogInv

-----------------------------------------------------------------------------
(* The query cache.                                                        *)

LEMMA InvalidateIs ==
  ASSUME LogShape, NEW keys, C!Invalidate(keys)
  PROVE  /\ fetch' \in [C!Keys -> LogFetches]
         /\ \A k \in C!Keys : IF k \in keys THEN fetch'[k].phase = "sent" ELSE fetch'[k] = fetch[k]
<1> DEFINE new(k) == IF k \in keys THEN [C!NoFetch EXCEPT !.phase = "sent"] ELSE fetch[k]
<1>1. fetch' = [k \in C!Keys |-> new(k)]
  BY DEF C!Invalidate
<1>2. \A k \in C!Keys : new(k) \in LogFetches /\ (k \in keys => new(k).phase = "sent") /\ (k \notin keys => new(k) = fetch[k])
  BY NothingLogged DEF LogShape
<1> HIDE DEF new
<1> QED
  BY <1>1, <1>2

LEMMA CalendarTyped ==
  ASSUME LogShape, NEW d \in C!Data, C!SetStats(d)
  PROVE  calendar' \in C!Days
BY DEF LogShape, C!SetStats, C!Data

\* A step that changes one fetch, and the cache with it, or what is blind.
LEMMA FetchLog ==
  ASSUME LogInv, (\E k \in C!Keys : C!HandleFetch(k) \/ C!Deliver(k) \/ C!FailFetch(k))
  PROVE  LogInv'
<1> PICK k \in C!Keys : C!HandleFetch(k) \/ C!Deliver(k) \/ C!FailFetch(k)
  OBVIOUS
<1>1. /\ minimum' = minimum /\ logged' = logged /\ screen' = screen /\ latest' = latest
      /\ undo' = undo /\ call' = call /\ \A q : C!Truth(q)' = C!Truth(q)
  BY DEF C!HandleFetch, C!Deliver, C!FailFetch, C!Truth
<1>2. LogShape
  BY DEF LogInv
<1>3. fetch[k] \in LogFetches /\ fetch[k].data \in C!Data /\ C!Truth(k) \in C!Data
  BY <1>2, LogTruthTyped DEF LogShape, LogFetches
<1>4. CASE C!HandleFetch(k)
  <2>1. /\ fetch' = [fetch EXCEPT ![k] = [phase |-> "answered", data |-> C!Truth(k)]]
        /\ blind' = blind \ {k} /\ cache' = cache /\ calendar' = calendar
    BY <1>4 DEF C!HandleFetch
  <2>2. [phase |-> "answered", data |-> C!Truth(k)] \in LogFetches
    BY <1>3 DEF LogFetches
  <2>3. LogShape'
    BY <1>1, <1>2, <2>1, <2>2 DEF LogShape
  <2>4. ASSUME NEW q \in C!Keys, LogTrueAt(q) PROVE LogTrueAt(q)'
    BY <1>1, <1>2, <2>1, <2>4 DEF LogTrueAt, LogShape
  <2>5. LogTrueAt(k)'
    BY <1>1, <1>2, <2>1 DEF LogTrueAt, LogShape
  <2> QED
    BY <1>1, <2>3, <2>4, <2>5 DEF LogInv, LogTrue, Owes
<1>5. CASE C!Deliver(k)
  <2>1. /\ fetch' = [fetch EXCEPT ![k] = C!NoFetch] /\ cache' = [cache EXCEPT ![k] = fetch[k].data]
        /\ blind' = blind /\ fetch[k].phase = "answered"
    BY <1>5 DEF C!Deliver
  <2>2. calendar' \in C!Days
    <3>1. C!SetStats(fetch[k].data) \/ calendar' = calendar
      BY <1>5 DEF C!Deliver
    <3> QED
      BY <3>1, <1>2, <1>3, CalendarTyped DEF LogShape
  <2>3. LogShape'
    BY <1>1, <1>2, <1>3, <2>1, <2>2, NothingLogged DEF LogShape
  <2>4. ASSUME NEW q \in C!Keys, LogTrueAt(q) PROVE LogTrueAt(q)'
    <3>1. CASE q = k
      BY <3>1, <1>1, <1>2, <2>1, <2>4, NothingLogged DEF LogTrueAt, LogShape
    <3>2. CASE q # k
      BY <3>2, <1>1, <1>2, <2>1, <2>4 DEF LogTrueAt, LogShape
    <3> QED
      BY <3>1, <3>2
  <2> QED
    BY <1>1, <2>3, <2>4 DEF LogInv, LogTrue, Owes
<1>6. CASE C!FailFetch(k)
  <2>1. /\ fetch' = [fetch EXCEPT ![k] = C!NoFetch] /\ cache' = cache
        /\ blind' = blind \cup {k} /\ calendar' = calendar
    BY <1>6 DEF C!FailFetch
  <2>2. LogShape'
    BY <1>1, <1>2, <2>1, NothingLogged DEF LogShape
  <2>3. ASSUME NEW q \in C!Keys, LogTrueAt(q) PROVE LogTrueAt(q)'
    BY <1>1, <1>2, <2>1, <2>3 DEF LogTrueAt, LogShape
  <2> QED
    BY <1>1, <2>2, <2>3 DEF LogInv, LogTrue, Owes
<1> QED
  BY <1>4, <1>5, <1>6

LEMMA RefreshLog ==
  ASSUME LogInv, C!Focus \/ C!Refresh \/ C!DismissUndo
  PROVE  LogInv'
<1>1. /\ minimum' = minimum /\ logged' = logged /\ screen' = screen /\ latest' = latest
      /\ call' = call /\ cache' = cache /\ calendar' = calendar /\ undo' \in {undo, C!NoChip}
      /\ \A q : C!Truth(q)' = C!Truth(q)
  BY DEF C!Focus, C!Refresh, C!DismissUndo, C!Truth
<1>2. LogShape
  BY DEF LogInv
<1>3. /\ fetch' \in [C!Keys -> LogFetches] /\ blind' \subseteq C!Keys /\ blind \subseteq blind'
      /\ \A q \in C!Keys : fetch'[q] = fetch[q] \/ fetch'[q].phase = "sent"
  <2>1. CASE C!Focus
    <3>1. blind' = blind /\ \E k \in C!Keys : C!Invalidate({k})
      BY <2>1 DEF C!Focus
    <3> QED
      BY <3>1, <1>2, InvalidateIs DEF LogShape
  <2>2. CASE C!Refresh
    <3> DEFINE keys == IF screen = "today" THEN C!Keys ELSE {"stats"}
    <3>1. C!Invalidate(keys) /\ blind' = blind \cup C!Unread(keys)
      BY <2>2 DEF C!Refresh
    <3>2. keys \subseteq C!Keys
      BY DEF C!Keys
    <3> HIDE DEF keys
    <3>3. C!Unread(keys) \subseteq C!Keys
      BY <3>2 DEF C!Unread
    <3> QED
      BY <3>1, <3>3, <1>2, InvalidateIs DEF LogShape
  <2>3. CASE C!DismissUndo
    BY <2>3, <1>2 DEF C!DismissUndo, LogShape
  <2> QED
    BY <2>1, <2>2, <2>3
<1>4. LogShape'
  BY <1>1, <1>2, <1>3 DEF LogShape, LogChips
<1>5. ASSUME NEW q \in C!Keys, LogTrueAt(q) PROVE LogTrueAt(q)'
  BY <1>1, <1>3, <1>5 DEF LogTrueAt
<1> QED
  BY <1>1, <1>4, <1>5 DEF LogInv, LogTrue, Owes

-----------------------------------------------------------------------------
(* The calls.                                                              *)

LEMMA CyclesTyped ==
  ASSUME LogShape
  PROVE  /\ C!TodayCycles \subseteq LogCycles
         /\ \A sort : C!NextCycle(sort) \in LogCycles
         /\ undo # C!NoChip => C!UndoCycles \subseteq LogCycles /\ undo.cell \in C!Cells
<1>1. C!Uncomplete \in LogCycles
  BY DEF C!Uncomplete, LogCycles, C!Kinds
<1>2. C!TodayCycles \subseteq LogCycles
  BY <1>1 DEF C!TodayCycles, LogCycles, C!Kinds
<1>3. \A sort : C!NextCycle(sort) \in LogCycles
  BY DEF C!NextCycle, LogCycles, C!Kinds
<1>4. ASSUME undo # C!NoChip PROVE C!UndoCycles \subseteq LogCycles /\ undo.cell \in C!Cells
  <2>1. undo.kind \in C!Kinds /\ undo.cell \in C!Cells
    BY <1>4 DEF LogShape, LogChips
  <2> QED
    BY <1>1, <2>1 DEF C!UndoCycles, LogCycles
<1> QED
  BY <1>2, <1>3, <1>4

\* A new call of the screen that is shown.
LEMMA SendTyped ==
  ASSUME LogShape, NEW m \in LogCalls, NEW c \in C!Cells, NEW cycle \in LogCycles,
         NEW before \in C!Kinds, NEW offer \in BOOLEAN, C!Send(m, c, cycle, before, offer)
  PROVE  /\ call' \in [LogCalls -> LogRecords] /\ latest' \in LogCalls \cup {C!None}
         /\ call[m].phase = "idle" /\ call'[m].phase = "sent" /\ call'[m].from = screen
         /\ \A n \in LogCalls \ {m} : call'[n] = call[n]
<1> DEFINE new == [phase |-> "sent", from |-> screen, mounted |-> TRUE, cell |-> c, act |-> cycle.act,
                   kind |-> cycle.kind, before |-> before, offer |-> offer, answer |-> "ok",
                   old |-> IF screen = "today" THEN cache ELSE C!Idle.old]
<1>1. call' = [call EXCEPT ![m] = new] /\ latest' = m /\ call[m].phase = "idle"
  BY DEF C!Send
<1>2. (IF screen = "today" THEN cache ELSE C!Idle.old) \in [C!Keys -> C!Data]
  BY IdleCall DEF LogShape
<1>3. new \in LogRecords
  BY <1>2 DEF LogShape, LogRecords, LogCycles
<1>4. new.phase = "sent" /\ new.from = screen
  OBVIOUS
<1> HIDE DEF new
<1> QED
  BY <1>1, <1>3, <1>4 DEF LogShape

LEMMA MutateLog ==
  ASSUME LogInv, NEW m \in LogCalls, NEW c \in C!Cells, NEW cycle \in LogCycles,
         NEW offer \in BOOLEAN, C!Mutate(m, c, cycle, offer), undo' \in {undo, C!NoChip}
  PROVE  LogInv'
<1>1. LogShape
  BY DEF LogInv
<1>2. /\ minimum' = minimum /\ logged' = logged /\ screen' = screen /\ calendar' = calendar
      /\ screen = "today" /\ fetch' = [k \in C!Keys |-> C!NoFetch]
      /\ blind' = blind \cup C!Unread(C!Keys)
      /\ C!Send(m, c, cycle, cache["range"].days[c], offer)
  BY DEF C!Mutate, C!CancelQueries
<1>3. cache["range"].days[c] \in C!Kinds
  BY <1>1 DEF LogShape, C!Keys, C!Data, C!Days
<1>4. /\ call' \in [LogCalls -> LogRecords] /\ latest' \in LogCalls \cup {C!None}
      /\ call'[m].phase = "sent" /\ call'[m].from = screen
  BY <1>1, <1>2, <1>3, SendTyped
<1>5. cache' \in [C!Keys -> C!Data]
  <2> DEFINE new(k) == IF k = "range" THEN [cache[k] EXCEPT !.days[c] = cycle.kind]
                       ELSE IF c = "today" THEN [cache[k] EXCEPT !.today = cycle.kind] ELSE cache[k]
  <2>1. cache' = [k \in C!Keys |-> new(k)]
    BY DEF C!Mutate
  <2>2. ASSUME NEW k \in C!Keys PROVE new(k) \in C!Data
    <3>1. cache[k] \in C!Data /\ cycle.kind \in C!Kinds
      BY <1>1 DEF LogShape, LogCycles
    <3>2. [cache[k].days EXCEPT ![c] = cycle.kind] \in C!Days
      BY <3>1 DEF C!Data, C!Days
    <3>3. [cache[k] EXCEPT !.days[c] = cycle.kind] = [cache[k] EXCEPT !.days = [cache[k].days EXCEPT ![c] = cycle.kind]]
      BY <3>1 DEF C!Data
    <3>4. [cache[k] EXCEPT !.days[c] = cycle.kind] \in C!Data
      BY <3>1, <3>2, <3>3 DEF C!Data
    <3>5. [cache[k] EXCEPT !.today = cycle.kind] \in C!Data
      BY <3>1 DEF C!Data
    <3> QED
      BY <3>1, <3>4, <3>5
  <2> HIDE DEF new
  <2> QED
    BY <2>1, <2>2
<1>6. C!Unread(C!Keys) \subseteq C!Keys
  BY DEF C!Unread
<1>7. LogShape'
  BY <1>1, <1>2, <1>4, <1>5, <1>6, NothingLogged DEF LogShape, LogChips
<1>8. Owes(m)'
  BY <1>2, <1>4 DEF Owes
<1> QED
  BY <1>7, <1>8 DEF LogInv, LogTrue

LEMMA TapLog ==
  ASSUME LogInv, NEW m \in LogCalls,
         \/ C!ToggleCompletion(m) \/ C!UndoLast(m)
         \/ (\E c \in C!StripCells : C!ToggleDay(m, c)) \/ (\E c \in C!CalendarCells : C!TapDate(m, c))
  PROVE  LogInv'
<1>1. LogShape
  BY DEF LogInv
<1>2. CASE C!ToggleCompletion(m)
  <2>1. PICK cycle \in C!TodayCycles : C!Mutate(m, "today", cycle, FALSE)
    BY <1>2 DEF C!ToggleCompletion
  <2>2. cycle \in LogCycles /\ "today" \in C!Cells /\ undo' \in {undo, C!NoChip}
    BY <1>1, <1>2, CyclesTyped DEF C!Cells, C!ToggleCompletion
  <2> QED
    BY <2>1, <2>2, MutateLog
<1>3. CASE C!UndoLast(m)
  <2>1. PICK cycle \in C!UndoCycles : C!Mutate(m, undo.cell, cycle, FALSE)
    BY <1>3 DEF C!UndoLast
  <2>2. cycle \in LogCycles /\ undo.cell \in C!Cells /\ undo' \in {undo, C!NoChip}
    BY <1>1, <1>3, CyclesTyped DEF C!UndoLast
  <2> QED
    BY <2>1, <2>2, MutateLog
<1>4. ASSUME NEW c \in C!StripCells, C!ToggleDay(m, c) PROVE LogInv'
  <2>1. C!Mutate(m, c, C!NextCycle(cache["range"].days[c]), c = "past")
    BY <1>4 DEF C!ToggleDay
  <2>2. /\ C!NextCycle(cache["range"].days[c]) \in LogCycles /\ c \in C!Cells
        /\ undo' \in {undo, C!NoChip} /\ (c = "past") \in BOOLEAN
    BY <1>1, <1>4, CyclesTyped DEF C!ToggleDay, C!StripCells
  <2> QED
    BY <2>1, <2>2, MutateLog
<1>5. ASSUME NEW c \in C!CalendarCells, C!TapDate(m, c) PROVE LogInv'
  <2> DEFINE cycle == C!NextCycle(calendar[c])
  <2>1. /\ C!Send(m, c, cycle, calendar[c], FALSE) /\ calendar' = [calendar EXCEPT ![c] = cycle.kind]
        /\ minimum' = minimum /\ logged' = logged /\ screen' = screen /\ cache' = cache
        /\ fetch' = fetch /\ undo' = undo /\ blind' = blind /\ screen = "detail"
    BY <1>5 DEF C!TapDate
  <2>2. cycle \in LogCycles /\ c \in C!Cells
    BY <1>1, CyclesTyped DEF C!CalendarCells
  <2>3. calendar[c] \in C!Kinds
    BY <1>1, <2>2 DEF LogShape, C!Days
  <2> HIDE DEF cycle
  <2>4. /\ call' \in [LogCalls -> LogRecords] /\ latest' \in LogCalls \cup {C!None}
        /\ call[m].phase = "idle" /\ call'[m].phase = "sent" /\ call'[m].from = screen
        /\ \A n \in LogCalls \ {m} : call'[n] = call[n]
    BY <1>1, <2>1, <2>2, <2>3, SendTyped
  <2>5. calendar' \in C!Days
    BY <1>1, <2>1, <2>2 DEF LogShape, C!Days, LogCycles
  <2>6. LogShape'
    BY <1>1, <2>1, <2>4, <2>5 DEF LogShape
  <2>7. ASSUME NEW n \in LogCalls PROVE Owes(n)' <=> Owes(n)
    BY <2>1, <2>4 DEF Owes
  <2>8. \A q \in C!Keys : LogTrueAt(q)' <=> LogTrueAt(q)
    BY <2>1 DEF LogTrueAt, C!Truth
  <2> QED
    BY <2>6, <2>7, <2>8 DEF LogInv, LogTrue
<1> QED
  BY <1>2, <1>3, <1>4, <1>5

LEMMA MoveLog ==
  ASSUME LogInv, C!Switch \/ C!Elsewhere
  PROVE  LogInv'
<1>1. LogShape
  BY DEF LogInv
<1>2. CASE C!Switch
  <2>1. /\ minimum' = minimum /\ logged' = logged /\ cache' = cache /\ fetch' = fetch /\ blind' = blind
        /\ latest' = C!None /\ undo' = C!NoChip /\ screen' \in {"today", "detail"}
        /\ call' = [m \in LogCalls |-> [call[m] EXCEPT !.mounted = FALSE]]
        /\ calendar' \in {cache["stats"].days, C!NoFetch.data.days}
    BY <1>2 DEF C!Switch
  <2>2. \A m \in LogCalls : [call[m] EXCEPT !.mounted = FALSE] \in LogRecords
    BY <1>1 DEF LogShape, LogRecords
  <2>3. calendar' \in C!Days
    <3>1. cache["stats"].days \in C!Days
      BY <1>1 DEF LogShape, C!Keys, C!Data
    <3> QED
      BY <2>1, <3>1, NothingLogged
  <2>4. LogShape'
    BY <1>1, <2>1, <2>2, <2>3 DEF LogShape, LogChips
  <2>5. ASSUME NEW n \in LogCalls PROVE Owes(n)' <=> Owes(n)
    <3>1. call'[n] = [call[n] EXCEPT !.mounted = FALSE] /\ call[n] \in LogRecords
      BY <2>1, <1>1 DEF LogShape
    <3>2. call'[n].phase = call[n].phase /\ call'[n].from = call[n].from /\ call'[n].answer = call[n].answer
      BY <3>1 DEF LogRecords
    <3> QED
      BY <3>2 DEF Owes
  <2>6. \A q \in C!Keys : LogTrueAt(q)' <=> LogTrueAt(q)
    BY <2>1 DEF LogTrueAt, C!Truth
  <2> QED
    BY <2>4, <2>5, <2>6 DEF LogInv, LogTrue
<1>3. CASE C!Elsewhere
  <2>1. /\ minimum' = minimum /\ screen' = screen /\ cache' = cache /\ fetch' = fetch
        /\ latest' = latest /\ undo' = undo /\ calendar' = calendar /\ call' = call
        /\ blind' = C!Keys
    BY <1>3 DEF C!Elsewhere, C!client
  <2>2. PICK c \in C!Cells, sort \in IF minimum THEN C!Kinds ELSE {"none", "full"} :
          logged' = [logged EXCEPT ![c] = sort]
    BY <1>3 DEF C!Elsewhere
  <2>3. sort \in C!Kinds
    BY <2>2 DEF C!Kinds
  <2>4. logged' \in C!Days
    BY <1>1, <2>2, <2>3 DEF LogShape, C!Days
  <2>5. LogShape'
    BY <1>1, <2>1, <2>4 DEF LogShape
  <2>6. \A q \in C!Keys : LogTrueAt(q)'
    BY <2>1 DEF LogTrueAt
  <2> QED
    BY <2>5, <2>6 DEF LogInv, LogTrue
<1> QED
  BY <1>2, <1>3

-----------------------------------------------------------------------------
(* The answers, and the ends of the calls.                                 *)

LEMMA ReplyTyped ==
  ASSUME LogShape, NEW m \in LogCalls, NEW answer \in {"ok", "conflict", "not_found", "failed"},
         C!Reply(m, answer)
  PROVE  /\ call' \in [LogCalls -> LogRecords]
         /\ call'[m].phase = "answered" /\ call'[m].answer = answer /\ call'[m].from = call[m].from
         /\ \A n \in LogCalls \ {m} : call'[n] = call[n]
<1>1. call' = [call EXCEPT ![m] = [[call[m] EXCEPT !.phase = "answered"] EXCEPT !.answer = answer]]
  BY DEF C!Reply, LogShape
<1>2. call[m] \in LogRecords
  BY DEF LogShape
<1> DEFINE new == [[call[m] EXCEPT !.phase = "answered"] EXCEPT !.answer = answer]
<1>3. new \in LogRecords /\ new.phase = "answered" /\ new.answer = answer /\ new.from = call[m].from
  BY <1>2 DEF LogRecords
<1> HIDE DEF new
<1> QED
  BY <1>1, <1>3 DEF LogShape, new

LEMMA HandleLog ==
  ASSUME LogInv, NEW m \in LogCalls, C!Handle(m)
  PROVE  LogInv'
<1>1. LogShape
  BY DEF LogInv
<1>2. /\ minimum' = minimum /\ screen' = screen /\ cache' = cache /\ fetch' = fetch
      /\ latest' = latest /\ undo' = undo /\ calendar' = calendar /\ blind' = blind
      /\ C!Reply(m, C!Verdict(m)) /\ call[m].phase = "sent"
      /\ logged' = IF C!Verdict(m) = "ok" THEN [logged EXCEPT ![call[m].cell] = call[m].kind] ELSE logged
  BY DEF C!Handle, C!client
<1>3. C!Verdict(m) \in {"ok", "conflict", "not_found"}
  BY DEF C!Verdict
<1>4. /\ call' \in [LogCalls -> LogRecords]
      /\ call'[m].phase = "answered" /\ call'[m].answer = C!Verdict(m) /\ call'[m].from = call[m].from
      /\ \A n \in LogCalls \ {m} : call'[n] = call[n]
  BY <1>1, <1>2, <1>3, ReplyTyped
<1>5. logged' \in C!Days
  <2>1. call[m].cell \in C!Cells /\ call[m].kind \in C!Kinds
    BY <1>1 DEF LogShape, LogRecords
  <2> QED
    BY <1>1, <1>2, <2>1 DEF LogShape, C!Days
<1>6. LogShape'
  BY <1>1, <1>2, <1>4, <1>5 DEF LogShape
<1>7. ASSUME NEW n \in LogCalls, Owes(n) PROVE Owes(n)'
  BY <1>2, <1>4, <1>7 DEF Owes
<1>8. CASE C!Verdict(m) = "ok"
  <2>1. Owes(m)'
    BY <1>4, <1>8 DEF Owes
  <2> QED
    BY <1>6, <2>1 DEF LogInv, LogTrue
<1>9. CASE C!Verdict(m) # "ok"
  <2>1. \A q \in C!Keys : LogTrueAt(q)' <=> LogTrueAt(q)
    BY <1>2, <1>9 DEF LogTrueAt, C!Truth
  <2> QED
    BY <1>6, <1>7, <2>1 DEF LogInv, LogTrue
<1> QED
  BY <1>8, <1>9

LEMMA LoseLog ==
  ASSUME LogInv, NEW m \in LogCalls, C!Lose(m)
  PROVE  LogInv'
<1>1. LogShape
  BY DEF LogInv
<1> DEFINE gone == call[m].phase = "answered" /\ call[m].answer = "ok" /\ call[m].from = "detail"
<1>2. /\ minimum' = minimum /\ screen' = screen /\ cache' = cache /\ fetch' = fetch
      /\ latest' = latest /\ undo' = undo /\ calendar' = calendar /\ logged' = logged
      /\ C!Reply(m, "failed") /\ call[m].phase # "idle"
      /\ blind' = blind \cup (IF gone THEN C!Keys ELSE {})
  BY DEF C!Lose, C!client
<1>3. /\ call' \in [LogCalls -> LogRecords]
      /\ call'[m].phase = "answered" /\ call'[m].answer = "failed" /\ call'[m].from = call[m].from
      /\ \A n \in LogCalls \ {m} : call'[n] = call[n]
  BY <1>1, <1>2, ReplyTyped
<1>4. LogShape'
  BY <1>1, <1>2, <1>3 DEF LogShape
<1>5. CASE gone
  <2>1. \A q \in C!Keys : LogTrueAt(q)'
    BY <1>2, <1>5 DEF LogTrueAt
  <2> QED
    BY <1>4, <2>1 DEF LogInv, LogTrue
<1>6. CASE ~gone
  <2>1. blind' = blind
    BY <1>2, <1>6
  <2>2. call[m].from \in {"today", "detail"}
    BY <1>1 DEF LogShape, LogRecords
  <2>3. ASSUME NEW n \in LogCalls, Owes(n) PROVE Owes(n)'
    BY <1>2, <1>3, <1>6, <2>2, <2>3 DEF Owes
  <2>4. \A q \in C!Keys : LogTrueAt(q)' <=> LogTrueAt(q)
    BY <1>2, <2>1 DEF LogTrueAt, C!Truth
  <2> QED
    BY <1>4, <2>3, <2>4 DEF LogInv, LogTrue
<1> QED
  BY <1>5, <1>6

\* What is left of a mutation of Today: its call ends, and the cache is settled.
LEMMA RolledBackTyped ==
  ASSUME LogShape, NEW m \in LogCalls
  PROVE  C!RolledBack(call[m]) \in [C!Keys -> C!Data]
<1>1. /\ call[m].old \in [C!Keys -> C!Data] /\ call[m].cell \in C!Cells
      /\ cache \in [C!Keys -> C!Data]
  BY DEF LogShape, LogRecords
<1>2. ASSUME NEW sort \in C!Kinds
      PROVE  [cache EXCEPT !["range"] = [call[m].old["range"] EXCEPT !.days[call[m].cell] = sort]] \in [C!Keys -> C!Data]
  <2> DEFINE r == call[m].old["range"]
  <2>1. r \in C!Data
    BY <1>1 DEF C!Keys
  <2> HIDE DEF r
  <2>2. [r EXCEPT !.days[call[m].cell] = sort] = [r EXCEPT !.days = [r.days EXCEPT ![call[m].cell] = sort]]
    BY <2>1 DEF C!Data
  <2>3. [r.days EXCEPT ![call[m].cell] = sort] \in C!Days
    BY <2>1, <1>1 DEF C!Data, C!Days
  <2>4. [r EXCEPT !.days[call[m].cell] = sort] \in C!Data
    BY <2>1, <2>2, <2>3 DEF C!Data
  <2> QED
    BY <2>4, <1>1 DEF r
<1>3. "full" \in C!Kinds /\ C!None \in C!Kinds
  BY DEF C!Kinds, C!None
<1> QED
  BY <1>1, <1>2, <1>3 DEF C!RolledBack

LEMMA EndTodayLog ==
  ASSUME LogInv, NEW m \in LogCalls, C!EndToday(m)
  PROVE  LogInv'
<1>1. LogShape
  BY DEF LogInv
<1> DEFINE c == call[m]
<1>2. /\ minimum' = minimum /\ screen' = screen /\ logged' = logged
      /\ c.phase = "answered" /\ c.from = "today" /\ cache' = C!RolledBack(c)
      /\ C!SetStats(cache'["stats"]) /\ call' = [call EXCEPT ![m] = C!Idle]
      /\ latest' \in {latest, C!None}
      /\ undo' \in {undo, [cell |-> c.cell, kind |-> c.before]}
      /\ blind' = blind \cup (IF c.answer \in {"ok", "failed"} THEN C!Unread(C!Keys) ELSE C!Keys)
      /\ IF C!Settles(c) THEN C!Invalidate(C!Keys) ELSE fetch' = fetch
  BY DEF C!EndToday, C!Observed
<1>3. cache' \in [C!Keys -> C!Data]
  BY <1>1, <1>2, RolledBackTyped
<1>4. calendar' \in C!Days
  <2>1. cache'["stats"] \in C!Data
    BY <1>3 DEF C!Keys
  <2> QED
    BY <1>1, <1>2, <2>1, CalendarTyped
<1>5. undo' \in LogChips
  BY <1>1, <1>2 DEF LogShape, LogChips, LogRecords
<1>6. blind' \subseteq C!Keys
  <2>1. C!Unread(C!Keys) \subseteq C!Keys
    BY DEF C!Unread
  <2> QED
    BY <1>1, <1>2, <2>1 DEF LogShape
<1>7. call' \in [LogCalls -> LogRecords] /\ latest' \in LogCalls \cup {C!None}
  BY <1>1, <1>2, IdleCall DEF LogShape
<1>8. CASE c.answer \in {"ok", "failed"}
  <2>1. C!Invalidate(C!Keys)
    BY <1>2, <1>8 DEF C!Settles
  <2>2. fetch' \in [C!Keys -> LogFetches] /\ \A k \in C!Keys : fetch'[k].phase = "sent"
    BY <1>1, <2>1, InvalidateIs
  <2>3. LogShape'
    BY <1>1, <1>2, <1>3, <1>4, <1>5, <1>6, <1>7, <2>2 DEF LogShape
  <2>4. \A q \in C!Keys : LogTrueAt(q)'
    BY <2>2 DEF LogTrueAt
  <2> QED
    BY <2>3, <2>4 DEF LogInv, LogTrue
<1>9. CASE c.answer \notin {"ok", "failed"}
  <2>1. fetch' = fetch /\ C!Keys \subseteq blind'
    BY <1>2, <1>9 DEF C!Settles
  <2>2. LogShape'
    BY <1>1, <1>2, <1>3, <1>4, <1>5, <1>6, <1>7, <2>1 DEF LogShape
  <2>3. \A q \in C!Keys : LogTrueAt(q)'
    BY <2>1 DEF LogTrueAt
  <2> QED
    BY <2>2, <2>3 DEF LogInv, LogTrue
<1> QED
  BY <1>8, <1>9

LEMMA EndDetailLog ==
  ASSUME LogInv, NEW m \in LogCalls, C!EndDetail(m)
  PROVE  LogInv'
<1>1. LogShape
  BY DEF LogInv
<1> DEFINE c == call[m]
<1>2. /\ minimum' = minimum /\ screen' = screen /\ logged' = logged /\ cache' = cache /\ undo' = undo
      /\ c.phase = "answered" /\ c.from = "detail" /\ call' = [call EXCEPT ![m] = C!Idle]
      /\ latest' \in {latest, C!None}
      /\ IF c.answer = "ok"
         THEN C!Invalidate(C!Related) /\ blind' = blind \cup C!Unread(C!Related) /\ calendar' = calendar
         ELSE /\ calendar' = IF c.mounted THEN [calendar EXCEPT ![c.cell] = c.before] ELSE calendar
              /\ fetch' = fetch /\ blind' = blind
  BY DEF C!EndDetail, C!Observed
<1>3. call' \in [LogCalls -> LogRecords] /\ latest' \in LogCalls \cup {C!None}
  BY <1>1, <1>2, IdleCall DEF LogShape
<1>4. calendar' \in C!Days
  <2>1. c.cell \in C!Cells /\ c.before \in C!Kinds
    BY <1>1 DEF LogShape, LogRecords
  <2> QED
    BY <1>1, <1>2, <2>1 DEF LogShape, C!Days
<1>5. CASE c.answer = "ok"
  <2>1. C!Invalidate(C!Keys) /\ blind' = blind \cup C!Unread(C!Keys)
    BY <1>2, <1>5 DEF C!Related
  <2>2. fetch' \in [C!Keys -> LogFetches] /\ \A k \in C!Keys : fetch'[k].phase = "sent"
    BY <1>1, <2>1, InvalidateIs
  <2>3. blind' \subseteq C!Keys
    BY <1>1, <2>1 DEF LogShape, C!Unread
  <2>4. LogShape'
    BY <1>1, <1>2, <1>3, <1>4, <2>2, <2>3 DEF LogShape
  <2>5. \A q \in C!Keys : LogTrueAt(q)'
    BY <2>2 DEF LogTrueAt
  <2> QED
    BY <2>4, <2>5 DEF LogInv, LogTrue
<1>6. CASE c.answer # "ok"
  <2>1. fetch' = fetch /\ blind' = blind
    BY <1>2, <1>6
  <2>2. LogShape'
    BY <1>1, <1>2, <1>3, <1>4, <2>1 DEF LogShape
  <2>3. ~Owes(m)
    BY <1>2, <1>6 DEF Owes
  <2>4. ASSUME NEW n \in LogCalls, Owes(n) PROVE Owes(n)'
    BY <1>1, <1>2, <2>3, <2>4 DEF Owes, LogShape
  <2>5. \A q \in C!Keys : LogTrueAt(q)' <=> LogTrueAt(q)
    BY <1>2, <2>1 DEF LogTrueAt, C!Truth
  <2> QED
    BY <2>2, <2>4, <2>5 DEF LogInv, LogTrue
<1> QED
  BY <1>5, <1>6

LEMMA NextLog == LogInv /\ [C!Next]_(C!vars) => LogInv'
<1> SUFFICES ASSUME LogInv, [C!Next]_(C!vars) PROVE LogInv'
  OBVIOUS
<1>1. CASE UNCHANGED C!vars
  <2>1. /\ minimum' = minimum /\ logged' = logged /\ screen' = screen /\ cache' = cache /\ fetch' = fetch
        /\ call' = call /\ latest' = latest /\ undo' = undo /\ calendar' = calendar /\ blind' = blind
    BY <1>1 DEF C!vars, C!client
  <2>2. LogShape'
    BY <2>1 DEF LogInv, LogShape
  <2>3. LogTrue'
    BY <2>1 DEF LogInv, LogTrue, LogTrueAt, Owes, C!Truth
  <2> QED
    BY <2>2, <2>3 DEF LogInv
<1>2. CASE C!Next
  BY <1>2, FetchLog, RefreshLog, MoveLog, TapLog, HandleLog, LoseLog, EndTodayLog, EndDetailLog DEF C!Next
<1> QED
  BY <1>1, <1>2

LEMMA LogIsTracked == C!Spec => []LogInv
BY InitLog, NextLog, PTL DEF C!Spec

\* Once no call is under way, the range and the stats hold the days that the server logged,
\* unless a fetch of them failed or another device changed them: the invalidations at the
\* ends of useTodayHabits' and useHabitDetail's mutations.
THEOREM LogIsTrue == C!Spec => []C!Truthful
<1>1. LogInv => C!Truthful
  BY DEF LogInv, LogTrue, LogTrueAt, Owes, C!Truthful, C!Pending
<1> QED
  BY <1>1, LogIsTracked, PTL

\* The two queries, the calls and the calendar of Today and of the habit's screen stay typed.
THEOREM LogTypes == C!Spec => []C!TypeOK
<1>1. LogInv => C!TypeOK
  BY DEF LogInv, LogShape, C!TypeOK, LogFetches, LogRecords
<1> QED
  BY <1>1, LogIsTracked, PTL
=============================================================================
