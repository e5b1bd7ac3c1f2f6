------------------------------- MODULE Meditation -------------------------------
(***************************************************************************)
(* The meditation screen (screens/MeditationScreen.tsx): a session whose   *)
(* only clock is the absolute time it ends at (utils/meditationTimer.ts),  *)
(* so that a hidden page or a throttled interval loses nothing, and, once  *)
(* it is completed, the sheet that logs it to a habit                      *)
(* (components/MeditationLogSheet.tsx) through useTodayHabits, of which    *)
(* this module keeps one call and the completions of today.                *)
(***************************************************************************)
EXTENDS Integers

CONSTANTS
  Minutes,    \* durations that can be chosen
  MaxClock,   \* bound on the clock
  Habits,     \* the habits due today
  Hinted,     \* those whose name suggests meditation
  MaxEvents   \* bound on failures and on changes from another device

VARIABLES
  now,          \* Date.now()
  session,      \* MeditationSessionState
  durationMin,  \* the duration the setup shows
  confirm,      \* showEndConfirm
  ran,          \* how long the session has been running, pauses left out
  saved,        \* localStorage: the last duration and the habit logged last
  sheet,        \* [skipped, last, selected, logging, logged]
  done, shown,  \* today's completions: the server's, and the cache's
  call,         \* the log under way
  events,
  taken, failed \* habits that another device took back, or whose log failed

timer  == <<session, durationMin, confirm, ran>>
server == <<done, taken, failed>>
log    == <<sheet, shown, call>>
vars   == <<now, timer, saved, log, server, events>>

None == "none"

-----------------------------------------------------------------------------
(* meditationTimer.ts.                                                     *)

SetupState(minutes) ==
  [phase |-> "setup", duration |-> minutes, endsAt |-> 0, remaining |-> minutes, completed |-> 0]

StartSession(s) ==
  [s EXCEPT !.phase = "running", !.endsAt = now + s.remaining, !.completed = 0]

CompleteSession(s) ==
  LET left    == IF s.endsAt > now THEN s.endsAt - now ELSE 0
      elapsed == IF s.phase = "running" THEN s.duration - left ELSE s.duration - s.remaining
  IN [s EXCEPT !.phase = "completed", !.endsAt = 0, !.remaining = 0, !.completed = elapsed]

\* Paused at its very end, a session is completed.
PauseSession(s) ==
  IF s.endsAt <= now THEN CompleteSession(s)
  ELSE [s EXCEPT !.phase = "paused", !.endsAt = 0, !.remaining = s.endsAt - now]

\* Faulty variant: a resumed session starts over.
ResumeSession_Restarts(s) ==
  IF s.phase # "paused" THEN s ELSE [s EXCEPT !.phase = "running", !.endsAt = now + s.duration]

ResumeSession(s) ==
  IF s.phase # "paused" THEN s ELSE [s EXCEPT !.phase = "running", !.endsAt = now + s.remaining]

SyncSession(s) ==
  IF s.phase = "running" /\ now >= s.endsAt THEN CompleteSession(s) ELSE s

-----------------------------------------------------------------------------
(* The screen.                                                             *)

NoSheet == [skipped |-> FALSE, last |-> None, selected |-> None, logging |-> FALSE, logged |-> None]

\* suggestHabitId: the one logged last if it is there, else one by its name, else none.
Suggested(last) ==
  IF last \in Habits THEN {last} ELSE IF Hinted # {} THEN Hinted ELSE {None}

\* What follows a new phase: the sheet mounts with its suggestion.
Show(s) ==
  /\ session' = s
  /\ IF s.phase = "completed" /\ session.phase # "completed"
     THEN \E h \in Suggested(saved.habit) :
            sheet' = [NoSheet EXCEPT !.last = saved.habit, !.selected = h]
     ELSE sheet' = sheet

\* What the screen shows: the setup, the ring of a session under way, the question that
\* covers everything, the completion.
InSetup   == session.phase = "setup"
Active    == session.phase \in {"running", "paused"}
Asked     == confirm
Completed == session.phase = "completed"

Advance ==
  /\ \E t \in (now + 1) .. MaxClock : now' = t /\ ran' = IF session.phase = "running"
                                                       THEN ran + (t - now) ELSE ran
  /\ UNCHANGED <<session, durationMin, confirm, saved, log, server, events>>

\* The interval, which a hidden page may stop, or the page that becomes visible.
Tick ==
  /\ session.phase = "running"
  /\ Show(SyncSession(session))
  /\ UNCHANGED <<now, durationMin, confirm, ran, saved, shown, call, server, events>>

SelectDuration(minutes) ==
  /\ InSetup
  /\ durationMin' = minutes /\ session' = SetupState(minutes)
  /\ UNCHANGED <<now, confirm, ran, saved, log, server, events>>

Begin ==
  /\ InSetup
  /\ saved' = [saved EXCEPT !.duration = durationMin]
  /\ session' = StartSession([session EXCEPT !.duration = durationMin, !.remaining = durationMin])
  /\ UNCHANGED <<now, durationMin, confirm, ran, log, server, events>>

\* The ring pauses and resumes; a button resumes too.
RingPress ==
  /\ Active /\ ~Asked
  /\ Show(IF session.phase = "running" THEN PauseSession(session) ELSE ResumeSession(session))
  /\ UNCHANGED <<now, durationMin, confirm, ran, saved, shown, call, server, events>>

\* The cross: a session under way is ended only after a question.
RequestClose ==
  /\ Active /\ ~Asked
  /\ confirm' = TRUE
  /\ UNCHANGED <<now, session, durationMin, ran, saved, log, server, events>>

\* The question stays up if the session ends meanwhile.
KeepGoing ==
  /\ Asked /\ confirm' = FALSE
  /\ UNCHANGED <<now, session, durationMin, ran, saved, log, server, events>>

\* Unmounted, by the cross, "Done", the answer to the question, or the browser's Back,
\* and opened again; the answer of a log under way finds no screen.
Reopen ==
  /\ durationMin' = saved.duration /\ session' = SetupState(saved.duration)
  /\ confirm' = FALSE /\ ran' = 0 /\ sheet' = NoSheet
  /\ UNCHANGED <<now, saved, shown, call, server, events>>

-----------------------------------------------------------------------------
(* The sheet.                                                              *)

SheetShown == Completed /\ ~sheet.skipped /\ Habits # {}

\* A row that is done, or was logged from this sheet, has its mark and cannot be picked.
Marked(h) == h \in shown \/ sheet.logged = h

\* The due habits as the cache has them; a change suggests again, whatever had been picked.
SetShown(new, after) ==
  /\ shown' = new
  /\ IF new # shown /\ session.phase = "completed"
     THEN \E h \in Suggested(after.last) : sheet' = [after EXCEPT !.selected = h]
     ELSE sheet' = after

Pick(h) ==
  /\ SheetShown /\ ~Marked(h)
  /\ sheet' = [sheet EXCEPT !.selected = h]
  /\ UNCHANGED <<now, timer, saved, shown, call, server, events>>

Skip ==
  /\ SheetShown
  /\ sheet' = [sheet EXCEPT !.skipped = TRUE]
  /\ UNCHANGED <<now, timer, saved, shown, call, server, events>>

\* toggleCompletion(selectedId, "full"), patched at once.
Log ==
  /\ SheetShown /\ ~sheet.logging /\ call.phase = "idle"
  /\ sheet.selected # None /\ sheet.selected \notin shown
  /\ call' = [phase |-> "sent", habit |-> sheet.selected, answer |-> "ok"]
  /\ SetShown(shown \cup {sheet.selected}, [sheet EXCEPT !.logging = TRUE])
  /\ UNCHANGED <<now, timer, saved, server, events>>

\* A habit completed before answers a conflict, which counts as completed.
Handle ==
  /\ call.phase = "sent"
  /\ call' = [call EXCEPT !.phase = "answered"]
  /\ done' = done \cup {call.habit}
  /\ UNCHANGED <<now, timer, saved, sheet, shown, taken, failed, events>>

Lose ==
  /\ call.phase \in {"sent", "answered"} /\ call.answer = "ok" /\ events < MaxEvents
  /\ call' = [call EXCEPT !.phase = "answered", !.answer = "failed"]
  /\ failed' = failed \cup {call.habit} /\ events' = events + 1
  /\ UNCHANGED <<now, timer, saved, sheet, shown, done, taken>>

\* Faulty variant: the habit that is selected when the answer arrives.
Picked_Latest == sheet.selected

\* handleLog keeps the habit it was called with.
Picked == call.habit

\* handleLog goes on after toggleCompletion, which swallows its errors: remembered and marked.
Logged ==
  /\ call.phase = "answered"
  /\ saved' = [saved EXCEPT !.habit = Picked]
  /\ SetShown(IF call.answer = "ok" THEN shown ELSE shown \ {call.habit},
              IF sheet.logging THEN [sheet EXCEPT !.logging = FALSE, !.logged = Picked]
              ELSE sheet)
  /\ call' = [call EXCEPT !.phase = "idle"]
  /\ UNCHANGED <<now, timer, server, events>>

\* The fetch that ends a call, or that the focus starts.
Refetch ==
  /\ call.phase = "idle" /\ shown # done
  /\ SetShown(done, sheet)
  /\ UNCHANGED <<now, timer, saved, call, server, events>>

\* Another device logs or takes back.
Elsewhere(h) ==
  /\ events < MaxEvents
  /\ done' = IF h \in done THEN done \ {h} ELSE done \cup {h}
  /\ taken' = IF h \in done THEN taken \cup {h} ELSE taken
  /\ events' = events + 1
  /\ UNCHANGED <<now, timer, saved, log, failed>>

-----------------------------------------------------------------------------

Init ==
  /\ now = 0 /\ ran = 0 /\ confirm = FALSE /\ events = 0
  /\ saved \in [duration: Minutes, habit: Habits \cup {None}]
  /\ durationMin = saved.duration /\ session = SetupState(saved.duration)
  /\ done \in SUBSET Habits /\ shown = done /\ taken = {} /\ failed = {}
  /\ sheet = NoSheet
  /\ call = [phase |-> "idle", habit |-> None, answer |-> "ok"]

Next ==
  \/ Advance \/ Tick \/ (\E m \in Minutes : SelectDuration(m)) \/ Begin \/ RingPress
  \/ RequestClose \/ KeepGoing \/ Reopen
  \/ Skip \/ Log \/ Handle \/ Lose \/ Logged \/ Refetch
  \/ \E h \in Habits : Pick(h) \/ Elsewhere(h)

Spec == Init /\ [][Next]_vars

-----------------------------------------------------------------------------
(* Properties.                                                             *)

Phases == {"setup", "running", "paused", "completed"}

SessionOK ==
  /\ now \in Nat /\ ran \in Nat
  /\ durationMin \in Minutes /\ saved.duration \in Minutes
  /\ session \in [phase: Phases, duration: Minutes, endsAt: Nat, remaining: Nat, completed: Nat]

TypeOK ==
  /\ SessionOK
  /\ {done, shown, taken, failed} \subseteq SUBSET Habits
  /\ {sheet.last, sheet.selected, sheet.logged, saved.habit} \subseteq Habits \cup {None}
  /\ call.phase \in {"idle", "sent", "answered"}

\* A session lasts exactly as long as was chosen, pauses left out, however often it is paused,
\* however long a page is hidden, and whenever the interval fires: what is left and what has
\* run add up, and "completed" claims the whole duration only when all of it has run.
TimeKept ==
  CASE session.phase = "setup"   -> ran = 0 /\ session.remaining = session.duration
    [] session.phase = "running" -> (session.endsAt - now) + ran = session.duration
    [] session.phase = "paused"  -> session.remaining + ran = session.duration
    [] OTHER -> session.completed = session.duration /\ ran >= session.duration

\* The row that the sheet marks is the one that was logged, whatever was selected, suggested
\* or fetched meanwhile; only a failed call, or another device, leaves it unlogged.
MarkedWasLogged == sheet.logged # None => sheet.logged \in done \cup taken \cup failed
=============================================================================
