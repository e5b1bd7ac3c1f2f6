------------------------------- MODULE HabitForm -------------------------------
(***************************************************************************)
(* The form that creates or edits a habit (screens/CreateHabitScreen.tsx). *)
(* It saves twice: the habit itself (hooks/useHabits.ts), then who may see *)
(* it (hooks/useVisibility.ts).  A failure between the two is kept, so     *)
(* that the next press saves the visibility alone.  One opening of the     *)
(* form; the edited habit's visibility is a property that                  *)
(* navigation/RootNavigator.tsx takes live from the query cache.           *)
(***************************************************************************)
EXTENDS Naturals, Sequences, Lists

CONSTANTS
  Texts,      \* what the fields may hold: name, minimum, icon and colour together
  MaxPresses, \* bound on the presses of the button
  MaxEdits,   \* bound on changes of the fields
  MaxEvents   \* bound on failures

VARIABLES
  editing,   \* isEditing
  default,   \* the account's default visibility
  habits,    \* the server: the habits of this form, [text, weekly, vis]
  prefs,     \* useDefaultVisibility: "loading", or the visibility it gives
  cache,     \* the cached visibility of the edited habit, or "unread"
  fetch,     \* its fetch: "idle", "sent", or the visibility answered
  given,     \* editVisibility
  open, picker, form, touched, pending, error,
  subs,      \* submissions under way
  done,      \* the submission that closed the form, or NoDone
  presses, edits, events,
  lost,      \* creations whose answer was lost
  hasty      \* presses while a visibility was being saved

screen == <<picker, form, touched>>
query  == <<cache, fetch>>
counts == <<presses, edits, events, lost, hasty>>
vars == <<editing, default, habits, prefs, query, given, open, screen, pending, error, subs, done,
          counts>>

None == "none"
Visibilities == {"private", "friends"}
NoDone == [id |-> 0, text |-> None, weekly |-> FALSE, vis |-> "private", again |-> FALSE]

\* getVisibility: an unread list counts as private.
Given == IF cache = "unread" THEN "private" ELSE cache

\* The fields of the habit as it was when the form was opened.
Blank == [text |-> None, weekly |-> FALSE, days |-> FALSE, vis |-> "private"]
Fresh(vis) ==
  IF editing THEN [Blank EXCEPT !.text = CHOOSE t \in Texts : TRUE, !.vis = vis] ELSE Blank

-----------------------------------------------------------------------------
(* The form.                                                               *)

\* The default arrives, or its fetch fails: applied unless the user has chosen.
LoadDefault ==
  /\ prefs = "loading"
  /\ \/ prefs' = default /\ events' = events
     \/ prefs' = "private" /\ events < MaxEvents /\ events' = events + 1
  /\ form' = IF open /\ ~editing /\ ~touched THEN [form EXCEPT !.vis = prefs'] ELSE form
  /\ UNCHANGED <<editing, default, habits, query, given, open, picker, touched, pending, error,
                 subs, done, presses, edits, lost, hasty>>

\* resetForm, whenever another visibility is given: everything starts anew.
Reset ==
  /\ open /\ editing /\ given # Given
  /\ given' = Given
  /\ form' = Fresh(Given) /\ touched' = FALSE /\ pending' = 0 /\ error' = None
  /\ UNCHANGED <<editing, default, habits, prefs, query, open, picker, subs, done, counts>>

\* The fields can be changed at any time, while the form is saved too.
Edit ==
  /\ open /\ ~picker /\ edits < MaxEdits /\ edits' = edits + 1
  /\ UNCHANGED <<editing, default, habits, prefs, query, given, open, picker, pending, subs, done,
                 presses, events, lost, hasty>>

\* A new name takes the server's error away.
Write(t) ==
  /\ Edit
  /\ form' = [form EXCEPT !.text = t] /\ error' = None /\ touched' = touched

SetFrequency(weekly) ==
  /\ Edit
  /\ form' = [form EXCEPT !.weekly = weekly] /\ UNCHANGED <<touched, error>>

ToggleDays ==
  /\ Edit /\ form.weekly
  /\ form' = [form EXCEPT !.days = ~@] /\ UNCHANGED <<touched, error>>

\* Not while the default is loading.
PickVisibility(v) ==
  /\ Edit /\ prefs # "loading"
  /\ form' = [form EXCEPT !.vis = v] /\ touched' = TRUE /\ error' = error

\* A new habit starts from a template, or from an empty form.
SelectTemplate(t) ==
  /\ open /\ picker
  /\ picker' = FALSE
  /\ form' = [form EXCEPT !.text = t, !.weekly = FALSE, !.days = FALSE]
  /\ UNCHANGED <<editing, default, habits, prefs, query, given, open, touched, pending, error, subs,
                 done, counts>>

SkipTemplates ==
  /\ open /\ picker
  /\ picker' = FALSE
  /\ UNCHANGED <<editing, default, habits, prefs, query, given, open, form, touched, pending, error,
                 subs, done, counts>>

\* The cross; what is under way goes on.
Close ==
  /\ open
  /\ open' = FALSE
  /\ UNCHANGED <<editing, default, habits, prefs, query, given, screen, pending, error, subs, done,
                 counts>>

-----------------------------------------------------------------------------
(* handleSubmit.                                                           *)

\* validateHabitName and validateCustomDays.
Valid == form.text # None /\ (form.weekly => form.days)

\* The button is locked while the habit itself is being saved, and no longer.
Saving == \E i \in DOMAIN subs : subs[i].phase \in {"saving", "saved"}
Showing == \E i \in DOMAIN subs : subs[i].phase \in {"showing", "shown"}

Sub(phase, id) ==
  [phase |-> phase, id |-> id, text |-> form.text, weekly |-> form.weekly, vis |-> form.vis,
   again |-> id # 0 /\ ~(editing /\ phase = "saving"), answer |-> "ok", old |-> "unread"]

\* updateVisibility.onMutate: the cached row is patched, and kept for a rollback.
Patch(sub) ==
  /\ cache' = IF cache = "unread" THEN cache ELSE sub.vis
  /\ fetch' = "idle"

\* Faulty variant: a habit that was saved before is created again.
Resumed_Never == 0

\* pendingVisibilityHabit: what was saved and only lacks its visibility.
Resumed == pending

HandleSubmit ==
  /\ open /\ ~picker /\ ~Saving /\ presses < MaxPresses
  /\ presses' = presses + 1
  /\ hasty' = hasty + IF Showing THEN 1 ELSE 0
  /\ IF Resumed # 0
     THEN /\ subs' = Append(subs, [Sub("showing", Resumed) EXCEPT !.old = cache])
          /\ Patch(Sub("showing", Resumed)) /\ error' = None
     ELSE /\ UNCHANGED query
          /\ IF Valid
             THEN /\ subs' = Append(subs, Sub("saving", IF editing THEN 1 ELSE 0)) /\ error' = None
             ELSE subs' = subs /\ error' = "invalid"
  /\ UNCHANGED <<editing, default, habits, prefs, given, open, screen, pending, done, edits, events,
                 lost>>

\* CreateHabit or UpdateHabit; a new habit takes the account's default visibility.
HandleSave(i) ==
  LET sub == subs[i]
  IN /\ sub.phase = "saving"
     /\ IF sub.id = 0
        THEN /\ habits' = Append(habits, [text |-> sub.text, weekly |-> sub.weekly, vis |-> default])
             /\ subs' = [subs EXCEPT ![i].phase = "saved", ![i].id = Len(habits) + 1]
        ELSE /\ habits' = [habits EXCEPT ![sub.id].text = sub.text, ![sub.id].weekly = sub.weekly]
             /\ subs' = [subs EXCEPT ![i].phase = "saved"]
     /\ UNCHANGED <<editing, default, prefs, query, given, open, screen, pending, error, done, counts>>

\* SetHabitVisibility.
HandleShow(i) ==
  LET sub == subs[i]
  IN /\ sub.phase = "showing"
     /\ habits' = [habits EXCEPT ![sub.id].vis = sub.vis]
     /\ subs' = [subs EXCEPT ![i].phase = "shown"]
     /\ UNCHANGED <<editing, default, prefs, query, given, open, screen, pending, error, done, counts>>

\* The connection breaks, before or after the server carried a request out.
Lose(i) ==
  /\ subs[i].answer = "ok" /\ events < MaxEvents
  /\ events' = events + 1
  /\ lost' = lost + IF subs[i].phase = "saved" THEN 1 ELSE 0
  /\ subs' = [subs EXCEPT ![i].answer = "failed",
                ![i].phase = IF @ \in {"saving", "saved"} THEN "saved" ELSE "shown"]
  /\ UNCHANGED <<editing, default, habits, prefs, query, given, open, screen, pending, error, done,
                 presses, edits, hasty>>

\* The habit is saved and its visibility follows, or the form says why it is not.
EndSave(i) ==
  LET sub == subs[i]
  IN /\ sub.phase = "saved"
     /\ IF sub.answer = "ok"
        THEN /\ subs' = [subs EXCEPT ![i].phase = "showing", ![i].old = cache]
             /\ Patch(sub) /\ error' = error
        ELSE /\ subs' = RemoveAt(subs, i) /\ error' = "failed"
             /\ UNCHANGED query
     /\ UNCHANGED <<editing, default, habits, prefs, given, open, screen, pending, done, counts>>

\* Faulty variant: the form closes whether the visibility was saved or not.
Closes_Always(sub) == TRUE

Closes(sub) == sub.answer = "ok"

\* Both are saved and the form closes, or the habit is kept for another try.
EndShow(i) ==
  LET sub == subs[i]
  IN /\ sub.phase = "shown"
     /\ subs' = RemoveAt(subs, i)
     /\ cache' = IF sub.answer = "ok" \/ sub.old = "unread" THEN cache ELSE sub.old
     /\ fetch' = IF editing THEN "sent" ELSE fetch
     /\ IF ~open THEN UNCHANGED <<open, pending, error, done>>
        ELSE IF Closes(sub)
        THEN /\ open' = FALSE /\ pending' = 0 /\ error' = error
             /\ done' = [id |-> sub.id, text |-> sub.text, weekly |-> sub.weekly, vis |-> sub.vis,
                         again |-> sub.again]
        ELSE /\ pending' = sub.id /\ error' = IF editing THEN "notUpdated" ELSE "defaulted"
             /\ UNCHANGED <<open, done>>
     /\ UNCHANGED <<editing, default, habits, prefs, given, screen, counts>>

-----------------------------------------------------------------------------
(* The cached visibilities, which only an edited habit looks at.           *)

HandleFetch ==
  /\ fetch = "sent"
  /\ fetch' = habits[1].vis
  /\ UNCHANGED <<editing, default, habits, prefs, cache, given, open, screen, pending, error, subs,
                 done, counts>>

Deliver ==
  /\ fetch \in Visibilities
  /\ cache' = fetch /\ fetch' = "idle"
  /\ UNCHANGED <<editing, default, habits, prefs, given, open, screen, pending, error, subs, done,
                 counts>>

FailFetch ==
  /\ fetch # "idle" /\ events < MaxEvents
  /\ fetch' = "idle" /\ events' = events + 1
  /\ UNCHANGED <<editing, default, habits, prefs, cache, given, open, screen, pending, error, subs,
                 done, presses, edits, lost, hasty>>

Init ==
  /\ editing \in BOOLEAN /\ default \in Visibilities
  /\ \E vis \in Visibilities :
       /\ habits = IF editing THEN <<[text |-> CHOOSE t \in Texts : TRUE, weekly |-> FALSE,
                                      vis |-> vis]>> ELSE <<>>
       /\ cache \in IF editing THEN {"unread", vis} ELSE {"unread"}
  /\ fetch = IF editing /\ cache = "unread" THEN "sent" ELSE "idle"
  /\ prefs = "loading" /\ given = Given
  /\ open = TRUE /\ picker = ~editing /\ form = Fresh(Given) /\ touched = FALSE
  /\ pending = 0 /\ error = None /\ subs = <<>> /\ done = NoDone
  /\ presses = 0 /\ edits = 0 /\ events = 0 /\ lost = 0 /\ hasty = 0

Next ==
  \/ LoadDefault \/ Reset \/ SkipTemplates \/ Close \/ ToggleDays \/ HandleSubmit
  \/ HandleFetch \/ Deliver \/ FailFetch
  \/ \E t \in Texts : Write(t) \/ SelectTemplate(t)
  \/ \E weekly \in BOOLEAN : SetFrequency(weekly)
  \/ \E v \in Visibilities : PickVisibility(v)
  \/ \E i \in DOMAIN subs : HandleSave(i) \/ HandleShow(i) \/ Lose(i) \/ EndSave(i) \/ EndShow(i)

Spec == Init /\ [][Next]_vars

-----------------------------------------------------------------------------
(* Properties.                                                             *)

TypeOK ==
  /\ form.text \in Texts \cup {None} /\ form.vis \in Visibilities /\ given \in Visibilities
  /\ cache \in Visibilities \cup {"unread"} /\ fetch \in Visibilities \cup {"idle", "sent"}
  /\ pending \in 0 .. Len(habits) /\ done.id \in 0 .. Len(habits)
  /\ error \in {None, "invalid", "failed", "notUpdated", "defaulted"}
  /\ \A i \in DOMAIN subs : subs[i].id \in 0 .. Len(habits) /\ subs[i].vis \in Visibilities

\* However often saving fails and is tried again, one form makes one habit, except for answers
\* that were lost after the habit was made, and for presses while a visibility was being
\* saved: the button, locked during the first half of a submission only, then creates anew.
OneHabit == ~editing => Len(habits) <= 1 + lost + hasty

\* A form that closes because it was saved has saved what it was submitted with, the
\* visibility included, even when it took several tries.  (A try that only saves the
\* visibility says nothing of the fields, which are silently dropped.)
SavedAsSubmitted ==
  done # NoDone /\ subs = <<>> /\ hasty = 0 =>
    /\ habits[done.id].vis = done.vis
    /\ done.again \/ (habits[done.id].text = done.text /\ habits[done.id].weekly = done.weekly)
=============================================================================
