------------------------------- MODULE Reminders -------------------------------
(***************************************************************************)
(* The reminder scheduler and the delivery of its pushes                   *)
(* (backend/internal/notifications/reminders.go and push.go), for one user *)
(* and the wall clock of the user's stored time zone.  Time is counted in  *)
(* slots, in each of which the scheduler passes once: a day has Day of     *)
(* them, the catch-up window Window, and a change of the clock skips or    *)
(* repeats Gap.                                                            *)
(***************************************************************************)
EXTENDS Integers, FiniteSets

CONSTANTS
  Day,        \* slots of a day
  Window,     \* slots of the catch-up window
  Gap,        \* slots that a change of the clock skips or repeats
  Times,      \* the slots that may be chosen as reminder time
  LastDay,    \* bound on the days
  MaxEvents   \* bound on the changes of the clock, of the settings, and on failures

VARIABLES
  local,      \* the wall clock: slots since the midnight of day 0
  passed,     \* the scheduler has passed in this slot
  settings,   \* habit_reminders and reminder_time
  complete,   \* no habit that is due today is left to log
  row,        \* per date the reminder's notification: "none", "kept", "delivered"
  job,        \* the date of the push under way, and how far it is
  pushes,     \* per date, how many pushes were sent
  unmarked,   \* per date, how many pushes were sent and not marked as delivered
  excused,    \* dates on which nothing can be promised: see KeptEachDay
  sprung,     \* dates on which the clock skipped a gap
  events

pushed == <<row, job, pushes, unmarked>>
vars == <<local, passed, settings, complete, pushed, excused, sprung, events>>

Days == 0 .. LastDay
NoJob == [date |-> 0, phase |-> "idle"]

DateOf(t) == t \div Day
Today == DateOf(local)
MayOccur == events < MaxEvents /\ events' = events + 1

\* inReminderWindow: on the local clock, past midnight too.
InWindow(t) == (t - settings.time) % Day < Window

\* The idempotency key names the user and the local date.
Key(date) == date

\* Faulty variant: the push of a notification that is there is sent again.
NeedsPush_Always(date) == TRUE

\* A new notification, or one whose push was not marked as delivered.
NeedsPush(date) == row[Key(date)] # "delivered"

-----------------------------------------------------------------------------

\* tick: a candidate in the window with something left to log gets a notification, once a
\* date, and a push.
Tick ==
  /\ ~passed
  /\ passed' = TRUE
  /\ IF settings.on /\ InWindow(local) /\ ~complete
     THEN /\ row' = [row EXCEPT ![Key(Today)] = IF @ = "none" THEN "kept" ELSE @]
          /\ job' = IF NeedsPush(Today) THEN [date |-> Today, phase |-> "sending"] ELSE job
     ELSE UNCHANGED <<row, job>>
  /\ excused' = IF settings.on /\ (InWindow(local) => ~complete) THEN excused
                ELSE excused \cup {Today}
  /\ UNCHANGED <<local, settings, complete, pushes, unmarked, sprung, events>>

\* The server is down for a pass, or its look-ups fail.
MissTick ==
  /\ ~passed /\ MayOccur
  /\ passed' = TRUE
  /\ excused' = excused \cup {Today}
  /\ UNCHANGED <<local, settings, complete, pushed, sprung>>

\* deliverOne, for every device of the user.
Send ==
  /\ job.phase = "sending"
  /\ pushes' = [pushes EXCEPT ![job.date] = @ + 1]
  /\ job' = [job EXCEPT !.phase = "sent"]
  /\ UNCHANGED <<local, passed, settings, complete, row, unmarked, excused, sprung, events>>

\* markPushDelivered, once the sends are through.
MarkDelivered ==
  /\ job.phase = "sent"
  /\ row' = [row EXCEPT ![Key(job.date)] = "delivered"]
  /\ job' = NoJob
  /\ UNCHANGED <<local, passed, settings, complete, pushes, unmarked, excused, sprung, events>>

\* The 30 seconds are over, or the process dies: sent perhaps, but not marked.
Abandon ==
  /\ job.phase # "idle" /\ MayOccur
  /\ unmarked' = IF job.phase = "sent" THEN [unmarked EXCEPT ![job.date] = @ + 1] ELSE unmarked
  /\ job' = NoJob
  /\ UNCHANGED <<local, passed, settings, complete, row, pushes, excused, sprung>>

-----------------------------------------------------------------------------
(* The clock and the user.  A delivery is over before the next pass.       *)

Clock(t) ==
  /\ passed /\ job.phase = "idle" /\ t \in 0 .. ((LastDay + 1) * Day - 1)
  /\ local' = t /\ passed' = FALSE
  /\ complete' = (complete /\ DateOf(t) = Today)
  /\ UNCHANGED <<settings, pushed>>

NextSlot == Clock(local + 1) /\ UNCHANGED <<excused, sprung, events>>

SpringForward ==
  /\ MayOccur /\ DateOf(local + 1 + Gap) = Today
  /\ Clock(local + 1 + Gap)
  /\ sprung' = sprung \cup {Today} /\ excused' = excused

FallBack ==
  /\ MayOccur /\ DateOf(local + 1 - Gap) = Today
  /\ Clock(local + 1 - Gap)
  /\ UNCHANGED <<excused, sprung>>

\* useReminderTimezoneSync stores another zone: the local clock, and perhaps the date, jumps.
Travel ==
  /\ MayOccur
  /\ \E t \in {local + Gap, local - Gap} :
       Clock(t) /\ excused' = excused \cup (Today .. DateOf(t)) \cup (DateOf(t) .. Today)
  /\ sprung' = sprung

\* The settings screen turns reminders on or off, or picks another time.
SaveSettings ==
  /\ MayOccur
  /\ \E on \in BOOLEAN, time \in Times :
       [on |-> on, time |-> time] # settings /\ settings' = [on |-> on, time |-> time]
  /\ excused' = excused \cup {Today}
  /\ UNCHANGED <<local, passed, complete, pushed, sprung>>

\* The last habit that is due today is logged, archived, or no longer due.
Complete ==
  /\ ~complete /\ complete' = TRUE
  /\ UNCHANGED <<local, passed, settings, pushed, excused, sprung, events>>

\* A completion is taken back, or another habit is due: a new one, one that is back from the
\* archive, or one with other days.
Reopen ==
  /\ complete /\ complete' = FALSE
  /\ UNCHANGED <<local, passed, settings, pushed, excused, sprung, events>>

-----------------------------------------------------------------------------

Init ==
  /\ local = 0 /\ passed = FALSE /\ complete = FALSE /\ job = NoJob /\ events = 0
  /\ settings \in [on: {TRUE}, time: Times]
  /\ row = [d \in Days |-> "none"]
  /\ pushes = [d \in Days |-> 0] /\ unmarked = [d \in Days |-> 0]
  /\ excused = {} /\ sprung = {}

Next ==
  \/ Tick \/ MissTick \/ Send \/ MarkDelivered \/ Abandon
  \/ NextSlot \/ SpringForward \/ FallBack \/ Travel \/ SaveSettings
  \/ Complete \/ Reopen

Spec == Init /\ [][Next]_vars

-----------------------------------------------------------------------------
(* Properties.                                                             *)

TypeOK ==
  /\ local \in 0 .. ((LastDay + 1) * Day - 1) /\ passed \in BOOLEAN
  /\ settings \in [on: BOOLEAN, time: Times]
  /\ row \in [Days -> {"none", "kept", "delivered"}]
  /\ job \in [date: Days, phase: {"idle", "sending", "sent"}]
  /\ pushes \in [Days -> Nat] /\ unmarked \in [Days -> Nat]
  /\ complete \in BOOLEAN /\ excused \subseteq Days /\ sprung \subseteq Days

\* "at most one habit reminder per user per local calendar day" (reminders.go:43): whatever
\* the clock repeats, the user changes or a restart forgets, one date is pushed once, and once
\* more for every push that could not be marked as delivered.
OncePerDay == \A d \in Days : pushes[d] <= 1 + unmarked[d]

\* A day that is over had its reminder, unless a pass in the window found nothing left to log on
\* it.  (Such a day may have none though a completion is taken back, or a habit made due, when
\* the window is over, habits/service.go:784.)  Not so for a day with a pass that did not happen,
\* on which reminders were off or settings or time zone changed, and for a change to summer time.
KeptEachDay ==
  \A d \in Days \ (excused \cup sprung) : d < Today => row[d] # "none"
=============================================================================
