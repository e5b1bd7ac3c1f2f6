------------------------------ MODULE Completions ------------------------------
(***************************************************************************)
(* Logging a habit from two screens over one query cache: the Today screen *)
(* with its check boxes, week strip and undo chip (hooks/useTodayHabits.ts,*)
(* screens/TodayScreen.tsx), and the calendar of the habit's detail screen *)
(* (hooks/useHabitDetail.ts, screens/HabitDetailScreen.tsx), against the   *)
(* completions that backend/internal/habits keeps.                         *)
(*                                                                         *)
(* One habit, due every day, with one cell for today and one for a past    *)
(* day of the week.  The cache holds the week's range, which Today shows,  *)
(* and the habit's stats, from which the calendar is filled.  Both keep an *)
(* observer as long as somebody is signed in, so that invalidating a key   *)
(* refetches it at once.                                                   *)
(***************************************************************************)
EXTENDS Naturals, FiniteSets

CONSTANTS
  Calls,      \* mutations that may be in flight at once
  MaxTaps,    \* bound on the taps
  MaxEvents,  \* bound on refreshes, failures and changes from elsewhere
  MaxMoves    \* bound on both together

VARIABLES
  minimum,   \* the habit has a minimum description
  logged,    \* the server: per cell the kind logged, or "none"
  screen,    \* "today" or "detail"
  cache,     \* per key its data
  fetch,     \* per key the fetch under way
  call,      \* the mutations
  latest,    \* the mutation whose state the mounted screen observes, or None
  undo,      \* the chip: [cell, kind], or NoChip
  calendar,  \* completedDates of the detail screen
  taps, events,
  blind      \* keys the client was given no reason to fetch again: see Truthful

client == <<screen, cache, fetch, latest, undo, calendar>>
vars == <<minimum, logged, client, call, taps, events, blind>>

None   == "none"
Cells  == {"today", "past"}
Kinds  == {"none", "full", "minimum"}
Keys   == {"range", "stats"}
Days   == [Cells -> Kinds]
NoChip == [cell |-> "today", kind |-> "nothing"]

\* habits/stats: the completed dates, and the kind of today that the optimistic patch sets.
Data   == [days: Days, today: Kinds]

NoFetch == [phase |-> "idle", data |-> [days |-> [c \in Cells |-> None], today |-> None]]

Idle == [phase |-> "idle", from |-> "today", mounted |-> FALSE, cell |-> "today", act |-> "complete",
         kind |-> "none", before |-> "none", offer |-> FALSE, answer |-> "ok",
         old |-> [k \in Keys |-> NoFetch.data]]

MayTap   == taps < MaxTaps /\ taps + events < MaxMoves
MayOccur == events < MaxEvents /\ taps + events < MaxMoves

Pending == {m \in Calls : call[m].phase # "idle"}

\* What a fetch of key k answers; the range has no field for today.
Truth(k) == [days |-> logged, today |-> IF k = "stats" THEN logged["today"] ELSE None]

-----------------------------------------------------------------------------
(* The query cache.                                                        *)

\* invalidateQueries of observed keys: a fetch under way is dropped for a new one.
Invalidate(keys) ==
  fetch' = [k \in Keys |-> IF k \in keys THEN [NoFetch EXCEPT !.phase = "sent"] ELSE fetch[k]]

\* cancelQueries: what was under way is forgotten.
CancelQueries == fetch' = [k \in Keys |-> NoFetch]

\* The keys whose latest read of the server is dropped with their fetch.
Unread(keys) == {k \in keys : fetch[k].phase = "answered"}

\* New data, shared structurally: an equal value is no change, and runs no effect.
SetStats(d) ==
  calendar' = IF screen = "detail" /\ d # cache["stats"] THEN d.days ELSE calendar

HandleFetch(k) ==
  /\ fetch[k].phase = "sent"
  /\ fetch' = [fetch EXCEPT ![k] = [phase |-> "answered", data |-> Truth(k)]]
  /\ blind' = blind \ {k}
  /\ UNCHANGED <<minimum, logged, screen, cache, latest, undo, calendar, call, taps, events>>

Deliver(k) ==
  /\ fetch[k].phase = "answered"
  /\ cache' = [cache EXCEPT ![k] = fetch[k].data]
  /\ IF k = "stats" THEN SetStats(fetch[k].data) ELSE calendar' = calendar
  /\ fetch' = [fetch EXCEPT ![k] = NoFetch]
  /\ UNCHANGED <<minimum, logged, screen, latest, undo, call, taps, events, blind>>

\* The fetch and its one retry failed.
FailFetch(k) ==
  /\ fetch[k].phase # "idle" /\ MayOccur
  /\ fetch' = [fetch EXCEPT ![k] = NoFetch]
  /\ blind' = blind \cup {k} /\ events' = events + 1
  /\ UNCHANGED <<minimum, logged, screen, cache, latest, undo, calendar, call, taps>>

\* The window gets the focus: stale queries are fetched, unless they already are.
Focus ==
  /\ MayOccur
  /\ \E k \in Keys : fetch[k].phase = "idle" /\ Invalidate({k})
  /\ events' = events + 1
  /\ UNCHANGED <<minimum, logged, screen, cache, latest, undo, calendar, call, taps, blind>>

\* The pull to refresh of Today, and the refresh of the detail screen.
Refresh ==
  /\ MayOccur
  /\ LET keys == IF screen = "today" THEN Keys ELSE {"stats"}
     IN Invalidate(keys) /\ blind' = blind \cup Unread(keys)
  /\ events' = events + 1
  /\ UNCHANGED <<minimum, logged, screen, cache, latest, undo, calendar, call, taps>>

-----------------------------------------------------------------------------
(* The taps.                                                               *)

\* nextCompletionCycle: none, full, minimum if the habit has one, none.
NextCycle(kind) ==
  CASE kind = "none"             -> [act |-> "complete", kind |-> "full"]
    [] kind = "full" /\ minimum  -> [act |-> "updateKind", kind |-> "minimum"]
    [] OTHER                     -> [act |-> "uncomplete", kind |-> "none"]

Uncomplete == [act |-> "uncomplete", kind |-> "none"]

\* The check box of Today completes, fully or to the minimum, or takes back.
TodayCycles ==
  IF cache["range"].days["today"] # None THEN {Uncomplete}
  ELSE {[act |-> "complete", kind |-> k] : k \in IF minimum THEN {"full", "minimum"} ELSE {"full"}}

\* What undoes the chip; nothing when the cell already holds its kind.
UndoCycles ==
  LET shown == cache["range"].days[undo.cell]
  IN IF undo.kind = "none" THEN {Uncomplete}
     ELSE IF shown = "none" THEN {[act |-> "complete", kind |-> undo.kind]}
     ELSE IF shown # undo.kind THEN {[act |-> "updateKind", kind |-> undo.kind]}
     ELSE {}

\* Only the latest mutation is observed: an earlier one no longer blocks its cell.
Completing(c) == latest # None /\ call[latest].phase # "idle" /\ call[latest].cell = c
Mutating == latest # None /\ call[latest].phase # "idle"

\* The week strip of Today and the calendar of the detail screen offer a day that is due,
\* within the window of 60 days, and not in the future.
StripCells    == Cells
CalendarCells == Cells

Send(m, c, cycle, before, offer) ==
  /\ call[m].phase = "idle" /\ MayTap
  /\ call' = [call EXCEPT ![m] =
       [phase |-> "sent", from |-> screen, mounted |-> TRUE, cell |-> c, act |-> cycle.act,
        kind |-> cycle.kind, before |-> before, offer |-> offer, answer |-> "ok",
        old |-> IF screen = "today" THEN cache ELSE Idle.old]]
  /\ latest' = m /\ taps' = taps + 1

\* dayMutation.onMutate: fetches are cancelled, the data kept for a rollback and patched.
Mutate(m, c, cycle, offer) ==
  /\ screen = "today"
  /\ Send(m, c, cycle, cache["range"].days[c], offer)
  /\ CancelQueries
  /\ blind' = blind \cup Unread(Keys)
  /\ cache' = [k \in Keys |->
       IF k = "range" THEN [cache[k] EXCEPT !.days[c] = cycle.kind]
       ELSE IF c = "today" THEN [cache[k] EXCEPT !.today = cycle.kind] ELSE cache[k]]
  /\ UNCHANGED <<minimum, logged, screen, calendar, events>>

ToggleCompletion(m) ==
  /\ ~Completing("today")
  /\ \E cycle \in TodayCycles : Mutate(m, "today", cycle, FALSE)
  /\ undo' = undo

ToggleDay(m, c) ==
  /\ ~Completing(c)
  /\ Mutate(m, c, NextCycle(cache["range"].days[c]), c = "past")
  /\ undo' = undo

UndoLast(m) ==
  /\ undo # NoChip
  /\ \E cycle \in UndoCycles : Mutate(m, undo.cell, cycle, FALSE)
  /\ undo' = NoChip

DismissUndo ==
  /\ undo # NoChip
  /\ undo' = NoChip
  /\ UNCHANGED <<minimum, logged, screen, cache, fetch, latest, calendar, call, taps, events, blind>>

\* A date of the calendar; the cache is not touched, and nothing is cancelled.
TapDate(m, c) ==
  /\ screen = "detail" /\ ~Mutating
  /\ LET cycle == NextCycle(calendar[c])
     IN /\ Send(m, c, cycle, calendar[c], FALSE)
        /\ calendar' = [calendar EXCEPT ![c] = cycle.kind]
  /\ UNCHANGED <<minimum, logged, screen, cache, fetch, undo, events, blind>>

\* To the other screen and back.  What the left one observed goes on without it; Today
\* forgets its chip, and a detail screen fills its calendar from the stats it finds.
Switch ==
  /\ screen' = IF screen = "today" THEN "detail" ELSE "today"
  /\ latest' = None /\ undo' = NoChip
  /\ call' = [m \in Calls |-> [call[m] EXCEPT !.mounted = FALSE]]
  /\ calendar' = IF screen' = "detail" THEN cache["stats"].days ELSE NoFetch.data.days
  /\ UNCHANGED <<minimum, logged, cache, fetch, taps, events, blind>>

-----------------------------------------------------------------------------
(* The server, and its answers.                                            *)

\* CompleteHabit, DeleteCompletion and UpdateCompletion.
Verdict(m) == CASE call[m].act = "complete" /\ logged[call[m].cell] # None -> "conflict"
                [] call[m].act # "complete" /\ logged[call[m].cell] = None -> "not_found"
                [] OTHER -> "ok"

\* A settled mutation is no longer pending for the screen that observes it.
Observed(m) == latest' = IF latest = m THEN None ELSE latest

Reply(m, answer) == call' = [call EXCEPT ![m].phase = "answered", ![m].answer = answer]

Handle(m) ==
  /\ call[m].phase = "sent"
  /\ Reply(m, Verdict(m))
  /\ logged' = IF Verdict(m) = "ok" THEN [logged EXCEPT ![call[m].cell] = call[m].kind] ELSE logged
  /\ UNCHANGED <<minimum, client, taps, events, blind>>

\* The connection breaks, before or after the server carried the call out.
Lose(m) ==
  /\ call[m].phase # "idle" /\ call[m].answer # "failed" /\ MayOccur
  /\ Reply(m, "failed")
  /\ events' = events + 1
  /\ blind' = blind \cup (IF call[m].phase = "answered" /\ call[m].answer = "ok"
                             /\ call[m].from = "detail" THEN Keys ELSE {})
  /\ UNCHANGED <<minimum, logged, client, taps>>

\* Another device of the same account logs, corrects or deletes.
Elsewhere ==
  /\ MayOccur
  /\ \E c \in Cells, kind \in IF minimum THEN Kinds ELSE {"none", "full"} :
       kind # logged[c] /\ logged' = [logged EXCEPT ![c] = kind]
  /\ blind' = Keys /\ events' = events + 1
  /\ UNCHANGED <<minimum, client, call, taps>>

\* Faulty variant: a failure is rolled back and not fetched again.
Settles_Success(c) == c.answer = "ok"

\* dayMutation.onSettled leaves the cache alone after a conflict or a missing row.
Settles(c) == c.answer \in {"ok", "failed"}

\* dayMutation.onError: a conflict was completed elsewhere, a missing row deleted; anything
\* else is rolled back to what was kept.
RolledBack(c) ==
  CASE c.answer = "ok" -> cache
    [] c.answer = "conflict" /\ c.act = "complete" ->
         [cache EXCEPT !["range"] = [c.old["range"] EXCEPT !.days[c.cell] = "full"]]
    [] c.answer = "not_found" /\ c.act = "uncomplete" ->
         [cache EXCEPT !["range"] = [c.old["range"] EXCEPT !.days[c.cell] = None]]
    [] OTHER -> c.old

\* dayMutation ends.
EndToday(m) ==
  LET c == call[m]
  IN /\ c.phase = "answered" /\ c.from = "today"
     /\ cache' = RolledBack(c)
     /\ SetStats(cache'["stats"])
     /\ undo' = IF c.answer = "ok" /\ c.offer /\ c.mounted
                THEN [cell |-> c.cell, kind |-> c.before] ELSE undo
     /\ IF Settles(c) THEN Invalidate(Keys) ELSE fetch' = fetch
     /\ blind' = blind \cup (IF c.answer \in {"ok", "failed"} THEN Unread(Keys) ELSE Keys)
     /\ call' = [call EXCEPT ![m] = Idle]
     /\ Observed(m)
     /\ UNCHANGED <<minimum, logged, screen, taps, events>>

\* Faulty variant: only the detail screen's own query is fetched again.
Related_StatsOnly == {"stats"}

\* invalidateRelated: the stats, and the week that Today shows.
Related == Keys

\* handleToggleDate ends: fetched again, or the date is put back.
EndDetail(m) ==
  LET c == call[m]
  IN /\ c.phase = "answered" /\ c.from = "detail"
     /\ IF c.answer = "ok"
        THEN Invalidate(Related) /\ blind' = blind \cup Unread(Related) /\ calendar' = calendar
        ELSE /\ calendar' = IF c.mounted THEN [calendar EXCEPT ![c.cell] = c.before] ELSE calendar
             /\ UNCHANGED <<fetch, blind>>
     /\ call' = [call EXCEPT ![m] = Idle]
     /\ Observed(m)
     /\ UNCHANGED <<minimum, logged, screen, cache, undo, taps, events>>

-----------------------------------------------------------------------------

Init ==
  /\ minimum \in BOOLEAN
  /\ logged \in [Cells -> IF minimum THEN Kinds ELSE {"none", "full"}]
  /\ screen = "today" /\ latest = None /\ undo = NoChip
  /\ cache = [k \in Keys |-> Truth(k)]
  /\ fetch = [k \in Keys |-> NoFetch]
  /\ call = [m \in Calls |-> Idle]
  /\ calendar = NoFetch.data.days
  /\ taps = 0 /\ events = 0 /\ blind = {}

Next ==
  \/ \E k \in Keys : HandleFetch(k) \/ Deliver(k) \/ FailFetch(k)
  \/ Focus \/ Refresh \/ Switch \/ DismissUndo \/ Elsewhere
  \/ \E m \in Calls : \/ ToggleCompletion(m) \/ UndoLast(m)
                      \/ \E c \in StripCells : ToggleDay(m, c)
                      \/ \E c \in CalendarCells : TapDate(m, c)
                      \/ Handle(m) \/ Lose(m) \/ EndToday(m) \/ EndDetail(m)

Spec == Init /\ [][Next]_vars

-----------------------------------------------------------------------------
(* Properties.                                                             *)

TypeOK ==
  /\ minimum \in BOOLEAN /\ logged \in Days /\ calendar \in Days
  /\ screen \in {"today", "detail"}
  /\ cache \in [Keys -> Data]
  /\ \A k \in Keys : fetch[k].phase \in {"idle", "sent", "answered"} /\ fetch[k].data \in Data
  /\ \A m \in Calls : /\ call[m].cell \in Cells /\ call[m].kind \in Kinds
                      /\ call[m].answer \in {"ok", "conflict", "not_found", "failed"}
  /\ latest \in Calls \cup {None} /\ blind \subseteq Keys

\* Once nothing is under way, what a screen would show is what the server holds, in
\* whatever order taps, answers, rollbacks and refetches came: every end of a call, failed
\* ones included, fetches again after the last change.  Not so for a key in "blind": a
\* fetch of it failed or was cancelled by a call that then conflicted, another device
\* changed it since, the answer of a calendar's call was lost, or a call of Today ended
\* with a conflict or a missing row, after which the code does not fetch (line 248).
Truthful ==
  Pending = {} => \A k \in Keys \ blind :
                     fetch[k].phase = "idle" => cache[k] = Truth(k)
=============================================================================
