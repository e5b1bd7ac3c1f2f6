---------------------------------- MODULE Todos ----------------------------------
(***************************************************************************)
(* To-dos on two screens: the section of Today, where a checked row slides *)
(* out and can be caught back (hooks/useTodos.ts useTodosToday,            *)
(* components/TodayTodosSection.tsx), and the managing screen              *)
(* (useTodosManage, screens/TodosManageScreen.tsx, TodoEditSheet.tsx),     *)
(* over the cached lists "open" and "completed", against the rows of       *)
(* backend/internal/todos.  Their order is the subject of Ordering.        *)
(***************************************************************************)
EXTENDS Naturals, Sequences, Lists

CONSTANTS
  Items,      \* to-dos that may ever exist
  MaxCalls,   \* bound on the mutations in flight
  MaxTaps,    \* bound on the mutations ever made
  MaxEvents,  \* bound on failures and on changes from another device
  MaxMoves    \* bound on both together

VARIABLES
  rows,     \* the server: per to-do "unborn", "open", "done" or "deleted"
  screen,   \* "today" or "manage"
  list,     \* per key the cached list, as a set
  fetch,    \* per key the fetch under way
  stale,    \* keys invalidated or never read, and not fetched since
  exiting,  \* rows that slide out: exitingRef, each with a running timer
  calls,    \* the mutations in flight, in the order they were sent
  taps, events,
  blind     \* keys the client was given no reason to fetch again: see Truthful

vars == <<rows, screen, list, fetch, stale, exiting, calls, taps, events, blind>>

Keys == {"open", "done"}
Ops  == {"create", "complete", "uncomplete", "restore", "delete", "update"}

\* The keys the screen observes; the others are only marked when they are invalidated.
Observed == IF screen = "today" THEN {"open"} ELSE Keys

Truth(k) == {t \in Items : rows[t] = k}

NoFetch == [phase |-> "idle", set |-> {}]
SentFetch == [phase |-> "sent", set |-> {}]

MayTap   == taps < MaxTaps /\ taps + events < MaxMoves /\ Len(calls) < MaxCalls
MayOccur == events < MaxEvents /\ taps + events < MaxMoves

-----------------------------------------------------------------------------
(* The cached lists.                                                       *)

\* Answers of the server that are dropped together with their fetch.
Unread(keys) == {k \in keys : fetch[k].phase = "answered"}

\* invalidateQueries of every list: those that are shown are fetched anew.
InvalidateAll ==
  /\ fetch' = [k \in Keys |-> IF k \in Observed THEN SentFetch ELSE NoFetch]
  /\ stale' = Keys \ Observed
  /\ blind' = blind \cup Unread(Observed)

CancelQueries(keys) ==
  /\ fetch' = [k \in Keys |-> IF k \in keys THEN NoFetch ELSE fetch[k]]
  /\ blind' = blind \cup Unread(keys)

HandleFetch(k) ==
  /\ fetch[k].phase = "sent"
  /\ fetch' = [fetch EXCEPT ![k] = [phase |-> "answered", set |-> Truth(k)]]
  /\ blind' = IF k = "open" /\ exiting # {} THEN blind ELSE blind \ {k}
  /\ UNCHANGED <<rows, screen, list, stale, exiting, calls, taps, events>>

Deliver(k) ==
  /\ fetch[k].phase = "answered"
  /\ list' = [list EXCEPT ![k] = fetch[k].set]
  /\ fetch' = [fetch EXCEPT ![k] = NoFetch]
  /\ UNCHANGED <<rows, screen, stale, exiting, calls, taps, events, blind>>

FailFetch(k) ==
  /\ fetch[k].phase # "idle" /\ MayOccur
  /\ fetch' = [fetch EXCEPT ![k] = NoFetch]
  /\ blind' = blind \cup {k} /\ events' = events + 1
  /\ UNCHANGED <<rows, screen, list, stale, exiting, calls, taps>>

\* Focus, or a pull to refresh, of a list that is shown.
Refresh(k) ==
  /\ k \in Observed /\ fetch[k].phase = "idle" /\ MayOccur
  /\ fetch' = [fetch EXCEPT ![k] = SentFetch] /\ events' = events + 1
  /\ UNCHANGED <<rows, screen, list, stale, exiting, calls, taps, blind>>

\* To the managing screen and back: timers stop, stale lists are fetched.
Switch ==
  /\ screen' = IF screen = "today" THEN "manage" ELSE "today"
  /\ exiting' = {}
  /\ fetch' = [k \in Keys |-> IF k \in stale \cap Observed' THEN SentFetch ELSE fetch[k]]
  /\ stale' = stale \ Observed'
  /\ calls' = [i \in DOMAIN calls |-> [calls[i] EXCEPT !.mounted = FALSE]]
  /\ UNCHANGED <<rows, list, taps, events, blind>>

-----------------------------------------------------------------------------
(* The mutations.                                                          *)

Send(op, t) ==
  /\ MayTap
  /\ calls' = Append(calls, [op |-> op, item |-> t, phase |-> "sent", answer |-> "ok",
                             mounted |-> TRUE, old |-> list])
  /\ taps' = taps + 1

\* The rows that can be tapped: the check box of the section; the restore, edit and delete
\* of the managing screen.
Checkable  == IF screen = "today" THEN list["open"] \cup exiting ELSE {}
Manageable == IF screen = "manage" THEN list["open"] ELSE {}
Restorable == IF screen = "manage" THEN list["done"] ELSE {}

Creating == \E i \in DOMAIN calls : calls[i].op = "create" /\ calls[i].mounted

\* quickAdd: nothing changes before the answer; the field is locked meanwhile.
Create(t) ==
  /\ screen = "today" /\ ~Creating
  /\ rows[t] = "unborn" /\ \A i \in DOMAIN calls : calls[i].item # t
  /\ Send("create", t)
  /\ UNCHANGED <<rows, screen, list, fetch, stale, exiting, events, blind>>

\* A row is checked: it slides out, still in the list until its timer fires.
Complete(t) ==
  /\ t \in Checkable \ exiting
  /\ Send("complete", t)
  /\ CancelQueries({"open"})
  /\ exiting' = exiting \cup {t}
  /\ UNCHANGED <<rows, screen, list, stale, events>>

\* The timer of 450 ms: the row leaves the list.
ExitTimer(t) ==
  /\ t \in exiting
  /\ exiting' = exiting \ {t}
  /\ list' = [list EXCEPT !["open"] = @ \ {t}]
  /\ UNCHANGED <<rows, screen, fetch, stale, calls, taps, events, blind>>

\* Faulty variant: the row is shown again, but its timer goes on.
CancelExit_KeepsTimer(t) == exiting

\* cancelExit: the timer is stopped.
CancelExit(t) == exiting \ {t}

\* A row that slides out is caught back.
Uncomplete(t) ==
  /\ t \in Checkable \cap exiting
  /\ Send("uncomplete", t)
  /\ CancelQueries({"open"})
  /\ exiting' = CancelExit(t)
  /\ list' = [list EXCEPT !["open"] = @ \cup {t}]
  /\ UNCHANGED <<rows, screen, stale, events>>

\* The managing screen takes a completed to-do back, or saves an edited one.
Restore(t) ==
  /\ t \in Restorable
  /\ Send("restore", t)
  /\ UNCHANGED <<rows, screen, list, fetch, stale, exiting, events, blind>>

Update(t) ==
  /\ t \in Manageable
  /\ Send("update", t)
  /\ UNCHANGED <<rows, screen, list, fetch, stale, exiting, events, blind>>

Delete(t) ==
  /\ t \in Manageable
  /\ Send("delete", t)
  /\ CancelQueries(Keys)
  /\ list' = [k \in Keys |-> list[k] \ {t}]
  /\ UNCHANGED <<rows, screen, stale, exiting, events>>

-----------------------------------------------------------------------------
(* The server, and its answers.                                            *)

\* What each operation leaves of a row that exists.
After(op, state) ==
  CASE op = "complete" -> "done"
    [] op \in {"uncomplete", "restore"} -> "open"
    [] op = "delete" -> "deleted"
    [] OTHER -> state

\* Nothing keeps two calls about one to-do in the order of the taps.
Overtakes(i) == \E j \in 1..(i - 1) : calls[j].item = calls[i].item /\ calls[j].phase = "sent"

Handle(i) ==
  LET c == calls[i]
      found == c.op = "create" \/ rows[c.item] \in {"open", "done"}
  IN /\ c.phase = "sent"
     /\ calls' = [calls EXCEPT ![i].phase = "answered",
                               ![i].answer = IF found THEN "ok" ELSE "not_found"]
     /\ rows' = [rows EXCEPT ![c.item] = IF c.op = "create" THEN "open"
                                         ELSE IF found THEN After(c.op, @) ELSE @]
     /\ blind' = blind \cup (IF Overtakes(i) THEN {"open"} ELSE {})
     /\ UNCHANGED <<screen, list, fetch, stale, exiting, taps, events>>

\* Whether a failed mutation is followed by a refetch all the same: onSettled.
Settles(op) == op \in {"complete", "uncomplete", "delete"}

\* The connection breaks, before or after the server carried the call out.
Lose(i) ==
  /\ calls[i].answer # "failed" /\ MayOccur
  /\ calls' = [calls EXCEPT ![i].phase = "answered", ![i].answer = "failed"]
  /\ events' = events + 1
  /\ blind' = blind \cup (IF calls[i].phase = "answered" /\ ~Settles(calls[i].op) THEN Keys ELSE {})
  /\ UNCHANGED <<rows, screen, list, fetch, stale, exiting, taps>>

Elsewhere ==
  /\ MayOccur
  /\ \E t \in Items, state \in {"open", "done", "deleted"} :
       /\ rows[t] \notin {state, "deleted"}
       /\ rows[t] = "unborn" => state = "open" /\ \A i \in DOMAIN calls : calls[i].item # t
       /\ rows' = [rows EXCEPT ![t] = state]
  /\ blind' = Keys /\ events' = events + 1
  /\ UNCHANGED <<screen, list, fetch, stale, exiting, calls, taps>>

\* The lists after a failure: put back as they were when the mutation began.
RolledBack(c) ==
  [k \in Keys |-> IF (k = "open" /\ Settles(c.op)) \/ c.op = "delete" THEN c.old[k] ELSE list[k]]

\* The lists after a success, before they are fetched again.
Patched(c) ==
  CASE c.op = "create" -> [list EXCEPT !["open"] = @ \cup {c.item}]
    [] c.op = "restore" -> [open |-> list["open"] \cup {c.item}, done |-> list["done"] \ {c.item}]
    [] OTHER -> list

\* Faulty variant: what was created is added to the list and not read again.
Refetches_NotCreated(c) == c.op # "create" /\ (c.answer = "ok" \/ Settles(c.op))

Refetches(c) == c.answer = "ok" \/ Settles(c.op)

\* onSuccess, onError and onSettled; a checked row whose call failed stops sliding out.
End(i) ==
  LET c == calls[i]
  IN /\ c.phase = "answered"
     /\ calls' = RemoveAt(calls, i)
     /\ list' = IF c.answer = "ok" THEN Patched(c) ELSE RolledBack(c)
     /\ exiting' = IF c.answer # "ok" /\ c.op = "complete" /\ c.mounted
                   THEN CancelExit(c.item) ELSE exiting
     /\ IF Refetches(c)
        THEN IF c.op = "create"
             THEN /\ fetch' = [fetch EXCEPT !["open"] = SentFetch]
                  /\ blind' = blind \cup Unread({"open"}) /\ stale' = stale
             ELSE InvalidateAll
        ELSE UNCHANGED <<fetch, stale, blind>>
     /\ UNCHANGED <<rows, screen, taps, events>>

-----------------------------------------------------------------------------

Init ==
  /\ rows \in [Items -> {"unborn", "open", "done"}]
  /\ screen = "today"
  /\ list = [open |-> Truth("open"), done |-> {}]
  /\ fetch = [k \in Keys |-> NoFetch] /\ stale = {"done"}
  /\ exiting = {} /\ calls = <<>> /\ taps = 0 /\ events = 0 /\ blind = {}

Next ==
  \/ \E k \in Keys : HandleFetch(k) \/ Deliver(k) \/ FailFetch(k) \/ Refresh(k)
  \/ Switch \/ Elsewhere
  \/ \E t \in Items : \/ Create(t) \/ Complete(t) \/ ExitTimer(t) \/ Uncomplete(t)
                      \/ Restore(t) \/ Update(t) \/ Delete(t)
  \/ \E i \in DOMAIN calls : Handle(i) \/ Lose(i) \/ End(i)

Spec == Init /\ [][Next]_vars

-----------------------------------------------------------------------------
(* Properties.                                                             *)

TypeOK ==
  /\ rows \in [Items -> {"unborn", "open", "done", "deleted"}] /\ screen \in {"today", "manage"}
  /\ \A k \in Keys : /\ list[k] \subseteq Items /\ fetch[k].set \subseteq Items
                     /\ fetch[k].phase \in {"idle", "sent", "answered"}
  /\ stale \subseteq Keys /\ blind \subseteq Keys /\ exiting \subseteq Items
  /\ Len(calls) <= MaxCalls
  /\ \A i \in DOMAIN calls : calls[i].op \in Ops /\ calls[i].answer \in {"ok", "not_found", "failed"}

\* Once nothing is under way, the lists on the screen are the server's: no timer, rollback or
\* late answer has the last word.  Not so for a key in "blind": a fetch of it failed or was
\* cancelled, another device changed it since (or reopened a row that slides out, or the call
\* that checks it was overtaken by an earlier one that takes it back: the timer removes
\* what the fetch brought), or the answer of a call was lost whose failure the
\* code does not follow with a fetch (create, restore, update).
Truthful ==
  calls = <<>> /\ exiting = {} =>
    \A k \in Observed \ (blind \cup stale) : fetch[k].phase = "idle" => list[k] = Truth(k)
=============================================================================
