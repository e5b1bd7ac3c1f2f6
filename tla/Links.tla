--------------------------------- MODULE Links ---------------------------------
(***************************************************************************)
(* Witness links: the owner's list with its two dialogs                    *)
(* (screens/WitnessLinksScreen.tsx, hooks/useWitnessLinks.ts), the calls   *)
(* of backend/internal/social/witness_service.go, which look a link up in  *)
(* one statement and change it in another, and a visitor who opens a link: *)
(* the link, its habits and the habits' data are three reads.              *)
(***************************************************************************)
EXTENDS Naturals, Sequences, Lists

CONSTANTS
  Ids,       \* links that may ever exist
  Habits,    \* the owner's habits
  MaxCalls,  \* bound on the calls in flight
  MaxTaps,   \* bound on the calls ever made
  MaxEvents  \* bound on failures and on changes from another device

VARIABLES
  native,  \* a device on which Alert asks; a browser does not
  rows,    \* the server: per link [state, token, habits]
  gone,    \* the links that were ever revoked, whatever rows has come to say of them
  list,    \* the cached list, as a set of [id, token, habits]
  fetch,   \* its fetch: [phase, found, set]
  dialog,  \* [kind, id, draft]: kind is "none", "create" or "edit"
  calls,   \* [op, id, habits, phase, answer, old], in the order they were sent
  view,    \* the visitor: [phase, id, token, habits, may]
  blind,   \* the client has no reason to read again what changed
  taps, events

vars == <<native, rows, gone, list, fetch, dialog, calls, view, blind, taps, events>>

None == "none"
NoFetch  == [phase |-> "idle", found |-> {}, set |-> {}]
NoDialog == [kind |-> "none", id |-> None, draft |-> {}]
NoView   == [phase |-> "none", id |-> None, token |-> 0, habits |-> {}, may |-> {}]

Active(id) == rows[id].state = "active"
Live == {id \in Ids : Active(id)}
Item(id) == [id |-> id, token |-> rows[id].token, habits |-> rows[id].habits]

MayTap   == taps < MaxTaps
MayOccur == events < MaxEvents /\ events' = events + 1

-----------------------------------------------------------------------------
(* The dialogs.                                                            *)

OpenCreate ==
  /\ dialog = NoDialog /\ MayTap
  /\ dialog' = [NoDialog EXCEPT !.kind = "create"]
  /\ UNCHANGED <<native, rows, gone, list, fetch, calls, view, blind, taps, events>>

OpenEdit(item) ==
  /\ dialog = NoDialog /\ MayTap
  /\ dialog' = [kind |-> "edit", id |-> item.id, draft |-> item.habits]
  /\ UNCHANGED <<native, rows, gone, list, fetch, calls, view, blind, taps, events>>

\* The cross, the backdrop or Escape, which are never locked.
Close ==
  /\ dialog # NoDialog
  /\ dialog' = NoDialog
  /\ UNCHANGED <<native, rows, gone, list, fetch, calls, view, blind, taps, events>>

Toggle(h) ==
  /\ dialog # NoDialog /\ MayTap
  /\ dialog' = [dialog EXCEPT !.draft = IF h \in @ THEN @ \ {h} ELSE @ \cup {h}]
  /\ UNCHANGED <<native, rows, gone, list, fetch, calls, view, blind, taps, events>>

-----------------------------------------------------------------------------
(* The calls.                                                              *)

\* A mutation observes its last call only; the button is locked while that one is pending.
Pending(op) == \E i \in DOMAIN calls : calls[i].op = op

Send(op, id, habits) ==
  /\ MayTap /\ taps' = taps + 1 /\ Len(calls) < MaxCalls
  /\ calls' = Append(calls, [op |-> op, id |-> id, habits |-> habits, phase |-> "sent",
                             answer |-> "ok", token |-> 0, old |-> list])

Create(id) ==
  /\ dialog.kind = "create" /\ ~Pending("create")
  /\ rows[id].state = "unborn"
  /\ Send("create", id, dialog.draft)
  /\ UNCHANGED <<native, rows, gone, list, fetch, dialog, view, blind, events>>

Update ==
  /\ dialog.kind = "edit" /\ ~Pending("update")
  /\ Send("update", dialog.id, dialog.draft)
  /\ UNCHANGED <<native, rows, gone, list, fetch, dialog, view, blind, events>>

Rotate(item) ==
  /\ native /\ dialog = NoDialog
  /\ Send("rotate", item.id, {})
  /\ UNCHANGED <<native, rows, gone, list, fetch, dialog, view, blind, events>>

\* The link is taken off the list at once.
Revoke(item) ==
  /\ native /\ dialog = NoDialog
  /\ Send("revoke", item.id, {})
  /\ list' = {x \in list : x.id # item.id} /\ fetch' = NoFetch
  /\ UNCHANGED <<native, rows, gone, dialog, view, blind, events>>

\* The look-up; a link is created in one transaction.
Find(i) ==
  LET c == calls[i]
  IN /\ c.phase = "sent"
     /\ \/ /\ c.op = "create"
           /\ rows' = [rows EXCEPT ![c.id] = [state |-> "active", token |-> 1, habits |-> c.habits]]
           /\ calls' = [calls EXCEPT ![i].phase = "answered", ![i].token = 1]
        \/ /\ c.op # "create" /\ Active(c.id)
           /\ calls' = [calls EXCEPT ![i].phase = "found"]
           /\ rows' = rows
        \/ /\ c.op # "create" /\ ~Active(c.id)
           /\ calls' = [calls EXCEPT ![i].phase = "answered", ![i].answer = "not_found"]
           /\ rows' = rows
     /\ UNCHANGED <<native, gone, list, fetch, dialog, view, blind, taps, events>>

\* Faulty variant: an update writes the link back as it was looked up, alive.
After_WritesBack(op, row, habits) ==
  CASE op = "update" -> [row EXCEPT !.habits = habits, !.state = "active"]
    [] op = "rotate" -> [row EXCEPT !.token = @ + 1]
    [] op = "revoke" -> [row EXCEPT !.state = "revoked"]

\* Each statement writes its own columns, of the link of that id, be it revoked meanwhile.
After(op, row, habits) ==
  CASE op = "update" -> [row EXCEPT !.habits = habits]
    [] op = "rotate" -> [row EXCEPT !.token = @ + 1]
    [] op = "revoke" -> [row EXCEPT !.state = "revoked"]

Ended(op, id) == IF op = "revoke" THEN gone \cup {id} ELSE gone

\* What the visitor who is being served may be shown grows by what is put on the link's list, as
\* long as the address is good.  Once the look-up has let the visitor in nothing is asked again
\* (ViewWitnessLink reads the list in a statement of its own): the visit goes on though the link
\* is revoked, and is shown what is put on its list even then.
Widened(id) ==
  LET good == id \notin gone' /\ rows'[id].token = view.token
  IN [view EXCEPT !.may = IF view.id = id /\ (good \/ view.phase = "found")
                          THEN @ \cup rows'[id].habits ELSE @]

Write(i) ==
  LET c == calls[i]
  IN /\ c.phase = "found"
     /\ rows' = [rows EXCEPT ![c.id] = After(c.op, @, c.habits)] /\ gone' = Ended(c.op, c.id)
     /\ calls' = [calls EXCEPT ![i].phase = IF c.op = "rotate" THEN "written" ELSE "answered",
                               ![i].token = rows'[c.id].token]
     /\ view' = Widened(c.id)
     /\ UNCHANGED <<native, list, fetch, dialog, blind, taps, events>>

\* RotateToken reads the habits of its answer last.
ReadHabits(i) ==
  /\ calls[i].phase = "written"
  /\ calls' = [calls EXCEPT ![i].phase = "answered", ![i].habits = rows[calls[i].id].habits]
  /\ UNCHANGED <<native, rows, gone, list, fetch, dialog, view, blind, taps, events>>

Lose(i) ==
  /\ calls[i].phase \in {"sent", "answered"} /\ calls[i].answer # "failed" /\ MayOccur
  /\ calls' = [calls EXCEPT ![i].phase = "answered", ![i].answer = "failed"]
  /\ UNCHANGED <<native, rows, gone, list, fetch, dialog, view, blind, taps>>

\* onSuccess and onError: the answer replaces the link that is listed, or is put before the rest.
Patched(c) ==
  LET new == [id |-> c.id, token |-> c.token, habits |-> c.habits]
  IN CASE c.op = "create" -> list \cup {new}
       [] c.op = "revoke" -> list
       [] OTHER -> {IF x.id = c.id THEN new ELSE x : x \in list}

\* Faulty variant: only a success is followed by a fetch.
Settles_Success(c) == c.answer = "ok"

\* onSettled fetches the list again whatever came of the call.
Settles(c) == TRUE

\* A success closes the dialog of its kind, were it another link's by now.
End(i) ==
  LET c == calls[i]
  IN /\ c.phase = "answered"
     /\ calls' = RemoveAt(calls, i)
     /\ list' = IF c.answer = "ok" THEN Patched(c) ELSE IF c.op = "revoke" THEN c.old ELSE list
     /\ fetch' = IF Settles(c) THEN [NoFetch EXCEPT !.phase = "sent"] ELSE fetch
     /\ dialog' = IF c.answer = "ok" /\ (\/ c.op = "create" /\ dialog.kind = "create"
                                         \/ c.op = "update" /\ dialog.kind = "edit")
                  THEN NoDialog ELSE dialog
     /\ UNCHANGED <<native, rows, gone, view, blind, taps, events>>

-----------------------------------------------------------------------------
(* The fetch: the links, then the habits of those.                         *)

ListLinks ==
  /\ fetch.phase = "sent"
  /\ fetch' = [phase |-> "listed", found |-> {Item(id) : id \in Live}, set |-> {}]
  /\ blind' = FALSE
  /\ UNCHANGED <<native, rows, gone, list, dialog, calls, view, taps, events>>

ListHabits ==
  /\ fetch.phase = "listed"
  /\ fetch' = [phase |-> "answered", found |-> {},
               set |-> {[x EXCEPT !.habits = rows[x.id].habits] : x \in fetch.found}]
  /\ UNCHANGED <<native, rows, gone, list, dialog, calls, view, blind, taps, events>>

Deliver ==
  /\ fetch.phase = "answered"
  /\ list' = fetch.set /\ fetch' = NoFetch
  /\ UNCHANGED <<native, rows, gone, dialog, calls, view, blind, taps, events>>

FailFetch ==
  /\ fetch # NoFetch /\ MayOccur
  /\ fetch' = NoFetch /\ blind' = TRUE
  /\ UNCHANGED <<native, rows, gone, list, dialog, calls, view, taps>>

Refresh ==
  /\ fetch = NoFetch /\ MayOccur
  /\ fetch' = [NoFetch EXCEPT !.phase = "sent"]
  /\ UNCHANGED <<native, rows, gone, list, dialog, calls, view, blind, taps>>

\* Another device of the owner.
Elsewhere(id) ==
  /\ Active(id) /\ MayOccur
  /\ \E op \in {"update", "rotate", "revoke"}, habits \in SUBSET Habits :
       rows' = [rows EXCEPT ![id] = After(op, @, habits)] /\ gone' = Ended(op, id)
  /\ view' = Widened(id) /\ blind' = TRUE
  /\ UNCHANGED <<native, list, fetch, dialog, calls, taps>>

-----------------------------------------------------------------------------
(* The visitor.                                                            *)

\* Opens a link, with the address as it was given at some time; one visit is followed.
OpenLink(id) ==
  /\ view.phase = "none" /\ rows[id].token > 0
  /\ \E token \in 1 .. rows[id].token :
       view' = [phase |-> "asked", id |-> id, token |-> token, habits |-> {},
                may |-> IF id \notin gone /\ rows[id].token = token THEN rows[id].habits ELSE {}]
  /\ UNCHANGED <<native, rows, gone, list, fetch, dialog, calls, blind, taps, events>>

\* Faulty variant: a link that was revoked is found all the same.
Opens_Revoked(row, token) == row.token = token

Opens(row, token) == row.token = token /\ row.state = "active"

FindByToken ==
  /\ view.phase = "asked"
  /\ view' = IF Opens(rows[view.id], view.token) THEN [view EXCEPT !.phase = "found"]
             ELSE [view EXCEPT !.phase = "shown"]
  /\ UNCHANGED <<native, rows, gone, list, fetch, dialog, calls, blind, taps, events>>

ReadAllowed ==
  /\ view.phase = "found"
  /\ view' = [view EXCEPT !.phase = "shown", !.habits = rows[view.id].habits]
  /\ UNCHANGED <<native, rows, gone, list, fetch, dialog, calls, blind, taps, events>>

-----------------------------------------------------------------------------

Init ==
  /\ native \in BOOLEAN
  /\ \E live \in SUBSET Ids :
       rows = [id \in Ids |-> [state |-> IF id \in live THEN "active" ELSE "unborn",
                               token |-> IF id \in live THEN 1 ELSE 0, habits |-> {}]]
  /\ gone = {} /\ list = {Item(id) : id \in Live} /\ fetch = NoFetch /\ dialog = NoDialog
  /\ calls = <<>> /\ view = NoView /\ blind = FALSE /\ taps = 0 /\ events = 0

Next ==
  \/ OpenCreate \/ Close \/ Update
  \/ \E item \in list : OpenEdit(item) \/ Rotate(item) \/ Revoke(item)
  \/ \E h \in Habits : Toggle(h)
  \/ \E id \in Ids : Create(id) \/ Elsewhere(id) \/ OpenLink(id)
  \/ \E i \in DOMAIN calls : Find(i) \/ Write(i) \/ ReadHabits(i) \/ Lose(i) \/ End(i)
  \/ ListLinks \/ ListHabits \/ Deliver \/ FailFetch \/ Refresh
  \/ FindByToken \/ ReadAllowed

Spec == Init /\ [][Next]_vars

-----------------------------------------------------------------------------
(* Properties.                                                             *)

TypeOK ==
  /\ rows \in [Ids -> [state : {"unborn", "active", "revoked"}, token : Nat, habits : SUBSET Habits]]
  /\ gone \subseteq Ids
  /\ dialog.kind \in {"none", "create", "edit"} /\ dialog.draft \subseteq Habits
  /\ fetch.phase \in {"idle", "sent", "listed", "answered"}
  /\ \A i \in DOMAIN calls : calls[i].phase \in {"sent", "found", "written", "answered"}

\* Once nothing is under way the list shows every link with the address and the habits the
\* server has, whatever order the calls and their answers came in and whichever were lost,
\* unless another device changed them or a fetch failed.
Truthful == calls = <<>> /\ fetch = NoFetch /\ ~blind => list = {Item(id) : id \in Live}

\* A visitor is shown a habit only if it was on the link's list at a time of the visit when the
\* address was good, or since the look-up let the visitor in; and nothing at all of a link that
\* was revoked or given a new address before the visit, whatever calls about it are still under
\* way: none brings a revoked link back.
OnlyShared == view.habits \subseteq view.may
=============================================================================
