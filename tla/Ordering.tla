-------------------------------- MODULE Ordering --------------------------------
(***************************************************************************)
(* Putting a list into one's own order: the reorder mode of the Today      *)
(* screen for habits (screens/TodayScreen.tsx, hooks/useHabits.ts) and of  *)
(* the to-do screen (screens/TodosManageScreen.tsx, hooks/useTodos.ts),    *)
(* against OrderHabits and OrderTodos, which accept exactly the current    *)
(* set.  The lists differ in when the cache is changed and in what a       *)
(* conflict leads to; one of the two is chosen by Init.                    *)
(***************************************************************************)
EXTENDS Naturals, Sequences, Lists

CONSTANTS
  Items,      \* habits or to-dos
  MaxEvents,  \* bound on failures and on changes from another device
  MaxEdits    \* bound on the moves and on the commits

VARIABLES
  kind,      \* "habits" or "todos"
  rows,      \* the server: the active habits, or the open to-dos, in order
  cache,     \* the list of the query cache
  fetch,     \* its refetch: "idle", "sent", or the answer
  mode, draft, error, busy,   \* reorderMode, draftIds, orderError, committingOrder
  req,       \* the commit under way
  told,      \* what the user was told of the last commit: "nothing", "saved", "failed"
  accepted,  \* the last order the server took
  took,      \* it took one since the last commit
  edits, events

screen == <<mode, draft, error, busy>>
vars == <<kind, rows, cache, fetch, screen, req, told, accepted, took, edits, events>>

NoFetch == [phase |-> "idle", list |-> <<>>]
NoReq   == [phase |-> "idle", meant |-> <<>>, ids |-> <<>>, answer |-> "ok", again |-> FALSE,
            old |-> <<>>]

Has(list, x) == \E i \in DOMAIN list : list[i] = x
Keep(list, other) == Filter(list, ToSet(other))
Drop(list, other) == Filter(list, ToSet(list) \ ToSet(other))

\* applyLocalOrder: what is listed, in the order of the ids; the rest is dropped.
LocalOrder(list, ids) == Keep(ids, list)

\* Faulty variant: the fresh order wins over the intended one.
Reapply_FreshFirst(meant, fresh) == fresh

\* reapplyOrderIntent: the intended order of what still exists, then what is new.
Reapply(meant, fresh) == LET kept == Keep(meant, fresh) IN kept \o Drop(fresh, kept)

-----------------------------------------------------------------------------
(* The reorder mode.                                                       *)

Shown == IF mode THEN Keep(draft, cache) ELSE cache

MayEnter == ~mode /\ Len(cache) >= 2
MayCommit == mode /\ ~busy

\* The arrows of a row that is shown: not up from the first or down from the last.
Arrow(i, j) == Has(Shown, draft[i]) /\ draft[i] # IF j < i THEN Head(Shown) ELSE Last(Shown)

Enter ==
  /\ MayEnter
  /\ mode' = TRUE /\ draft' = cache /\ error' = FALSE
  /\ UNCHANGED <<kind, rows, cache, fetch, busy, req, told, accepted, took, edits, events>>

Cancel ==
  /\ mode
  /\ mode' = FALSE /\ draft' = <<>> /\ error' = FALSE
  /\ UNCHANGED <<kind, rows, cache, fetch, busy, req, told, accepted, took, edits, events>>

\* One step up or down, past a neighbour of the draft that may no longer be shown.
Move(i, j) ==
  /\ mode /\ edits < MaxEdits
  /\ i \in DOMAIN draft /\ j \in {i - 1, i + 1} /\ j \in DOMAIN draft
  /\ Arrow(i, j)
  /\ draft' = [draft EXCEPT ![i] = draft[j], ![j] = draft[i]]
  /\ edits' = edits + 1
  /\ UNCHANGED <<kind, rows, cache, fetch, mode, error, busy, req, told, accepted, took, events>>

\* Done: the habits' list changes before the answer, the to-dos' after it.
Commit ==
  /\ MayCommit /\ edits < MaxEdits
  /\ busy' = TRUE /\ error' = FALSE /\ told' = "nothing" /\ edits' = edits + 1 /\ took' = FALSE
  /\ req' = [NoReq EXCEPT !.phase = "sent", !.meant = draft, !.ids = draft, !.old = cache]
  /\ cache' = IF kind = "habits" THEN LocalOrder(cache, draft) ELSE cache
  /\ UNCHANGED <<kind, rows, fetch, mode, draft, accepted, events>>

-----------------------------------------------------------------------------
(* The server.                                                             *)

\* An unknown id is a validation error; a missing one is a conflict for to-dos only.
Verdict(ids) ==
  IF \E i \in DOMAIN ids : ~Has(rows, ids[i]) THEN "invalid"
  ELSE IF Len(ids) # Len(rows) THEN IF kind = "todos" THEN "conflict" ELSE "invalid"
  ELSE "ok"

Handle ==
  /\ req.phase = "sent"
  /\ req' = [req EXCEPT !.phase = "answered", !.answer = Verdict(req.ids)]
  /\ IF Verdict(req.ids) = "ok" THEN rows' = req.ids /\ accepted' = req.ids /\ took' = TRUE
     ELSE UNCHANGED <<rows, accepted, took>>
  /\ UNCHANGED <<kind, cache, fetch, screen, told, edits, events>>

\* The connection breaks, before or after the order was taken.
Lose ==
  /\ req.phase \in {"sent", "answered"} /\ req.answer # "failed" /\ events < MaxEvents
  /\ req' = [req EXCEPT !.phase = "answered", !.answer = "failed"]
  /\ events' = events + 1
  /\ UNCHANGED <<kind, rows, cache, fetch, screen, told, accepted, took, edits>>

\* Another device adds one at the end, or archives or completes one.
Elsewhere ==
  /\ events < MaxEvents
  /\ \/ \E x \in Items : ~Has(rows, x) /\ rows' = Append(rows, x)
     \/ \E i \in DOMAIN rows : rows' = RemoveAt(rows, i)
  /\ events' = events + 1
  /\ UNCHANGED <<kind, cache, fetch, screen, req, told, accepted, took, edits>>

HandleFetch ==
  /\ fetch.phase = "sent"
  /\ fetch' = [phase |-> "answered", list |-> rows]
  /\ UNCHANGED <<kind, rows, cache, screen, req, told, accepted, took, edits, events>>

Deliver ==
  /\ fetch.phase = "answered"
  /\ cache' = fetch.list /\ fetch' = NoFetch
  /\ UNCHANGED <<kind, rows, screen, req, told, accepted, took, edits, events>>

FailFetch ==
  /\ fetch.phase # "idle" /\ events < MaxEvents
  /\ fetch' = NoFetch /\ events' = events + 1
  /\ UNCHANGED <<kind, rows, cache, screen, req, told, accepted, took, edits>>

Focus ==
  /\ fetch.phase = "idle" /\ events < MaxEvents
  /\ fetch' = [NoFetch EXCEPT !.phase = "sent"] /\ events' = events + 1
  /\ UNCHANGED <<kind, rows, cache, screen, req, told, accepted, took, edits>>

-----------------------------------------------------------------------------
(* How a commit ends.                                                      *)

Refetch == fetch' = [NoFetch EXCEPT !.phase = "sent"]

Close(outcome) ==
  /\ mode' = FALSE /\ draft' = <<>> /\ busy' = FALSE
  /\ told' = outcome /\ req' = [NoReq EXCEPT !.meant = req.meant]

\* A saved order of to-dos is final at once, one of habits when the list is there again.
Saved ==
  /\ req.phase = "answered" /\ req.answer = "ok"
  /\ Refetch
  /\ IF kind = "todos"
     THEN /\ cache' = LocalOrder(cache, req.ids)
          /\ Close("saved") /\ error' = error
     ELSE /\ req' = [req EXCEPT !.phase = "saved"]
          /\ UNCHANGED <<cache, screen, told>>
  /\ UNCHANGED <<kind, rows, accepted, took, edits, events>>

\* A first conflict of to-dos reads the list again and tries the same intent on it.
Conflicted ==
  /\ kind = "todos" /\ req.phase = "answered" /\ req.answer = "conflict" /\ ~req.again
  /\ req' = [req EXCEPT !.phase = "reading"]
  /\ UNCHANGED <<kind, rows, cache, fetch, screen, told, accepted, took, edits, events>>

Retry ==
  /\ req.phase = "reading"
  /\ cache' = rows
  /\ req' = [req EXCEPT !.phase = "sent", !.ids = Reapply(req.meant, rows), !.again = TRUE]
  /\ UNCHANGED <<kind, rows, fetch, screen, told, accepted, took, edits, events>>

\* Anything else shows the error and waits for a refresh; habits go back before it.
Failed ==
  /\ \/ /\ req.phase = "answered" /\ req.answer # "ok"
        /\ req.answer = "conflict" => req.again
        /\ events' = events
     \/ req.phase = "reading" /\ events < MaxEvents /\ events' = events + 1
  /\ cache' = IF kind = "habits" THEN req.old ELSE cache
  /\ error' = TRUE
  /\ Refetch
  /\ req' = [req EXCEPT !.phase = "failed"]
  /\ UNCHANGED <<kind, rows, mode, draft, busy, told, accepted, took, edits>>

\* The awaited refetch ended, one way or the other.
Finish ==
  /\ req.phase \in {"saved", "failed"} /\ fetch.phase = "idle"
  /\ Close(req.phase) /\ error' = error
  /\ UNCHANGED <<kind, rows, cache, fetch, accepted, took, edits, events>>

-----------------------------------------------------------------------------

Init ==
  /\ kind \in {"habits", "todos"}
  /\ \E n \in Items : rows = SetToSeq(Items \ {n})
  /\ cache = rows /\ fetch = NoFetch
  /\ mode = FALSE /\ draft = <<>> /\ error = FALSE /\ busy = FALSE
  /\ req = NoReq /\ told = "nothing" /\ accepted = <<>> /\ took = FALSE
  /\ edits = 0 /\ events = 0

Next ==
  \/ Enter \/ Cancel \/ Commit \/ (\E i \in 1 .. Len(draft) : Move(i, i + 1) \/ Move(i, i - 1))
  \/ Handle \/ Lose \/ Elsewhere \/ HandleFetch \/ Deliver \/ FailFetch \/ Focus
  \/ Saved \/ Conflicted \/ Retry \/ Failed \/ Finish

Spec == Init /\ [][Next]_vars

-----------------------------------------------------------------------------
(* Properties.                                                             *)

TypeOK ==
  /\ kind \in {"habits", "todos"} /\ {mode, error, busy, took} \subseteq BOOLEAN
  /\ {rows, cache, draft, accepted} \subseteq Seq(Items)
  /\ fetch.phase \in {"idle", "sent", "answered"}
  /\ req.phase \in {"idle", "sent", "answered", "reading", "saved", "failed"}
  /\ told \in {"nothing", "saved", "failed"}

\* When the reorder mode closes without an error, the order the server took last keeps the
\* user's intent: everything the user had put in order and that was still there, in that
\* order, also after a conflict with another device ("Keeps intended relative order for ids
\* that still exist", useTodos.ts:273), and whatever broke, changed or was cancelled meanwhile.
SavedAsMeant ==
  told = "saved" => /\ took
                    /\ Keep(accepted, req.meant) = Keep(req.meant, accepted)
=============================================================================
