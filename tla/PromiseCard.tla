------------------------------ MODULE PromiseCard ------------------------------
(***************************************************************************)
(* The flame promise on a habit's screen (components/PromiseSection.tsx):  *)
(* its form, its switch and its cancel link, over hooks/usePromises.ts,    *)
(* which holds the data itself: every change that succeeds is followed by  *)
(* a load, and every load that ends sets the data, be it the latest or     *)
(* not.  The server (habits/promise_service.go) ends a promise that is     *)
(* past its date when it is read; Promises models its races.               *)
(***************************************************************************)
EXTENDS Naturals, Sequences, Lists

CONSTANTS
  MaxFlows,  \* bound on changes and loads together under way
  MaxTaps,   \* bound on the changes ever asked for
  MaxEvents  \* bound on failures, and on what happens elsewhere

VARIABLES
  promise, past, due,      \* the server: the active promise, how many ended, past its date
  data, loading, error,    \* usePromises
  showForm, cancelError,   \* PromiseSection
  flows,   \* [op, phase, answer, read, stamp, shown], in the order they were begun
  begun, latest,  \* loads ever begun; the latest of which an answer was taken
  blind,   \* the data may be old: see Truthful
  taps, events

server == <<promise, past, due>>
hook   == <<data, loading, error>>
counts == <<begun, latest, taps, events>>
vars == <<server, hook, showForm, cancelError, flows, blind, counts>>

None == "none"
NoData == [active |-> "unread", past |-> 0]

MayOccur == events < MaxEvents /\ events' = events + 1

\* What a read answers, once it has ended a promise past its date.
Truth == [active |-> IF due THEN None ELSE promise,
          past   |-> IF due /\ promise # None THEN past + 1 ELSE past]

-----------------------------------------------------------------------------
(* What is shown, and what is locked.                                      *)

Ready    == data # NoData
HasOne   == Ready /\ data.active # None
FormOpen == Ready /\ data.active = None /\ showForm

\* The form and the switch lock themselves, and are new when they are shown again.
Busy(op) == \E i \in DOMAIN flows : flows[i].op = op /\ flows[i].shown

Flow(op) == [op |-> op, phase |-> "sent", answer |-> "ok", read |-> NoData, stamp |-> 0,
             shown |-> TRUE]

Ask(op) ==
  /\ taps < MaxTaps /\ taps' = taps + 1 /\ Len(flows) < MaxFlows
  /\ flows' = Append(flows, Flow(op))
  /\ UNCHANGED <<server, hook, cancelError, blind, begun, latest, events>>

ShowForm ==
  /\ Ready /\ data.active = None /\ ~showForm
  /\ showForm' = TRUE
  /\ UNCHANGED <<server, hook, cancelError, flows, blind, counts>>

Create ==
  /\ FormOpen /\ ~Busy("create")
  /\ Ask("create") /\ UNCHANGED showForm

Toggle ==
  /\ HasOne /\ ~Busy("show") /\ ~Busy("hide")
  /\ Ask(IF data.active = "public" THEN "hide" ELSE "show") /\ UNCHANGED showForm

\* Locked by the section itself, whatever is shown meanwhile.
Cancel ==
  /\ HasOne /\ \A i \in DOMAIN flows : flows[i].op # "cancel"
  /\ Ask("cancel") /\ UNCHANGED showForm

-----------------------------------------------------------------------------
(* The server.                                                             *)

\* One active promise per habit; a change of none is refused.
Handle(i) ==
  LET op == flows[i].op
      ok == IF op = "create" THEN promise = None ELSE promise # None
  IN /\ flows[i].phase = "sent" /\ op # "load"
     /\ flows' = [flows EXCEPT ![i].phase = "answered",
                               ![i].answer = IF ok THEN "ok" ELSE "refused"]
     /\ promise' = IF ~ok THEN promise
                   ELSE CASE op = "cancel" -> None
                          [] op = "show" -> "public"
                          [] OTHER -> "private"
     /\ past' = IF ok /\ op = "cancel" THEN past + 1 ELSE past
     /\ due'  = (due /\ promise' # None)
     /\ UNCHANGED <<hook, showForm, cancelError, blind, counts>>

\* The read of a load, which ends a promise that is past its date.
Read(i) ==
  /\ flows[i].phase = "loading"
  /\ flows' = [flows EXCEPT ![i].phase = "read", ![i].read = Truth]
  /\ promise' = Truth.active /\ past' = Truth.past /\ due' = FALSE
  /\ UNCHANGED <<hook, showForm, cancelError, blind, counts>>

\* The connection breaks, before or after the server did its part.
Lose(i) ==
  /\ flows[i].answer # "failed" /\ MayOccur
  /\ flows' = [flows EXCEPT ![i].answer = "failed",
       ![i].phase = IF @ \in {"sent", "answered"} THEN "answered" ELSE "read"]
  /\ blind' = TRUE
  /\ UNCHANGED <<server, hook, showForm, cancelError, begun, latest, taps>>

\* The date passes, or another device makes or cancels a promise.
Elsewhere ==
  /\ MayOccur /\ blind' = TRUE
  /\ \/ promise # None /\ ~due /\ due' = TRUE /\ UNCHANGED <<promise, past>>
     \/ promise # None /\ promise' = None /\ past' = past + 1 /\ due' = FALSE
     \/ promise = None /\ promise' = "private" /\ UNCHANGED <<past, due>>
  /\ UNCHANGED <<hook, showForm, cancelError, flows, begun, latest, taps>>

-----------------------------------------------------------------------------
(* The hook.                                                               *)

\* Faulty variant: a change of the visibility is taken as read.
Loads_NotToggle(op) == op \in {"load", "create", "cancel"}

Loads(op) == op \in {"load", "create", "show", "hide", "cancel"}

StartLoad(i) ==
  /\ begun' = begun + 1
  /\ flows' = [flows EXCEPT ![i].phase = "loading", ![i].stamp = begun']
  /\ loading' = TRUE /\ error' = FALSE
  /\ UNCHANGED <<server, data, showForm, cancelError, blind, latest, taps, events>>

\* The component is mounted, or "Retry" is pressed where nothing was ever read.
Mount ==
  /\ ~Ready /\ ~loading /\ Len(flows) < MaxFlows
  /\ begun' = begun + 1
  /\ flows' = Append(flows, [Flow("load") EXCEPT !.phase = "loading", !.stamp = begun'])
  /\ loading' = TRUE /\ error' = FALSE
  /\ UNCHANGED <<server, data, showForm, cancelError, blind, latest, taps, events>>

\* The change was made: it is followed by a load.
Continue(i) ==
  /\ flows[i].phase = "answered" /\ flows[i].answer = "ok" /\ Loads(flows[i].op)
  /\ StartLoad(i)

\* The forms and switches that are no longer shown once the data has changed.
Left(new, f) ==
  [f EXCEPT !.shown = @ /\ (f.op = "create" => new.active = None)
                        /\ (f.op \in {"show", "hide"} => new.active # None)]

\* A flow ends: with what was read, or after a load that failed, or a change that did.
End(i) ==
  LET f == flows[i]
      loaded == f.phase = "read" /\ f.answer = "ok"
      rest == RemoveAt(flows, i)
  IN /\ \/ f.phase = "read"
        \/ f.phase = "answered" /\ (f.answer # "ok" \/ ~Loads(f.op))
     /\ data' = IF loaded THEN f.read ELSE data
     /\ flows' = [j \in DOMAIN rest |-> Left(data', rest[j])]
     /\ IF f.phase = "read" THEN loading' = FALSE /\ error' = (f.answer # "ok")
        ELSE UNCHANGED <<loading, error>>
     /\ latest' = IF loaded THEN f.stamp ELSE latest
     /\ blind' = (blind \/ (loaded /\ f.stamp < latest))
     /\ showForm' = (showForm /\ ~(f.op = "create" /\ f.phase = "read"))
     /\ cancelError' = (cancelError \/ (f.op = "cancel" /\ f.phase = "answered" /\ f.answer # "ok"))
     /\ UNCHANGED <<server, begun, taps, events>>

Init ==
  /\ promise \in {None, "private", "public"} /\ past = 0 /\ due = FALSE
  /\ data = NoData /\ loading = FALSE /\ error = FALSE /\ showForm = FALSE /\ cancelError = FALSE
  /\ flows = <<>> /\ begun = 0 /\ latest = 0 /\ blind = FALSE /\ taps = 0 /\ events = 0

Next ==
  \/ Mount \/ ShowForm \/ Create \/ Toggle \/ Cancel \/ Elsewhere
  \/ \E i \in DOMAIN flows : Handle(i) \/ Read(i) \/ Lose(i) \/ Continue(i) \/ End(i)

Spec == Init /\ [][Next]_vars

-----------------------------------------------------------------------------
(* Properties.                                                             *)

TypeOK ==
  /\ promise \in {None, "private", "public"} /\ (due => promise # None)
  /\ data.active \in {None, "private", "public", "unread"} /\ past \in Nat
  /\ \A i \in DOMAIN flows : flows[i].phase \in {"sent", "answered", "loading", "read"}
  /\ latest <= begun

\* Once nothing is under way, the section shows the promise and the history the server has,
\* however the form, the switch and the cancel link were used at once, as long as nothing was
\* lost or happened elsewhere and no load was answered after a later one (which leaves the
\* older data).
Truthful == flows = <<>> /\ Ready /\ ~blind => data = Truth
=============================================================================
