------------------------------- MODULE Celebration -------------------------------
(***************************************************************************)
(* The overlay that celebrates a completed challenge (hooks/               *)
(* useChallengeCompletion.ts, components/ChallengeCompletionOverlay.tsx):  *)
(* the list of challenges is polled, those that have been completed since  *)
(* the first answer are queued, and the user claims or dismisses them one  *)
(* by one.  The other party of a challenge may claim it too, and accounts  *)
(* change on the device while calls are under way.                         *)
(***************************************************************************)
EXTENDS Naturals, Sequences, Lists

CONSTANTS
  Users,      \* the accounts that are used on the device
  Ids,        \* the challenges
  MaxTaps,    \* bound on the presses, sign-ins and sign-outs
  MaxEvents   \* bound on what happens elsewhere, on failures and on fetches that are asked for

VARIABLES
  parties,    \* per challenge the accounts of the device that take part
  status,     \* per challenge its status in the database
  user,       \* who is signed in, or Nobody
  list,       \* the cached answer: per challenge its status; "none" without a row or an answer
  fetch,      \* the fetch of the list: [phase, found]
  fresh,      \* the effect over the list has to run
  loaded, seen,  \* initialLoadDone and seenCompletedIds
  queue, claiming, error,  \* the state; error names the challenge whose claim failed
  screen,     \* what was rendered last: the current challenge, and whether the button is locked
  call,       \* the claim under way, of which claimMutation allows one: [id, phase]
  taps, events,
  first, celebrated, looked,  \* of this session: the challenges that were over at first,
              \* how often each was queued, those that were rendered
  slipped,    \* "Later" was pressed on a challenge that had left the queue unrendered
  crossed     \* a challenge was dismissed, or its user signed out, while it was being claimed

state   == <<queue, claiming, error>>
memory  == <<loaded, seen>>
history == <<first, celebrated, looked, slipped, crossed>>
vars == <<parties, status, user, list, fetch, fresh, memory, state, screen, call, taps,
          events, history>>

Nobody == "nobody"
None == "none"
NoList == [c \in Ids |-> None]
NoFetch == [phase |-> "idle", found |-> NoList]
NoCall == [id |-> None, phase |-> "idle"]
Blank == [current |-> None, locked |-> FALSE]

MayTap   == taps < MaxTaps /\ taps' = taps + 1 /\ events' = events
MayOccur == events < MaxEvents /\ events' = events + 1 /\ taps' = taps
Quietly  == UNCHANGED <<taps, events>>

Current == IF queue = <<>> THEN None ELSE Head(queue)
Pending == call # NoCall
Unanswered == Pending /\ call.phase # "settling"

-----------------------------------------------------------------------------
(* The list.                                                               *)

\* The poll, and the fetch when the hook is enabled; one under way is joined.
Poll ==
  /\ user # Nobody /\ fetch.phase = "idle"
  /\ IF loaded THEN MayOccur ELSE Quietly
  /\ fetch' = [NoFetch EXCEPT !.phase = "sent"]
  /\ UNCHANGED <<parties, status, user, list, fresh, memory, state, screen, call, history>>

\* triggerCheck, for a press on a notification: one under way is started anew.
TriggerCheck ==
  /\ user # Nobody /\ MayTap
  /\ fetch' = [NoFetch EXCEPT !.phase = "sent"]
  /\ UNCHANGED <<parties, status, user, list, fresh, memory, state, screen, call, history>>

\* The rows of both parties.
ReadList ==
  /\ fetch.phase = "sent"
  /\ fetch' = [phase |-> "read",
               found |-> [c \in Ids |-> IF user \in parties[c] THEN status[c] ELSE None]]
  /\ Quietly
  /\ UNCHANGED <<parties, status, user, list, fresh, memory, state, screen, call, history>>

\* The same answer again is the same data, and runs no effect.
Answer ==
  /\ fetch.phase = "read"
  /\ list' = fetch.found /\ fetch' = NoFetch
  /\ fresh' = (fresh \/ list' # list \/ ~loaded)
  /\ Quietly
  /\ UNCHANGED <<parties, status, user, memory, state, screen, call, history>>

FetchFails ==
  /\ fetch.phase # "idle" /\ MayOccur
  /\ fetch' = NoFetch
  /\ UNCHANGED <<parties, status, user, list, fresh, memory, state, screen, call, history>>

\* Faulty variant: what was seen is forgotten.
Newly_Again == {c \in Ids : list[c] = "completed"}

Newly == {c \in Ids : list[c] = "completed" /\ c \notin seen}

\* Faulty variant: all of the first list counts as old.
Old_All == Ids

Old == {c \in Ids : list[c] \in {"completed", "claimed"}}

\* The effect over the list: the first answer is what the session begins with, later ones
\* are compared with what was seen.
Notice ==
  /\ fresh /\ fresh' = FALSE
  /\ IF ~loaded
     THEN /\ loaded' = TRUE /\ seen' = seen \cup Old
          /\ first' = {c \in Ids : list[c] \notin {"active", None}}
          /\ UNCHANGED <<queue, celebrated>>
     ELSE /\ seen' = seen \cup Newly
          /\ \E order \in SetToSeqs(Newly) : queue' = queue \o order
          /\ celebrated' = [c \in Ids |-> celebrated[c] + (IF c \in Newly THEN 1 ELSE 0)]
          /\ UNCHANGED <<loaded, first>>
  /\ Quietly
  /\ UNCHANGED <<parties, status, user, list, fetch, claiming, error, screen, call,
                 looked, slipped, crossed>>

-----------------------------------------------------------------------------
(* The overlay.  A press is rendered at once, what an answer changes is    *)
(* rendered in a task of its own.                                          *)

Rendered == [current |-> Current, locked |-> claiming \/ Pending]

Render ==
  /\ screen # Rendered
  /\ screen' = Rendered /\ looked' = looked \cup ({Current} \ {None})
  /\ Quietly
  /\ UNCHANGED <<parties, status, user, list, fetch, fresh, memory, state, call, first,
                 celebrated, slipped, crossed>>

ShownNow == screen' = Rendered' /\ looked' = looked \cup ({Current'} \ {None})

\* "Let's celebrate!", or "Try again".
Claim ==
  /\ screen.current # None /\ ~screen.locked
  /\ MayTap
  /\ call' = [id |-> screen.current, phase |-> "sent"]
  /\ claiming' = TRUE /\ error' = None
  /\ UNCHANGED <<parties, status, user, list, fetch, fresh, memory, queue, first, celebrated,
                 slipped, crossed>>
  /\ ShownNow

\* "Later": the closure's challenge is marked, the queue's first is dropped.
Dismiss ==
  /\ screen.current # None /\ MayTap
  /\ seen' = seen \cup {screen.current}
  /\ queue' = (IF queue = <<>> THEN <<>> ELSE Tail(queue))
  /\ error' = None
  /\ slipped' = (slipped \/ screen.current # Current)
  /\ crossed' = (crossed \/ Unanswered)
  /\ UNCHANGED <<parties, status, user, list, fetch, fresh, loaded, claiming, call, first,
                 celebrated>>
  /\ ShownNow

\* The handler of the claim: a challenge that is not completed any more is refused.
HandleClaim ==
  /\ call.phase = "sent"
  /\ LET c == call.id
     IN /\ status' = IF status[c] = "completed" THEN [status EXCEPT ![c] = "claimed"] ELSE status
        /\ call' = [call EXCEPT !.phase = IF status[c] = "completed" THEN "ok" ELSE "failed"]
  /\ Quietly
  /\ UNCHANGED <<parties, user, list, fetch, fresh, memory, state, screen, history>>

\* The request or its answer is lost.
LoseClaim ==
  /\ call.phase \in {"sent", "ok"} /\ MayOccur
  /\ call' = [call EXCEPT !.phase = "failed"]
  /\ UNCHANGED <<parties, status, user, list, fetch, fresh, memory, state, screen, history>>

\* onSuccess; the mutation is pending until the list has been fetched again.
Claimed ==
  /\ call.phase = "ok"
  /\ seen' = seen \cup {call.id}
  /\ queue' = Filter(queue, Ids \ {call.id})
  /\ claiming' = FALSE /\ error' = None
  /\ fetch' = IF user = Nobody THEN fetch ELSE [NoFetch EXCEPT !.phase = "sent"]
  /\ call' = [call EXCEPT !.phase = "settling"]
  /\ Quietly
  /\ UNCHANGED <<parties, status, user, list, fresh, loaded, screen, history>>

\* onError.
NotClaimed ==
  /\ call.phase = "failed"
  /\ claiming' = FALSE /\ error' = call.id
  /\ call' = NoCall
  /\ Quietly
  /\ UNCHANGED <<parties, status, user, list, fetch, fresh, memory, queue, screen, history>>

Settle ==
  /\ call.phase = "settling" /\ fetch.phase = "idle"
  /\ call' = NoCall
  /\ Quietly
  /\ UNCHANGED <<parties, status, user, list, fetch, fresh, memory, state, screen, history>>

-----------------------------------------------------------------------------
(* Accounts, and what happens elsewhere.                                   *)

SignIn(u) ==
  /\ user = Nobody /\ MayTap
  /\ user' = u
  /\ UNCHANGED <<parties, status, list, fetch, fresh, memory, state, screen, call, history>>

\* Faulty variant: the queue outlives the session.
Cleared_Kept == queue

Cleared == <<>>

\* The cache is cleared, and the effect over isAuthenticated forgets the session; a claim
\* under way goes on.
SignOut ==
  /\ user # Nobody /\ MayTap
  /\ user' = Nobody
  /\ list' = NoList /\ fetch' = NoFetch /\ fresh' = FALSE
  /\ loaded' = FALSE /\ seen' = {}
  /\ queue' = Cleared /\ claiming' = FALSE /\ error' = None
  /\ first' = {} /\ celebrated' = [c \in Ids |-> 0] /\ looked' = {} /\ slipped' = FALSE
  /\ crossed' = Unanswered
  /\ UNCHANGED <<parties, status, call>>
  /\ screen' = Rendered'

\* The engine completes a challenge, or writes a claimed one back (see Challenges); the other
\* party claims one.
Elsewhere ==
  /\ MayOccur
  /\ \E c \in Ids :
       \/ status[c] \in {"active", "claimed"} /\ status' = [status EXCEPT ![c] = "completed"]
       \/ status[c] = "completed" /\ status' = [status EXCEPT ![c] = "claimed"]
  /\ UNCHANGED <<parties, user, list, fetch, fresh, memory, state, screen, call, history>>

-----------------------------------------------------------------------------

Init ==
  /\ parties \in [Ids -> (SUBSET Users) \ {{}}]
  /\ status \in [Ids -> {"active", "completed"}]
  /\ user \in Users /\ list = NoList /\ fetch = NoFetch /\ fresh = FALSE
  /\ loaded = FALSE /\ seen = {} /\ queue = <<>> /\ claiming = FALSE /\ error = None
  /\ screen = Blank /\ call = NoCall
  /\ taps = 0 /\ events = 0
  /\ first = {} /\ celebrated = [c \in Ids |-> 0] /\ looked = {} /\ slipped = FALSE
  /\ crossed = FALSE

Next ==
  \/ Poll \/ TriggerCheck \/ ReadList \/ Answer \/ FetchFails \/ Notice \/ Render \/ Dismiss
  \/ (\E u \in Users : SignIn(u)) \/ SignOut \/ Elsewhere
  \/ Claim \/ HandleClaim \/ LoseClaim \/ Claimed \/ NotClaimed \/ Settle

Spec == Init /\ [][Next]_vars

-----------------------------------------------------------------------------
(* Properties.                                                             *)

Statuses == {"active", "completed", "claimed"}

TypeOK ==
  /\ status \in [Ids -> Statuses] /\ user \in Users \cup {Nobody}
  /\ list \in [Ids -> Statuses \cup {None}] /\ fetch.phase \in {"idle", "sent", "read"}
  /\ seen \subseteq Ids /\ queue \in Seq(Ids) /\ error \in Ids \cup {None}
  /\ call.phase \in {"idle", "sent", "ok", "failed", "settling"}

\* A challenge is celebrated once in a session, whatever the order of polls, claims and what
\* the engine writes, and it is one of the account that is signed in.
CelebratedOnce ==
  \A c \in Ids : /\ celebrated[c] <= 1
                 /\ c \in ToSet(queue) => user \in parties[c]

\* Once the effect has run, a challenge that the list says is completed was so, or
\* claimed, when the session began, waits in the queue, or was on the screen: none is passed over,
\* but for one that "Later", pressed before a claim was rendered, took for the claimed one.
NoneMissed ==
  user # Nobody /\ loaded /\ ~fresh /\ ~slipped =>
    \A c \in Ids : list[c] = "completed" => c \in first \cup ToSet(queue) \cup looked

\* The error is of the challenge on the screen, unless that was dismissed or its user signed
\* out while it was being claimed.
ErrorIsItsOwn == error # None /\ ~crossed /\ screen = Rendered => screen.current = error
=============================================================================
