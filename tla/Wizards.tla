-------------------------------- MODULE Wizards --------------------------------
(***************************************************************************)
(* The two wizards that set a challenge: for a friend and one of the       *)
(* habits the friend shares (screens/CreateChallengeScreen.tsx), or as an  *)
(* invite link for a habit that is only proposed                           *)
(* (screens/CreateChallengeInviteScreen.tsx), which also lists the pending *)
(* invites.  Steps 1 to 4 ask for the habit, the goal, the reward and a    *)
(* last look; step 5 tells of the success.  Leaving and coming back mounts *)
(* a new wizard; what the old one sent goes on.                            *)
(***************************************************************************)
EXTENDS Naturals, Sequences, FiniteSets, Lists

CONSTANTS
  Habits,     \* the friend's habits, or the proposals of an invite
  Rewards,
  Cap,        \* pending invites of one user
  MaxTarget, DefaultTarget, Stride,  \* the goal, from 1 in strides
  MaxSends, MaxEdits, MaxEvents      \* bounds

VARIABLES
  kind,    \* "challenge" or "invite"
  native,  \* a device on which Alert asks; a browser does not
  rows,    \* the server: the challenges and pending invites of this user, in order
  shared,  \* the habits the friend shares
  list,    \* the cached profile's habits, or the cached invites: [read, set]
  fetch,
  step, draft, changed,   \* the wizard; "changed": the draft was, since it was sent
  error,
  sends,   \* requests: [op, row, mounted, phase, answer]
  shown,   \* the row whose success is shown, or NoRow
  made, lost,  \* rows this opening of the wizard made, and answers it lost
  edits, events, count

wizard == <<step, draft, changed, error, shown, made, lost>>
server == <<rows, shared>>
query  == <<list, fetch>>
counts == <<edits, events, count>>
vars == <<kind, native, wizard, server, query, sends, counts>>

None == "none"
Blank  == [habit |-> None, target |-> DefaultTarget, reward |-> None]
NoRow  == Blank
Unread == [read |-> FALSE, set |-> {}]
NoFetch == [phase |-> "idle", set |-> {}]

MayOccur == events < MaxEvents /\ events' = events + 1 /\ UNCHANGED <<edits, count>>

\* What a fetch answers: the shared habits, or the pending invites.
Truth == IF kind = "challenge" THEN shared ELSE {rows[i] : i \in DOMAIN rows}

-----------------------------------------------------------------------------
(* The steps.                                                              *)

\* The wizard is shown as soon as the friend's profile is; the invite's does not wait.
Shown == kind = "invite" \/ list.read

Edited(new) ==
  /\ Shown /\ step < 5 /\ edits < MaxEdits
  /\ edits' = edits + 1 /\ UNCHANGED <<events, count>>
  /\ draft' = new /\ changed' = TRUE
  /\ UNCHANGED <<kind, native, step, error, shown, made, lost, server, query, sends>>

\* Step 1: one of the habits of the profile.
SelectHabit(h) ==
  /\ kind = "challenge" /\ step = 1 /\ h \in list.set
  /\ Edited([draft EXCEPT !.habit = h])

\* Step 1: a name, an icon and the days; None stands for what validation refuses.
ProposeHabit(h) ==
  /\ kind = "invite" /\ step = 1
  /\ Edited([draft EXCEPT !.habit = h])

\* Step 2: down by a stride, not below 1, or up, not above the most.
SetTarget(up) ==
  /\ step = 2
  /\ Edited([draft EXCEPT !.target =
       IF up THEN IF @ + Stride > MaxTarget THEN MaxTarget ELSE @ + Stride
       ELSE IF @ > Stride THEN @ - Stride ELSE 1])

\* Step 3: None stands for an empty text or one that is too long.
SetReward(r) ==
  /\ step = 3
  /\ Edited([draft EXCEPT !.reward = r])

\* What "Continue" waits for.
CanProceed ==
  CASE step = 1 -> draft.habit # None
    [] step = 2 -> draft.target \in 1 .. MaxTarget
    [] step = 3 -> draft.reward # None
    [] OTHER    -> FALSE

GoNext ==
  /\ Shown /\ CanProceed
  /\ step' = step + 1
  /\ UNCHANGED <<kind, native, draft, changed, error, shown, made, lost, server, query, sends, counts>>

\* The arrow, while the request is under way too.
GoBack ==
  /\ Shown /\ step \in 2 .. 4
  /\ step' = step - 1
  /\ UNCHANGED <<kind, native, draft, changed, error, shown, made, lost, server, query, sends, counts>>

\* The arrow of the first step, "Done", or the browser's Back; and opened again.  A cached
\* profile selects a single habit at once.
Single(set) == IF kind = "challenge" /\ Cardinality(set) = 1 THEN CHOOSE h \in set : TRUE ELSE None

Reopen ==
  /\ edits < MaxEdits /\ edits' = edits + 1 /\ UNCHANGED <<events, count>>
  /\ step' = 1 /\ error' = None /\ shown' = NoRow /\ made' = 0 /\ lost' = 0 /\ changed' = FALSE
  /\ draft' = [Blank EXCEPT !.habit = Single(list.set)]
  /\ sends' = [i \in DOMAIN sends |-> [sends[i] EXCEPT !.mounted = FALSE]]
  /\ UNCHANGED <<kind, native, server, query>>

-----------------------------------------------------------------------------
(* The requests.                                                           *)

Mine(op) == {i \in DOMAIN sends : sends[i].op = op /\ sends[i].mounted}

Send(op, row) ==
  /\ count < MaxSends /\ count' = count + 1 /\ UNCHANGED <<edits, events>>
  /\ sends' = Append(sends, [op |-> op, row |-> row, mounted |-> TRUE, phase |-> "sent",
                             answer |-> "ok"])

\* Faulty variant: nothing keeps the button from a second press.
Submittable_Always == step = 4

\* The button of the last look, locked until the request it sent has ended.
Submittable == step = 4 /\ Mine("create") = {}

HandleSubmit ==
  /\ Shown /\ Submittable
  /\ Send("create", draft)
  /\ error' = None /\ changed' = FALSE
  /\ UNCHANGED <<kind, native, step, draft, shown, made, lost, server, query>>

\* A pending invite of the list, after a question; the wizard stays where it is.
Revoke(row) ==
  /\ kind = "invite" /\ step = 1 /\ row \in list.set
  /\ native /\ Mine("revoke") = {}
  /\ Send("revoke", row)
  /\ UNCHANGED <<kind, native, wizard, server, query>>

\* Create: one active challenge per habit, of those shared; CreateInvite: up to the cap.
Verdict(row) ==
  CASE kind = "challenge" /\ row.habit \notin shared -> "invalid"
    [] kind = "challenge" /\ row.habit \in shared
         /\ \E i \in DOMAIN rows : rows[i].habit = row.habit -> "conflict"
    [] kind = "invite" /\ Len(rows) >= Cap -> "conflict"
    [] OTHER -> "ok"

Answer(i, answer) == sends' = [sends EXCEPT ![i].phase = "answered", ![i].answer = answer]

HandleCreate(i) ==
  LET s == sends[i]
  IN /\ s.op = "create" /\ s.phase = "sent"
     /\ Answer(i, Verdict(s.row))
     /\ rows' = IF Verdict(s.row) = "ok" THEN Append(rows, s.row) ELSE rows
     /\ made' = made + IF Verdict(s.row) = "ok" /\ s.mounted THEN 1 ELSE 0
     /\ UNCHANGED <<kind, native, step, draft, changed, error, shown, lost, shared, query, counts>>

\* RevokeInvite answers alike when the invite is no longer pending.
HandleRevoke(i) ==
  LET s == sends[i]
  IN /\ s.op = "revoke" /\ s.phase = "sent"
     /\ Answer(i, "ok")
     /\ rows' = RemoveFirst(rows, s.row)
     /\ UNCHANGED <<kind, native, wizard, shared, query, counts>>

Lose(i) ==
  /\ sends[i].phase \in {"sent", "answered"} /\ sends[i].answer # "failed" /\ MayOccur
  /\ lost' = lost + IF sends[i].op = "create" /\ sends[i].mounted /\ sends[i].phase = "answered"
                    THEN 1 ELSE 0
  /\ Answer(i, "failed")
  /\ UNCHANGED <<kind, native, step, draft, changed, error, shown, made, server, query>>

\* onSuccess first fetches the invites again, and waits for them.
Refetch(i) ==
  /\ sends[i].phase = "answered" /\ sends[i].answer = "ok" /\ kind = "invite"
  /\ sends' = [sends EXCEPT ![i].phase = "settling"]
  /\ fetch' = [NoFetch EXCEPT !.phase = "sent"]
  /\ UNCHANGED <<kind, native, wizard, server, list, counts>>

Settled(i) ==
  LET s == sends[i]
  IN \/ s.phase = "settling" /\ fetch = NoFetch
     \/ s.phase = "answered" /\ (s.answer # "ok" \/ kind = "challenge")

\* The wizard that asked goes to its last step from wherever it is, or says what went wrong.
End(i) ==
  LET s == sends[i]
  IN /\ Settled(i)
     /\ sends' = RemoveAt(sends, i)
     /\ IF s.op = "create" /\ s.mounted
        THEN IF s.answer = "ok"
             THEN step' = 5 /\ shown' = s.row /\ error' = error
             ELSE error' = s.answer /\ UNCHANGED <<step, shown>>
        ELSE UNCHANGED <<step, shown, error>>
     /\ UNCHANGED <<kind, native, draft, changed, made, lost, server, query, counts>>

-----------------------------------------------------------------------------
(* The cached list.                                                        *)

HandleFetch ==
  /\ fetch.phase = "sent"
  /\ fetch' = [phase |-> "answered", set |-> Truth]
  /\ UNCHANGED <<kind, native, wizard, server, list, sends, counts>>

\* A profile that arrives, or changed, with a single habit selects it, over the user's choice.
Deliver ==
  /\ fetch.phase = "answered"
  /\ list' = [read |-> TRUE, set |-> fetch.set] /\ fetch' = NoFetch
  /\ draft' = IF list' # list /\ Single(list'.set) # None
              THEN [draft EXCEPT !.habit = Single(list'.set)] ELSE draft
  /\ changed' = (changed \/ draft' # draft)
  /\ UNCHANGED <<kind, native, step, error, shown, made, lost, server, sends, counts>>

FailFetch ==
  /\ fetch.phase # "idle" /\ MayOccur
  /\ fetch' = NoFetch
  /\ UNCHANGED <<kind, native, wizard, server, list, sends>>

\* The retry of the error page, or the focus.
Focus ==
  /\ fetch = NoFetch
  /\ IF list.read THEN MayOccur ELSE UNCHANGED counts
  /\ fetch' = [NoFetch EXCEPT !.phase = "sent"]
  /\ UNCHANGED <<kind, native, wizard, server, list, sends>>

\* The friend shares other habits; an invite is claimed, or a challenge ends.
Elsewhere ==
  /\ MayOccur
  /\ \/ \E set \in SUBSET Habits : set # shared /\ kind = "challenge" /\ shared' = set /\ rows' = rows
     \/ \E i \in DOMAIN rows : rows' = RemoveAt(rows, i) /\ shared' = shared
  /\ UNCHANGED <<kind, native, wizard, query, sends>>

Init ==
  /\ kind \in {"challenge", "invite"} /\ native \in BOOLEAN
  /\ rows = <<>> /\ shared \in IF kind = "challenge" THEN SUBSET Habits ELSE {{}}
  /\ list = Unread /\ fetch = [NoFetch EXCEPT !.phase = "sent"]
  /\ step = 1 /\ draft = Blank /\ changed = FALSE /\ error = None /\ shown = NoRow
  /\ made = 0 /\ lost = 0 /\ sends = <<>> /\ edits = 0 /\ events = 0 /\ count = 0

Next ==
  \/ GoNext \/ GoBack \/ Reopen \/ HandleSubmit \/ HandleFetch \/ Deliver \/ FailFetch \/ Focus
  \/ Elsewhere
  \/ \E h \in Habits : SelectHabit(h) \/ ProposeHabit(h)
  \/ \E up \in BOOLEAN : SetTarget(up)
  \/ \E r \in Rewards : SetReward(r)
  \/ \E row \in list.set : kind = "invite" /\ Revoke(row)
  \/ \E i \in DOMAIN sends : HandleCreate(i) \/ HandleRevoke(i) \/ Lose(i) \/ Refetch(i) \/ End(i)

Spec == Init /\ [][Next]_vars

-----------------------------------------------------------------------------
(* Properties.                                                             *)

TypeOK ==
  /\ step \in 1 .. 5 /\ draft.habit \in Habits \cup {None} /\ draft.target \in 1 .. MaxTarget
  /\ draft.reward \in Rewards \cup {None} /\ changed \in BOOLEAN
  /\ fetch.phase \in {"idle", "sent", "answered"}
  /\ error \in {None, "invalid", "conflict", "failed"}
  /\ \A i \in DOMAIN sends : sends[i].answer \in {"ok", "invalid", "conflict", "failed"}
  /\ kind = "invite" => Len(rows) <= Cap

\* However the user goes back and forth while a request is under way, loses answers and tries
\* again, one opening of a wizard sets one challenge, or one more for every answer that was
\* lost; and what its last step tells of, in the words of the draft, is what was set, unless
\* the draft was changed while it was being sent (the share message is then a false one).
SetOnce ==
  /\ made <= 1 + lost
  /\ step = 5 => made >= 1 /\ (changed \/ shown = draft)
=============================================================================
