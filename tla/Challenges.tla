----------------------------- MODULE Challenges -----------------------------
(***************************************************************************)
(* The challenge tables and handlers of backend/internal/challenges: the   *)
(* progress engine that runs after every habit completion, the create,     *)
(* list, claim and cancel endpoints, and the account-deletion cascade, as  *)
(* concurrent requests over one PostgreSQL database at READ COMMITTED.     *)
(*                                                                         *)
(* A request is a process with a pc.  Each SQL statement outside a         *)
(* transaction is one step.  The engine's transaction keeps the rows it    *)
(* read in `todo', writes them back one UPDATE at a time into `writes'     *)
(* (a row in writes[r] is locked by r and invisible to the others) and     *)
(* installs them at commit.  An UPDATE of a locked row waits; two engines  *)
(* that wait for each other are a deadlock, which PostgreSQL ends by       *)
(* aborting one of them.                                                   *)
(*                                                                         *)
(* Time is counted in UTC days.  A consistency score is a natural number   *)
(* up to MaxLevel; the progress in [0,1] is counted in units of            *)
(* 1/target, so that 1.0 is the value target.                              *)
(***************************************************************************)
EXTENDS Integers, FiniteSets

CONSTANTS
  Users,          \* accounts
  Habits,         \* habits
  Requests,       \* the HTTP requests that may be in flight at once
  Owner,          \* Owner[h]: the user who logs completions of habit h
  Offers,         \* the create-challenge payloads clients may send
  Filters,        \* the statuses a client may ask the list for
  MaxLevel,       \* highest consistency score
  Backdate,       \* how many days back a completion may be logged (59 in the code)
  Skew,           \* how far a user's local date may run ahead of UTC (0 or 1)
  MaxDay,         \* bound on the clock
  MaxRows,        \* bound on the challenges ever created
  MaxClaims       \* bound on the successful claims counted per challenge

ConsistencyTarget    == "ConsistencyTarget"
DaysInPeriod         == "DaysInPeriod"
TotalCompletions     == "TotalCompletions"
CustomDateRange      == "CustomDateRange"
ImprovementMilestone == "ImprovementMilestone"

MilestoneTypes == {ConsistencyTarget, DaysInPeriod, TotalCompletions,
                   CustomDateRange, ImprovementMilestone}
CountTypes     == {DaysInPeriod, TotalCompletions}
DedupTypes     == CountTypes \cup {CustomDateRange}

Statuses == {"Active", "Completed", "Claimed", "Cancelled", "Expired"}

None    == -1                         \* SQL NULL in a numeric column
Levels  == 0 .. MaxLevel
Days    == (0 - Backdate) .. (MaxDay + Skew)

\* A payload names its custom range only for CustomDateRange; the other
\* types get their end from the period.
Offer == [creator: Users, recipient: Users, habit: Habits, type: MilestoneTypes,
          target: Nat \ {0}, period: Nat \ {0}, start: Int, end: Int]

ASSUME ConstantsAssumption ==
  /\ Owner \in [Habits -> Users]
  /\ Offers \subseteq Offer
  /\ \A o \in Offers : o.creator # o.recipient
  /\ \A o \in Offers : o.type = CustomDateRange => o.start < o.end
  /\ Filters \subseteq Statuses
  /\ MaxLevel \in Nat /\ Backdate \in Nat /\ Skew \in {0, 1}
  /\ MaxDay \in Nat /\ MaxRows \in Nat /\ MaxClaims \in Nat

VARIABLES
  now,            \* today, in UTC
  accounts,       \* the users whose account exists
  completions,    \* habit completions: a set of <<habit, date>>
  rows,           \* the challenges table: id -> row
  minted,         \* how many ids the table has handed out
  notifications,  \* notification rows, by idempotency key
  pc,             \* per request: the next step of its handler
  job,            \* per request: the input of its handler
  todo,           \* per request: engine rows read and not yet processed
  turn,           \* per request: the engine row the loop is at
  writes,         \* per request: uncommitted row versions, each one locked
  announced,      \* per request: uncommitted notification rows
  everLogged,     \* history: every <<habit, date>> ever completed
  claims,         \* history: successful claims per challenge id
  reverted        \* history: reached challenges a stale engine made Active again

dbVars   == <<rows, minted, notifications>>
reqVars  == <<pc, job, todo, turn, writes, announced>>
histVars == <<everLogged, claims, reverted>>
envVars  == <<now, accounts, completions>>
vars     == <<envVars, dbVars, reqVars, histVars>>

Ids == 1 .. MaxRows

Row == [creator: Users, recipient: Users, habit: Habits, type: MilestoneTypes,
        target: Nat \ {0}, from: Int, ends: Int, status: Statuses,
        progress: Nat, count: Nat, dates: SUBSET Days,
        baseline: Levels \cup {None}, completedAt: BOOLEAN, claimedAt: BOOLEAN]

Event  == [habit: Habits, user: Users, date: Days, level: Levels]
Create == [offer: Offers, at: Days]   \* the payload and the handler's clock reading
ById   == [id: Ids]
NoJob  == [id |-> None]

\* A list request: the clock reading its filter uses, and the rows it found.
Listing == [viewer: Users, status: Filters, at: 0 .. MaxDay, found: SUBSET Row]

Jobs == Event \cup Create \cup ById \cup Listing \cup {NoJob}

PCs == {"idle", "list", "apply", "commit", "expire", "insert", "claim", "cancel",
        "select", "show"}

Notification == [kind: {"challenge_created", "challenge_completed"},
                 user: Users, id: Ids]

NoRows == [c \in {} |-> {}]           \* the empty table

Min2(a, b) == IF a < b THEN a ELSE b

-----------------------------------------------------------------------------
(* Pure parts: derived status, milestone arithmetic, one completion.       *)

Triple(row) == <<row.creator, row.recipient, row.habit>>

\* EffectiveStatus: an Active row past its end is shown as expired.
EffectiveStatus(row, t) ==
  IF row.status = "Active" /\ row.ends <= t THEN "Expired" ELSE row.status

\* Faulty variant: the filter trusts the stored status.
MatchesFilter_Stored(row, status, t) == row.status = status

\* buildListWhere: the SQL filter behind ?status=...
MatchesFilter(row, status, t) ==
  CASE status = "Active"  -> row.status = "Active" /\ row.ends > t
    [] status = "Expired" -> \/ row.status = "Expired"
                             \/ row.status = "Active" /\ row.ends <= t
    [] OTHER              -> row.status = status

\* Faulty variant: clamp01 without its lower bound.
CalculateProgress_NoClamp(row, level) ==
  IF row.type \in CountTypes THEN Min2(row.count, row.target)
  ELSE IF row.type = ImprovementMilestone
       THEN Min2(level - (IF row.baseline = None THEN 0 ELSE row.baseline), row.target)
       ELSE Min2(level, row.target)

\* CalculateProgress, in units of 1/target; level is the consistency the
\* milestone context carries.
CalculateProgress(row, level) ==
  IF row.type \in CountTypes THEN Min2(row.count, row.target)
  ELSE IF row.type = ImprovementMilestone
       THEN LET base == IF row.baseline = None THEN 0 ELSE row.baseline
            IN  IF level <= base THEN 0 ELSE Min2(level - base, row.target)
       ELSE Min2(level, row.target)

\* Faulty variant: strictly more than the target is asked for.
IsMilestoneReached_Strict(row, level) ==
  IF row.type \in CountTypes THEN row.count > row.target
  ELSE IF row.type = ImprovementMilestone
       THEN CalculateProgress(row, level) >= row.target
       ELSE level > row.target

IsMilestoneReached(row, level) ==
  IF row.type \in CountTypes THEN row.count >= row.target
  ELSE IF row.type = ImprovementMilestone
       THEN CalculateProgress(row, level) >= row.target
       ELSE level >= row.target

\* The date gates at the head of applyCompletion.
Eligible(row, date) ==
  /\ row.type # ConsistencyTarget => date >= row.from
  /\ row.type \in DedupTypes => date \notin row.dates

\* SetProcessedDates: the set and its size are written together.
WithDate(row, date) ==
  [row EXCEPT !.dates = @ \cup {date}, !.count = Cardinality(row.dates \cup {date})]

\* The in-memory row after an eligible completion: date set or baseline,
\* progress, and the Completed transition.  `range' is the consistency of the
\* custom range, read only for CustomDateRange.
Progressed(row, ev, range) ==
  LET dated  == IF row.type \in DedupTypes THEN WithDate(row, ev.date) ELSE row
      based  == IF row.type = ImprovementMilestone /\ row.baseline = None
                THEN [dated EXCEPT !.baseline = ev.level] ELSE dated
      level  == IF row.type = CustomDateRange THEN range ELSE ev.level
  IN  IF IsMilestoneReached(based, level)
      THEN [based EXCEPT !.status = "Completed", !.progress = row.target,
                         !.completedAt = TRUE]
      ELSE [based EXCEPT !.progress = CalculateProgress(based, level)]

\* Faulty variant: completion_count is left out of the SET list.
Overwrite_NoCount(stored, row) ==
  [stored EXCEPT !.progress = row.progress, !.dates = row.dates,
                 !.baseline = row.baseline, !.status = row.status,
                 !.completedAt = row.completedAt]

\* updateChallengeProgress: the columns its SET list overwrites, on top of
\* whatever version of the row is committed by then.
Overwrite(stored, row) ==
  [stored EXCEPT !.progress = row.progress, !.count = row.count,
                 !.dates = row.dates, !.baseline = row.baseline,
                 !.status = row.status, !.completedAt = row.completedAt]

-----------------------------------------------------------------------------
(* Locks and the partial unique index on (creator, recipient, habit).      *)

LockedByOther(r, c) == \E q \in Requests \ {r} : c \in DOMAIN writes[q]

\* q holds a version of a row that is, or will be, Active for this triple: an
\* index insertion has to wait for the outcome of q's transaction.
IndexHeldBy(q, triple) ==
  \E d \in DOMAIN writes[q] :
    /\ Triple(rows[d]) = triple
    /\ rows[d].status = "Active" \/ writes[q][d].status = "Active"

IndexBusy(r, triple) == \E q \in Requests \ {r} : IndexHeldBy(q, triple)

\* Faulty variant: no partial unique index.
IndexTaken_NoIndex(c, triple) == FALSE

IndexTaken(c, triple) ==
  \E d \in DOMAIN rows \ {c} : Triple(rows[d]) = triple /\ rows[d].status = "Active"

\* The committed row has left Active since the engine read it, so writing
\* Active back is an insertion into the index.
Reenters(c) == c \in DOMAIN rows /\ rows[c].status # "Active"

-----------------------------------------------------------------------------
(* Moving one request.                                                     *)

Begin(r, step, j) ==
  /\ pc[r] = "idle"
  /\ pc' = [pc EXCEPT ![r] = step]
  /\ job' = [job EXCEPT ![r] = j]
  /\ UNCHANGED <<todo, turn, writes, announced>>

\* Faulty variant: a handler that returns without ending its transaction.
Return_LeaksLocks(r) ==
  /\ pc' = [pc EXCEPT ![r] = "idle"]
  /\ job' = [job EXCEPT ![r] = NoJob]
  /\ todo' = [todo EXCEPT ![r] = NoRows]
  /\ turn' = [turn EXCEPT ![r] = None]
  /\ UNCHANGED <<writes, announced>>

\* The handler returns; an open transaction's rows and locks are released.
Return(r) ==
  /\ pc' = [pc EXCEPT ![r] = "idle"]
  /\ job' = [job EXCEPT ![r] = NoJob]
  /\ todo' = [todo EXCEPT ![r] = NoRows]
  /\ turn' = [turn EXCEPT ![r] = None]
  /\ writes' = [writes EXCEPT ![r] = NoRows]
  /\ announced' = [announced EXCEPT ![r] = {}]

\* The loop of handleHabitCompleted moves to another row, or to the commit.
\* The query has no ORDER BY, so the order is any.
NextRow(r) ==
  LET rest == DOMAIN todo[r] \ {turn[r]}
  IN  /\ todo' = [todo EXCEPT ![r] = [c \in rest |-> todo[r][c]]]
      /\ \/ /\ rest = {}
            /\ turn' = [turn EXCEPT ![r] = None]
            /\ pc' = [pc EXCEPT ![r] = "commit"]
         \/ /\ \E c \in rest : turn' = [turn EXCEPT ![r] = c]
            /\ pc' = pc

-----------------------------------------------------------------------------
(* The progress engine.                                                    *)

\* Faulty variant: the event carries the server's date, not the user's.
CompleteHabit_UtcDate(r, h, d, k) ==
  /\ Owner[h] \in accounts
  /\ d \in (now - Backdate) .. (now + Skew)
  /\ <<h, d>> \notin completions
  /\ Begin(r, "list", [habit |-> h, user |-> Owner[h], date |-> now, level |-> k])
  /\ completions' = completions \cup {<<h, d>>}
  /\ everLogged' = everLogged \cup {<<h, d>>}
  /\ UNCHANGED <<now, accounts, dbVars, claims, reverted>>

\* habits.CompleteHabit: the completion row is committed (409 when the date is
\* taken), then habit.completed is emitted; this request goes on as its handler.
CompleteHabit(r, h, d, k) ==
  /\ Owner[h] \in accounts
  /\ d \in (now - Backdate) .. (now + Skew)
  /\ <<h, d>> \notin completions
  /\ Begin(r, "list", [habit |-> h, user |-> Owner[h], date |-> d, level |-> k])
  /\ completions' = completions \cup {<<h, d>>}
  /\ everLogged' = everLogged \cup {<<h, d>>}
  /\ UNCHANGED <<now, accounts, dbVars, claims, reverted>>

\* habits.DeleteCompletion: no event, so the challenges are left as they are.
DeleteCompletion(h, d) ==
  /\ <<h, d>> \in completions
  /\ completions' = completions \ {<<h, d>>}
  /\ UNCHANGED <<now, accounts, dbVars, reqVars, histVars>>

\* Begin, and the plain SELECT of listActiveForHabitRecipient: no row is locked.
ListActive(r) ==
  /\ pc[r] = "list"
  /\ LET ev   == job[r]
         hits == {c \in DOMAIN rows : /\ rows[c].habit = ev.habit
                                      /\ rows[c].recipient = ev.user
                                      /\ rows[c].status = "Active"
                                      /\ rows[c].ends > now}
     IN  \/ /\ hits = {}
            /\ Return(r)
         \/ /\ \E c \in hits : turn' = [turn EXCEPT ![r] = c]
            /\ todo' = [todo EXCEPT ![r] = [c \in hits |-> rows[c]]]
            /\ pc' = [pc EXCEPT ![r] = "apply"]
            /\ UNCHANGED <<job, writes, announced>>
  /\ UNCHANGED <<envVars, dbVars, histVars>>

\* applyCompletion returns early: the date is outside the gates, or the custom
\* range's consistency is unavailable (lookup error or habit gone).
SkipRow(r) ==
  /\ pc[r] = "apply"
  /\ LET row == todo[r][turn[r]]
     IN  ~Eligible(row, job[r].date) \/ row.type = CustomDateRange
  /\ NextRow(r)
  /\ UNCHANGED <<job, writes, announced, envVars, dbVars, histVars>>

\* applyCompletion persists the row it computed from its snapshot.  The UPDATE
\* is by id alone; a row deleted in the meantime is simply not matched, and the
\* ChallengeCompleted handler still inserts its notification.
UpdateProgress(r, range) ==
  /\ pc[r] = "apply"
  /\ LET c   == turn[r]
         new == Progressed(todo[r][c], job[r], range)
     IN  /\ Eligible(todo[r][c], job[r].date)
         /\ ~LockedByOther(r, c)
         /\ Reenters(c) /\ new.status = "Active" =>
              ~IndexBusy(r, Triple(new)) /\ ~IndexTaken(c, Triple(new))
         /\ writes' = [writes EXCEPT ![r] =
              IF c \notin DOMAIN rows THEN @
              ELSE [d \in DOMAIN @ \cup {c} |->
                      IF d = c THEN Overwrite(rows[c], new) ELSE @[d]]]
         /\ announced' = [announced EXCEPT ![r] =
              IF new.status # "Completed" THEN @
              ELSE @ \cup {[kind |-> "challenge_completed",
                            user |-> job[r].user, id |-> c]}]
  /\ NextRow(r)
  /\ UNCHANGED <<job, envVars, dbVars, histVars>>

\* The UPDATE would make a second Active row of the triple: unique violation,
\* and the whole transaction rolls back.
UniqueViolation(r, range) ==
  /\ pc[r] = "apply"
  /\ LET c   == turn[r]
         new == Progressed(todo[r][c], job[r], range)
     IN  /\ Eligible(todo[r][c], job[r].date)
         /\ ~LockedByOther(r, c)
         /\ Reenters(c) /\ new.status = "Active"
         /\ ~IndexBusy(r, Triple(new)) /\ IndexTaken(c, Triple(new))
  /\ Return(r)
  /\ UNCHANGED <<envVars, dbVars, histVars>>

\* A challenge whose reward has been reached.
Reached(row) == row.status \in {"Completed", "Claimed"}

\* The committed rows that are reached and that r is about to make Active again,
\* less those it completes anew.
RevertedBy(r) ==
  LET upon == {c \in DOMAIN writes[r] : c \in DOMAIN rows}
  IN  (reverted \cup {c \in upon : Reached(rows[c])})
        \ {c \in upon : Reached(writes[r][c])}

\* Faulty variant: the event is emitted after the commit and can be lost.
CommitProgress_EmitLost(r) ==
  /\ pc[r] = "commit"
  /\ rows' = [c \in DOMAIN rows |->
                IF c \in DOMAIN writes[r] THEN writes[r][c] ELSE rows[c]]
  /\ reverted' = RevertedBy(r)
  /\ Return(r)
  /\ UNCHANGED <<minted, notifications, everLogged, claims, envVars>>

CommitProgress(r) ==
  /\ pc[r] = "commit"
  /\ rows' = [c \in DOMAIN rows |->
                IF c \in DOMAIN writes[r] THEN writes[r][c] ELSE rows[c]]
  /\ notifications' = notifications \cup announced[r]
  /\ reverted' = RevertedBy(r)
  /\ Return(r)
  /\ UNCHANGED <<minted, everLogged, claims, envVars>>

\* r's current UPDATE waits for q to end its transaction.
WaitsFor(r, q) ==
  /\ r # q /\ pc[r] = "apply"
  /\ Eligible(todo[r][turn[r]], job[r].date)
  /\ \/ turn[r] \in DOMAIN writes[q]
     \/ Reenters(turn[r]) /\ IndexHeldBy(q, Triple(todo[r][turn[r]]))

\* PostgreSQL's deadlock detector aborts one transaction of a wait cycle.
DeadlockAbort(r) ==
  /\ \E S \in SUBSET Requests :
       r \in S /\ \A s \in S : \E q \in S : WaitsFor(s, q)
  /\ Return(r)
  /\ UNCHANGED <<envVars, dbVars, histVars>>

-----------------------------------------------------------------------------
(* Create, claim and cancel.                                               *)

\* Service.Create up to the friendship check, which has passed: friends have
\* accounts.  A refused payload changes nothing.
StartCreate(r, o) ==
  /\ {o.creator, o.recipient} \subseteq accounts
  /\ o.type = CustomDateRange => o.end > now
  /\ minted + Cardinality({q \in Requests : pc[q] \in {"expire", "insert"}}) < MaxRows
  /\ Begin(r, "expire", [offer |-> o, at |-> now])
  /\ UNCHANGED <<envVars, dbVars, histVars>>

OfferTriple(o) == <<o.creator, o.recipient, o.habit>>

ExpireStaleActive(r) ==
  /\ pc[r] = "expire"
  /\ LET stale == {c \in DOMAIN rows : /\ Triple(rows[c]) = OfferTriple(job[r].offer)
                                       /\ rows[c].status = "Active"
                                       /\ rows[c].ends <= job[r].at}
     IN  /\ \A c \in stale : ~LockedByOther(r, c)
         /\ rows' = [c \in DOMAIN rows |->
                       IF c \in stale THEN [rows[c] EXCEPT !.status = "Expired"]
                       ELSE rows[c]]
  /\ pc' = [pc EXCEPT ![r] = "insert"]
  /\ UNCHANGED <<job, todo, turn, writes, announced, minted, notifications,
                 envVars, histVars>>

NewRow(o, at) ==
  [creator |-> o.creator, recipient |-> o.recipient, habit |-> o.habit,
   type |-> o.type, target |-> o.target,
   from |-> IF o.type = CustomDateRange THEN o.start ELSE now,
   ends |-> IF o.type = CustomDateRange THEN o.end ELSE at + o.period,
   status |-> "Active", progress |-> 0, count |-> 0, dates |-> {},
   baseline |-> None, completedAt |-> FALSE, claimedAt |-> FALSE]

\* The insert, ChallengeCreated's notification and the commit, or the conflict
\* the unique index reports.
InsertChallenge(r) ==
  /\ pc[r] = "insert"
  /\ LET o   == job[r].offer
         new == minted + 1
     IN  /\ ~IndexBusy(r, OfferTriple(o))
         /\ \/ /\ IndexTaken(new, OfferTriple(o))
               /\ UNCHANGED <<dbVars, histVars>>
            \/ /\ ~IndexTaken(new, OfferTriple(o))
               /\ minted < MaxRows
               /\ minted' = new
               /\ rows' = [c \in DOMAIN rows \cup {new} |->
                             IF c = new THEN NewRow(o, job[r].at) ELSE rows[c]]
               /\ notifications' = notifications \cup
                    {[kind |-> "challenge_created", user |-> o.recipient, id |-> new]}
               /\ UNCHANGED histVars
  /\ Return(r)
  /\ UNCHANGED envVars

\* Service.Claim: read and pre-check, then the guarded UPDATE.
StartClaim(r, c, u) ==
  /\ c \in DOMAIN rows /\ u \in accounts \cap {rows[c].creator, rows[c].recipient}
  /\ rows[c].status = "Completed"
  /\ claims[c] < MaxClaims
  /\ Begin(r, "claim", [id |-> c])
  /\ UNCHANGED <<envVars, dbVars, histVars>>

UpdateClaimed(r) ==
  /\ pc[r] = "claim"
  /\ LET c == job[r].id
     IN  /\ ~LockedByOther(r, c)
         /\ \/ /\ c \in DOMAIN rows /\ rows[c].status = "Completed"
               /\ rows' = [rows EXCEPT ![c].status = "Claimed", ![c].claimedAt = TRUE]
               /\ claims' = [claims EXCEPT ![c] = @ + 1]
            \/ /\ ~(c \in DOMAIN rows /\ rows[c].status = "Completed")
               /\ UNCHANGED <<rows, claims>>
  /\ Return(r)
  /\ UNCHANGED <<minted, notifications, everLogged, reverted, envVars>>

\* Faulty variant: a reached challenge can be cancelled.
Cancellable_Reached(row) == row.status # "Claimed"

\* Service.Cancel: the creator's read and pre-check, then the guarded UPDATE.
Cancellable(row) == row.status \notin {"Completed", "Claimed"}

StartCancel(r, c) ==
  /\ c \in DOMAIN rows /\ rows[c].creator \in accounts
  /\ Cancellable(rows[c])
  /\ Begin(r, "cancel", [id |-> c])
  /\ UNCHANGED <<envVars, dbVars, histVars>>

\* Faulty variant: the UPDATE relies on the pre-check.
UpdateCancelled_Unguarded(r) ==
  /\ pc[r] = "cancel"
  /\ LET c == job[r].id
     IN  /\ ~LockedByOther(r, c)
         /\ c \in DOMAIN rows
         /\ rows' = [rows EXCEPT ![c].status = "Cancelled"]
  /\ Return(r)
  /\ UNCHANGED <<minted, notifications, envVars, histVars>>

UpdateCancelled(r) ==
  /\ pc[r] = "cancel"
  /\ LET c == job[r].id
     IN  /\ ~LockedByOther(r, c)
         /\ \/ /\ c \in DOMAIN rows /\ Cancellable(rows[c])
               /\ rows' = [rows EXCEPT ![c].status = "Cancelled"]
            \/ /\ ~(c \in DOMAIN rows /\ Cancellable(rows[c]))
               /\ rows' = rows
  /\ Return(r)
  /\ UNCHANGED <<minted, notifications, envVars, histVars>>

-----------------------------------------------------------------------------
(* List.                                                                   *)

\* Service.List: the clock is read for the SQL filter; then the queries run.
StartList(r, u, s) ==
  /\ u \in accounts
  /\ Begin(r, "select", [viewer |-> u, status |-> s, at |-> now, found |-> {}])
  /\ UNCHANGED <<envVars, dbVars, histVars>>

SelectRows(r) ==
  /\ pc[r] = "select"
  /\ LET mine  == {c \in DOMAIN rows : job[r].viewer \in {rows[c].creator, rows[c].recipient}}
         found == {rows[c] : c \in {d \in mine : MatchesFilter(rows[d], job[r].status, job[r].at)}}
     IN  job' = [job EXCEPT ![r].found = found]
  /\ pc' = [pc EXCEPT ![r] = "show"]
  /\ UNCHANGED <<todo, turn, writes, announced, envVars, dbVars, histVars>>

\* The display names have been fetched; the clock is read a second time, for the
\* status each row shows, and the page is returned.
Show(r) ==
  /\ pc[r] = "show"
  /\ Return(r)
  /\ UNCHANGED <<envVars, dbVars, histVars>>

-----------------------------------------------------------------------------
(* Account deletion, failures and the clock.                               *)

\* The user.deleted cascade, one transaction: the DELETE waits for rows that
\* are locked, and does not see rows that are not committed yet.
DeleteAccount(u) ==
  LET doomed == {c \in DOMAIN rows : u \in {rows[c].creator, rows[c].recipient}}
  IN  /\ u \in accounts
      /\ \A c \in doomed, q \in Requests : c \notin DOMAIN writes[q]
      /\ accounts' = accounts \ {u}
      /\ completions' = {hd \in completions : Owner[hd[1]] # u}
      /\ rows' = [c \in DOMAIN rows \ doomed |-> rows[c]]
      /\ notifications' = {n \in notifications : n.user # u}
      /\ UNCHANGED <<now, minted, reqVars, histVars>>

\* A database error, a cancelled request context or a crash of the process:
\* the open transaction is lost, and so is an event not yet handled.
Interrupt(r) ==
  /\ pc[r] # "idle"
  /\ Return(r)
  /\ UNCHANGED <<envVars, dbVars, histVars>>

Tick ==
  /\ now < MaxDay
  /\ now' = now + 1
  /\ UNCHANGED <<accounts, completions, dbVars, reqVars, histVars>>

-----------------------------------------------------------------------------

Init ==
  /\ now = 0 /\ accounts = Users /\ completions = {}
  /\ rows = NoRows /\ minted = 0 /\ notifications = {}
  /\ pc = [r \in Requests |-> "idle"] /\ job = [r \in Requests |-> NoJob]
  /\ todo = [r \in Requests |-> NoRows] /\ turn = [r \in Requests |-> None]
  /\ writes = [r \in Requests |-> NoRows] /\ announced = [r \in Requests |-> {}]
  /\ everLogged = {} /\ claims = [c \in Ids |-> 0] /\ reverted = {}

\* What a request that has been accepted does next.
Step(r) ==
  \/ ListActive(r) \/ SkipRow(r) \/ CommitProgress(r) \/ DeadlockAbort(r)
  \/ \E range \in Levels : UpdateProgress(r, range) \/ UniqueViolation(r, range)
  \/ ExpireStaleActive(r) \/ InsertChallenge(r)
  \/ UpdateClaimed(r) \/ UpdateCancelled(r)
  \/ SelectRows(r) \/ Show(r)

Arrive(r) ==
  \/ \E h \in Habits, d \in Days, k \in Levels : CompleteHabit(r, h, d, k)
  \/ \E o \in Offers : StartCreate(r, o)
  \/ \E c \in Ids, u \in Users : StartClaim(r, c, u)
  \/ \E c \in Ids : StartCancel(r, c)
  \/ \E u \in Users, s \in Filters : StartList(r, u, s)

Next ==
  \/ \E r \in Requests : Arrive(r) \/ Step(r) \/ Interrupt(r)
  \/ \E h \in Habits, d \in Days : DeleteCompletion(h, d)
  \/ \E u \in Users : DeleteAccount(u)
  \/ Tick

\* A request's goroutine is scheduled, and PostgreSQL grants row locks in the
\* order they were asked for: a step that keeps becoming possible is taken.
Fairness == \A r \in Requests : SF_vars(Step(r))

Spec     == Init /\ [][Next]_vars
FairSpec == Spec /\ Fairness

-----------------------------------------------------------------------------
(* Properties.                                                             *)

\* A table of rows by id, or the part of it a request holds.
IsTable(f) == DOMAIN f \subseteq Ids /\ f \in [DOMAIN f -> Row]
HoldTables(f) == f = [r \in Requests |-> f[r]] /\ \A r \in Requests : IsTable(f[r])

\* Every variable keeps the shape the handlers give it; in particular a row the
\* engine reads back or writes is always a whole, well-formed row.
TypeOK ==
  /\ now \in 0 .. MaxDay
  /\ accounts \subseteq Users
  /\ completions \subseteq Habits \X Days /\ everLogged \subseteq Habits \X Days
  /\ minted \in 0 .. MaxRows
  /\ IsTable(rows) /\ DOMAIN rows \subseteq 1 .. minted
  /\ notifications \subseteq Notification
  /\ pc \in [Requests -> PCs]
  /\ job \in [Requests -> Jobs]
  /\ turn \in [Requests -> Ids \cup {None}]
  /\ HoldTables(todo) /\ HoldTables(writes)
  /\ announced \in [Requests -> SUBSET Notification]
  /\ claims \in [Ids -> Nat] /\ reverted \subseteq Ids

\* A row's counters tell one story, whichever stale snapshots were written over
\* each other: count is the number of processed dates, no date precedes the
\* challenge, and completed_at, progress 1.0 and a reached count target come
\* and go together.
RowConsistent(row) ==
  /\ row.count = Cardinality(row.dates)
  /\ \A d \in row.dates : row.type \in DedupTypes /\ d >= row.from
  /\ row.completedAt <=> row.status \in {"Completed", "Claimed"}
  /\ row.completedAt <=> row.progress = row.target
  /\ row.type \in CountTypes => (row.completedAt <=> row.count >= row.target)

MilestoneHonoured == \A c \in DOMAIN rows : RowConsistent(rows[c])

\* Every date a challenge counts was logged as a completion of its habit at some
\* time: deleting and logging a date again can never count it twice
\* (ProcessedCompletionDates).
DatesWereLogged ==
  \A c \in DOMAIN rows : \A d \in rows[c].dates : <<rows[c].habit, d>> \in everLogged

\* ix_challenges_unique_active: at most one Active row per creator, recipient
\* and habit, also when the engine writes Active back over an expired row while
\* a new challenge of the same triple is created.
OneActivePerTriple ==
  \A c, d \in DOMAIN rows :
    /\ rows[c].status = "Active" /\ rows[d].status = "Active"
    /\ Triple(rows[c]) = Triple(rows[d])
    => c = d

\* ChallengeCompleted is emitted in the transaction that writes Completed: a
\* challenge seen as completed or claimed has its recipient's notification.
CompletedIsAnnounced ==
  \A c \in DOMAIN rows :
    rows[c].completedAt =>
      [kind |-> "challenge_completed", user |-> rows[c].recipient, id |-> c]
        \in notifications

\* A reward once announced to the recipient stays reached until it is claimed,
\* and claimed after that: whatever creator, engines and expiry do, and although
\* Cancel acts on a status read earlier, its challenge is never found Active,
\* Cancelled or Expired.  Excepted is the one way the code itself takes a reward
\* back: an engine that read the row before it was completed writes Active over
\* it (the UPDATE is by id alone), after which it can be cancelled.
RewardIsSafe ==
  \A c \in DOMAIN rows \ reverted :
    [kind |-> "challenge_completed", user |-> rows[c].recipient, id |-> c]
      \in notifications => Reached(rows[c])

\* List reads the clock for its SQL filter and again for the status each row
\* shows: whatever is written in between, a row shows the status that was asked
\* for, although a lapsed row is still stored as Active.  The one exception is a
\* row found as Active that lapsed since the request began, shown as expired.
ListedAsFiltered ==
  \A r \in Requests : pc[r] = "show" =>
    \A row \in job[r].found :
      \/ EffectiveStatus(row, now) = job[r].status
      \/ /\ job[r].status = "Active" /\ EffectiveStatus(row, now) = "Expired"
         /\ job[r].at < row.ends /\ row.ends <= now

\* Every request is answered: no engine waits for ever on another's row locks.
RequestsFinish == \A r \in Requests : pc[r] # "idle" ~> pc[r] = "idle"

\* The life of every challenge as the participants are promised it.
Life == INSTANCE ChallengeLifecycle WITH
  Dates    <- Days,
  stage    <- [c \in Ids |-> IF c \in DOMAIN rows THEN rows[c].status
                             ELSE IF c <= minted THEN "deleted" ELSE "unborn"],
  credited <- [c \in Ids |-> IF c \in DOMAIN rows THEN rows[c].dates ELSE {}],
  baseline <- [c \in Ids |-> IF c \in DOMAIN rows THEN rows[c].baseline ELSE None]

\* With one request at a time every step of a challenge is a step of that life:
\* nothing leaves Cancelled or Claimed, no counted date and no captured baseline
\* is lost.  (With two, a stale engine breaks it: see ClaimedOnce.)
LifeSpec == Life!Spec

\* store.go:132-134: two claims of one challenge must not both succeed.
ClaimedOnce == \A c \in Ids : claims[c] <= 1
=============================================================================
