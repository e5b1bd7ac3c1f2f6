------------------------------ MODULE Promises ------------------------------
(***************************************************************************)
(* One user's habits, their visibility rows and their flame promises:      *)
(* backend/internal/habits (habit creation and archiving, the promise      *)
(* endpoints) with the visibility part of backend/internal/social, which   *)
(* follows habits through the HabitCreated and HabitArchived events.       *)
(*                                                                         *)
(* A request is a process with a pc.  The promise endpoints run statement  *)
(* by statement with no transaction; archiving is one transaction, whose   *)
(* uncommitted cancellation is in held[r] (that row is locked, and the     *)
(* others still read it as Active).                                        *)
(***************************************************************************)
EXTENDS Integers, FiniteSets

CONSTANTS
  Habits,     \* the habit ids the user's requests may use
  NoHabit,    \* none of them
  Requests,   \* requests that may be in flight at once
  Skew,       \* how far a request's local date may be from the UTC date
  MaxDay,     \* bound on the clock
  MaxRows     \* bound on the promises ever made

ASSUME PromisesAssumption ==
  /\ NoHabit \notin Habits
  /\ Skew \in {0, 1} /\ MaxDay \in Nat /\ MaxRows \in Nat

VARIABLES
  today,      \* the UTC date
  habits,     \* per habit id: "none", "active", "archived" or "gone"
  settings,   \* the habits that have a visibility_settings row
  promises,   \* promises: id -> row
  minted,     \* promise ids handed out
  pc,         \* per request: the next step of its handler
  job,        \* per request: its input and what it has read
  held        \* per request: ids its open transaction has cancelled

dbVars  == <<habits, settings, promises, minted>>
reqVars == <<pc, job, held>>
vars    == <<today, dbVars, reqVars>>

Ids  == 1 .. MaxRows
Days == 0 .. (MaxDay + 1)
Ends == {"Kept", "EndedBelow", "Cancelled"}
None == 0

Promise == [habit: Habits, ends: Days, public: BOOLEAN, status: {"Active"} \cup Ends]
Job     == [op: {"create", "get", "toggle", "archive", "visibility", "cancel", "none"},
            habit: Habits \cup {NoHabit}, ends: Days, public: BOOLEAN,
            id: Ids \cup {None}]
Ask(op, h, ends, public, id) ==
  [op |-> op, habit |-> h, ends |-> ends, public |-> public, id |-> id]
For(op, h) == Ask(op, h, 0, FALSE, None)
NoJob      == For("none", NoHabit)
PCs     == {"idle", "look", "insert", "resolve", "cancel", "toggle", "retire",
            "archive", "setting", "insertSetting", "updateSetting"}

Active(h) == {p \in DOMAIN promises : promises[p].habit = h /\ promises[p].status = "Active"}

\* "today" in the time zone the request names.
LocalDates == (today - Skew) .. (today + Skew)

LockedByOther(r, p) == \E q \in Requests \ {r} : p \in held[q]

-----------------------------------------------------------------------------

Begin(r, step, j) ==
  /\ pc[r] = "idle"
  /\ pc' = [pc EXCEPT ![r] = step]
  /\ job' = [job EXCEPT ![r] = j]
  /\ UNCHANGED held

Go(r, step, id) ==
  /\ pc' = [pc EXCEPT ![r] = step]
  /\ job' = [job EXCEPT ![r].id = id]
  /\ UNCHANGED held

\* Faulty variant: a handler that returns without ending its transaction.
Return_LeaksLock(r) ==
  /\ pc' = [pc EXCEPT ![r] = "idle"]
  /\ job' = [job EXCEPT ![r] = NoJob]
  /\ UNCHANGED held

\* The handler returns; an open transaction and its lock end here.
Return(r) ==
  /\ pc' = [pc EXCEPT ![r] = "idle"]
  /\ job' = [job EXCEPT ![r] = NoJob]
  /\ held' = [held EXCEPT ![r] = {}]

\* CreateHabit: the habit and, through HabitCreated in the same transaction, its
\* visibility row.
CreateHabit(h) ==
  /\ habits[h] = "none"
  /\ habits' = [habits EXCEPT ![h] = "active"]
  /\ settings' = settings \cup {h}
  /\ UNCHANGED <<today, promises, minted, reqVars>>

\* The habit lookup every handler begins with: findActiveHabit, or
\* findHabitAnyArchiveState for an archive.
StartPromise(r, h, ends, public) ==
  /\ habits[h] = "active"
  /\ \E local \in LocalDates : ends > local
  /\ Begin(r, "look", Ask("create", h, ends, public, None))
  /\ UNCHANGED <<today, dbVars>>

StartGet(r, h) ==
  /\ habits[h] = "active"
  /\ Begin(r, "look", For("get", h))
  /\ UNCHANGED <<today, dbVars>>

StartToggle(r, h, public) ==
  /\ habits[h] = "active"
  /\ Begin(r, "look", Ask("toggle", h, 0, public, None))
  /\ UNCHANGED <<today, dbVars>>

\* CancelPromise looks for the promise and never for the habit.
StartCancel(r, h) ==
  /\ \E p \in Active(h) : Begin(r, "cancel", Ask("cancel", h, 0, FALSE, p))
  /\ UNCHANGED <<today, dbVars>>

StartArchive(r, h) ==
  /\ habits[h] \in {"active", "archived"}
  /\ Begin(r, "look", For("archive", h))
  /\ UNCHANGED <<today, dbVars>>

StartVisibility(r, h) ==
  /\ habits[h] = "active"
  /\ Begin(r, "setting", For("visibility", h))
  /\ UNCHANGED <<today, dbVars>>

-----------------------------------------------------------------------------
(* findActivePromise, and what each handler makes of the answer.           *)

\* Faulty variant: the promise is over on its last day.
Over_LastDay(p, local) == promises[p].ends <= local

Over(p, local) == promises[p].ends < local

LookToCreate(r) ==
  /\ pc[r] = "look" /\ job[r].op = "create"
  /\ \/ Active(job[r].habit) = {} /\ Go(r, "insert", None)
     \/ Active(job[r].habit) # {} /\ Return(r)
  /\ UNCHANGED <<today, dbVars>>

\* GetPromise: only a promise whose end date has passed is resolved.
LookToGet(r) ==
  /\ pc[r] = "look" /\ job[r].op = "get"
  /\ \E local \in LocalDates :
       \/ \E p \in Active(job[r].habit) : Over(p, local) /\ Go(r, "resolve", p)
       \/ ~(\E p \in Active(job[r].habit) : Over(p, local)) /\ Return(r)
  /\ UNCHANGED <<today, dbVars>>

LookToToggle(r) ==
  /\ pc[r] = "look" /\ job[r].op = "toggle"
  /\ \/ \E p \in Active(job[r].habit) : Go(r, "toggle", p)
     \/ Active(job[r].habit) = {} /\ Return(r)
  /\ UNCHANGED <<today, dbVars>>

\* Faulty variant: archiving leaves the promise alone.
LookToArchive_NoCancel(r) ==
  /\ pc[r] = "look" /\ job[r].op = "archive"
  /\ Go(r, "archive", None)
  /\ UNCHANGED <<today, dbVars>>

\* cancelActivePromiseForArchive, the first statement of the transaction.
LookToArchive(r) ==
  /\ pc[r] = "look" /\ job[r].op = "archive"
  /\ \/ \E p \in Active(job[r].habit) : Go(r, "retire", p)
     \/ Active(job[r].habit) = {} /\ Go(r, "archive", None)
  /\ UNCHANGED <<today, dbVars>>

-----------------------------------------------------------------------------
(* The writes.                                                             *)

\* Faulty variant: no partial unique index.
IndexTaken_NoIndex(h) == FALSE

\* The partial unique index on (user_id, habit_id) WHERE status = 'Active'.
IndexTaken(h) == Active(h) # {}

\* Faulty variant: no foreign key.
ForeignKey_None(h) == TRUE

\* promises.habit_id REFERENCES habits.
ForeignKey(h) == habits[h] \in {"active", "archived"}

InsertPromise(r) ==
  /\ pc[r] = "insert"
  /\ LET j == job[r]
     IN  /\ \A p \in Active(j.habit) : ~LockedByOther(r, p)
         /\ \/ /\ ForeignKey(j.habit) /\ ~IndexTaken(j.habit)
               /\ minted < MaxRows
               /\ minted' = minted + 1
               /\ promises' = [p \in DOMAIN promises \cup {minted + 1} |->
                    IF p = minted + 1
                    THEN [habit |-> j.habit, ends |-> j.ends, public |-> j.public,
                          status |-> "Active"]
                    ELSE promises[p]]
            \/ /\ ~ForeignKey(j.habit) \/ IndexTaken(j.habit)
               /\ UNCHANGED <<minted, promises>>
  /\ Return(r)
  /\ UNCHANGED <<today, habits, settings>>

\* Faulty variant: WHERE id = $1 alone.
Open_AnyStatus(p) == p \in DOMAIN promises

\* resolvePromise's guard: WHERE id = $1 AND status = 'Active'.
Open(p) == p \in DOMAIN promises /\ promises[p].status = "Active"

\* GetPromise's lazy resolution (Kept or EndedBelow, by the consistency it has
\* computed) and CancelPromise; a lost race changes nothing.
EndPromise(r, how) ==
  /\ \/ pc[r] = "resolve" /\ how \in {"Kept", "EndedBelow"}
     \/ pc[r] = "cancel" /\ how = "Cancelled"
  /\ LET p == job[r].id
     IN  /\ ~LockedByOther(r, p)
         /\ \/ Open(p) /\ promises' = [promises EXCEPT ![p].status = how]
            \/ ~Open(p) /\ UNCHANGED promises
  /\ Return(r)
  /\ UNCHANGED <<today, habits, settings, minted>>

\* setPromiseVisibility, by id alone.
SetPublic(r) ==
  /\ pc[r] = "toggle"
  /\ LET p == job[r].id
     IN  /\ ~LockedByOther(r, p)
         /\ \/ /\ p \in DOMAIN promises
               /\ promises' = [promises EXCEPT ![p].public = job[r].public]
            \/ p \notin DOMAIN promises /\ UNCHANGED promises
  /\ Return(r)
  /\ UNCHANGED <<today, habits, settings, minted>>

\* cancelPromiseRow inside the archive transaction.
RetirePromise(r) ==
  /\ pc[r] = "retire"
  /\ ~LockedByOther(r, job[r].id)
  /\ held' = [held EXCEPT ![r] = IF Open(job[r].id) THEN {job[r].id} ELSE {}]
  /\ pc' = [pc EXCEPT ![r] = "archive"]
  /\ UNCHANGED <<job, today, dbVars>>

\* Faulty variant: HabitArchived reaches nobody.
CommitArchive_NoEvent(r) ==
  /\ pc[r] = "archive"
  /\ habits' = [habits EXCEPT ![job[r].habit] = "archived"]
  /\ promises' = [p \in DOMAIN promises |->
       IF p \in held[r] THEN [promises[p] EXCEPT !.status = "Cancelled"] ELSE promises[p]]
  /\ Return(r)
  /\ UNCHANGED <<today, settings, minted>>

\* archiveHabit, HabitArchived (social deletes the visibility row) and the
\* commit.  A habit gone in the meantime is an error and a rollback.
CommitArchive(r) ==
  /\ pc[r] = "archive"
  /\ LET h == job[r].habit
     IN  \/ /\ habits[h] \in {"active", "archived"}
            /\ habits' = [habits EXCEPT ![h] = "archived"]
            /\ settings' = settings \ {h}
            /\ promises' = [p \in DOMAIN promises |->
                 IF p \in held[r] THEN [promises[p] EXCEPT !.status = "Cancelled"]
                 ELSE promises[p]]
         \/ /\ habits[h] = "gone"
            /\ UNCHANGED <<habits, settings, promises>>
  /\ Return(r)
  /\ UNCHANGED <<today, minted>>

\* SetHabitVisibility: whether a row exists decides between UPDATE and INSERT.
FindSetting(r) ==
  /\ pc[r] = "setting"
  /\ Go(r, IF job[r].habit \in settings THEN "updateSetting" ELSE "insertSetting", None)
  /\ UNCHANGED <<today, dbVars>>

\* An UPDATE of a missing row and an INSERT of an existing one are errors.
WriteSetting(r) ==
  /\ \/ pc[r] = "updateSetting" /\ UNCHANGED settings
     \/ pc[r] = "insertSetting" /\ settings' = settings \cup {job[r].habit}
  /\ Return(r)
  /\ UNCHANGED <<today, habits, promises, minted>>

-----------------------------------------------------------------------------

\* The user.deleted cascade: promises, habits and visibility rows, once no row
\* is locked.
DeleteAccount ==
  /\ \A r \in Requests : held[r] = {}
  /\ \E h \in Habits : habits[h] # "gone"
  /\ habits' = [h \in Habits |-> "gone"]
  /\ settings' = {}
  /\ promises' = [p \in {} |-> 0]
  /\ UNCHANGED <<today, minted, reqVars>>

\* A database error, a client that goes away, a crash: the transaction is lost.
Interrupt(r) ==
  /\ pc[r] # "idle"
  /\ Return(r)
  /\ UNCHANGED <<today, dbVars>>

Tick ==
  /\ today < MaxDay
  /\ today' = today + 1
  /\ UNCHANGED <<dbVars, reqVars>>

Init ==
  /\ today = 0
  /\ habits = [h \in Habits |-> "none"] /\ settings = {}
  /\ promises = [p \in {} |-> 0] /\ minted = 0
  /\ pc = [r \in Requests |-> "idle"] /\ job = [r \in Requests |-> NoJob]
  /\ held = [r \in Requests |-> {}]

Arrive(r) ==
  \E h \in Habits :
    \/ \E ends \in Days, public \in BOOLEAN : StartPromise(r, h, ends, public)
    \/ StartGet(r, h) \/ StartCancel(r, h) \/ StartArchive(r, h) \/ StartVisibility(r, h)
    \/ \E public \in BOOLEAN : StartToggle(r, h, public)

Step(r) ==
  \/ LookToCreate(r) \/ LookToGet(r) \/ LookToToggle(r) \/ LookToArchive(r)
  \/ InsertPromise(r) \/ SetPublic(r) \/ RetirePromise(r) \/ CommitArchive(r)
  \/ FindSetting(r) \/ WriteSetting(r)
  \/ \E how \in Ends : EndPromise(r, how)

Next ==
  \/ \E r \in Requests : Arrive(r) \/ Step(r) \/ Interrupt(r)
  \/ \E h \in Habits : CreateHabit(h)
  \/ DeleteAccount \/ Tick

Spec == Init /\ [][Next]_vars

-----------------------------------------------------------------------------
(* Properties.                                                             *)

TypeOK ==
  /\ today \in 0 .. MaxDay
  /\ habits \in [Habits -> {"none", "active", "archived", "gone"}]
  /\ settings \subseteq Habits
  /\ minted \in 0 .. MaxRows
  /\ DOMAIN promises \subseteq 1 .. minted /\ \A p \in DOMAIN promises : promises[p] \in Promise
  /\ pc \in [Requests -> PCs]
  /\ job \in [Requests -> Job]
  /\ held \in [Requests -> SUBSET Ids]
  /\ \A r \in Requests : /\ held[r] # {} => pc[r] = "archive"
                         /\ pc[r] # "idle" => job[r].habit \in Habits

StageOf(p) == IF p \in DOMAIN promises THEN promises[p].status
              ELSE IF p <= minted THEN "deleted" ELSE "unborn"
HabitOf(p) == IF p \in DOMAIN promises THEN promises[p].habit ELSE NoHabit

\* The life of every promise as its owner is promised it: promise_store.go:97-111,
\* a lost race means "already resolved" and never rewrites how a promise ended;
\* migration 0004, at most one Active promise per habit.
Life == INSTANCE PromiseLifecycle WITH
  stage <- [p \in Ids |-> StageOf(p)],
  habit <- [p \in Ids |-> HabitOf(p)]

LifeSpec == Life!Spec

\* A promise is judged only after its end date, everywhere on earth: the request
\* that judges it read it earlier, and its habit may have another promise by now.
JudgedWhenOver ==
  \A p \in DOMAIN promises :
    promises[p].status \in {"Kept", "EndedBelow"} => promises[p].ends < today + Skew

\* No promise outlives its habit's row, although an insert may have looked the
\* habit up before the account was deleted.
PromiseHasHabit ==
  \A p \in DOMAIN promises : habits[promises[p].habit] \in {"active", "archived"}

\* promise_archive_integration_test.go:3-6: archiving a habit cancels its active
\* promise.
ArchivedHoldsNoPromise == \A h \in Habits : habits[h] = "archived" => Active(h) = {}

\* migrations/0005_social.up.sql:18-20: habit.created and habit.archived keep the
\* visibility rows in sync with the habits: an active habit has its row and an
\* archived one has none.
SettingsInSync ==
  \A h \in Habits : /\ habits[h] = "active" => h \in settings
                    /\ habits[h] = "archived" => h \notin settings
=============================================================================
